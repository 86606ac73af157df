\* A breakglass account and a directory user in the two tabs of one browser.
CONSTANTS
    User <- MCUser
    Local <- MCLocal
    Master = {}
    Tab = {t1, t2}
    Call = {c1}
    None = None
    Role = {"USER", "ADMIN"}
    FirstRole <- MCFirstRole
    Entry = {"staff", "off"}
    AccessTTL = 1
    RefreshTTL = 2
    MaxTime = 2
    MaxTokens = 2
    MaxEvents = 2
SPECIFICATION Spec
SYMMETRY Symmetry
INVARIANTS
    TypeOK
    OneLiveToken
    CookieIsLive
    RightsFresh
    MaintenanceHolds
    ActsAsShown
    LeaverShutOut
    WaitersHaveRefresh
CHECK_DEADLOCK FALSE
