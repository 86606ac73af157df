\* One ticket, three people, one browser, a day of four moments.
CONSTANTS
    User = {"requester", "intern", "admin"}
    Creator = "requester"
    FirstRole <- MCFirstRole
    Device = {d1}
    None = None
    Day = 4
    Every = 2
    Window <- MCWindow
    FirstWindow <- MCFirstWindow
    MaxJobs = 1
    MaxRuns = 2
    MaxEvents = 3
SPECIFICATION Spec
INVARIANTS
    TypeOK
    QuietHeld
    NoteStaysInside
    NothingToldTwice
PROPERTIES
    PendingDelivered
CHECK_DEADLOCK FALSE
