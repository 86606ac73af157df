SPECIFICATION Spec
CONSTANTS
    Account <- MCAccount
    Role <- MCRole
    StaffAccount <- MCStaffAccount
    Other = "other"
    Null = "nobody"
INVARIANTS
    TypeOK
    OfferedIsAccepted
    OwnChangeShown
PROPERTY
    CatchesUp
