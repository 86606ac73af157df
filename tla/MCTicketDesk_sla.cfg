\* The crons against one client request at a time.
CONSTANTS
    admin = admin
    intern = intern
    teacher = teacher
    User = {admin, intern, teacher}
    Null = Null
    Sentinel = Sentinel
    Role <- MCRole
    Master <- MCMaster
    Ticket = {t1}
    Category = {c1}
    Request = {r1}
    Enabled <- DeskOperations
SPECIFICATION DeskSpec
INVARIANTS
    DeskTypeOK
    ListsMatchAccess
PROPERTIES
    ResponseBreachDetected
    FirstResolutionBreachDetected
CHECK_DEADLOCK FALSE
