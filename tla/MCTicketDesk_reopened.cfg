\* A ticket resolved once, reopened and late again.
CONSTANTS
    admin = admin
    intern = intern
    teacher = teacher
    User = {admin, intern, teacher}
    Null = Null
    Sentinel = Sentinel
    Role <- MCRole
    Master <- MCMaster
    Ticket = {t1}
    Category = {c1}
    Request = {r1}
    Enabled <- DeskOperations
SPECIFICATION DeskSpec
PROPERTY ResolutionBreachDetected
CHECK_DEADLOCK FALSE
