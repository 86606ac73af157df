\* A ticket closed long ago, reopened, and rejected just now.
CONSTANTS
    admin = admin
    intern = intern
    teacher = teacher
    User = {admin, intern, teacher}
    Null = Null
    Sentinel = Sentinel
    Role <- MCRole
    Master <- MCMaster
    Ticket = {t1}
    Category = {c1}
    Request = {r1}
    Enabled <- DeskOperations
SPECIFICATION DeskSpec
PROPERTY ArchivesOnlySettled
CHECK_DEADLOCK FALSE
