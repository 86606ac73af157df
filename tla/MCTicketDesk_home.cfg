\* The home screen of a staff member.
CONSTANTS
    admin = admin
    intern = intern
    teacher = teacher
    User = {admin, intern, teacher}
    Null = Null
    Sentinel = Sentinel
    Role <- MCRole
    Master <- MCMaster
    Ticket = {t1}
    Category = {c1}
    Request = {r1}
    Enabled <- DeskOperations
SPECIFICATION DeskSpec
INVARIANT HomeShowsOnlyMine
CHECK_DEADLOCK FALSE
