\* Two requests interleave: what becomes of the map of transitions.
CONSTANTS
    admin = admin
    intern = intern
    teacher = teacher
    User = {admin, intern, teacher}
    Null = Null
    Sentinel = Sentinel
    Role <- MCRole
    Master <- MCMaster
    Ticket = {t1}
    Category = {c1}
    Request = {r1, r2}
    Enabled <- RacingOperations
SPECIFICATION Spec
PROPERTY StatusMovesAlongMap
CHECK_DEADLOCK FALSE
