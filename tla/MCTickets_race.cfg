\* Two requests interleave on one ticket.
CONSTANTS
    admin = admin
    intern = intern
    teacher = teacher
    User = {admin, intern, teacher}
    Null = Null
    Sentinel = Sentinel
    Role <- MCRole
    Master <- MCMaster
    Ticket = {t1}
    Category = {c1}
    Request = {r1, r2}
    Enabled <- RacingOperations
SPECIFICATION Spec
INVARIANTS
    TypeOK
    WorkIsClassified
    MomentsFollowStatus
    OwnedUnlessRemoved
    Audited
VIEW TrailAsOne
CHECK_DEADLOCK FALSE
