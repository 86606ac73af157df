\* Two requests interleave on one ticket, except that no two which move its
\* status are between read and write at once; administrators act in between.
CONSTANTS
    admin = admin
    intern = intern
    teacher = teacher
    User = {admin, intern}
    Null = Null
    Sentinel = Sentinel
    Role <- MCRole
    Master <- MCMaster
    Ticket = {t1}
    Category = {c1}
    Request = {r1, r2}
    Enabled <- ApartOperations
SPECIFICATION Spec
CONSTRAINT NoOverlap
PROPERTY ImplementsLifecycle
SYMMETRY RequestsAlike
VIEW WithoutHistory
CHECK_DEADLOCK FALSE
