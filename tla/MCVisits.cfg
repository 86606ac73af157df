\* Two visits to one teacher, two operations in flight, one task.
CONSTANTS
    User <- MCUser
    Role <- MCRole
    Null = Null
    Sentinel = Sentinel
    Master = {}
    Ticket = {t1}
    Visit = {v1, v2}
    Task = {k1}
    Op = {o1, o2}
    DayLength = 8
    Hours <- MCHours
    Window <- MCWindow
    Horizon = 2
    Author = {"teacher"}
    MaxSteps = 4
    MaxElsewhere = 2
    Quarter = 1
    SmallShift = 0
    Lead = 3
    PresenceLead = 2
SPECIFICATION Spec
SYMMETRY Symmetry
INVARIANTS
    TypeOK
    TimesMatchStatus
    VisitsInWorkingHours
    NoDoubleBooking
    RemindedOnce
PROPERTIES
    OtherSideConfirms
    BookedAroundTasks
CHECK_DEADLOCK FALSE
