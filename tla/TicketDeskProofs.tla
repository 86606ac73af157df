--------------------------- MODULE TicketDeskProofs ---------------------------
(***************************************************************************)
(* Proofs about TicketDesk: the crons and the clock take nothing from what *)
(* the ticket service guarantees by itself, and the lists agree with the   *)
(* policy, for every set of users, tickets, categories and requests.       *)
(***************************************************************************)
EXTENDS TicketDesk, TicketsProofs

\* What a cron or the clock may change of a row: its marks and its ages.
Touched(old, row) ==
    /\ \A field \in {"status", "createdBy", "assignedTo", "collaborators", "categoryId",
                     "priority", "firstRespondedAt", "resolvedAt", "rating"} :
          row[field] = old[field]
    /\ old.responseDueAt = "none" <=> row.responseDueAt = "none"
    /\ old.resolutionDueAt = "none" <=> row.resolutionDueAt = "none"
    /\ old.closedAt = "none" <=> row.closedAt = "none"

Plan == [stage : {"idle", "markResponse", "resolution", "markResolution"},
         found : SUBSET Ticket]

DeskInv ==
    /\ AuditInv
    /\ sweep \in Plan
    /\ settledFor \in [Ticket -> {"recent", "old"}]

\* A step that touches rows so, and leaves the other tables and the requests
\* alone, keeps every invariant of the service.
LEMMA TouchedKept ==
    ASSUME AuditInv, ticket' \in [Ticket -> TicketRow],
           \A t \in Ticket : Touched(ticket[t], ticket'[t]),
           UNCHANGED <<history, unrecorded, account, category, dropping, req>>
    PROVE  AuditInv'
<1>1. ASSUME NEW t \in Ticket
      PROVE  /\ ticket'[t].status = ticket[t].status
             /\ ticket'[t].assignedTo = ticket[t].assignedTo
             /\ ticket'[t].categoryId = ticket[t].categoryId
             /\ ticket'[t].priority = ticket[t].priority
             /\ ticket'[t].firstRespondedAt = ticket[t].firstRespondedAt
             /\ ticket'[t].resolvedAt = ticket[t].resolvedAt
             /\ ticket'[t].rating = ticket[t].rating
             /\ ticket[t].responseDueAt = "none" <=> ticket'[t].responseDueAt = "none"
             /\ ticket[t].resolutionDueAt = "none" <=> ticket'[t].resolutionDueAt = "none"
             /\ ticket[t].closedAt = "none" <=> ticket'[t].closedAt = "none"
    BY DEF Touched
<1>2. TypeInv'
    BY DEF AuditInv, SafetyInv, TypeInv, TypeOK, Named
<1>3. \A t \in Ticket : Forward(t) /\ RowSound(t)'
    BY <1>1 DEF AuditInv, SafetyInv, Forward, Grows, Keeps, RowSound, Justified, Coherent,
        Exists, Categorised, Owned, SomebodyRemoved
<1>4. SafetyInv'
    BY <1>2, <1>3, TableSafe DEF AuditInv
<1>5. \A t \in Ticket : Shown(ticket'[t]) = Shown(ticket[t])
    BY <1>1 DEF Shown
<1>. QED
    BY <1>1, <1>4, <1>5, UntoldAudited

\* The rows of the crons and of the clock keep their types and are touched so.
LEMMA RowTouched ==
    ASSUME NEW row \in TicketRow
    PROVE  /\ \A new \in {row,
                          [row EXCEPT !.isResponseBreached = TRUE, !.updatedAt = "recent"],
                          [row EXCEPT !.isResolutionBreached = TRUE, !.updatedAt = "recent"],
                          [row EXCEPT !.archivedAt = TRUE, !.updatedAt = "recent"],
                          [row EXCEPT !.closedAt = Aged(@), !.updatedAt = Aged(@)]} :
                 new \in TicketRow /\ Touched(row, new)
           /\ row.responseDueAt = "ahead" =>
                 /\ [row EXCEPT !.responseDueAt = "past"] \in TicketRow
                 /\ Touched(row, [row EXCEPT !.responseDueAt = "past"])
           /\ row.resolutionDueAt = "ahead" =>
                 /\ [row EXCEPT !.resolutionDueAt = "past"] \in TicketRow
                 /\ Touched(row, [row EXCEPT !.resolutionDueAt = "past"])
<1>1. Touched(row, row)
    BY DEF Touched
<1>2. /\ [row EXCEPT !.isResponseBreached = TRUE, !.updatedAt = "recent"] \in TicketRow
      /\ Touched(row, [row EXCEPT !.isResponseBreached = TRUE, !.updatedAt = "recent"])
    BY DEF Touched, TicketRow, Moment
<1>3. /\ [row EXCEPT !.isResolutionBreached = TRUE, !.updatedAt = "recent"] \in TicketRow
      /\ Touched(row, [row EXCEPT !.isResolutionBreached = TRUE, !.updatedAt = "recent"])
    BY DEF Touched, TicketRow, Moment
<1>4. /\ [row EXCEPT !.archivedAt = TRUE, !.updatedAt = "recent"] \in TicketRow
      /\ Touched(row, [row EXCEPT !.archivedAt = TRUE, !.updatedAt = "recent"])
    BY DEF Touched, TicketRow, Moment
<1>5. /\ [row EXCEPT !.closedAt = Aged(@), !.updatedAt = Aged(@)] \in TicketRow
      /\ Touched(row, [row EXCEPT !.closedAt = Aged(@), !.updatedAt = Aged(@)])
    <2>1. \A m \in Moment : Aged(m) \in Moment /\ (m = "none" <=> Aged(m) = "none")
        BY DEF Aged, Moment
    <2>2. row.closedAt \in Moment /\ row.updatedAt \in Moment
        BY DEF TicketRow
    <2>. QED
        BY <2>1, <2>2 DEF Touched, TicketRow
<1>6. ASSUME row.responseDueAt = "ahead"
      PROVE  /\ [row EXCEPT !.responseDueAt = "past"] \in TicketRow
             /\ Touched(row, [row EXCEPT !.responseDueAt = "past"])
    BY <1>6 DEF Touched, TicketRow, Deadline
<1>7. ASSUME row.resolutionDueAt = "ahead"
      PROVE  /\ [row EXCEPT !.resolutionDueAt = "past"] \in TicketRow
             /\ Touched(row, [row EXCEPT !.resolutionDueAt = "past"])
    BY <1>7 DEF Touched, TicketRow, Deadline
<1>. QED
    BY <1>1, <1>2, <1>3, <1>4, <1>5, <1>6, <1>7

LEMMA DeskStart ==
    ASSUME DeskInit
    PROVE  DeskInv
BY AuditInit DEF DeskInit, DeskInv, Plan

\* What is not a step of the service touches rows, and nothing else it uses.
CronStep ==
    SweepStep \/ ArchiveOld \/ (\E t \in Ticket : DeadlinePasses(t)) \/ RetentionPasses

LEMMA CronsTouch ==
    ASSUME ticket \in [Ticket -> TicketRow], CronStep
    PROVE  /\ ticket' \in [Ticket -> TicketRow]
           /\ \A t \in Ticket : Touched(ticket[t], ticket'[t])
           /\ UNCHANGED <<history, unrecorded, account, category, dropping, req>>
<1>0. UNCHANGED <<history, unrecorded, account, category, dropping, req>>
    BY DEF CronStep, SweepStep, ArchiveOld, DeadlinePasses, RetentionPasses
\* Most of them say row by row what becomes of the table.
<1>1. ASSUME NEW new, ticket' = [t \in Ticket |-> new[t]],
             \A t \in Ticket : new[t] \in TicketRow /\ Touched(ticket[t], new[t])
      PROVE  /\ ticket' \in [Ticket -> TicketRow]
             /\ \A t \in Ticket : Touched(ticket[t], ticket'[t])
    BY <1>1
<1>2. CASE UNCHANGED ticket
    BY <1>0, <1>2 DEF Touched
<1>3. CASE MarkResponses
    <2>. DEFINE new == [t \in Ticket |->
                IF t \in sweep.found /\ Exists(t)
                THEN [ticket[t] EXCEPT !.isResponseBreached = TRUE, !.updatedAt = "recent"]
                ELSE ticket[t]]
    <2>1. ticket' = [t \in Ticket |-> new[t]]
        BY <1>3 DEF MarkResponses, MarkFound
    <2>2. \A t \in Ticket : new[t] \in TicketRow /\ Touched(ticket[t], new[t])
        BY RowTouched
    <2>. HIDE DEF new
    <2>. QED
        BY <1>0, <1>1, <2>1, <2>2
<1>4. CASE MarkResolutions
    <2>. DEFINE new == [t \in Ticket |->
                IF t \in sweep.found /\ Exists(t)
                THEN [ticket[t] EXCEPT !.isResolutionBreached = TRUE, !.updatedAt = "recent"]
                ELSE ticket[t]]
    <2>1. ticket' = [t \in Ticket |-> new[t]]
        BY <1>4 DEF MarkResolutions, MarkFound
    <2>2. \A t \in Ticket : new[t] \in TicketRow /\ Touched(ticket[t], new[t])
        BY RowTouched
    <2>. HIDE DEF new
    <2>. QED
        BY <1>0, <1>1, <2>1, <2>2
<1>5. CASE ArchiveOld
    <2>. DEFINE new == [t \in Ticket |->
                IF DueForArchive(ticket[t])
                THEN [ticket[t] EXCEPT !.archivedAt = TRUE, !.updatedAt = "recent"]
                ELSE ticket[t]]
    <2>1. ticket' = [t \in Ticket |-> new[t]] \/ UNCHANGED ticket
        BY <1>5 DEF ArchiveOld
    <2>2. \A t \in Ticket : new[t] \in TicketRow /\ Touched(ticket[t], new[t])
        BY RowTouched
    <2>. HIDE DEF new
    <2>. QED
        BY <1>0, <1>1, <1>2, <2>1, <2>2
<1>6. ASSUME NEW d \in Ticket, DeadlinePasses(d)
      PROVE  /\ ticket' \in [Ticket -> TicketRow]
             /\ \A t \in Ticket : Touched(ticket[t], ticket'[t])
    <2>1. ASSUME NEW t \in Ticket
          PROVE  ticket'[t] \in TicketRow /\ Touched(ticket[t], ticket'[t])
        <3>1. CASE t = d
            BY <1>6, <3>1, RowTouched DEF DeadlinePasses
        <3>2. CASE t # d
            BY <1>6, <3>2, RowTouched DEF DeadlinePasses
        <3>. QED
            BY <3>1, <3>2
    <2>. QED
        BY <1>6, <2>1 DEF DeadlinePasses
<1>7. CASE RetentionPasses
    <2>. DEFINE new == [t \in Ticket |->
                [ticket[t] EXCEPT !.closedAt = Aged(@), !.updatedAt = Aged(@)]]
    <2>1. ticket' = [t \in Ticket |-> new[t]]
        BY <1>7 DEF RetentionPasses
    <2>2. \A t \in Ticket : new[t] \in TicketRow /\ Touched(ticket[t], new[t])
        BY RowTouched
    <2>. HIDE DEF new
    <2>. QED
        BY <1>0, <1>1, <2>1, <2>2
<1>. QED
    BY <1>0, <1>2, <1>3, <1>4, <1>5, <1>6, <1>7
    DEF CronStep, SweepStep, SweepResponses, SweepResolutions

LEMMA DeskStep ==
    ASSUME DeskInv, [DeskNext]_vars
    PROVE  DeskInv'
<1>1. CASE ServiceStep
    BY <1>1, AuditStep DEF ServiceStep, DeskInv
<1>2. CASE CronStep
    <2>1. AuditInv'
        BY <1>2, CronsTouch, TouchedKept DEF DeskInv, AuditInv, SafetyInv, TypeInv, TypeOK
    <2>2. OverdueResponses \in SUBSET Ticket /\ OverdueResolutions \in SUBSET Ticket
        BY DEF OverdueResponses, OverdueResolutions
    <2>3. sweep' \in Plan
        <3>1. CASE SweepStep
            BY <3>1, <2>2
            DEF SweepStep, SweepResponses, MarkResponses, SweepResolutions, MarkResolutions, Plan
        <3>2. CASE UNCHANGED sweep
            BY <3>2 DEF DeskInv
        <3>. QED
            BY <1>2, <3>1, <3>2 DEF CronStep, ArchiveOld, DeadlinePasses, RetentionPasses
    <2>4. settledFor' \in [Ticket -> {"recent", "old"}]
        BY <1>2 DEF CronStep, SweepStep, ArchiveOld, DeadlinePasses, RetentionPasses, DeskInv
    <2>. QED
        BY <2>1, <2>3, <2>4 DEF DeskInv
<1>3. CASE UNCHANGED vars
    <2>1. UNCHANGED deskVars /\ UNCHANGED <<sweep, settledFor>>
        BY <1>3 DEF vars, deskVars
    <2>. QED
        BY <2>1, AuditStep DEF DeskInv
<1>. QED
    BY <1>1, <1>2, <1>3 DEF DeskNext, CronStep

\* Beside the service the sweep of the SLA cron keeps its types: it marks by id
\* only tickets it has found.
THEOREM DeskTypeCorrect == DeskSpec => []DeskTypeOK
<1>1. DeskInv => DeskTypeOK
    BY DEF DeskInv, AuditInv, SafetyInv, TypeInv, DeskTypeOK, Plan
<1>. QED
    BY <1>1, DeskStart, DeskStep, PTL DEF DeskSpec

\* The SLA cron, the archive cron and the clock, each with its stale reads and
\* its writes by id, break none of the guarantees of the service: also beside
\* them the only entries the trail misses are those of requests that ended
\* between their two statements.
THEOREM CronsKeepGuarantees ==
    DeskSpec => [](WorkIsClassified /\ MomentsFollowStatus /\ OwnedUnlessRemoved /\ Audited)
<1>1. DeskInv => WorkIsClassified /\ MomentsFollowStatus /\ OwnedUnlessRemoved
    BY DEF DeskInv, AuditInv, SafetyInv, RowSound, Justified, Coherent, WorkIsClassified,
        MomentsFollowStatus, OwnedUnlessRemoved, Categorised, Owned
<1>2. DeskInv => Audited
    BY DEF DeskInv, AuditInv, RowAudited, Audited, Evidence, Shown, Accounted
<1>. QED
    BY <1>1, <1>2, DeskStart, DeskStep, PTL DEF DeskSpec

\* The crons do not move the status either: beside them, too, the service
\* implements TicketLifecycle as long as no two requests that move the status
\* of one ticket overlap.
THEOREM CronsKeepLifecycle == DeskSpec /\ []NoOverlap => ImplementsLifecycle
<1>. DEFINE I == DeskInv /\ CurrentInv
<1>1. DeskInit => I /\ Lifecycle!LifecycleInit
    BY DeskStart, CurrentInit DEF DeskInit, Init, NoTicket, Lifecycle!LifecycleInit
<1>2. ASSUME NoOverlap, I, [DeskNext]_vars
      PROVE  I' /\ [Lifecycle!LifecycleNext]_(Lifecycle!lifecycleVars)
    <2>1. CASE [Next]_deskVars
        BY <1>2, <2>1, DeskStep, CurrentStep, StepRefines
    <2>2. CASE CronStep
        <3>1. ticket \in [Ticket -> TicketRow]
            BY <1>2 DEF CurrentInv, SafetyInv, TypeInv, TypeOK
        <3>2. UNCHANGED req /\ \A t \in Ticket : Same(t)
            BY <2>2, <3>1, CronsTouch DEF Touched, Same
        <3>3. DeskInv' /\ SafetyInv'
            BY <1>2, DeskStep DEF DeskInv, AuditInv
        <3>4. ASSUME NEW r \in Request, req'[r].phase = "read"
              PROVE  Current(req[r])'
            <4>1. req[r].id \in Ticket /\ Current(req[r])
                BY <1>2, <3>2, <3>4 DEF CurrentInv, SafetyInv, TypeInv, Named
            <4>. QED
                BY <3>2, <4>1 DEF Current, Same
        <3>5. CurrentInv'
            BY <1>2, <3>2, <3>3, <3>4 DEF CurrentInv, Same
        <3>. QED
            BY <3>2, <3>3, <3>5, LifecycleStutters
    <2>. QED
        BY <1>2, <2>1, <2>2 DEF DeskNext, ServiceStep, CronStep, vars, deskVars
<1>. QED
    BY <1>1, <1>2, PTL DEF DeskSpec, ImplementsLifecycle, Lifecycle!Spec

\* Whatever the tickets are like, the condition the lists put into the database
\* (buildVisibilityWhere) and the check on opening one ticket (canView) agree,
\* under every filter.
THEOREM ListsAgree == DeskSpec => []ListsMatchAccess
<1>1. ASSUME NEW u \in User, NEW t \in Ticket, Exists(t)
      PROVE  VisibilityWhere(u, ticket[t]) = CanView(u, ticket[t])
    <2>1. Role[u] \in {"ADMIN", "INTERN", "USER"}
        BY RoleAssumption
    <2>. QED
        BY <2>1 DEF VisibilityWhere, CanView, IsTicketWorker
<1>2. ListsMatchAccess
    BY <1>1 DEF ListsMatchAccess, FindAll
<1>. QED
    BY <1>2, PTL
=============================================================================
