---------------------------- MODULE TicketsProofs ----------------------------
(***************************************************************************)
(* Proofs about Tickets, for every set of users, tickets, categories and   *)
(* requests, and every set of enabled operations.                          *)
(***************************************************************************)
EXTENDS Tickets, TLAPS

-----------------------------------------------------------------------------
(* Type correctness.  It is inductive together with: a request in flight   *)
(* names its user and ticket, and has the arguments of its operation.      *)

Named(q) ==
    /\ q.phase # "idle" => q.user \in User /\ q.id \in Ticket
    /\ q.phase = "read" =>
        /\ q.op \in {"ASSIGNED", "REASSIGNED"} =>
              q.who \in User /\ q.seen \in Status
        /\ q.op \in {"COLLABORATOR_ADDED", "COLLABORATOR_REMOVED"} =>
              q.who \in User
        /\ q.op = "CLASSIFIED" => q.cat \in Category
        /\ q.op \in {"STATUS_CHANGED", "REOPENED"} =>
              q.to \in Status /\ q.seen \in Status

TypeInv == TypeOK /\ \A r \in Request : Named(req[r])

LEMMA NoTicketType ==
    ASSUME NEW status \in {"ABSENT", "DELETED", "NEW"}
    PROVE  NoTicket(status) \in TicketRow
BY DEF NoTicket, TicketRow, Status, Deadline, Moment

LEMMA IdleType == Idle \in RequestState /\ Named(Idle)
BY DEF Idle, RequestState, HistoryAction, Named

LEMMA WrittenType ==
    ASSUME NEW q \in RequestState, Named(q), q.phase # "idle"
    PROVE  Written(q) \in RequestState /\ Named(Written(q))
BY DEF Idle, Written, RequestState, Named

\* A request that starts, moves on or ends leaves the types of the rest alone.
LEMMA RequestUpdateType ==
    ASSUME TypeInv, NEW r \in Request, NEW q \in RequestState, Named(q),
           req' = [req EXCEPT ![r] = q],
           ticket' \in [Ticket -> TicketRow],
           history' \in [Ticket -> SUBSET HistoryAction],
           unrecorded' \in [Ticket -> SUBSET HistoryAction],
           UNCHANGED <<account, category, dropping>>
    PROVE  TypeInv'
BY DEF TypeInv, TypeOK

\* prisma.ticket.update keeps the types if the row it writes has them.
LEMMA WriteType ==
    ASSUME TypeInv, NEW r \in Request, NEW referents \in BOOLEAN, NEW row,
           req[r].phase = "read", row \in TicketRow, Write(r, referents, row)
    PROVE  TypeInv'
<1>1. [row EXCEPT !.updatedAt = "recent"] \in TicketRow
    BY DEF TicketRow, Moment
<1>2. ticket' \in [Ticket -> TicketRow] /\ history' = history
    BY <1>1 DEF TypeInv, TypeOK, Write
<1>3. PICK q \in RequestState : Named(q) /\ req' = [req EXCEPT ![r] = q]
    BY IdleType, WrittenType DEF TypeInv, TypeOK, Write
<1>. QED
    BY <1>2, <1>3, RequestUpdateType DEF TypeInv, TypeOK, Write

\* The request a read step starts.
LEMMA StartType ==
    ASSUME TypeInv, NEW r \in Request, NEW u \in User, NEW t \in Ticket,
           NEW op \in HistoryAction, NEW q \in RequestState, Named(q),
           Read(r, u, t, op), req' = [req EXCEPT ![r] = q]
    PROVE  TypeInv'
BY RequestUpdateType DEF TypeInv, TypeOK, Read

LEMMA RequestStartType ==
    ASSUME TypeInv, NEW r \in Request, NEW u \in User, NEW t \in Ticket,
           RequestStart(r, u, t)
    PROVE  TypeInv'
<1>1. CASE Create(r, u, t)
    <2>1. Written(Pending(u, t, "CREATED")) \in RequestState
          /\ Named(Written(Pending(u, t, "CREATED")))
        BY DEF Written, Pending, Idle, RequestState, Named, HistoryAction
    <2>2. [NoTicket("NEW") EXCEPT !.createdBy = u, !.updatedAt = "recent"]
            \in TicketRow
        BY NoTicketType DEF TicketRow, Moment
    <2>. QED
        BY <1>1, <2>1, <2>2, RequestUpdateType DEF Create, TypeInv, TypeOK
<1>2. ASSUME NEW who \in User, AssignRead(r, u, t, who) PROVE TypeInv'
    <2>. DEFINE op == IF ticket[t].assignedTo # Null THEN "REASSIGNED" ELSE "ASSIGNED"
                q == [Pending(u, t, op) EXCEPT !.who = who, !.seen = ticket[t].status]
    <2>1. ticket[t].status \in Status
        BY <1>2 DEF AssignRead, Read, Exists
    <2>2. q \in RequestState /\ Named(q)
        BY <2>1 DEF Pending, Idle, RequestState, Named, HistoryAction
    <2>. QED
        BY <1>2, <2>2, StartType DEF AssignRead, HistoryAction
<1>3. ASSUME NEW c \in Category, ClassifyRead(r, u, t, c) PROVE TypeInv'
    <2>1. [Pending(u, t, "CLASSIFIED") EXCEPT !.cat = c] \in RequestState
          /\ Named([Pending(u, t, "CLASSIFIED") EXCEPT !.cat = c])
        BY DEF Pending, Idle, RequestState, Named, HistoryAction
    <2>. QED
        BY <1>3, <2>1, StartType DEF ClassifyRead, HistoryAction
<1>4. ASSUME NEW to \in Status, ChangeStatusRead(r, u, t, to) PROVE TypeInv'
    <2>. DEFINE op == IF to = "REOPENED" THEN "REOPENED" ELSE "STATUS_CHANGED"
                q == [Pending(u, t, op) EXCEPT !.to = to, !.seen = ticket[t].status]
    <2>1. ticket[t].status \in Status
        BY <1>4 DEF ChangeStatusRead, Read, Exists
    <2>2. q \in RequestState /\ Named(q)
        BY <2>1 DEF Pending, Idle, RequestState, Named, HistoryAction
    <2>. QED
        BY <1>4, <2>2, StartType DEF ChangeStatusRead, HistoryAction
<1>5. ASSUME NEW op \in {"RATED", "TAGGED"},
             Read(r, u, t, op), req' = [req EXCEPT ![r] = Pending(u, t, op)]
      PROVE  TypeInv'
    <2>1. Pending(u, t, op) \in RequestState /\ Named(Pending(u, t, op))
        BY DEF Pending, Idle, RequestState, Named, HistoryAction
    <2>. QED
        BY <1>5, <2>1, StartType DEF HistoryAction
<1>6. ASSUME NEW op \in {"COLLABORATOR_ADDED", "COLLABORATOR_REMOVED"},
             NEW who \in User, Read(r, u, t, op),
             req' = [req EXCEPT ![r] = [Pending(u, t, op) EXCEPT !.who = who]]
      PROVE  TypeInv'
    <2>1. [Pending(u, t, op) EXCEPT !.who = who] \in RequestState
          /\ Named([Pending(u, t, op) EXCEPT !.who = who])
        BY DEF Pending, Idle, RequestState, Named, HistoryAction
    <2>. QED
        BY <1>6, <2>1, StartType DEF HistoryAction
<1>. QED
    BY <1>1, <1>2, <1>3, <1>4, <1>5, <1>6
    DEF RequestStart, RateRead, TagRead, AddCollaboratorRead, RemoveCollaboratorRead

\* The rows the operations write back.
LEMMA AssignedRowType ==
    ASSUME TypeInv, NEW r \in Request, AssignWrite(r)
    PROVE  AssignedRow(req[r]) \in TicketRow
<1>. DEFINE q == req[r]
<1>1. /\ q.id \in Ticket /\ q.who \in User /\ q.seen \in Status
      /\ ticket[q.id] \in TicketRow
    BY DEF AssignWrite, TypeInv, TypeOK, Named
<1>2. PICK status \in Status : status = IF q.seen = "NEW" THEN "ASSIGNED" ELSE q.seen
    BY <1>1 DEF Status
<1>3. AssignedRow(q) = [ticket[q.id] EXCEPT !.assignedTo = q.who, !.status = status]
    BY <1>2 DEF AssignedRow
<1>. QED
    BY <1>1, <1>3 DEF TicketRow

LEMMA ClassifiedRowType ==
    ASSUME TypeInv, NEW r \in Request, ClassifyWrite(r)
    PROVE  ClassifiedRow(req[r]) \in TicketRow
<1>1. /\ req[r].id \in Ticket /\ req[r].cat \in Category
      /\ ticket[req[r].id] \in TicketRow
    BY DEF ClassifyWrite, TypeInv, TypeOK, Named
<1>. QED
    BY <1>1 DEF ClassifiedRow, TicketRow, Deadline

LEMMA StatusRowType ==
    ASSUME TypeInv, NEW r \in Request, ChangeStatusWrite(r)
    PROVE  StatusRow(req[r]) \in TicketRow
<1>. DEFINE q == req[r]
<1>1. q.id \in Ticket /\ q.to \in Status /\ ticket[q.id] \in TicketRow
    BY DEF ChangeStatusWrite, TypeInv, TypeOK, Named
<1>2. PICK responded \in BOOLEAN :
         responded = IF q.to = "IN_PROGRESS" THEN TRUE ELSE ticket[q.id].firstRespondedAt
    BY <1>1 DEF TicketRow
<1>3. PICK resolved \in BOOLEAN :
         resolved = IF q.to = "RESOLVED" THEN TRUE ELSE ticket[q.id].resolvedAt
    BY <1>1 DEF TicketRow
<1>4. PICK closed \in Moment :
         closed = IF q.to = "CLOSED" THEN "recent" ELSE ticket[q.id].closedAt
    BY <1>1 DEF TicketRow, Moment
<1>5. StatusRow(q) = [ticket[q.id] EXCEPT
            !.status = q.to, !.firstRespondedAt = responded, !.resolvedAt = resolved,
            !.closedAt = closed]
    BY <1>2, <1>3, <1>4 DEF StatusRow
<1>. QED
    BY <1>1, <1>5 DEF TicketRow

LEMMA RequestStepType ==
    ASSUME TypeInv, NEW r \in Request, RequestStep(r)
    PROVE  TypeInv'
<1>. DEFINE q == req[r]
<1>a. q \in RequestState /\ Named(q)
    BY DEF TypeInv, TypeOK
<1>b. q.phase # "idle" => ticket[q.id] \in TicketRow
    BY <1>a DEF TypeInv, TypeOK, Named
<1>1. CASE AssignWrite(r)
    <2>1. AssignedRow(q) \in TicketRow
        BY <1>1, <1>a, AssignedRowType
    <2>. QED
        BY <1>1, <2>1, WriteType DEF AssignWrite
<1>2. CASE ClassifyWrite(r)
    <2>1. ClassifiedRow(q) \in TicketRow
        BY <1>2, <1>a, ClassifiedRowType
    <2>. QED
        BY <1>2, <2>1, WriteType DEF ClassifyWrite
<1>3. CASE ChangeStatusWrite(r)
    <2>1. StatusRow(q) \in TicketRow
        BY <1>3, <1>a, StatusRowType
    <2>. QED
        BY <1>3, <2>1, WriteType DEF ChangeStatusWrite
<1>4. CASE RateWrite(r)
    <2>1. [ticket[q.id] EXCEPT !.rating = TRUE] \in TicketRow
        BY <1>4, <1>b DEF RateWrite, TicketRow
    <2>. QED
        BY <1>4, <2>1, WriteType DEF RateWrite
<1>5. CASE TagWrite(r)
    BY <1>5, <1>b, WriteType DEF TagWrite
<1>6. CASE CollaboratorWrite(r)
    <2>0. /\ ticket \in [Ticket -> TicketRow] /\ q.id \in Ticket /\ q.who \in User
          /\ \/ UNCHANGED ticket
             \/ ticket' = [ticket EXCEPT ![q.id].collaborators = @ \cup {q.who}]
             \/ ticket' = [ticket EXCEPT ![q.id].collaborators = @ \ {q.who}]
        BY <1>6, <1>a DEF CollaboratorWrite, TypeInv, TypeOK, Named
    <2>1. ticket' \in [Ticket -> TicketRow]
        BY <2>0 DEF TicketRow
    <2>2. PICK p \in RequestState : Named(p) /\ req' = [req EXCEPT ![r] = p]
        BY <1>6, <1>a, IdleType, WrittenType DEF CollaboratorWrite
    <2>. QED
        BY <1>6, <2>1, <2>2, RequestUpdateType DEF CollaboratorWrite, TypeInv, TypeOK
<1>7. CASE RecordHistory(r) \/ Fail(r)
    <2>1. history' \in [Ticket -> SUBSET HistoryAction]
        BY <1>7, <1>a DEF RecordHistory, Fail, TypeInv, TypeOK, RequestState
    <2>2. unrecorded' \in [Ticket -> SUBSET HistoryAction]
        BY <1>7, <1>a DEF RecordHistory, Fail, LeaveUnrecorded, TypeInv, TypeOK,
            RequestState
    <2>. QED
        BY <1>7, <2>1, <2>2, IdleType, RequestUpdateType
        DEF RecordHistory, Fail, TypeInv, TypeOK
<1>. QED
    BY <1>1, <1>2, <1>3, <1>4, <1>5, <1>6, <1>7 DEF RequestStep

LEMMA AdminStepType ==
    ASSUME TypeInv, AdminStep
    PROVE  TypeInv'
<1>1. ASSUME NEW u \in User, NEW t \in Ticket, Remove(u, t) PROVE TypeInv'
    BY <1>1, NoTicketType DEF Remove, TypeInv, TypeOK
<1>2. ASSUME NEW u \in User, NEW t \in Ticket, NEW mark \in BOOLEAN,
             SetArchived(u, t, mark)
      PROVE  TypeInv'
    <2>. DEFINE row == [ticket[t] EXCEPT !.archivedAt = mark, !.updatedAt = "recent"]
    <2>a. ticket[t] \in TicketRow
        BY DEF TypeInv, TypeOK
    <2>1. row \in TicketRow
        <3>1. CASE mark = TRUE
            BY <2>a, <3>1 DEF TicketRow, Moment
        <3>2. CASE mark = FALSE
            BY <2>a, <3>2 DEF TicketRow, Moment
        <3>. QED
            BY <3>1, <3>2
    <2>. QED
        BY <1>2, <2>1 DEF SetArchived, TypeInv, TypeOK
<1>3. ASSUME NEW u \in User, Deactivate(u) PROVE TypeInv'
    BY <1>3 DEF Deactivate, TypeInv, TypeOK
<1>4. ASSUME NEW u \in User, RemoveUser(u) PROVE TypeInv'
    <2>1. ticket' \in [Ticket -> TicketRow]
        <3>1. ASSUME NEW t \in Ticket
              PROVE  HandedOver(ticket[t], u) \in TicketRow
            <4>. DEFINE by == IF ticket[t].createdBy = u THEN Sentinel
                              ELSE ticket[t].createdBy
                        at == IF ticket[t].createdBy = u THEN "recent"
                              ELSE ticket[t].updatedAt
                        to == IF ticket[t].assignedTo = u THEN Null
                              ELSE ticket[t].assignedTo
                        co == ticket[t].collaborators \ {u}
            <4>1. ticket[t] \in TicketRow
                BY DEF TypeInv, TypeOK
            <4>2. /\ by \in User \cup {Null, Sentinel}
                  /\ at \in Moment
                  /\ to \in User \cup {Null}
                  /\ co \in SUBSET User
                BY <4>1 DEF TicketRow, Moment
            <4>. HIDE DEF by, at, to, co
            <4>3. [ticket[t] EXCEPT !.createdBy = by, !.updatedAt = at,
                        !.assignedTo = to, !.collaborators = co] \in TicketRow
                BY <4>1, <4>2 DEF TicketRow
            <4>. QED
                BY <4>3 DEF by, at, to, co, HandedOver
        <3>. QED
            BY <1>4, <3>1 DEF RemoveUser
    <2>. QED
        BY <1>4, <2>1 DEF RemoveUser, TypeInv, TypeOK
<1>5. ASSUME NEW c \in Category, UpdateCategory(c) \/ RemoveCategoryCount(c)
      PROVE  TypeInv'
    BY <1>5 DEF UpdateCategory, RemoveCategoryCount, TypeInv, TypeOK
<1>6. CASE RemoveCategoryDelete
    <2>1. ASSUME NEW t \in Ticket
          PROVE  [ticket[t] EXCEPT
                    !.categoryId = IF @ = dropping THEN Null ELSE @] \in TicketRow
        <3>1. ticket[t] \in TicketRow
            BY DEF TypeInv, TypeOK
        <3>. QED
            BY <3>1 DEF TicketRow
    <2>. QED
        BY <1>6, <2>1 DEF RemoveCategoryDelete, TypeInv, TypeOK
<1>7. CASE RemoveCategoryFail
    BY <1>7 DEF RemoveCategoryFail, TypeInv, TypeOK
<1>. QED
    BY <1>1, <1>2, <1>3, <1>4, <1>5, <1>6, <1>7 DEF AdminStep

LEMMA TypeStep ==
    ASSUME TypeInv, [Next]_deskVars
    PROVE  TypeInv'
<1>1. CASE Next
    BY <1>1, RequestStartType, RequestStepType, AdminStepType DEF Next
<1>2. CASE UNCHANGED deskVars
    BY <1>2 DEF deskVars, TypeInv, TypeOK
<1>. QED
    BY <1>1, <1>2

\* Every reachable state is well typed.
THEOREM TypeCorrect == Spec => []TypeOK
<1>1. Init => TypeInv
    BY NoTicketType, IdleType DEF Init, TypeInv, TypeOK
<1>2. TypeInv /\ [Next]_deskVars => TypeInv'
    BY TypeStep
<1>3. TypeInv => TypeOK
    BY DEF TypeInv
<1>. QED
    BY <1>1, <1>2, <1>3, PTL DEF Spec

-----------------------------------------------------------------------------
(* Safety.  None of the three invariants is inductive: a request may write *)
(* back a status it read long ago.  What saves them is that the facts a    *)
(* status stands on are never taken back while the ticket exists (Grows),  *)
(* so a status that was justified when it was read is still justified when *)
(* it is written.  Justified(row, s) says that the row justifies the       *)
(* status s, and a request in flight carries that about what it has read.  *)

Justified(row, s) ==
    /\ s \in WorkedOn =>
          /\ row.priority
          /\ row.responseDueAt # "none"
          /\ row.resolutionDueAt # "none"
          /\ row.firstRespondedAt
          /\ row.categoryId # Null \/ \E c \in Category : category[c] = "removed"
    /\ s \in {"RESOLVED", "CLOSED", "REOPENED"} => row.resolvedAt
    /\ s = "CLOSED" => row.closedAt # "none"
    /\ s \in WorkedOn \cup {"ASSIGNED"} => row.assignedTo # Null \/ SomebodyRemoved

Coherent(row) ==
    /\ row.priority => row.responseDueAt # "none" /\ row.resolutionDueAt # "none"
    /\ row.rating \/ row.closedAt # "none" => row.resolvedAt

RowSound(t) == Justified(ticket[t], ticket[t].status) /\ Coherent(ticket[t])

\* What a request that has read its ticket, and not yet written, relies on.
Pledge(q) ==
    /\ ticket[q.id].status # "ABSENT"
    /\ Exists(q.id) =>
        /\ q.op \in {"ASSIGNED", "REASSIGNED", "STATUS_CHANGED", "REOPENED"} =>
              Justified(ticket[q.id], q.seen)
        /\ q.op \in {"STATUS_CHANGED", "REOPENED"} =>
              /\ IsValidStatusTransition(q.seen, q.to)
              /\ q.to = "IN_PROGRESS" =>
                    ticket[q.id].priority /\ Categorised(q.id)
        /\ q.op = "RATED" => ticket[q.id].resolvedAt

SafetyInv ==
    /\ TypeInv
    /\ \A t \in Ticket : RowSound(t)
    /\ \A r \in Request : req[r].phase = "read" => Pledge(req[r])

\* The facts of a row that no later row of the ticket takes back.
Keeps(old, row) ==
    /\ old.priority => row.priority
    /\ old.responseDueAt # "none" => row.responseDueAt # "none"
    /\ old.resolutionDueAt # "none" => row.resolutionDueAt # "none"
    /\ old.firstRespondedAt => row.firstRespondedAt
    /\ old.resolvedAt => row.resolvedAt
    /\ old.closedAt # "none" => row.closedAt # "none"

\* ... and those that a removal of a category or of an account may take back,
\* leaving the removal itself for ever after.
Grows(t) ==
    /\ Keeps(ticket[t], ticket'[t])
    /\ Categorised(t) => Categorised(t)'
    /\ Owned(t) => Owned(t)'

LEMMA JustifiedGrows ==
    ASSUME NEW t \in Ticket, NEW s, Grows(t), Justified(ticket[t], s)
    PROVE  Justified(ticket[t], s)'
BY DEF Grows, Keeps, Justified, Categorised, Owned

\* How a step may treat a ticket: what was created or deleted stays so, and
\* nothing is taken back from a ticket that lives through the step.
Forward(t) ==
    /\ ticket[t].status # "ABSENT" => ticket'[t].status # "ABSENT"
    /\ Exists(t)' => Exists(t) \/ ticket[t].status = "ABSENT"
    /\ Exists(t) /\ Exists(t)' => Grows(t)

LEMMA PledgeForward ==
    ASSUME NEW q, q.id \in Ticket, Pledge(q), Forward(q.id)
    PROVE  Pledge(q)'
<1>1. ticket'[q.id].status # "ABSENT"
    BY DEF Pledge, Forward
<1>2. ASSUME Exists(q.id)'
      PROVE  Exists(q.id) /\ Grows(q.id)
    BY <1>2 DEF Pledge, Forward
<1>. QED
    BY <1>1, <1>2, JustifiedGrows DEF Pledge, Grows, Keeps

\* A step in which every ticket moves forward and is sound again, and at most
\* one request changes, to one whose pledge holds, keeps the invariant.
LEMMA StepSafe ==
    ASSUME SafetyInv, TypeInv', NEW r \in Request, NEW p,
           req' = [req EXCEPT ![r] = p],
           \A t \in Ticket : Forward(t) /\ RowSound(t)',
           p.phase = "read" => Pledge(p)'
    PROVE  SafetyInv'
<1>1. ASSUME NEW s \in Request, req'[s].phase = "read"
      PROVE  Pledge(req[s])'
    <2>1. PICK q : q = req'[s]
        OBVIOUS
    <2>2. Pledge(q)'
        <3>1. CASE s = r
            BY <1>1, <2>1, <3>1 DEF SafetyInv, TypeInv, TypeOK
        <3>2. CASE s # r
            <4>1. q = req[s]
                BY <2>1, <3>2 DEF SafetyInv, TypeInv, TypeOK
            <4>2. q.id \in Ticket /\ Pledge(q)
                BY <1>1, <2>1, <4>1 DEF SafetyInv, TypeInv, Named
            <4>. QED
                BY <4>2, PledgeForward
        <3>. QED
            BY <3>1, <3>2
    <2>. QED
        BY <2>1, <2>2 DEF Pledge, Exists, Justified, Categorised, SomebodyRemoved
<1>. QED
    BY <1>1 DEF SafetyInv

LEMMA StutterForward ==
    ASSUME SafetyInv, UNCHANGED <<ticket, account, category>>
    PROVE  \A t \in Ticket : Forward(t) /\ RowSound(t)'
BY DEF SafetyInv, Forward, Grows, Keeps, RowSound, Justified, Coherent, Exists,
       Categorised, Owned, SomebodyRemoved

\* An update of an existing row that takes nothing back and whose new status is
\* justified.
LEMMA UpdateForward ==
    ASSUME SafetyInv, NEW t \in Ticket, Exists(t), NEW row \in TicketRow,
           ticket' = [ticket EXCEPT ![t] = row],
           UNCHANGED <<account, category>>,
           row.status \in Status,
           Keeps(ticket[t], row), Coherent(row), Justified(row, row.status),
           ticket[t].categoryId # Null => row.categoryId # Null,
           ticket[t].assignedTo # Null => row.assignedTo # Null
    PROVE  \A s \in Ticket : Forward(s) /\ RowSound(s)'
<1>1. ticket'[t] = row /\ \A s \in Ticket \ {t} : ticket'[s] = ticket[s]
    BY DEF SafetyInv, TypeInv, TypeOK
<1>2. Forward(t)
    BY <1>1 DEF Forward, Exists, Status, Grows, Categorised, Owned, SomebodyRemoved
<1>3. RowSound(t)'
    BY <1>1 DEF RowSound, Justified, Coherent, SomebodyRemoved
<1>4. ASSUME NEW s \in Ticket \ {t} PROVE Forward(s) /\ RowSound(s)'
    BY <1>1 DEF SafetyInv, Forward, Grows, Keeps, RowSound, Justified, Coherent,
        Exists, Categorised, Owned, SomebodyRemoved
<1>. QED
    BY <1>2, <1>3, <1>4

\* The same of the write step of a request.
LEMMA WriteSafe ==
    ASSUME SafetyInv, TypeInv', NEW r \in Request, NEW referents \in BOOLEAN,
           NEW row \in TicketRow, req[r].phase = "read", Write(r, referents, row),
           Exists(req[r].id) =>
              /\ row.status \in Status
              /\ Keeps(ticket[req[r].id], row)
              /\ Coherent(row)
              /\ Justified(row, row.status)
              /\ ticket[req[r].id].categoryId # Null => row.categoryId # Null
              /\ ticket[req[r].id].assignedTo # Null => row.assignedTo # Null
    PROVE  SafetyInv'
<1>. DEFINE t == req[r].id
            new == [row EXCEPT !.updatedAt = "recent"]
<1>1. t \in Ticket
    BY DEF SafetyInv, TypeInv, Named
<1>2. PICK p : req' = [req EXCEPT ![r] = p] /\ p.phase # "read"
    <2>1. Written(req[r]).phase # "read" /\ Idle.phase # "read"
        BY DEF Written, Idle
    <2>. QED
        BY <2>1 DEF Write
<1>3. \A s \in Ticket : Forward(s) /\ RowSound(s)'
    <2>1. CASE Exists(t) /\ referents
        <3>1. new \in TicketRow
            BY DEF TicketRow, Moment
        <3>2. /\ new.status = row.status
              /\ \A s : Justified(row, s) => Justified(new, s)
              /\ Coherent(row) => Coherent(new)
              /\ Keeps(ticket[t], row) => Keeps(ticket[t], new)
              /\ new.categoryId = row.categoryId
              /\ new.assignedTo = row.assignedTo
            BY DEF TicketRow, Justified, Coherent, Keeps
        <3>3. ticket' = [ticket EXCEPT ![t] = new]
              /\ UNCHANGED <<account, category>>
            BY <2>1 DEF Write
        <3>. HIDE DEF new
        <3>. QED
            BY <1>1, <2>1, <3>1, <3>2, <3>3, UpdateForward
    <2>2. CASE ~(Exists(t) /\ referents)
        BY <2>2, StutterForward DEF Write
    <2>. QED
        BY <2>1, <2>2
<1>. QED
    BY <1>2, <1>3, StepSafe

LEMMA RequestStepSafe ==
    ASSUME SafetyInv, TypeInv', NEW r \in Request, RequestStep(r)
    PROVE  SafetyInv'
<1>. DEFINE q == req[r]
            t == q.id
            old == ticket[t]
<1>a. q \in RequestState /\ Named(q)
    BY DEF SafetyInv, TypeInv, TypeOK
<1>b. q.phase # "idle" => old \in TicketRow
    BY <1>a DEF SafetyInv, TypeInv, TypeOK, Named
<1>c. q.phase # "idle" => Justified(old, old.status) /\ Coherent(old)
    BY <1>a DEF SafetyInv, RowSound, Named
<1>d. q.phase = "read" => Pledge(q)
    BY DEF SafetyInv
<1>1. CASE AssignWrite(r)
    <2>. DEFINE row == AssignedRow(q)
    <2>1. row \in TicketRow
        BY <1>1, <1>a, AssignedRowType DEF SafetyInv
    <2>2. /\ q.who \in User /\ q.seen \in Status
          /\ Exists(t) => Justified(old, q.seen)
        BY <1>1, <1>a, <1>d DEF AssignWrite, Named, Pledge
    <2>3. row.status \in Status
        BY <1>1, <1>b, <2>2 DEF AssignWrite, AssignedRow, TicketRow, Status
    <2>4. Keeps(old, row) /\ Coherent(row) /\ row.categoryId = old.categoryId
          /\ row.assignedTo # Null
        BY <1>1, <1>b, <1>c, <2>2, NullAssumption
        DEF AssignWrite, AssignedRow, TicketRow, Keeps, Coherent
    <2>5. Exists(t) => Justified(row, row.status)
        BY <1>1, <1>b, <2>2, NullAssumption
        DEF AssignWrite, AssignedRow, TicketRow, Justified, WorkedOn
    <2>. HIDE DEF row
    <2>. QED
        BY <1>1, <2>1, <2>3, <2>4, <2>5, WriteSafe DEF AssignWrite, row
<1>2. CASE ClassifyWrite(r)
    <2>. DEFINE row == ClassifiedRow(q)
    <2>1. row \in TicketRow /\ q.cat # Null
        BY <1>2, <1>a, <1>b, CategoryAssumption
        DEF ClassifyWrite, ClassifiedRow, TicketRow, Named, Deadline
    <2>2. Keeps(old, row) /\ Coherent(row) /\ row.categoryId # Null
          /\ row.assignedTo = old.assignedTo /\ row.status = old.status
        BY <1>2, <1>b, <1>c, <2>1
        DEF ClassifyWrite, ClassifiedRow, TicketRow, Keeps, Coherent
    <2>3. Justified(row, row.status)
        BY <1>2, <1>b, <1>c, <2>1
        DEF ClassifyWrite, ClassifiedRow, TicketRow, Justified
    <2>. QED
        BY <1>2, <2>1, <2>2, <2>3, WriteSafe DEF ClassifyWrite, Exists
<1>3. CASE ChangeStatusWrite(r)
    <2>. DEFINE row == StatusRow(q)
    <2>1. row \in TicketRow
        BY <1>3, <1>a, StatusRowType DEF SafetyInv
    <2>2. /\ q.to \in Status /\ q.seen \in Status
          /\ Exists(t) =>
                /\ Justified(old, q.seen)
                /\ IsValidStatusTransition(q.seen, q.to)
                /\ q.to = "IN_PROGRESS" => old.priority /\ Categorised(t)
        BY <1>3, <1>a, <1>d DEF ChangeStatusWrite, Named, Pledge
    <2>3. row.status = q.to /\ row.categoryId = old.categoryId
          /\ row.assignedTo = old.assignedTo
          /\ row.priority = old.priority /\ row.rating = old.rating
          /\ row.responseDueAt = old.responseDueAt
          /\ row.resolutionDueAt = old.resolutionDueAt
        BY <1>3, <1>b DEF ChangeStatusWrite, StatusRow, TicketRow
    <2>4. /\ old.firstRespondedAt \/ q.to = "IN_PROGRESS" => row.firstRespondedAt
          /\ old.resolvedAt \/ q.to = "RESOLVED" => row.resolvedAt
          /\ old.closedAt # "none" \/ q.to = "CLOSED" => row.closedAt # "none"
          /\ row.closedAt # "none" => old.closedAt # "none" \/ q.to = "CLOSED"
        BY <1>3, <1>b DEF ChangeStatusWrite, StatusRow, TicketRow
    <2>. HIDE DEF row
    <2>5. Keeps(old, row)
        BY <2>3, <2>4 DEF Keeps
    <2>6. ASSUME Exists(t) PROVE Coherent(row) /\ Justified(row, row.status)
        <3>1. q.to = "IN_PROGRESS" => q.seen \in {"ASSIGNED", "REOPENED"}
            BY <2>2, <2>6 DEF IsValidStatusTransition, AllowedStatusTransitions, Status
        <3>2. q.to = "RESOLVED" => q.seen = "IN_PROGRESS"
            BY <2>2, <2>6 DEF IsValidStatusTransition, AllowedStatusTransitions, Status
        <3>3. q.to = "CLOSED" => q.seen = "RESOLVED"
            BY <2>2, <2>6 DEF IsValidStatusTransition, AllowedStatusTransitions, Status
        <3>4. q.to = "REOPENED" => q.seen \in {"RESOLVED", "CLOSED"}
            BY <2>2, <2>6 DEF IsValidStatusTransition, AllowedStatusTransitions, Status
        <3>5. q.to # "ASSIGNED"
            BY <2>2, <2>6 DEF IsValidStatusTransition, AllowedStatusTransitions, Status
        <3>6. Coherent(row)
            BY <1>3, <1>c, <2>2, <2>3, <2>4, <2>6, <3>3
            DEF ChangeStatusWrite, Coherent, Justified
        <3>7. CASE q.to = "IN_PROGRESS"
            BY <1>3, <1>c, <2>2, <2>3, <2>4, <2>6, <3>1, <3>7
            DEF ChangeStatusWrite, Justified, Coherent, Categorised, WorkedOn
        <3>8. CASE q.to \in {"RESOLVED", "CLOSED", "REOPENED"}
            BY <2>2, <2>3, <2>4, <2>6, <3>2, <3>3, <3>4, <3>6, <3>8
            DEF Justified, WorkedOn
        <3>9. CASE q.to \notin WorkedOn \cup {"ASSIGNED"}
            BY <2>3, <3>6, <3>9 DEF Justified, WorkedOn
        <3>. QED
            BY <3>5, <3>6, <3>7, <3>8, <3>9 DEF WorkedOn
    <2>. QED
        BY <1>3, <2>1, <2>2, <2>3, <2>5, <2>6, WriteSafe DEF ChangeStatusWrite, row
<1>4. CASE RateWrite(r)
    <2>. DEFINE row == [old EXCEPT !.rating = TRUE]
    <2>1. row \in TicketRow
        BY <1>4, <1>b DEF RateWrite, TicketRow
    <2>2. Exists(t) => old.resolvedAt
        BY <1>4, <1>d DEF RateWrite, Pledge
    <2>3. /\ Keeps(old, row) /\ Justified(row, row.status)
          /\ Exists(t) => Coherent(row)
          /\ row.status = old.status /\ row.categoryId = old.categoryId
          /\ row.assignedTo = old.assignedTo
        BY <1>4, <1>b, <1>c, <2>2
        DEF RateWrite, TicketRow, Keeps, Coherent, Justified
    <2>. QED
        BY <1>4, <2>1, <2>3, WriteSafe DEF RateWrite, Exists
<1>5. CASE TagWrite(r)
    <2>1. Keeps(old, old)
        BY DEF Keeps
    <2>. QED
        BY <1>5, <1>b, <1>c, <2>1, WriteSafe DEF TagWrite, Exists
<1>6. CASE CollaboratorWrite(r)
    <2>1. PICK p : req' = [req EXCEPT ![r] = p] /\ p.phase # "read"
        <3>1. Written(req[r]).phase # "read" /\ Idle.phase # "read"
            BY DEF Written, Idle
        <3>. QED
            BY <1>6, <3>1 DEF CollaboratorWrite
    <2>2. \A s \in Ticket : Forward(s) /\ RowSound(s)'
        <3>1. CASE UNCHANGED ticket
            BY <1>6, <3>1, StutterForward DEF CollaboratorWrite
        <3>2. ASSUME NEW links \in SUBSET User, Exists(t),
                     ticket' = [ticket EXCEPT ![t].collaborators = links]
              PROVE  \A s \in Ticket : Forward(s) /\ RowSound(s)'
            <4>. DEFINE row == [old EXCEPT !.collaborators = links]
            <4>1. t \in Ticket /\ old \in TicketRow
                BY <1>6, <1>a, <1>b DEF CollaboratorWrite, Named
            <4>2. row \in TicketRow /\ row.status = old.status
                  /\ Keeps(old, row) /\ Coherent(row)
                  /\ Justified(row, row.status)
                  /\ row.categoryId = old.categoryId
                  /\ row.assignedTo = old.assignedTo
                BY <1>6, <1>c, <4>1
                DEF CollaboratorWrite, TicketRow, Keeps, Coherent, Justified
            <4>3. ticket' = [ticket EXCEPT ![t] = row]
                BY <3>2, <4>1
            <4>. HIDE DEF row
            <4>. QED
                BY <1>6, <3>2, <4>1, <4>2, <4>3, UpdateForward
                DEF CollaboratorWrite, Exists
        <3>3. /\ old.collaborators \cup {q.who} \in SUBSET User
              /\ old.collaborators \ {q.who} \in SUBSET User
            BY <1>6, <1>a, <1>b DEF CollaboratorWrite, Named, TicketRow
        <3>. QED
            BY <1>6, <3>1, <3>2, <3>3 DEF CollaboratorWrite
    <2>. QED
        BY <2>1, <2>2, StepSafe
<1>7. CASE RecordHistory(r) \/ Fail(r)
    <2>1. Idle.phase # "read"
        BY DEF Idle
    <2>. QED
        BY <1>7, <2>1, StutterForward, StepSafe DEF RecordHistory, Fail
<1>. QED
    BY <1>1, <1>2, <1>3, <1>4, <1>5, <1>6, <1>7 DEF RequestStep

\* A request that starts by reading, and pledges what it has just seen.
LEMMA StartSafe ==
    ASSUME SafetyInv, TypeInv', NEW r \in Request, NEW u \in User, NEW t \in Ticket,
           NEW op, NEW q, q.id \in Ticket, Read(r, u, t, op),
           req' = [req EXCEPT ![r] = q], Pledge(q)
    PROVE  SafetyInv'
<1>1. \A s \in Ticket : Forward(s) /\ RowSound(s)'
    BY StutterForward DEF Read
<1>2. Pledge(q)'
    BY <1>1, PledgeForward
<1>. QED
    BY <1>1, <1>2, StepSafe

LEMMA RequestStartSafe ==
    ASSUME SafetyInv, TypeInv', NEW r \in Request, NEW u \in User, NEW t \in Ticket,
           RequestStart(r, u, t)
    PROVE  SafetyInv'
<1>1. CASE Create(r, u, t)
    <2>. DEFINE row == [NoTicket("NEW") EXCEPT !.createdBy = u, !.updatedAt = "recent"]
    <2>1. Written(Pending(u, t, "CREATED")).phase # "read"
        BY DEF Written, Idle
    <2>2. row.status = "NEW" /\ Coherent(row)
        BY DEF NoTicket, Coherent
    <2>3. ticket[t].status = "ABSENT" /\ ticket' = [ticket EXCEPT ![t] = row]
          /\ UNCHANGED <<account, category>>
        BY <1>1 DEF Create
    <2>4. ticket'[t] = row /\ \A s \in Ticket \ {t} : ticket'[s] = ticket[s]
        BY <2>3 DEF SafetyInv, TypeInv, TypeOK
    <2>. HIDE DEF row
    <2>5. Forward(t) /\ RowSound(t)'
        BY <2>2, <2>3, <2>4 DEF Forward, Exists, Status, RowSound, Justified, Coherent,
            WorkedOn
    <2>6. ASSUME NEW s \in Ticket \ {t} PROVE Forward(s) /\ RowSound(s)'
        BY <2>3, <2>4 DEF SafetyInv, Forward, Grows, Keeps, RowSound, Justified,
            Coherent, Exists, Categorised, Owned, SomebodyRemoved
    <2>. QED
        BY <1>1, <2>1, <2>5, <2>6, StepSafe DEF Create
<1>2. ASSUME NEW who \in User, AssignRead(r, u, t, who) PROVE SafetyInv'
    <2>. DEFINE op == IF ticket[t].assignedTo # Null THEN "REASSIGNED" ELSE "ASSIGNED"
                q == [Pending(u, t, op) EXCEPT !.who = who, !.seen = ticket[t].status]
    <2>1. q.id = t /\ q.seen = ticket[t].status /\ q.op \in {"ASSIGNED", "REASSIGNED"}
        BY DEF Pending, Idle
    <2>2. Pledge(q)
        BY <1>2, <2>1 DEF AssignRead, Read, Exists, Pledge, SafetyInv, RowSound, Status
    <2>. QED
        BY <1>2, <2>1, <2>2, StartSafe DEF AssignRead
<1>3. ASSUME NEW c \in Category, ClassifyRead(r, u, t, c) PROVE SafetyInv'
    <2>. DEFINE q == [Pending(u, t, "CLASSIFIED") EXCEPT !.cat = c]
    <2>1. q.id = t /\ q.op = "CLASSIFIED"
        BY DEF Pending, Idle
    <2>2. Pledge(q)
        BY <1>3, <2>1 DEF ClassifyRead, Read, Exists, Pledge, Status
    <2>. QED
        BY <1>3, <2>1, <2>2, StartSafe DEF ClassifyRead
<1>4. ASSUME NEW to \in Status, ChangeStatusRead(r, u, t, to) PROVE SafetyInv'
    <2>. DEFINE op == IF to = "REOPENED" THEN "REOPENED" ELSE "STATUS_CHANGED"
                q == [Pending(u, t, op) EXCEPT !.to = to, !.seen = ticket[t].status]
    <2>1. q.id = t /\ q.seen = ticket[t].status /\ q.to = to
          /\ q.op \in {"REOPENED", "STATUS_CHANGED"}
        BY DEF Pending, Idle
    <2>2. Pledge(q)
        BY <1>4, <2>1 DEF ChangeStatusRead, CanChangeStatus, IsClassified, Read,
            Exists, Pledge, SafetyInv, RowSound, Status, Categorised
    <2>. QED
        BY <1>4, <2>1, <2>2, StartSafe DEF ChangeStatusRead
<1>5. CASE RateRead(r, u, t)
    <2>. DEFINE q == Pending(u, t, "RATED")
    <2>1. q.id = t /\ q.op = "RATED"
        BY DEF Pending, Idle
    <2>2. Pledge(q)
        BY <1>5, <2>1 DEF RateRead, CanRate, Read, Exists, Pledge, SafetyInv,
            RowSound, Justified, Status
    <2>. QED
        BY <1>5, <2>1, <2>2, StartSafe DEF RateRead
<1>6. CASE TagRead(r, u, t)
    <2>. DEFINE q == Pending(u, t, "TAGGED")
    <2>1. q.id = t /\ q.op = "TAGGED"
        BY DEF Pending, Idle
    <2>2. Pledge(q)
        BY <1>6, <2>1 DEF TagRead, Read, Exists, Pledge, Status
    <2>. QED
        BY <1>6, <2>1, <2>2, StartSafe DEF TagRead
<1>7. ASSUME NEW op \in {"COLLABORATOR_ADDED", "COLLABORATOR_REMOVED"},
             NEW who \in User, Read(r, u, t, op),
             req' = [req EXCEPT ![r] = [Pending(u, t, op) EXCEPT !.who = who]]
      PROVE  SafetyInv'
    <2>. DEFINE q == [Pending(u, t, op) EXCEPT !.who = who]
    <2>1. q.id = t /\ q.op = op
        BY DEF Pending, Idle
    <2>2. Pledge(q)
        BY <1>7, <2>1 DEF Read, Exists, Pledge, Status
    <2>. QED
        BY <1>7, <2>1, <2>2, StartSafe
<1>. QED
    BY <1>1, <1>2, <1>3, <1>4, <1>5, <1>6, <1>7
    DEF RequestStart, AddCollaboratorRead, RemoveCollaboratorRead

\* What is done to the tables without a request.
LEMMA TableSafe ==
    ASSUME SafetyInv, TypeInv', UNCHANGED req,
           \A s \in Ticket : Forward(s) /\ RowSound(s)'
    PROVE  SafetyInv'
<1>1. ASSUME NEW s \in Request, req[s].phase = "read" PROVE Pledge(req[s])'
    <2>1. PICK q : q = req[s]
        OBVIOUS
    <2>2. q.id \in Ticket /\ Pledge(q)
        BY <1>1, <2>1 DEF SafetyInv, TypeInv, Named
    <2>3. Pledge(q)'
        BY <2>2, PledgeForward
    <2>. QED
        BY <2>1, <2>3 DEF Pledge, Exists, Justified, Categorised, SomebodyRemoved
<1>. QED
    BY <1>1 DEF SafetyInv

LEMMA AdminStepSafe ==
    ASSUME SafetyInv, TypeInv', AdminStep
    PROVE  SafetyInv'
<1>1. ASSUME NEW u \in User, NEW t \in Ticket, Remove(u, t) PROVE SafetyInv'
    <2>1. NoTicket("DELETED").status = "DELETED" /\ Coherent(NoTicket("DELETED"))
        BY DEF NoTicket, Coherent
    <2>2. ticket'[t] = NoTicket("DELETED")
          /\ \A s \in Ticket \ {t} : ticket'[s] = ticket[s]
        BY <1>1 DEF Remove, SafetyInv, TypeInv, TypeOK
    <2>3. Forward(t) /\ RowSound(t)'
        BY <2>1, <2>2 DEF Forward, Exists, Status, RowSound, Justified, Coherent, WorkedOn
    <2>4. ASSUME NEW s \in Ticket \ {t} PROVE Forward(s) /\ RowSound(s)'
        BY <1>1, <2>2 DEF Remove, SafetyInv, Forward, Grows, Keeps, RowSound, Justified,
            Coherent, Exists, Categorised, Owned, SomebodyRemoved
    <2>. QED
        BY <1>1, <2>3, <2>4, TableSafe DEF Remove
<1>2. ASSUME NEW u \in User, NEW t \in Ticket, NEW mark \in BOOLEAN,
             SetArchived(u, t, mark)
      PROVE  SafetyInv'
    <2>. DEFINE row == [ticket[t] EXCEPT !.archivedAt = mark, !.updatedAt = "recent"]
    <2>1. ticket[t] \in TicketRow /\ RowSound(t)
        BY DEF SafetyInv, TypeInv, TypeOK
    <2>2. /\ row.status = ticket[t].status /\ row.categoryId = ticket[t].categoryId
          /\ row.assignedTo = ticket[t].assignedTo
          /\ Keeps(ticket[t], row) /\ Coherent(row) /\ Justified(row, row.status)
        BY <2>1 DEF TicketRow, RowSound, Keeps, Coherent, Justified
    <2>3. row \in TicketRow
        <3>1. CASE mark = TRUE
            BY <2>1, <3>1 DEF TicketRow, Moment
        <3>2. CASE mark = FALSE
            BY <2>1, <3>2 DEF TicketRow, Moment
        <3>. QED
            BY <3>1, <3>2
    <2>4. ticket' = [ticket EXCEPT ![t] = row]
        BY <1>2 DEF SetArchived
    <2>. HIDE DEF row
    <2>. QED
        BY <1>2, <2>2, <2>3, <2>4, UpdateForward, TableSafe DEF SetArchived, Exists
<1>3. ASSUME NEW u \in User, Deactivate(u) PROVE SafetyInv'
    <2>1. SomebodyRemoved => SomebodyRemoved'
        BY <1>3 DEF Deactivate, SomebodyRemoved, SafetyInv, TypeInv, TypeOK
    <2>2. \A s \in Ticket : Forward(s) /\ RowSound(s)'
        BY <1>3, <2>1 DEF Deactivate, SafetyInv, Forward, Grows, Keeps, RowSound,
            Justified, Coherent, Exists, Categorised, Owned
    <2>. QED
        BY <1>3, <2>2, TableSafe DEF Deactivate
<1>4. ASSUME NEW u \in User, RemoveUser(u) PROVE SafetyInv'
    <2>1. SomebodyRemoved'
        BY <1>4 DEF RemoveUser, SomebodyRemoved, SafetyInv, TypeInv, TypeOK
    <2>2. ASSUME NEW s \in Ticket PROVE Forward(s) /\ RowSound(s)'
        <3>1. ticket[s] \in TicketRow /\ RowSound(s)
            BY DEF SafetyInv, TypeInv, TypeOK
        <3>2. /\ ticket'[s].status = ticket[s].status
              /\ ticket'[s].priority = ticket[s].priority
              /\ ticket'[s].responseDueAt = ticket[s].responseDueAt
              /\ ticket'[s].resolutionDueAt = ticket[s].resolutionDueAt
              /\ ticket'[s].firstRespondedAt = ticket[s].firstRespondedAt
              /\ ticket'[s].resolvedAt = ticket[s].resolvedAt
              /\ ticket'[s].closedAt = ticket[s].closedAt
              /\ ticket'[s].rating = ticket[s].rating
              /\ ticket'[s].categoryId = ticket[s].categoryId
            BY <1>4, <3>1 DEF RemoveUser, HandedOver, TicketRow
        <3>3. UNCHANGED category
            BY <1>4 DEF RemoveUser
        <3>. QED
            BY <2>1, <3>1, <3>2, <3>3 DEF Forward, Grows, Keeps, RowSound, Justified,
                Coherent, Exists, Categorised, Owned
    <2>. QED
        BY <1>4, <2>2, TableSafe DEF RemoveUser
<1>5. ASSUME NEW c \in Category, UpdateCategory(c) \/ RemoveCategoryCount(c)
      PROVE  SafetyInv'
    <2>1. \A d \in Category : category[d] = "removed" => category'[d] = "removed"
        BY <1>5 DEF UpdateCategory, RemoveCategoryCount, SafetyInv, TypeInv, TypeOK
    <2>2. UNCHANGED <<ticket, account, req>>
        BY <1>5 DEF UpdateCategory, RemoveCategoryCount
    <2>3. \A s \in Ticket : Forward(s) /\ RowSound(s)'
        BY <2>1, <2>2 DEF SafetyInv, Forward, Grows, Keeps, RowSound,
            Justified, Coherent, Exists, Categorised, Owned, SomebodyRemoved
    <2>. QED
        BY <2>2, <2>3, TableSafe
<1>6. CASE RemoveCategoryDelete
    <2>1. /\ \E d \in Category : category'[d] = "removed"
          /\ UNCHANGED <<account, req>>
        BY <1>6 DEF RemoveCategoryDelete, SafetyInv, TypeInv, TypeOK
    <2>2. ASSUME NEW s \in Ticket PROVE Forward(s) /\ RowSound(s)'
        <3>1. ticket[s] \in TicketRow /\ RowSound(s)
            BY DEF SafetyInv, TypeInv, TypeOK
        <3>2. /\ ticket'[s].status = ticket[s].status
              /\ ticket'[s].priority = ticket[s].priority
              /\ ticket'[s].responseDueAt = ticket[s].responseDueAt
              /\ ticket'[s].resolutionDueAt = ticket[s].resolutionDueAt
              /\ ticket'[s].firstRespondedAt = ticket[s].firstRespondedAt
              /\ ticket'[s].resolvedAt = ticket[s].resolvedAt
              /\ ticket'[s].closedAt = ticket[s].closedAt
              /\ ticket'[s].rating = ticket[s].rating
              /\ ticket'[s].assignedTo = ticket[s].assignedTo
            BY <1>6, <3>1 DEF RemoveCategoryDelete, TicketRow
        <3>. QED
            BY <2>1, <3>1, <3>2 DEF Forward, Grows, Keeps, RowSound, Justified,
                Coherent, Exists, Categorised, Owned, SomebodyRemoved
    <2>. QED
        BY <2>1, <2>2, TableSafe
<1>7. CASE RemoveCategoryFail
    BY <1>7, StutterForward, TableSafe DEF RemoveCategoryFail
<1>. QED
    BY <1>1, <1>2, <1>3, <1>4, <1>5, <1>6, <1>7 DEF AdminStep

LEMMA SafetyInit == Init => SafetyInv
<1>. SUFFICES ASSUME Init PROVE SafetyInv
    OBVIOUS
<1>1. TypeInv
    BY NoTicketType, IdleType DEF Init, TypeInv, TypeOK
<1>2. \A t \in Ticket : RowSound(t)
    BY DEF Init, NoTicket, RowSound, Justified, Coherent, WorkedOn
<1>3. \A r \in Request : req[r].phase = "idle"
    BY DEF Init, Idle
<1>. QED
    BY <1>1, <1>2, <1>3 DEF SafetyInv

LEMMA SafetyStep ==
    ASSUME SafetyInv, [Next]_deskVars
    PROVE  SafetyInv'
<1>1. TypeInv'
    BY TypeStep DEF SafetyInv
<1>2. CASE Next
    BY <1>1, <1>2, RequestStartSafe, RequestStepSafe, AdminStepSafe DEF Next
<1>3. CASE UNCHANGED deskVars
    BY <1>1, <1>3 DEF deskVars, SafetyInv, RowSound, Justified, Coherent, Pledge,
        Exists, Categorised, SomebodyRemoved
<1>. QED
    BY <1>2, <1>3

\* The strengthened invariant holds of every reachable state of the service.
THEOREM Safety == Spec => []SafetyInv
BY SafetyInit, SafetyStep, PTL DEF Spec

\* A ticket taken into work has been classified, whatever interleaved.
THEOREM WorkClassified == Spec => []WorkIsClassified
<1>1. SafetyInv => WorkIsClassified
    BY DEF SafetyInv, RowSound, Justified, WorkIsClassified, Categorised
<1>. QED
    BY <1>1, Safety, PTL

\* The moments of a ticket agree with its status, whatever interleaved.
THEOREM MomentsAgree == Spec => []MomentsFollowStatus
<1>1. SafetyInv => MomentsFollowStatus
    BY DEF SafetyInv, RowSound, Justified, Coherent, MomentsFollowStatus
<1>. QED
    BY <1>1, Safety, PTL

\* A ticket past NEW has an executor, unless an account was removed.
THEOREM NobodyLosesATicket == Spec => []OwnedUnlessRemoved
<1>1. SafetyInv => OwnedUnlessRemoved
    BY DEF SafetyInv, RowSound, Justified, OwnedUnlessRemoved, Owned
<1>. QED
    BY <1>1, Safety, PTL

-----------------------------------------------------------------------------
(* The audit trail.  An entry is accounted for when it is in the history,  *)
(* when a request that has written is about to add it, or when the request *)
(* ended before it did; while the ticket exists that is never taken back.  *)
(* What the row shows is accounted for by its own writer, except for       *)
(* the status a stale request writes back: it had read that status, whose  *)
(* entry was accounted for then.  And an assignment of a new ticket is     *)
(* recorded under that name and not as a reassignment, since nobody is     *)
(* assigned to a ticket that is new.                                       *)

Accounted(t, action) ==
    \/ action \in history[t] \cup unrecorded[t]
    \/ \E r \in Request : /\ req[r].phase = "written"
                          /\ req[r].id = t
                          /\ req[r].op = action

Shown(row) ==
    (IF row.priority THEN {"CLASSIFIED"} ELSE {})
        \cup (IF row.resolvedAt THEN {"STATUS_CHANGED"} ELSE {})
        \cup (IF row.status = "REOPENED" THEN {"REOPENED"} ELSE {})
        \cup (IF row.rating THEN {"RATED"} ELSE {})
        \cup (IF row.status = "ASSIGNED" THEN {"ASSIGNED"} ELSE {})

RowAudited(t) ==
    Exists(t) =>
        /\ \A action \in {"CREATED"} \cup Shown(ticket[t]) : Accounted(t, action)
        /\ ticket[t].status = "NEW" => ticket[t].assignedTo = Null

\* What a request that has read its ticket relies on.
Vouched(q) ==
    Exists(q.id) =>
        /\ q.op \in {"ASSIGNED", "REASSIGNED"} =>
              /\ q.seen \in {"ASSIGNED", "REOPENED"} => Accounted(q.id, q.seen)
              /\ q.seen = "NEW" => q.op = "ASSIGNED"
        /\ q.op \in {"STATUS_CHANGED", "REOPENED"} =>
              /\ q.to \notin {"NEW", "ASSIGNED"}
              /\ q.to = "REOPENED" => q.op = "REOPENED"
              /\ q.to = "RESOLVED" => q.op = "STATUS_CHANGED"

AuditInv ==
    /\ SafetyInv
    /\ \A t \in Ticket : RowAudited(t)
    /\ \A r \in Request : req[r].phase = "read" => Vouched(req[r])

\* How a step may treat the trail of a ticket: a ticket that exists afterwards
\* and did exist loses nothing, one that did not was never seen before.
Traced(t) ==
    Exists(t)' =>
        /\ Exists(t) \/ ticket[t].status = "ABSENT"
        /\ Exists(t) => \A action \in HistoryAction :
                            Accounted(t, action) => Accounted(t, action)'

LEMMA VouchedTraced ==
    ASSUME NEW q, q.id \in Ticket, Pledge(q), Vouched(q), Traced(q.id)
    PROVE  Vouched(q)'
<1>1. ASSUME Exists(q.id)' PROVE Exists(q.id)
    BY <1>1 DEF Pledge, Traced
<1>2. "ASSIGNED" \in HistoryAction /\ "REOPENED" \in HistoryAction
    BY DEF HistoryAction
<1>. QED
    BY <1>1, <1>2 DEF Vouched, Traced

\* A step in which no ticket loses its trail, every ticket is audited again
\* and at most one request changes keeps the invariant.
LEMMA StepAudited ==
    ASSUME AuditInv, SafetyInv', NEW r \in Request, NEW p,
           req' = [req EXCEPT ![r] = p],
           \A t \in Ticket : Traced(t) /\ RowAudited(t)',
           p.phase = "read" => Vouched(p)'
    PROVE  AuditInv'
<1>1. ASSUME NEW s \in Request, req'[s].phase = "read"
      PROVE  Vouched(req[s])'
    <2>1. PICK q : q = req'[s]
        OBVIOUS
    <2>2. Vouched(q)'
        <3>1. CASE s = r
            BY <1>1, <2>1, <3>1 DEF AuditInv, SafetyInv, TypeInv, TypeOK
        <3>2. CASE s # r
            <4>1. q = req[s]
                BY <2>1, <3>2 DEF AuditInv, SafetyInv, TypeInv, TypeOK
            <4>2. q.id \in Ticket /\ Pledge(q) /\ Vouched(q)
                BY <1>1, <2>1, <4>1 DEF AuditInv, SafetyInv, TypeInv, Named
            <4>. QED
                BY <4>2, VouchedTraced
        <3>. QED
            BY <3>1, <3>2
    <2>. QED
        BY <2>1, <2>2 DEF Vouched, Exists, Accounted
<1>. QED
    BY <1>1 DEF AuditInv

\* What is accounted for stays so when only requests that have not written
\* change.
LEMMA AccountedStays ==
    ASSUME AuditInv, NEW r \in Request, NEW p, req' = [req EXCEPT ![r] = p],
           req[r].phase # "written", UNCHANGED <<history, unrecorded>>,
           NEW t, NEW action, Accounted(t, action)
    PROVE  Accounted(t, action)'
<1>1. req \in [Request -> RequestState]
    BY DEF AuditInv, SafetyInv, TypeInv, TypeOK
<1>2. ASSUME NEW s \in Request, req[s].phase = "written"
      PROVE  req'[s] = req[s]
    BY <1>1, <1>2
<1>. QED
    BY <1>2 DEF Accounted

\* The write step of a request audits the ticket again when all its new row
\* shows is the request's own doing or was accounted for.
LEMMA WriteAudited ==
    ASSUME AuditInv, SafetyInv', NEW r \in Request, NEW referents \in BOOLEAN,
           NEW row \in TicketRow, req[r].phase = "read", Write(r, referents, row),
           Exists(req[r].id) =>
              /\ \A action \in Shown(row) :
                    action = req[r].op \/ Accounted(req[r].id, action)
              /\ row.status = "NEW" => row.assignedTo = Null
    PROVE  AuditInv'
<1>. DEFINE new == [row EXCEPT !.updatedAt = "recent"]
<1>0. PICK t : t = req[r].id
    OBVIOUS
<1>a. t \in Ticket /\ ticket \in [Ticket -> TicketRow]
      /\ req \in [Request -> RequestState]
    BY <1>0 DEF AuditInv, SafetyInv, TypeInv, TypeOK, Named
<1>b. Written(req[r]).phase = "written" /\ Written(req[r]).id = t
      /\ Written(req[r]).op = req[r].op /\ Idle.phase = "idle"
    BY <1>0 DEF Written, Idle
<1>1. PICK p : req' = [req EXCEPT ![r] = p] /\ p.phase # "read"
    BY <1>b DEF Write
<1>2. \A s, action : Accounted(s, action) => Accounted(s, action)'
    BY <1>1, AccountedStays DEF Write
<1>3. CASE Exists(t) /\ referents
    <2>1. ticket' = [ticket EXCEPT ![t] = new] /\ req' = [req EXCEPT ![r] = Written(req[r])]
        BY <1>0, <1>3 DEF Write
    <2>2. Shown(new) = Shown(row) /\ new.status = row.status
          /\ new.assignedTo = row.assignedTo
        BY DEF TicketRow, Shown
    <2>. HIDE DEF new
    <2>3. ticket'[t] = new /\ \A s \in Ticket \ {t} : ticket'[s] = ticket[s]
        BY <1>a, <2>1
    <2>4. req'[r].phase = "written" /\ req'[r].id = t /\ req'[r].op = req[r].op
        BY <1>a, <1>b, <2>1
    <2>5. Accounted(t, req[r].op)'
        BY <2>4 DEF Accounted
    <2>6. RowAudited(t)'
        <3>1. Accounted(t, "CREATED")'
            BY <1>2, <1>3, <1>a DEF AuditInv, RowAudited
        <3>2. \A action \in Shown(ticket'[t]) : Accounted(t, action)'
            BY <1>0, <1>2, <1>3, <2>2, <2>3, <2>4, <2>5
        <3>3. ticket'[t].status = "NEW" => ticket'[t].assignedTo = Null
            BY <1>0, <1>3, <2>2, <2>3
        <3>. QED
            BY <3>1, <3>2, <3>3 DEF RowAudited, Shown
    <2>7. Traced(t)
        BY <1>2, <1>3 DEF Traced
    <2>8. ASSUME NEW s \in Ticket \ {t} PROVE Traced(s) /\ RowAudited(s)'
        BY <1>2, <2>3 DEF AuditInv, Traced, RowAudited, Exists, Shown
    <2>. QED
        BY <1>1, <2>6, <2>7, <2>8, StepAudited
<1>4. CASE ~(Exists(t) /\ referents)
    <2>1. UNCHANGED ticket
        BY <1>0, <1>4 DEF Write
    <2>2. \A s \in Ticket : Traced(s) /\ RowAudited(s)'
        BY <1>2, <2>1 DEF AuditInv, Traced, RowAudited, Exists, Shown
    <2>. QED
        BY <1>1, <2>2, StepAudited
<1>. QED
    BY <1>3, <1>4

LEMMA RequestStepAudited ==
    ASSUME AuditInv, SafetyInv', NEW r \in Request, RequestStep(r)
    PROVE  AuditInv'
<1>. DEFINE q == req[r]
            t == q.id
            old == ticket[t]
<1>a. q \in RequestState /\ Named(q) /\ ticket \in [Ticket -> TicketRow]
      /\ req \in [Request -> RequestState] /\ history \in [Ticket -> SUBSET HistoryAction]
      /\ unrecorded \in [Ticket -> SUBSET HistoryAction]
    BY DEF AuditInv, SafetyInv, TypeInv, TypeOK
<1>b. q.phase # "idle" => t \in Ticket /\ old \in TicketRow
    BY <1>a DEF Named
<1>c. q.phase # "idle" /\ Exists(t) =>
        /\ \A action \in Shown(old) : Accounted(t, action)
        /\ old.status = "NEW" => old.assignedTo = Null
    BY <1>b DEF AuditInv, RowAudited
<1>d. q.phase = "read" => Vouched(q) /\ Pledge(q)
    BY DEF AuditInv, SafetyInv
<1>1. CASE AssignWrite(r)
    <2>. DEFINE row == AssignedRow(q)
    <2>1. row \in TicketRow
        BY <1>1, <1>a, AssignedRowType DEF SafetyInv, AuditInv
    <2>2. /\ row.status = IF q.seen = "NEW" THEN "ASSIGNED" ELSE q.seen
          /\ row.priority = old.priority /\ row.resolvedAt = old.resolvedAt
          /\ row.rating = old.rating
        BY <1>1, <1>b DEF AssignWrite, AssignedRow, TicketRow
    <2>. HIDE DEF row
    <2>3. ASSUME Exists(t)
          PROVE  /\ \A action \in Shown(row) : action = q.op \/ Accounted(t, action)
                 /\ row.status = "NEW" => row.assignedTo = Null
        <3>1. row.status # "NEW"
            BY <2>2
        <3>2. row.status = "ASSIGNED" => q.op = "ASSIGNED" \/ Accounted(t, "ASSIGNED")
            BY <1>1, <1>d, <2>2, <2>3 DEF AssignWrite, Vouched
        <3>3. row.status = "REOPENED" => Accounted(t, "REOPENED")
            BY <1>1, <1>d, <2>2, <2>3 DEF AssignWrite, Vouched
        <3>. QED
            BY <1>1, <1>c, <2>2, <2>3, <3>1, <3>2, <3>3 DEF AssignWrite, Shown
    <2>. QED
        BY <1>1, <2>1, <2>3, WriteAudited DEF AssignWrite, row
<1>2. CASE ClassifyWrite(r)
    <2>. DEFINE row == ClassifiedRow(q)
    <2>1. row \in TicketRow
        BY <1>2, <1>a, ClassifiedRowType DEF SafetyInv, AuditInv
    <2>2. /\ row.status = old.status /\ row.assignedTo = old.assignedTo
          /\ row.resolvedAt = old.resolvedAt /\ row.rating = old.rating
        BY <1>2, <1>b DEF ClassifyWrite, ClassifiedRow, TicketRow
    <2>. HIDE DEF row
    <2>3. ASSUME Exists(t)
          PROVE  /\ \A action \in Shown(row) : action = q.op \/ Accounted(t, action)
                 /\ row.status = "NEW" => row.assignedTo = Null
        BY <1>2, <1>c, <2>2, <2>3 DEF ClassifyWrite, Shown
    <2>. QED
        BY <1>2, <2>1, <2>3, WriteAudited DEF ClassifyWrite, row
<1>3. CASE ChangeStatusWrite(r)
    <2>. DEFINE row == StatusRow(q)
    <2>1. row \in TicketRow
        BY <1>3, <1>a, StatusRowType DEF SafetyInv, AuditInv
    <2>2. /\ row.status = q.to /\ row.priority = old.priority /\ row.rating = old.rating
          /\ row.resolvedAt => old.resolvedAt \/ q.to = "RESOLVED"
        BY <1>3, <1>b DEF ChangeStatusWrite, StatusRow, TicketRow
    <2>. HIDE DEF row
    <2>3. ASSUME Exists(t)
          PROVE  /\ \A action \in Shown(row) : action = q.op \/ Accounted(t, action)
                 /\ row.status = "NEW" => row.assignedTo = Null
        BY <1>3, <1>c, <1>d, <2>2, <2>3 DEF ChangeStatusWrite, Shown, Vouched
    <2>. QED
        BY <1>3, <2>1, <2>3, WriteAudited DEF ChangeStatusWrite, row
<1>4. CASE RateWrite(r)
    <2>. DEFINE row == [old EXCEPT !.rating = TRUE]
    <2>1. row \in TicketRow
        BY <1>4, <1>b DEF RateWrite, TicketRow
    <2>2. /\ row.status = old.status /\ row.assignedTo = old.assignedTo
          /\ row.resolvedAt = old.resolvedAt /\ row.priority = old.priority
        BY <1>4, <1>b DEF RateWrite, TicketRow
    <2>3. ASSUME Exists(t)
          PROVE  /\ \A action \in Shown(row) : action = q.op \/ Accounted(t, action)
                 /\ row.status = "NEW" => row.assignedTo = Null
        <3>. HIDE DEF row
        <3>. QED
            BY <1>4, <1>c, <2>2, <2>3 DEF RateWrite, Shown
    <2>. QED
        BY <1>4, <2>1, <2>3, WriteAudited DEF RateWrite
<1>5. CASE TagWrite(r)
    BY <1>5, <1>b, <1>c, WriteAudited DEF TagWrite
<1>6. CASE CollaboratorWrite(r)
    <2>1. PICK p : req' = [req EXCEPT ![r] = p] /\ p.phase # "read"
        <3>1. Written(req[r]).phase # "read" /\ Idle.phase # "read"
            BY DEF Written, Idle
        <3>. QED
            BY <1>6, <3>1 DEF CollaboratorWrite
    <2>2. \A s, action : Accounted(s, action) => Accounted(s, action)'
        BY <1>6, <2>1, AccountedStays DEF CollaboratorWrite
    <2>3. ASSUME NEW s \in Ticket
          PROVE  /\ ticket'[s].status = ticket[s].status
                 /\ ticket'[s].assignedTo = ticket[s].assignedTo
                 /\ ticket'[s].priority = ticket[s].priority
                 /\ ticket'[s].resolvedAt = ticket[s].resolvedAt
                 /\ ticket'[s].rating = ticket[s].rating
        <3>1. UNCHANGED ticket
              \/ \E links : ticket' = [ticket EXCEPT ![t].collaborators = links]
            BY <1>6 DEF CollaboratorWrite
        <3>2. ticket[s] \in TicketRow
            BY <1>a
        <3>3. CASE UNCHANGED ticket
            BY <3>3
        <3>4. ASSUME NEW links, ticket' = [ticket EXCEPT ![t].collaborators = links]
              PROVE  ticket'[s] = ticket[s]
                     \/ ticket'[s] = [ticket[s] EXCEPT !.collaborators = links]
            BY <1>a, <3>4
        <3>5. ASSUME NEW links, ticket'[s] = [ticket[s] EXCEPT !.collaborators = links]
              PROVE  /\ ticket'[s].status = ticket[s].status
                     /\ ticket'[s].assignedTo = ticket[s].assignedTo
                     /\ ticket'[s].priority = ticket[s].priority
                     /\ ticket'[s].resolvedAt = ticket[s].resolvedAt
                     /\ ticket'[s].rating = ticket[s].rating
            BY <3>2, <3>5 DEF TicketRow
        <3>. QED
            BY <3>1, <3>3, <3>4, <3>5
    <2>4. \A s \in Ticket : Traced(s) /\ RowAudited(s)'
        BY <2>2, <2>3 DEF AuditInv, Traced, RowAudited, Exists, Shown
    <2>. QED
        BY <2>1, <2>4, StepAudited
<1>7. CASE RecordHistory(r) \/ Fail(r)
    <2>1. q.phase # "idle" /\ t \in Ticket /\ q.phase \in {"read", "written"}
        BY <1>7, <1>a DEF RecordHistory, Fail, Named
    <2>2. \A s \in Ticket : /\ history[s] \subseteq history'[s]
                            /\ unrecorded[s] \subseteq unrecorded'[s]
        BY <1>7, <1>a, <2>1 DEF RecordHistory, Fail, LeaveUnrecorded
    <2>3. q.phase = "written" => q.op \in history'[t] \cup unrecorded'[t]
        BY <1>7, <1>a, <2>1 DEF RecordHistory, Fail, LeaveUnrecorded
    <2>4. UNCHANGED ticket /\ req' = [req EXCEPT ![r] = Idle] /\ Idle.phase # "read"
        BY <1>7 DEF RecordHistory, Fail, Idle
    <2>5. ASSUME NEW s \in Ticket, NEW action, Accounted(s, action)
          PROVE  Accounted(s, action)'
        <3>1. CASE action \in history[s] \cup unrecorded[s]
            BY <2>2, <3>1 DEF Accounted
        <3>2. ASSUME NEW x \in Request, req[x].phase = "written",
                     req[x].id = s, req[x].op = action
              PROVE  Accounted(s, action)'
            <4>1. CASE x = r
                BY <2>3, <3>2, <4>1 DEF Accounted
            <4>2. CASE x # r
                BY <1>a, <2>4, <3>2, <4>2 DEF Accounted
            <4>. QED
                BY <4>1, <4>2
        <3>. QED
            BY <2>5, <3>1, <3>2 DEF Accounted
    <2>6. \A s \in Ticket : Traced(s) /\ RowAudited(s)'
        BY <2>4, <2>5 DEF AuditInv, Traced, RowAudited, Exists, Shown
    <2>. QED
        BY <2>4, <2>6, StepAudited
<1>. QED
    BY <1>1, <1>2, <1>3, <1>4, <1>5, <1>6, <1>7 DEF RequestStep

LEMMA RequestStartAudited ==
    ASSUME AuditInv, SafetyInv', NEW r \in Request, NEW u \in User, NEW t \in Ticket,
           RequestStart(r, u, t)
    PROVE  AuditInv'
<1>a. ticket \in [Ticket -> TicketRow] /\ req \in [Request -> RequestState]
    BY DEF AuditInv, SafetyInv, TypeInv, TypeOK
<1>r. ASSUME NEW op, NEW q, q.id = t, Read(r, u, t, op),
             req' = [req EXCEPT ![r] = q], Vouched(q)
      PROVE  AuditInv'
    <2>1. req[r].phase # "written"
        BY <1>r DEF Read, Idle
    <2>2. \A s, action : Accounted(s, action) => Accounted(s, action)'
        BY <1>r, <2>1, AccountedStays DEF Read
    <2>3. UNCHANGED ticket
        BY <1>r DEF Read
    <2>4. \A s \in Ticket : Traced(s) /\ RowAudited(s)'
        BY <2>2, <2>3 DEF AuditInv, Traced, RowAudited, Exists, Shown
    <2>5. Vouched(q)'
        BY <1>r, <2>2, <2>3 DEF Vouched, Exists
    <2>. QED
        BY <1>r, <2>4, <2>5, StepAudited
<1>e. ASSUME NEW op, Read(r, u, t, op)
      PROVE  /\ ticket[t].status \in Status
             /\ \A action \in Shown(ticket[t]) : Accounted(t, action)
             /\ ticket[t].status = "NEW" => ticket[t].assignedTo = Null
    BY <1>e DEF Read, Exists, AuditInv, RowAudited
<1>1. CASE Create(r, u, t)
    <2>. DEFINE row == [NoTicket("NEW") EXCEPT !.createdBy = u, !.updatedAt = "recent"]
                p == Written(Pending(u, t, "CREATED"))
    <2>1. /\ p.phase = "written" /\ p.id = t /\ p.op = "CREATED"
          /\ req[r].phase # "written"
        BY <1>1 DEF Create, Written, Pending, Idle
    <2>2. row.status = "NEW" /\ row.assignedTo = Null /\ Shown(row) = {}
        BY DEF NoTicket, Shown
    <2>3. ticket[t].status = "ABSENT" /\ ticket' = [ticket EXCEPT ![t] = row]
          /\ req' = [req EXCEPT ![r] = p] /\ UNCHANGED <<history, unrecorded>>
        BY <1>1 DEF Create
    <2>. HIDE DEF row, p
    <2>4. ticket'[t] = row /\ \A s \in Ticket \ {t} : ticket'[s] = ticket[s]
        BY <1>a, <2>3
    <2>5. \A s, action : Accounted(s, action) => Accounted(s, action)'
        BY <2>1, <2>3, AccountedStays
    <2>6. Accounted(t, "CREATED")'
        BY <1>a, <2>1, <2>3 DEF Accounted
    <2>7. Traced(t) /\ RowAudited(t)'
        BY <2>2, <2>3, <2>4, <2>6 DEF Traced, RowAudited, Exists, Status
    <2>8. ASSUME NEW s \in Ticket \ {t} PROVE Traced(s) /\ RowAudited(s)'
        BY <2>4, <2>5 DEF AuditInv, Traced, RowAudited, Exists, Shown
    <2>. QED
        BY <2>1, <2>3, <2>7, <2>8, StepAudited
<1>2. ASSUME NEW who \in User, AssignRead(r, u, t, who) PROVE AuditInv'
    <2>. DEFINE op == IF ticket[t].assignedTo # Null THEN "REASSIGNED" ELSE "ASSIGNED"
                q == [Pending(u, t, op) EXCEPT !.who = who, !.seen = ticket[t].status]
    <2>1. q.id = t /\ q.seen = ticket[t].status /\ q.op = op
        BY DEF Pending, Idle
    <2>2. Vouched(q)
        BY <1>2, <1>e, <2>1 DEF AssignRead, Vouched, Shown
    <2>. QED
        BY <1>2, <1>r, <2>1, <2>2 DEF AssignRead
<1>3. ASSUME NEW c \in Category, ClassifyRead(r, u, t, c) PROVE AuditInv'
    <2>. DEFINE q == [Pending(u, t, "CLASSIFIED") EXCEPT !.cat = c]
    <2>1. q.id = t /\ q.op = "CLASSIFIED"
        BY DEF Pending, Idle
    <2>. QED
        BY <1>3, <1>r, <2>1 DEF ClassifyRead, Vouched
<1>4. ASSUME NEW to \in Status, ChangeStatusRead(r, u, t, to) PROVE AuditInv'
    <2>. DEFINE op == IF to = "REOPENED" THEN "REOPENED" ELSE "STATUS_CHANGED"
                q == [Pending(u, t, op) EXCEPT !.to = to, !.seen = ticket[t].status]
    <2>1. q.id = t /\ q.to = to /\ q.op = op
        BY DEF Pending, Idle
    <2>2. to \notin {"NEW", "ASSIGNED"}
        BY <1>4 DEF ChangeStatusRead, CanChangeStatus, IsValidStatusTransition,
            AllowedStatusTransitions, Status
    <2>3. Vouched(q)
        BY <2>1, <2>2 DEF Vouched
    <2>. QED
        BY <1>4, <1>r, <2>1, <2>3 DEF ChangeStatusRead
<1>5. ASSUME NEW op \in {"RATED", "TAGGED"},
             Read(r, u, t, op), req' = [req EXCEPT ![r] = Pending(u, t, op)]
      PROVE  AuditInv'
    <2>1. Pending(u, t, op).id = t /\ Pending(u, t, op).op = op
        BY DEF Pending, Idle
    <2>. QED
        BY <1>5, <1>r, <2>1 DEF Vouched
<1>6. ASSUME NEW op \in {"COLLABORATOR_ADDED", "COLLABORATOR_REMOVED"},
             NEW who \in User, Read(r, u, t, op),
             req' = [req EXCEPT ![r] = [Pending(u, t, op) EXCEPT !.who = who]]
      PROVE  AuditInv'
    <2>. DEFINE q == [Pending(u, t, op) EXCEPT !.who = who]
    <2>1. q.id = t /\ q.op = op
        BY DEF Pending, Idle
    <2>. QED
        BY <1>6, <1>r, <2>1 DEF Vouched
<1>. QED
    BY <1>1, <1>2, <1>3, <1>4, <1>5, <1>6
    DEF RequestStart, RateRead, TagRead, AddCollaboratorRead, RemoveCollaboratorRead

\* What is done to the tables without a request, ...
LEMMA TableAudited ==
    ASSUME AuditInv, SafetyInv', UNCHANGED req,
           \A s \in Ticket : Traced(s) /\ RowAudited(s)'
    PROVE  AuditInv'
<1>1. ASSUME NEW s \in Request, req[s].phase = "read" PROVE Vouched(req[s])'
    <2>1. PICK q : q = req[s]
        OBVIOUS
    <2>2. q.id \in Ticket /\ Pledge(q) /\ Vouched(q)
        BY <1>1, <2>1 DEF AuditInv, SafetyInv, TypeInv, Named
    <2>3. Vouched(q)'
        BY <2>2, VouchedTraced
    <2>. QED
        BY <2>1, <2>3 DEF Vouched, Exists, Accounted
<1>. QED
    BY <1>1 DEF AuditInv

\* ... in particular when it changes nothing that the history should tell.
LEMMA UntoldAudited ==
    ASSUME AuditInv, SafetyInv', UNCHANGED <<req, history, unrecorded>>,
           \A s \in Ticket :
              /\ Shown(ticket'[s]) = Shown(ticket[s])
              /\ ticket'[s].status = ticket[s].status
              /\ \/ ticket'[s].assignedTo = ticket[s].assignedTo
                 \/ ticket'[s].assignedTo = Null
    PROVE  AuditInv'
<1>1. \A s, action : Accounted(s, action) => Accounted(s, action)'
    BY DEF Accounted
<1>2. \A s \in Ticket : Traced(s) /\ RowAudited(s)'
    BY <1>1 DEF AuditInv, Traced, RowAudited, Exists
<1>. QED
    BY <1>2, TableAudited

LEMMA AdminStepAudited ==
    ASSUME AuditInv, SafetyInv', AdminStep
    PROVE  AuditInv'
<1>t. ticket \in [Ticket -> TicketRow] /\ history \in [Ticket -> SUBSET HistoryAction]
      /\ account \in [User -> {"active", "inactive", "removed"}]
    BY DEF AuditInv, SafetyInv, TypeInv, TypeOK
<1>1. ASSUME NEW u \in User, NEW t \in Ticket, Remove(u, t) PROVE AuditInv'
    <2>1. /\ ticket'[t].status = "DELETED"
          /\ \A s \in Ticket \ {t} : ticket'[s] = ticket[s] /\ history'[s] = history[s]
        BY <1>1, <1>t DEF Remove, NoTicket
    <2>2. Traced(t) /\ RowAudited(t)'
        BY <2>1 DEF Traced, RowAudited, Exists, Status
    <2>3. ASSUME NEW s \in Ticket \ {t} PROVE Traced(s) /\ RowAudited(s)'
        <3>1. \A action : Accounted(s, action) => Accounted(s, action)'
            BY <1>1, <2>1 DEF Remove, Accounted
        <3>. QED
            BY <2>1, <3>1 DEF AuditInv, Traced, RowAudited, Exists, Shown
    <2>. QED
        BY <1>1, TableAudited, <2>2, <2>3 DEF Remove
<1>2. ASSUME NEW u \in User, NEW t \in Ticket, NEW mark \in BOOLEAN,
             SetArchived(u, t, mark)
      PROVE  AuditInv'
    <2>1. ASSUME NEW s \in Ticket
          PROVE  /\ Shown(ticket'[s]) = Shown(ticket[s])
                 /\ ticket'[s].status = ticket[s].status
                 /\ ticket'[s].assignedTo = ticket[s].assignedTo
        <3>1. CASE s = t
            <4>1. ticket'[s] = [ticket[s] EXCEPT !.archivedAt = mark, !.updatedAt = "recent"]
                  /\ ticket[s] \in TicketRow
                BY <1>2, <1>t, <3>1 DEF SetArchived
            <4>. QED
                BY <4>1 DEF TicketRow, Shown
        <3>2. CASE s # t
            BY <1>2, <1>t, <3>2 DEF SetArchived
        <3>. QED
            BY <3>1, <3>2
    <2>. QED
        BY <1>2, UntoldAudited, <2>1 DEF SetArchived
<1>3. ASSUME NEW u \in User, Deactivate(u) PROVE AuditInv'
    BY <1>3, UntoldAudited DEF Deactivate
<1>4. ASSUME NEW u \in User, RemoveUser(u) PROVE AuditInv'
    <2>1. ASSUME NEW s \in Ticket
          PROVE  /\ Shown(ticket'[s]) = Shown(ticket[s])
                 /\ ticket'[s].status = ticket[s].status
                 /\ ticket'[s].assignedTo \in {ticket[s].assignedTo, Null}
        <3>1. ticket'[s] = HandedOver(ticket[s], u) /\ ticket[s] \in TicketRow
            BY <1>4, <1>t DEF RemoveUser
        <3>. QED
            BY <3>1 DEF HandedOver, TicketRow, Shown
    <2>. QED
        BY <1>4, UntoldAudited, <2>1 DEF RemoveUser
<1>5. ASSUME NEW c \in Category, UpdateCategory(c) \/ RemoveCategoryCount(c)
      PROVE  AuditInv'
    BY <1>5, UntoldAudited DEF UpdateCategory, RemoveCategoryCount
<1>6. CASE RemoveCategoryDelete
    <2>1. ASSUME NEW s \in Ticket
          PROVE  /\ Shown(ticket'[s]) = Shown(ticket[s])
                 /\ ticket'[s].status = ticket[s].status
                 /\ ticket'[s].assignedTo = ticket[s].assignedTo
        <3>1. ticket[s] \in TicketRow
            BY <1>t
        <3>. QED
            BY <1>6, <3>1 DEF RemoveCategoryDelete, TicketRow, Shown
    <2>. QED
        BY <1>6, UntoldAudited, <2>1 DEF RemoveCategoryDelete
<1>7. CASE RemoveCategoryFail
    BY <1>7, UntoldAudited DEF RemoveCategoryFail
<1>. QED
    BY <1>1, <1>2, <1>3, <1>4, <1>5, <1>6, <1>7 DEF AdminStep

LEMMA AuditStep ==
    ASSUME AuditInv, [Next]_deskVars
    PROVE  AuditInv'
<1>1. SafetyInv'
    BY SafetyStep DEF AuditInv
<1>2. CASE Next
    BY <1>1, <1>2, RequestStartAudited, RequestStepAudited, AdminStepAudited DEF Next
<1>3. CASE UNCHANGED deskVars
    BY <1>1, <1>3 DEF deskVars, AuditInv, RowAudited, Shown, Vouched, Exists,
        Accounted
<1>. QED
    BY <1>2, <1>3

LEMMA AuditInit == Init => AuditInv
<1>. SUFFICES ASSUME Init PROVE AuditInv
    OBVIOUS
<1>1. \A t \in Ticket : ~Exists(t)
    BY DEF Init, NoTicket, Exists, Status
<1>2. \A r \in Request : req[r].phase = "idle"
    BY DEF Init, Idle
<1>. QED
    BY <1>1, <1>2, SafetyInit DEF AuditInv, RowAudited

\* The audit trail is complete: every change the row of a ticket shows
\* (recordHistory in each operation of TicketsService) has its entry, or a
\* request between its update and its entry, however requests interleave and
\* wherever they fail.  A request that ended between the two statements, which
\* no transaction holds together, is the only thing that loses an entry.
THEOREM TrailComplete == Spec => []Audited
<1>1. AuditInv => Audited
    BY DEF AuditInv, RowAudited, Audited, Evidence, Shown, Accounted
<1>. QED
    BY <1>1, AuditInit, AuditStep, PTL DEF Spec

-----------------------------------------------------------------------------
(* Requests on the status of one ticket that do not overlap.  Then nobody  *)
(* writes between such a request's read and its write, so what it read is  *)
(* still the status of its ticket (or the ticket is deleted), and the      *)
(* service implements TicketLifecycle: every step of it is a step of the   *)
(* life cycle of one ticket or none.  When two of them overlap it does     *)
(* not: see the run of StatusMovesAlongMap.                                *)

Current(q) ==
    q.op \in MovesStatus =>
        q.seen \in Status /\ ticket[q.id].status \in {q.seen, "DELETED"}

CurrentInv ==
    /\ SafetyInv
    /\ \A r \in Request : req[r].phase = "read" => Current(req[r])
    /\ \A t \in Ticket : ticket[t].status = "ABSENT" => ~ticket[t].priority

\* What the life cycle sees of a ticket is left as it is.
Same(t) ==
    ticket'[t].status = ticket[t].status /\ ticket'[t].priority = ticket[t].priority

LEMMA LifecycleStutters ==
    ASSUME \A t \in Ticket : Same(t)
    PROVE  UNCHANGED Lifecycle!lifecycleVars
BY DEF Same, Lifecycle!lifecycleVars

\* The steps of the life cycle, in terms of the rows.
LEMMA LifecycleMoves ==
    ASSUME NEW t \in Ticket, \A s \in Ticket \ {t} : Same(s),
           ticket \in [Ticket -> TicketRow],
           \/ /\ ticket[t].status = "ABSENT" /\ ticket'[t].status = "NEW"
              /\ ticket'[t].priority = ticket[t].priority
           \/ /\ ticket[t].status \in Status /\ ticket'[t].status = ticket[t].status
              /\ ticket'[t].priority = TRUE
           \/ /\ ticket[t].status = "NEW" /\ ticket'[t].status = "ASSIGNED"
              /\ ticket'[t].priority = ticket[t].priority
           \/ /\ ticket'[t].status \in Status
              /\ IsValidStatusTransition(ticket[t].status, ticket'[t].status)
              /\ ticket'[t].status = "IN_PROGRESS" => ticket[t].priority
              /\ ticket'[t].priority = ticket[t].priority
           \/ /\ ticket[t].status \in Status /\ ticket'[t].status = "DELETED"
              /\ ticket'[t].priority = FALSE
    PROVE  Lifecycle!LifecycleNext
<1>1. CASE ticket[t].status = "ABSENT" /\ ticket'[t].status = "NEW"
           /\ ticket'[t].priority = ticket[t].priority
    <2>1. Lifecycle!Open(t)
        BY <1>1 DEF Lifecycle!Open, Same
    <2>. QED
        BY <2>1 DEF Lifecycle!LifecycleNext
<1>2. CASE ticket[t].status \in Status /\ ticket'[t].status = ticket[t].status
           /\ ticket'[t].priority = TRUE
    <2>1. Lifecycle!Classify(t)
        BY <1>2 DEF Lifecycle!Classify, Lifecycle!Status, Status, Same
    <2>. QED
        BY <2>1 DEF Lifecycle!LifecycleNext
<1>3. CASE ticket[t].status = "NEW" /\ ticket'[t].status = "ASSIGNED"
           /\ ticket'[t].priority = ticket[t].priority
    <2>1. Lifecycle!Assign(t)
        BY <1>3 DEF Lifecycle!Assign, Same
    <2>. QED
        BY <2>1 DEF Lifecycle!LifecycleNext
<1>4. CASE /\ ticket'[t].status \in Status
           /\ IsValidStatusTransition(ticket[t].status, ticket'[t].status)
           /\ ticket'[t].status = "IN_PROGRESS" => ticket[t].priority
           /\ ticket'[t].priority = ticket[t].priority
    <2>1. PICK to \in Status : to = ticket'[t].status
        BY <1>4
    <2>2. IsValidStatusTransition(ticket[t].status, to)
          /\ (to = "IN_PROGRESS" => ticket[t].priority)
        BY <1>4, <2>1
    <2>3. Lifecycle!IsValidStatusTransition(ticket[t].status, to)
        BY <2>2 DEF IsValidStatusTransition, AllowedStatusTransitions, Status,
            Lifecycle!IsValidStatusTransition, Lifecycle!AllowedStatusTransitions,
            Lifecycle!Status
    <2>4. Lifecycle!Move(t, to)
        BY <1>4, <2>1, <2>2, <2>3 DEF Lifecycle!Move, Same
    <2>. QED
        BY <2>1, <2>4 DEF Lifecycle!LifecycleNext, Lifecycle!Status, Status
<1>5. CASE ticket[t].status \in Status /\ ticket'[t].status = "DELETED"
           /\ ticket'[t].priority = FALSE
    <2>1. Lifecycle!Erase(t)
        BY <1>5 DEF Lifecycle!Erase, Lifecycle!Status, Status, Same
    <2>. QED
        BY <2>1 DEF Lifecycle!LifecycleNext
<1>. QED
    BY <1>1, <1>2, <1>3, <1>4, <1>5

\* What the write of a row does to the life cycles.
LEMMA WriteMoves ==
    ASSUME SafetyInv, NEW r \in Request, NEW referents \in BOOLEAN,
           NEW row \in TicketRow, req[r].phase = "read", Write(r, referents, row)
    PROVE  \/ \A s \in Ticket : Same(s)
           \/ /\ Exists(req[r].id)
              /\ \A s \in Ticket \ {req[r].id} : Same(s)
              /\ ticket'[req[r].id].status = row.status
              /\ ticket'[req[r].id].priority = row.priority
<1>1. ticket \in [Ticket -> TicketRow] /\ req[r].id \in Ticket
    BY DEF SafetyInv, TypeInv, TypeOK, Named
<1>2. CASE UNCHANGED ticket
    BY <1>2 DEF Same
<1>3. CASE Exists(req[r].id)
           /\ ticket' = [ticket EXCEPT ![req[r].id] = [row EXCEPT !.updatedAt = "recent"]]
    BY <1>1, <1>3 DEF Same, TicketRow
<1>. QED
    BY <1>2, <1>3 DEF Write

\* A request's step is a step of the life cycle of its ticket or of none.
LEMMA RequestStepRefines ==
    ASSUME CurrentInv, NEW r \in Request, RequestStep(r)
    PROVE  Lifecycle!LifecycleNext \/ \A s \in Ticket : Same(s)
<1>. DEFINE q == req[r]
            t == q.id
            old == ticket[t]
<1>a. q \in RequestState /\ Named(q) /\ ticket \in [Ticket -> TicketRow] /\ SafetyInv
    BY DEF CurrentInv, SafetyInv, TypeInv, TypeOK
<1>b. q.phase # "idle" => t \in Ticket /\ old \in TicketRow
    BY <1>a DEF Named
<1>d. q.phase = "read" => Current(q) /\ Pledge(q)
    BY DEF CurrentInv, SafetyInv
<1>1. CASE AssignWrite(r)
    <2>. DEFINE row == AssignedRow(q)
    <2>1. row \in TicketRow
        BY <1>1, <1>a, AssignedRowType DEF SafetyInv
    <2>2. /\ row.status = IF q.seen = "NEW" THEN "ASSIGNED" ELSE q.seen
          /\ row.priority = old.priority
        BY <1>1, <1>b DEF AssignWrite, AssignedRow, TicketRow
    <2>3. Exists(t) => q.seen = old.status
        BY <1>1, <1>d DEF AssignWrite, Current, MovesStatus, Exists, Status
    <2>4. Write(r, account[q.who] # "removed", row) /\ q.phase = "read"
        BY <1>1 DEF AssignWrite
    <2>. HIDE DEF row
    <2>5. \/ \A s \in Ticket : Same(s)
          \/ /\ Exists(t) /\ \A s \in Ticket \ {t} : Same(s)
             /\ ticket'[req[r].id].status = row.status
             /\ ticket'[req[r].id].priority = row.priority
        BY <1>a, <2>1, <2>4, WriteMoves
    <2>6. PICK x \in Ticket : x = req[r].id
        BY <1>b, <2>4
    <2>. QED
        BY <1>a, <2>2, <2>3, <2>5, <2>6, LifecycleMoves DEF Same
<1>2. CASE ClassifyWrite(r)
    <2>. DEFINE row == ClassifiedRow(q)
    <2>1. row \in TicketRow
        BY <1>2, <1>a, ClassifiedRowType DEF SafetyInv
    <2>2. row.status = old.status /\ row.priority = TRUE
        BY <1>2, <1>b DEF ClassifyWrite, ClassifiedRow, TicketRow
    <2>3. q.phase = "read"
          /\ Write(r, category[q.cat] # "removed" /\ account[q.user] # "removed", row)
        BY <1>2 DEF ClassifyWrite
    <2>. HIDE DEF row
    <2>4. \/ \A s \in Ticket : Same(s)
          \/ /\ Exists(t) /\ \A s \in Ticket \ {t} : Same(s)
             /\ ticket'[req[r].id].status = row.status
             /\ ticket'[req[r].id].priority = row.priority
        BY <1>a, <2>1, <2>3, WriteMoves
    <2>5. PICK x \in Ticket : x = req[r].id
        BY <1>b, <2>3
    <2>. QED
        BY <1>a, <2>2, <2>4, <2>5, LifecycleMoves DEF Exists
<1>3. CASE ChangeStatusWrite(r)
    <2>. DEFINE row == StatusRow(q)
    <2>1. row \in TicketRow
        BY <1>3, <1>a, StatusRowType DEF SafetyInv
    <2>2. row.status = q.to /\ row.priority = old.priority
        BY <1>3, <1>b DEF ChangeStatusWrite, StatusRow, TicketRow
    <2>3. Exists(t) => /\ IsValidStatusTransition(old.status, q.to)
                       /\ q.to = "IN_PROGRESS" => old.priority
        BY <1>3, <1>d DEF ChangeStatusWrite, Current, Pledge, MovesStatus, Exists, Status
    <2>4. Write(r, TRUE, row) /\ q.phase = "read" /\ q.to \in Status
        BY <1>3, <1>a DEF ChangeStatusWrite, Named
    <2>. HIDE DEF row
    <2>5. \/ \A s \in Ticket : Same(s)
          \/ /\ Exists(t) /\ \A s \in Ticket \ {t} : Same(s)
             /\ ticket'[req[r].id].status = row.status
             /\ ticket'[req[r].id].priority = row.priority
        BY <1>a, <2>1, <2>4, WriteMoves
    <2>6. PICK x \in Ticket : x = req[r].id
        BY <1>b, <2>4
    <2>. QED
        BY <1>a, <2>2, <2>3, <2>4, <2>5, <2>6, LifecycleMoves
<1>4. CASE RateWrite(r)
    <2>. DEFINE row == [old EXCEPT !.rating = TRUE]
    <2>1. row \in TicketRow /\ row.status = old.status /\ row.priority = old.priority
        BY <1>4, <1>b DEF RateWrite, TicketRow
    <2>2. Write(r, TRUE, row) /\ q.phase = "read"
        BY <1>4 DEF RateWrite
    <2>. HIDE DEF row
    <2>3. \/ \A s \in Ticket : Same(s)
          \/ /\ Exists(t) /\ \A s \in Ticket \ {t} : Same(s)
             /\ ticket'[t].status = row.status
             /\ ticket'[t].priority = row.priority
        BY <1>a, <2>1, <2>2, WriteMoves
    <2>. QED
        BY <2>1, <2>3 DEF Same
<1>5. CASE TagWrite(r)
    BY <1>5, <1>a, <1>b, WriteMoves DEF TagWrite, Same
<1>6. CASE CollaboratorWrite(r)
    <2>1. UNCHANGED ticket
          \/ \E links : ticket' = [ticket EXCEPT ![t].collaborators = links]
        BY <1>6 DEF CollaboratorWrite
    <2>2. ASSUME NEW s \in Ticket PROVE Same(s)
        <3>1. ticket[s] \in TicketRow
            BY <1>a
        <3>2. CASE s # t
            BY <1>a, <2>1, <3>2 DEF Same
        <3>3. CASE s = t
            BY <1>a, <2>1, <3>1, <3>3 DEF TicketRow, Same
        <3>. QED
            BY <3>2, <3>3
    <2>. QED
        BY <2>2
<1>7. CASE RecordHistory(r) \/ Fail(r)
    BY <1>7 DEF RecordHistory, Fail, Same
<1>. QED
    BY <1>1, <1>2, <1>3, <1>4, <1>5, <1>6, <1>7 DEF RequestStep

LEMMA RequestStartRefines ==
    ASSUME CurrentInv, NEW r \in Request, NEW u \in User, NEW t \in Ticket,
           RequestStart(r, u, t)
    PROVE  Lifecycle!LifecycleNext \/ \A s \in Ticket : Same(s)
<1>1. CASE Create(r, u, t)
    <2>1. ticket \in [Ticket -> TicketRow] /\ ~ticket[t].priority
          /\ ticket[t].priority \in BOOLEAN /\ ticket[t].status = "ABSENT"
        BY <1>1 DEF Create, CurrentInv, SafetyInv, TypeInv, TypeOK, TicketRow
    <2>2. ticket'[t].status = "NEW" /\ ticket'[t].priority = FALSE
          /\ \A s \in Ticket \ {t} : Same(s)
        BY <1>1, <2>1 DEF Create, NoTicket, Same
    <2>. QED
        BY <2>1, <2>2, LifecycleMoves
<1>2. CASE UNCHANGED ticket
    BY <1>2 DEF Same
<1>. QED
    BY <1>1, <1>2 DEF RequestStart, AssignRead, ClassifyRead, ChangeStatusRead, RateRead,
        TagRead, AddCollaboratorRead, RemoveCollaboratorRead, Read

LEMMA AdminStepRefines ==
    ASSUME CurrentInv, AdminStep
    PROVE  Lifecycle!LifecycleNext \/ \A s \in Ticket : Same(s)
<1>a. ticket \in [Ticket -> TicketRow]
    BY DEF CurrentInv, SafetyInv, TypeInv, TypeOK
<1>1. ASSUME NEW u \in User, NEW t \in Ticket, Remove(u, t)
      PROVE  Lifecycle!LifecycleNext
    <2>1. ticket'[t].status = "DELETED" /\ ticket'[t].priority = FALSE
          /\ ticket[t].status \in Status /\ \A s \in Ticket \ {t} : Same(s)
        BY <1>1, <1>a DEF Remove, NoTicket, Same, Exists
    <2>. QED
        BY <1>a, <2>1, LifecycleMoves
<1>2. ASSUME NEW u \in User, NEW t \in Ticket, NEW mark \in BOOLEAN,
             SetArchived(u, t, mark), NEW s \in Ticket
      PROVE  Same(s)
    <2>1. ticket[t] \in TicketRow
        BY <1>a
    <2>. QED
        BY <1>2, <1>a, <2>1 DEF SetArchived, Same, TicketRow
<1>3. ASSUME NEW u \in User, RemoveUser(u), NEW s \in Ticket PROVE Same(s)
    <2>1. ticket[s] \in TicketRow
        BY <1>a
    <2>. QED
        BY <1>3, <2>1 DEF RemoveUser, HandedOver, Same, TicketRow
<1>4. ASSUME RemoveCategoryDelete, NEW s \in Ticket PROVE Same(s)
    <2>1. ticket[s] \in TicketRow
        BY <1>a
    <2>. QED
        BY <1>4, <2>1 DEF RemoveCategoryDelete, Same, TicketRow
<1>5. CASE UNCHANGED ticket
    BY <1>5 DEF Same
<1>. QED
    BY <1>1, <1>2, <1>3, <1>4, <1>5
    DEF AdminStep, Deactivate, UpdateCategory, RemoveCategoryCount, RemoveCategoryFail

\* Only the write of an operation that moves the status changes a status, and
\* only that of its ticket.
LEMMA StatusKept ==
    ASSUME CurrentInv, NEW r \in Request, RequestStep(r), NEW s \in Ticket
    PROVE  \/ ticket'[s].status = ticket[s].status
           \/ req[r].phase = "read" /\ req[r].op \in MovesStatus /\ req[r].id = s
<1>. DEFINE q == req[r]
            old == ticket[q.id]
<1>a. q \in RequestState /\ Named(q) /\ ticket \in [Ticket -> TicketRow] /\ SafetyInv
    BY DEF CurrentInv, SafetyInv, TypeInv, TypeOK
<1>b. q.phase # "idle" => q.id \in Ticket /\ old \in TicketRow
    BY <1>a DEF Named
<1>c. ASSUME NEW referents \in BOOLEAN, NEW row \in TicketRow, row.status = old.status,
             q.phase = "read", Write(r, referents, row)
      PROVE  ticket'[s].status = ticket[s].status
    BY <1>a, <1>c, WriteMoves DEF Same
<1>1. CASE AssignWrite(r)
    <2>. DEFINE row == AssignedRow(q)
    <2>1. row \in TicketRow
        BY <1>1, <1>a, AssignedRowType DEF SafetyInv
    <2>2. Write(r, account[q.who] # "removed", row) /\ q.phase = "read" /\ q.op \in MovesStatus
        BY <1>1 DEF AssignWrite, MovesStatus
    <2>. HIDE DEF row
    <2>. QED
        BY <1>a, <2>1, <2>2, WriteMoves DEF Same
<1>2. CASE ClassifyWrite(r)
    <2>. DEFINE row == ClassifiedRow(q)
    <2>1. row \in TicketRow
        BY <1>2, <1>a, ClassifiedRowType DEF SafetyInv
    <2>3. row.status = old.status
        BY <1>2, <1>b DEF ClassifyWrite, ClassifiedRow, TicketRow
    <2>2. q.phase = "read"
          /\ Write(r, category[q.cat] # "removed" /\ account[q.user] # "removed", row)
        BY <1>2 DEF ClassifyWrite
    <2>. HIDE DEF row
    <2>. QED
        BY <1>c, <2>1, <2>2, <2>3
<1>3. CASE ChangeStatusWrite(r)
    <2>. DEFINE row == StatusRow(q)
    <2>1. row \in TicketRow
        BY <1>3, <1>a, StatusRowType DEF SafetyInv
    <2>2. Write(r, TRUE, row) /\ q.phase = "read" /\ q.op \in MovesStatus
        BY <1>3 DEF ChangeStatusWrite, MovesStatus
    <2>. HIDE DEF row
    <2>. QED
        BY <1>a, <2>1, <2>2, WriteMoves DEF Same
<1>4. CASE RateWrite(r)
    <2>1. [old EXCEPT !.rating = TRUE] \in TicketRow
          /\ [old EXCEPT !.rating = TRUE].status = old.status
        BY <1>4, <1>b DEF RateWrite, TicketRow
    <2>. QED
        BY <1>4, <1>c, <2>1 DEF RateWrite
<1>5. CASE TagWrite(r)
    BY <1>5, <1>b, <1>c DEF TagWrite
<1>6. CASE CollaboratorWrite(r)
    <2>1. UNCHANGED ticket
          \/ \E links : ticket' = [ticket EXCEPT ![q.id].collaborators = links]
        BY <1>6 DEF CollaboratorWrite
    <2>2. ticket[s] \in TicketRow
        BY <1>a
    <2>3. CASE s # q.id
        BY <1>a, <2>1, <2>3
    <2>4. CASE s = q.id
        BY <1>a, <2>1, <2>2, <2>4 DEF TicketRow
    <2>. QED
        BY <2>3, <2>4
<1>7. CASE RecordHistory(r) \/ Fail(r)
    BY <1>7 DEF RecordHistory, Fail
<1>. QED
    BY <1>1, <1>2, <1>3, <1>4, <1>5, <1>6, <1>7 DEF RequestStep

\* An administrator changes no status but by deleting the ticket.
LEMMA AdminStatus ==
    ASSUME CurrentInv, AdminStep, NEW s \in Ticket
    PROVE  UNCHANGED req /\ ticket'[s].status \in {ticket[s].status, "DELETED"}
<1>t. ticket \in [Ticket -> TicketRow] /\ ticket[s] \in TicketRow
    BY DEF CurrentInv, SafetyInv, TypeInv, TypeOK
<1>1. UNCHANGED req
    BY DEF AdminStep, Remove, SetArchived, Deactivate, RemoveUser, UpdateCategory,
        RemoveCategoryCount, RemoveCategoryDelete, RemoveCategoryFail
<1>2. ASSUME NEW u \in User, NEW t \in Ticket, Remove(u, t)
      PROVE  ticket'[s].status \in {ticket[s].status, "DELETED"}
    BY <1>t, <1>2 DEF Remove, NoTicket
<1>3. ASSUME NEW u \in User, NEW t \in Ticket, NEW mark \in BOOLEAN, SetArchived(u, t, mark)
      PROVE  ticket'[s].status = ticket[s].status
    <2>1. ticket[t] \in TicketRow
        BY <1>t
    <2>. QED
        BY <1>t, <1>3, <2>1 DEF SetArchived, TicketRow
<1>4. ASSUME NEW u \in User, RemoveUser(u)
      PROVE  ticket'[s].status = ticket[s].status
    BY <1>t, <1>4 DEF RemoveUser, HandedOver, TicketRow
<1>5. ASSUME RemoveCategoryDelete
      PROVE  ticket'[s].status = ticket[s].status
    BY <1>t, <1>5 DEF RemoveCategoryDelete, TicketRow
<1>. QED
    BY <1>1, <1>2, <1>3, <1>4, <1>5
    DEF AdminStep, Deactivate, UpdateCategory, RemoveCategoryCount, RemoveCategoryFail

\* What a request has read when it starts is current.
LEMMA StartCurrent ==
    ASSUME CurrentInv, NEW r \in Request, NEW u \in User, NEW t \in Ticket,
           RequestStart(r, u, t), req'[r].phase = "read"
    PROVE  Current(req[r])'
<1>t. req \in [Request -> RequestState] /\ ticket \in [Ticket -> TicketRow]
    BY DEF CurrentInv, SafetyInv, TypeInv, TypeOK
<1>1. CASE Create(r, u, t)
    BY <1>t, <1>1 DEF Create, Written, Idle
<1>2. ASSUME NEW who \in User, AssignRead(r, u, t, who)
      PROVE  Current(req[r])'
    <2>1. req'[r].id = t /\ req'[r].seen = ticket[t].status /\ UNCHANGED ticket /\ Exists(t)
        BY <1>t, <1>2 DEF AssignRead, Read, Pending, Idle
    <2>. QED
        BY <2>1 DEF Current, Exists
<1>3. ASSUME NEW to \in Status, ChangeStatusRead(r, u, t, to)
      PROVE  Current(req[r])'
    <2>1. req'[r].id = t /\ req'[r].seen = ticket[t].status /\ UNCHANGED ticket /\ Exists(t)
        BY <1>t, <1>3 DEF ChangeStatusRead, Read, Pending, Idle
    <2>. QED
        BY <2>1 DEF Current, Exists
<1>4. ASSUME NEW c \in Category, ClassifyRead(r, u, t, c)
      PROVE  req'[r].op = "CLASSIFIED"
    BY <1>t, <1>4 DEF ClassifyRead, Read, Pending, Idle
<1>5. ASSUME RateRead(r, u, t) \/ TagRead(r, u, t)
      PROVE  req'[r].op = "RATED" \/ req'[r].op = "TAGGED"
    BY <1>t, <1>5 DEF RateRead, TagRead, Read, Pending, Idle
<1>6. ASSUME NEW who \in User,
             AddCollaboratorRead(r, u, t, who) \/ RemoveCollaboratorRead(r, u, t, who)
      PROVE  req'[r].op = "COLLABORATOR_ADDED" \/ req'[r].op = "COLLABORATOR_REMOVED"
    BY <1>t, <1>6 DEF AddCollaboratorRead, RemoveCollaboratorRead, Read, Pending, Idle
<1>7. req'[r].op \notin MovesStatus => Current(req[r])'
    BY DEF Current
<1>8. \A op \in {"CLASSIFIED", "RATED", "TAGGED", "COLLABORATOR_ADDED", "COLLABORATOR_REMOVED"} :
         op \notin MovesStatus
    BY DEF MovesStatus
<1>. QED
    BY <1>1, <1>2, <1>3, <1>4, <1>5, <1>6, <1>7, <1>8 DEF RequestStart

\* What one request has read the others leave as it is, if it matters to it.
LEMMA OthersLeave ==
    ASSUME NoOverlap, CurrentInv, NEW r \in Request, req[r].phase = "read", UNCHANGED req[r],
           req[r].op \in MovesStatus,
           \/ \E x \in Request \ {r} : RequestStep(x)
           \/ \E x \in Request \ {r}, u \in User, t \in Ticket : RequestStart(x, u, t)
    PROVE  ticket'[req[r].id].status = ticket[req[r].id].status
<1>1. req[r].id \in Ticket /\ Current(req[r]) /\ ticket \in [Ticket -> TicketRow]
    BY DEF CurrentInv, SafetyInv, TypeInv, TypeOK, Named
<1>2. CASE \E x \in Request \ {r} : RequestStep(x)
    BY <1>1, <1>2, StatusKept DEF NoOverlap
<1>3. ASSUME NEW x \in Request, NEW u \in User, NEW t \in Ticket, RequestStart(x, u, t)
      PROVE  ticket'[req[r].id].status = ticket[req[r].id].status
    <2>1. CASE Create(x, u, t)
        <3>1. req[r].id # t
            BY <1>1, <2>1 DEF Create, Current, Status
        <3>. QED
            BY <1>1, <2>1, <3>1 DEF Create
    <2>2. CASE UNCHANGED ticket
        BY <2>2
    <2>. QED
        BY <1>3, <2>1, <2>2
        DEF RequestStart, AssignRead, ClassifyRead, ChangeStatusRead, RateRead, TagRead,
            AddCollaboratorRead, RemoveCollaboratorRead, Read
<1>. QED
    BY <1>2, <1>3

\* A request changes its own entry only.
LEMMA OneEntry ==
    ASSUME CurrentInv, NEW x \in Request,
           RequestStep(x) \/ \E u \in User, t \in Ticket : RequestStart(x, u, t)
    PROVE  \A r \in Request \ {x} : req'[r] = req[r]
<1>1. req \in [Request -> RequestState]
    BY DEF CurrentInv, SafetyInv, TypeInv, TypeOK
<1>2. CASE RequestStep(x)
    BY <1>1, <1>2 DEF RequestStep, AssignWrite, ClassifyWrite, ChangeStatusWrite, RateWrite,
        TagWrite, CollaboratorWrite, RecordHistory, Fail, Write
<1>3. ASSUME NEW u \in User, NEW t \in Ticket, RequestStart(x, u, t)
      PROVE  \A r \in Request \ {x} : req'[r] = req[r]
    BY <1>1, <1>3 DEF RequestStart, Create, AssignRead, ClassifyRead, ChangeStatusRead,
        RateRead, TagRead, AddCollaboratorRead, RemoveCollaboratorRead
<1>. QED
    BY <1>2, <1>3

\* What a request has read stays current.
LEMMA CurrentStep ==
    ASSUME NoOverlap, CurrentInv, [Next]_deskVars
    PROVE  CurrentInv'
<1>. SafetyInv' /\ SafetyInv
    BY SafetyStep DEF CurrentInv
<1>t. /\ ticket \in [Ticket -> TicketRow] /\ req \in [Request -> RequestState]
      /\ ticket' \in [Ticket -> TicketRow]
    BY DEF SafetyInv, TypeInv, TypeOK
<1>a. ASSUME NEW t \in Ticket, ticket'[t].status = "ABSENT" PROVE ~ticket'[t].priority
    <2>1. Lifecycle!LifecycleNext \/ \A s \in Ticket : Same(s)
        <3>1. CASE Next
            BY <3>1, RequestStepRefines, RequestStartRefines, AdminStepRefines DEF Next
        <3>2. CASE UNCHANGED deskVars
            BY <3>2 DEF deskVars, Same
        <3>. QED
            BY <3>1, <3>2
    <2>2. CASE \A s \in Ticket : Same(s)
        BY <1>a, <2>2 DEF Same, CurrentInv
    <2>3. CASE Lifecycle!LifecycleNext
        <3>1. ticket'[t].status = ticket[t].status /\ ticket'[t].priority = ticket[t].priority
            BY <1>a, <1>t, <2>3 DEF Lifecycle!LifecycleNext, Lifecycle!Open, Lifecycle!Classify,
                Lifecycle!Assign, Lifecycle!Move, Lifecycle!Erase, Lifecycle!Status
        <3>. QED
            BY <1>a, <3>1 DEF CurrentInv
    <2>. QED
        BY <2>1, <2>2, <2>3
<1>b. ASSUME NEW r \in Request, req'[r].phase = "read" PROVE Current(req[r])'
    <2>1. ASSUME UNCHANGED req[r],
                 req[r].op \in MovesStatus =>
                    ticket'[req[r].id].status \in {ticket[req[r].id].status, "DELETED"}
          PROVE  Current(req[r])'
        BY <1>b, <2>1 DEF CurrentInv, Current
    <2>2. ASSUME NEW x \in Request, RequestStep(x) PROVE Current(req[r])'
        <3>1. CASE x = r
            <4>1. req'[r] = Idle \/ req'[r] = Written(req[r])
                BY <1>t, <2>2, <3>1 DEF RequestStep, AssignWrite, ClassifyWrite,
                    ChangeStatusWrite, RateWrite, TagWrite, CollaboratorWrite, RecordHistory,
                    Fail, Write
            <4>2. Idle.phase = "idle" /\ Written(req[r]).phase = "written"
                BY DEF Idle, Written
            <4>. QED
                BY <1>b, <4>1, <4>2
        <3>2. CASE x # r
            <4>1. UNCHANGED req[r]
                BY <2>2, <3>2, OneEntry
            <4>. QED
                BY <1>b, <2>1, <2>2, <3>2, <4>1, OthersLeave
        <3>. QED
            BY <3>1, <3>2
    <2>3. ASSUME NEW x \in Request, NEW u \in User, NEW t \in Ticket, RequestStart(x, u, t)
          PROVE Current(req[r])'
        <3>1. CASE x = r
            BY <1>b, <2>3, <3>1, StartCurrent
        <3>2. CASE x # r
            <4>1. UNCHANGED req[r]
                BY <2>3, <3>2, OneEntry
            <4>. QED
                BY <1>b, <2>1, <2>3, <3>2, <4>1, OthersLeave
        <3>. QED
            BY <3>1, <3>2
    <2>4. CASE AdminStep
        <3>1. UNCHANGED req
            BY <2>4 DEF AdminStep, Remove, SetArchived, Deactivate, RemoveUser, UpdateCategory,
                RemoveCategoryCount, RemoveCategoryDelete, RemoveCategoryFail
        <3>2. req[r].id \in Ticket
            BY <1>b, <3>1 DEF SafetyInv, TypeInv, Named
        <3>. QED
            BY <2>1, <2>4, <3>1, <3>2, AdminStatus
    <2>5. CASE UNCHANGED deskVars
        BY <2>1, <2>5 DEF deskVars
    <2>. QED
        BY <2>2, <2>3, <2>4, <2>5 DEF Next
<1>. QED
    BY <1>a, <1>b DEF CurrentInv

LEMMA CurrentInit == Init => CurrentInv
<1>. SUFFICES ASSUME Init PROVE CurrentInv
    OBVIOUS
<1>1. \A r \in Request : req[r].phase = "idle"
    BY DEF Init, Idle
<1>2. \A t \in Ticket : ~ticket[t].priority
    BY DEF Init, NoTicket
<1>. QED
    BY <1>1, <1>2, SafetyInit DEF CurrentInv

\* Every step of the service is a step of the life cycle, or leaves it alone.
LEMMA StepRefines ==
    ASSUME CurrentInv, [Next]_deskVars
    PROVE  [Lifecycle!LifecycleNext]_(Lifecycle!lifecycleVars)
<1>1. CASE Next
    BY <1>1, RequestStepRefines, RequestStartRefines, AdminStepRefines,
       LifecycleStutters DEF Next
<1>2. CASE UNCHANGED deskVars
    BY <1>2 DEF deskVars, Lifecycle!lifecycleVars
<1>. QED
    BY <1>1, <1>2

\* As long as no two requests that move the status of one ticket overlap, the
\* service (its three-step operations, everything else that goes on at the same
\* time, the removals of accounts and categories) implements TicketLifecycle.
THEOREM ApartImplements == Spec /\ []NoOverlap => ImplementsLifecycle
<1>1. Init => Lifecycle!LifecycleInit
    BY DEF Init, NoTicket, Lifecycle!LifecycleInit
<1>2. NoOverlap /\ CurrentInv /\ [Next]_deskVars => CurrentInv'
    BY CurrentStep
<1>3. CurrentInv /\ [Next]_deskVars => [Lifecycle!LifecycleNext]_(Lifecycle!lifecycleVars)
    BY StepRefines
<1>. QED
    BY <1>1, <1>2, <1>3, CurrentInit, PTL DEF Spec, ImplementsLifecycle, Lifecycle!Spec

\* ... so that a status changes only along the map of transitions, which two
\* overlapping requests may leave.
THEOREM ApartFollowsMap == Spec /\ []NoOverlap => StatusMovesAlongMap
<1>1. CurrentInv /\ [Next]_deskVars =>
        [\A t \in Ticket :
            LET from == ticket[t].status
                to   == ticket'[t].status
            IN  \/ to \in {from, "DELETED"}
                \/ <<from, to>> \in {<<"ABSENT", "NEW">>, <<"NEW", "ASSIGNED">>}
                \/ IsValidStatusTransition(from, to)]_deskVars
    <2>. SUFFICES ASSUME CurrentInv, [Next]_deskVars, NEW t \in Ticket
                  PROVE  LET from == ticket[t].status
                             to   == ticket'[t].status
                         IN  \/ to \in {from, "DELETED"}
                             \/ <<from, to>> \in {<<"ABSENT", "NEW">>, <<"NEW", "ASSIGNED">>}
                             \/ IsValidStatusTransition(from, to)
        OBVIOUS
    <2>1. CASE Lifecycle!LifecycleNext
        BY <2>1 DEF Lifecycle!LifecycleNext, Lifecycle!Open, Lifecycle!Classify,
            Lifecycle!Assign, Lifecycle!Move, Lifecycle!Erase, Lifecycle!Status,
            Lifecycle!IsValidStatusTransition, Lifecycle!AllowedStatusTransitions,
            IsValidStatusTransition, AllowedStatusTransitions, Status
    <2>2. CASE UNCHANGED Lifecycle!lifecycleVars
        BY <2>2 DEF Lifecycle!lifecycleVars
    <2>. QED
        BY <2>1, <2>2, StepRefines
<1>2. NoOverlap /\ CurrentInv /\ [Next]_deskVars => CurrentInv'
    BY CurrentStep
<1>. QED
    BY <1>1, <1>2, CurrentInit, PTL DEF Spec, StatusMovesAlongMap

\* Asked one request at a time it does so without a condition.
OneRequest == \A r, s \in Request : r = s
THEOREM OneAtATimeImplements == OneRequest => (Spec => ImplementsLifecycle)
<1>. SUFFICES ASSUME OneRequest PROVE Spec => ImplementsLifecycle
    OBVIOUS
<1>1. NoOverlap
    BY DEF OneRequest, NoOverlap
<1>. QED
    BY <1>1, ApartImplements, PTL

=============================================================================
