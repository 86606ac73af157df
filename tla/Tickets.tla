------------------------------- MODULE Tickets -------------------------------
(***************************************************************************)
(* The ticket service: TicketsService, the ticket controller's guards, the *)
(* category catalogue and the account removals that touch tickets.         *)
(*                                                                         *)
(* The service runs in one Node process over PostgreSQL, reads without     *)
(* locks and writes rows by id.  Every await is a point where another      *)
(* request may run, so an operation is a request that goes through three   *)
(* steps: it READS the ticket and checks its preconditions, it WRITES the  *)
(* row, it RECORDS the history entry (the event is emitted in that same    *)
(* turn).  Between two steps any other request may take its own.           *)
(***************************************************************************)
EXTENDS TicketPolicy

CONSTANTS
    Ticket,     \* ticket ids that may ever be used
    Category,   \* categories of the catalogue
    Request,    \* how many client requests may be in flight at once
    Master,     \* accounts with isMaster: they cannot be removed
    Sentinel,   \* the "deleted user" account rows are handed over to
    Enabled     \* the operations issued in this instance: a bound of the model

ASSUME SentinelAssumption == Sentinel \notin User /\ Sentinel # Null
ASSUME CategoryAssumption == Null \notin Category
ASSUME RequestAssumption == Null \notin Ticket

VARIABLES
    ticket,     \* the Ticket table
    history,    \* history[t]: actions of t's TicketHistory rows
    unrecorded, \* of each ticket, the writes whose entry was never inserted
                \* (history variable)
    account,    \* the User table: what it says of each account
    category,   \* the Category table
    dropping,   \* a category counted as unused, about to be deleted, or Null
    req         \* the requests in flight

deskVars == <<ticket, history, unrecorded, account, category, dropping, req>>

-----------------------------------------------------------------------------
(* Rows and requests *)

HistoryAction ==
    {"CREATED", "ASSIGNED", "REASSIGNED", "CLASSIFIED", "STATUS_CHANGED",
     "REOPENED", "RATED", "COLLABORATOR_ADDED", "COLLABORATOR_REMOVED",
     "TAGGED", "NONE"}

\* A deadline or a moment is kept as what the code asks of it: is it there,
\* and (for a deadline) has it passed, (for a moment) is it past the cutoff.
Deadline == {"none", "ahead", "past"}
Moment   == {"none", "recent", "old"}

TicketRow ==
    [status : Status \cup {"ABSENT", "DELETED"},
     createdBy : User \cup {Null, Sentinel}, assignedTo : User \cup {Null},
     collaborators : SUBSET User,
     categoryId : Category \cup {Null}, priority : BOOLEAN,
     responseDueAt : Deadline, resolutionDueAt : Deadline,
     firstRespondedAt : BOOLEAN, resolvedAt : BOOLEAN,
     closedAt : Moment, updatedAt : Moment,
     isResponseBreached : BOOLEAN, isResolutionBreached : BOOLEAN,
     rating : BOOLEAN, archivedAt : BOOLEAN]

NoTicket(status) ==
    [status |-> status, createdBy |-> Null, assignedTo |-> Null,
     collaborators |-> {}, categoryId |-> Null, priority |-> FALSE,
     responseDueAt |-> "none", resolutionDueAt |-> "none",
     firstRespondedAt |-> FALSE, resolvedAt |-> FALSE,
     closedAt |-> "none", updatedAt |-> "none",
     isResponseBreached |-> FALSE, isResolutionBreached |-> FALSE,
     rating |-> FALSE, archivedAt |-> FALSE]

\* who, to and cat are the arguments of the operation; seen is the status the
\* request read, kept by the operations whose write depends on it.
RequestState ==
    [phase : {"idle", "read", "written"}, op : HistoryAction,
     user : User \cup {Null}, id : Ticket \cup {Null},
     seen : Status \cup {"ABSENT"}, who : User \cup {Null},
     to : Status \cup {"ABSENT"}, cat : Category \cup {Null}]

Idle ==
    [phase |-> "idle", op |-> "NONE", user |-> Null, id |-> Null,
     seen |-> "ABSENT", who |-> Null, to |-> "ABSENT", cat |-> Null]

TypeOK ==
    /\ ticket \in [Ticket -> TicketRow]
    /\ history \in [Ticket -> SUBSET HistoryAction]
    /\ unrecorded \in [Ticket -> SUBSET HistoryAction]
    /\ account \in [User -> {"active", "inactive", "removed"}]
    /\ category \in [Category -> {"active", "inactive", "removed"}]
    /\ dropping \in Category \cup {Null}
    /\ req \in [Request -> RequestState]

Init ==
    /\ ticket = [t \in Ticket |-> NoTicket("ABSENT")]
    /\ history = [t \in Ticket |-> {}]
    /\ unrecorded = [t \in Ticket |-> {}]
    /\ account = [u \in User |-> "active"]
    /\ category = [c \in Category |-> "active"]
    /\ dropping = Null
    /\ req = [r \in Request |-> Idle]

Exists(t) == ticket[t].status \in Status

-----------------------------------------------------------------------------
(* The three steps of a request *)

Read(r, u, t, op) ==
    /\ op \in Enabled
    /\ req[r] = Idle
    /\ Exists(t)
    /\ UNCHANGED <<ticket, history, unrecorded, account, category, dropping>>

\* A client's request whose preconditions held on the row as it is now.
Pending(u, t, op) ==
    [Idle EXCEPT !.phase = "read", !.op = op, !.user = u, !.id = t]

\* What is left of a request once its write is done.
Written(q) ==
    [Idle EXCEPT !.phase = "written", !.op = q.op, !.user = q.user, !.id = q.id]

\* prisma.ticket.update: the write succeeds if the row and what it refers to
\* are still there, and otherwise throws, which ends the request.
Write(r, referents, row) ==
    /\ \/ /\ Exists(req[r].id) /\ referents
          /\ ticket' = [ticket EXCEPT ![req[r].id] =
                            [row EXCEPT !.updatedAt = "recent"]]
          /\ req' = [req EXCEPT ![r] = Written(@)]
       \/ /\ ~(Exists(req[r].id) /\ referents)
          /\ req' = [req EXCEPT ![r] = Idle]
          /\ UNCHANGED ticket
    /\ UNCHANGED <<history, unrecorded, account, category, dropping>>

\* The request ends after its write and without its entry.
LeaveUnrecorded(q) == unrecorded' = [unrecorded EXCEPT ![q.id] = @ \cup {q.op}]

\* Slip: the entry replaces the ones before it.
RecordLastOnly(r) ==
    LET q == req[r] IN
    /\ q.phase = "written"
    /\ history' = [history EXCEPT ![q.id] = {q.op}]
    /\ req' = [req EXCEPT ![r] = Idle]
    /\ UNCHANGED <<ticket, unrecorded, account, category, dropping>>

\* The history row refers to the ticket and to the actor: if either is gone
\* the insert throws, and the write of the step before stays unrecorded.
RecordHistory(r) ==
    LET q == req[r] IN
    /\ q.phase = "written"
    /\ \/ /\ Exists(q.id) /\ account[q.user] # "removed"
          /\ history' = [history EXCEPT ![q.id] = @ \cup {q.op}]
          /\ UNCHANGED unrecorded
       \/ /\ ~(Exists(q.id) /\ account[q.user] # "removed")
          /\ LeaveUnrecorded(q)
          /\ UNCHANGED history
    /\ req' = [req EXCEPT ![r] = Idle]
    /\ UNCHANGED <<ticket, account, category, dropping>>

\* A statement of the request throws (the connection is lost, it times out), or
\* the process stops, which is this step for every request in flight: what was
\* written stays, no transaction holds the row and its entry together.
Fail(r) ==
    LET q == req[r] IN
    /\ "FAIL" \in Enabled
    /\ \/ q.phase = "read" /\ UNCHANGED unrecorded
       \/ q.phase = "written" /\ LeaveUnrecorded(q)
    /\ req' = [req EXCEPT ![r] = Idle]
    /\ UNCHANGED <<ticket, history, account, category, dropping>>

-----------------------------------------------------------------------------
(* Creating and deleting a ticket *)

Create(r, u, t) ==
    /\ "CREATED" \in Enabled
    /\ req[r] = Idle
    /\ ticket[t].status = "ABSENT"
    /\ account[u] # "removed"
    /\ ticket' = [ticket EXCEPT ![t] =
                    [NoTicket("NEW") EXCEPT !.createdBy = u,
                                            !.updatedAt = "recent"]]
    /\ req' = [req EXCEPT ![r] = Written(Pending(u, t, "CREATED"))]
    /\ UNCHANGED <<history, unrecorded, account, category, dropping>>

\* Comments, attachments, history and links go with the row.
Remove(u, t) ==
    /\ "DELETED" \in Enabled
    /\ Role[u] = "ADMIN"
    /\ Exists(t)
    /\ ticket' = [ticket EXCEPT ![t] = NoTicket("DELETED")]
    /\ history' = [history EXCEPT ![t] = {}]
    /\ UNCHANGED <<unrecorded, account, category, dropping, req>>

-----------------------------------------------------------------------------
(* Assigning an executor *)

AssignRead(r, u, t, who) ==
    LET op == IF ticket[t].assignedTo # Null THEN "REASSIGNED" ELSE "ASSIGNED"
    IN
    /\ Read(r, u, t, "ASSIGNED")
    /\ \/ CanAssignAnyone(u) /\ account[who] = "active" /\ IsStaffRole(who)
       \/ who = u /\ CanSelfAssign(u, ticket[t])
    /\ req' = [req EXCEPT ![r] = [Pending(u, t, op) EXCEPT
                    !.who = who, !.seen = ticket[t].status]]

\* The status is written too: the one that was READ, unless it was NEW.
\* (AlwaysAssignedRow, and every operator whose comment starts with "Slip", is
\* not the code: it is a mistake the properties are shown to catch.)

\* Slip: an executor always makes the ticket ASSIGNED.
AlwaysAssignedRow(q) ==
    [ticket[q.id] EXCEPT !.assignedTo = q.who, !.status = "ASSIGNED"]

AssignedRow(q) ==
    [ticket[q.id] EXCEPT
        !.assignedTo = q.who,
        !.status = IF q.seen = "NEW" THEN "ASSIGNED" ELSE q.seen]

AssignWrite(r) ==
    /\ req[r].phase = "read" /\ req[r].op \in {"ASSIGNED", "REASSIGNED"}
    /\ Write(r, account[req[r].who] # "removed", AssignedRow(req[r]))

-----------------------------------------------------------------------------
(* Classifying: the category, the priority and the deadlines they give *)

ClassifyRead(r, u, t, c) ==
    /\ Read(r, u, t, "CLASSIFIED")
    /\ CanClassify(u, ticket[t])
    /\ category[c] = "active"
    /\ req' = [req EXCEPT ![r] = [Pending(u, t, "CLASSIFIED") EXCEPT !.cat = c]]

ClassifiedRow(q) ==
    [ticket[q.id] EXCEPT !.categoryId = q.cat, !.priority = TRUE,
                         !.responseDueAt = "ahead",
                         !.resolutionDueAt = "ahead"]

ClassifyWrite(r) ==
    /\ req[r].phase = "read" /\ req[r].op = "CLASSIFIED"
    /\ Write(r, category[req[r].cat] # "removed" /\ account[req[r].user] # "removed",
             ClassifiedRow(req[r]))

-----------------------------------------------------------------------------
(* Changing the status *)

\* Slip: work starts without the check.
Unchecked(row) == TRUE

IsClassified(row) == row.categoryId # Null /\ row.priority

ChangeStatusRead(r, u, t, to) ==
    LET op == IF to = "REOPENED" THEN "REOPENED" ELSE "STATUS_CHANGED" IN
    /\ Read(r, u, t, "STATUS_CHANGED")
    /\ CanChangeStatus(u, ticket[t], to)
    /\ to = "IN_PROGRESS" => IsClassified(ticket[t])
    /\ req' = [req EXCEPT ![r] = [Pending(u, t, op) EXCEPT
                    !.to = to, !.seen = ticket[t].status]]

\* Slip: the moment of the resolution is set when the ticket is closed.
ResolvedOnCloseRow(q) ==
    [ticket[q.id] EXCEPT
        !.status = q.to,
        !.firstRespondedAt = IF q.to = "IN_PROGRESS" THEN TRUE ELSE @,
        !.resolvedAt = IF q.to = "CLOSED" THEN TRUE ELSE @,
        !.closedAt = IF q.to = "CLOSED" THEN "recent" ELSE @]

\* resolvedAt and closedAt are set on entering the status and kept for ever.
StatusRow(q) ==
    [ticket[q.id] EXCEPT
        !.status = q.to,
        !.firstRespondedAt = IF q.to = "IN_PROGRESS" THEN TRUE ELSE @,
        !.resolvedAt = IF q.to = "RESOLVED" THEN TRUE ELSE @,
        !.closedAt = IF q.to = "CLOSED" THEN "recent" ELSE @]

ChangeStatusWrite(r) ==
    /\ req[r].phase = "read" /\ req[r].op \in {"STATUS_CHANGED", "REOPENED"}
    /\ Write(r, TRUE, StatusRow(req[r]))

-----------------------------------------------------------------------------
(* Rating, tags, collaborators, the archive mark *)

RateRead(r, u, t) ==
    /\ Read(r, u, t, "RATED")
    /\ CanRate(u, ticket[t])
    /\ req' = [req EXCEPT ![r] = Pending(u, t, "RATED")]

RateWrite(r) ==
    /\ req[r].phase = "read" /\ req[r].op = "RATED"
    /\ Write(r, TRUE, [ticket[req[r].id] EXCEPT !.rating = TRUE])

TagRead(r, u, t) ==
    /\ Read(r, u, t, "TAGGED")
    /\ IsStaffRole(u)
    /\ req' = [req EXCEPT ![r] = Pending(u, t, "TAGGED")]

TagWrite(r) ==
    /\ req[r].phase = "read" /\ req[r].op = "TAGGED"
    /\ Write(r, TRUE, ticket[req[r].id])

AddCollaboratorRead(r, u, t, who) ==
    /\ Read(r, u, t, "COLLABORATOR_ADDED")
    /\ Role[u] = "ADMIN" \/ (Role[u] = "INTERN" /\ ticket[t].assignedTo = u)
    /\ account[who] = "active" /\ IsStaffRole(who)
    /\ who \notin {ticket[t].assignedTo, ticket[t].createdBy}
    /\ who \notin ticket[t].collaborators
    /\ req' = [req EXCEPT ![r] =
                [Pending(u, t, "COLLABORATOR_ADDED") EXCEPT !.who = who]]

RemoveCollaboratorRead(r, u, t, who) ==
    /\ Read(r, u, t, "COLLABORATOR_REMOVED")
    /\ IsStaffRole(u)
    /\ Role[u] = "ADMIN" \/ ticket[t].assignedTo = u \/ who = u
    /\ who \in ticket[t].collaborators
    /\ req' = [req EXCEPT ![r] =
                [Pending(u, t, "COLLABORATOR_REMOVED") EXCEPT !.who = who]]

\* The link table: its unique pair refuses a second insert, and a delete of a
\* pair that is gone throws.  The ticket's own row is not touched.
CollaboratorWrite(r) ==
    LET q     == req[r]
        row   == ticket[q.id]
        adds  == q.op = "COLLABORATOR_ADDED"
        holds == /\ Exists(q.id)
                 /\ adds = (q.who \notin row.collaborators)
                 /\ adds => /\ account[q.who] # "removed"
                            /\ account[q.user] # "removed"
    IN
    /\ q.phase = "read"
    /\ q.op \in {"COLLABORATOR_ADDED", "COLLABORATOR_REMOVED"}
    /\ \/ /\ holds
          /\ ticket' = [ticket EXCEPT ![q.id].collaborators =
                            IF adds THEN @ \cup {q.who} ELSE @ \ {q.who}]
          /\ req' = [req EXCEPT ![r] = Written(@)]
       \/ /\ ~holds
          /\ req' = [req EXCEPT ![r] = Idle]
          /\ UNCHANGED ticket
    /\ UNCHANGED <<history, unrecorded, account, category, dropping>>

\* Marking does not look at the status, and is recorded nowhere.
SetArchived(u, t, mark) ==
    /\ "ARCHIVED" \in Enabled
    /\ IsStaffRole(u)
    /\ Exists(t)
    /\ ticket' = [ticket EXCEPT ![t] =
                    [ticket[t] EXCEPT !.archivedAt = mark,
                                      !.updatedAt = "recent"]]
    /\ UNCHANGED <<history, unrecorded, account, category, dropping, req>>

-----------------------------------------------------------------------------
(* Accounts: the directory deactivates, an administrator removes *)

Deactivate(u) ==
    /\ "DEACTIVATE" \in Enabled
    /\ account[u] = "active"
    /\ account' = [account EXCEPT ![u] = "inactive"]
    /\ UNCHANGED <<ticket, history, unrecorded, category, dropping, req>>

\* Slip: every reference goes to the sentinel.
AllToSentinel(row, u) ==
    [row EXCEPT !.createdBy = IF @ = u THEN Sentinel ELSE @,
                !.assignedTo = IF @ = u THEN Sentinel ELSE @,
                !.collaborators = @ \ {u}]

\* The mandatory references go to the sentinel, the optional ones become NULL,
\* the links of the account go with it.
HandedOver(row, u) ==
    [row EXCEPT
        !.createdBy = IF @ = u THEN Sentinel ELSE @,
        !.updatedAt = IF row.createdBy = u THEN "recent" ELSE @,
        !.assignedTo = IF @ = u THEN Null ELSE @,
        !.collaborators = @ \ {u}]

\* One transaction.
RemoveUser(u) ==
    /\ "REMOVE_USER" \in Enabled
    /\ account[u] # "removed"
    /\ u \notin Master
    /\ \E admin \in User \ {u} : Role[admin] = "ADMIN"
    /\ account' = [account EXCEPT ![u] = "removed"]
    /\ ticket' = [t \in Ticket |-> HandedOver(ticket[t], u)]
    /\ UNCHANGED <<history, unrecorded, category, dropping, req>>

-----------------------------------------------------------------------------
(* The category catalogue *)

UpdateCategory(c) ==
    /\ "CATEGORY" \in Enabled
    /\ category[c] # "removed"
    /\ \E state \in {"active", "inactive"} :
          category' = [category EXCEPT ![c] = state]
    /\ UNCHANGED <<ticket, history, unrecorded, account, dropping, req>>

RemoveCategoryCount(c) ==
    /\ "CATEGORY" \in Enabled
    /\ dropping = Null
    /\ category[c] # "removed"
    /\ \A t \in Ticket : ticket[t].categoryId # c
    /\ dropping' = c
    /\ UNCHANGED <<ticket, history, unrecorded, account, category, req>>

\* ON DELETE SET NULL on the tickets classified in the meantime.
RemoveCategoryDelete ==
    /\ dropping # Null
    /\ category' = [category EXCEPT ![dropping] = "removed"]
    /\ ticket' = [t \in Ticket |->
            [ticket[t] EXCEPT
                !.categoryId = IF @ = dropping THEN Null ELSE @]]
    /\ dropping' = Null
    /\ UNCHANGED <<history, unrecorded, account, req>>

\* The second statement fails: nothing has been done.
RemoveCategoryFail ==
    /\ dropping # Null
    /\ dropping' = Null
    /\ UNCHANGED <<ticket, history, unrecorded, account, category, req>>

-----------------------------------------------------------------------------
RequestStep(r) ==
    \/ AssignWrite(r)
    \/ ClassifyWrite(r)
    \/ ChangeStatusWrite(r)
    \/ RateWrite(r)
    \/ TagWrite(r)
    \/ CollaboratorWrite(r)
    \/ RecordHistory(r)
    \/ Fail(r)

RequestStart(r, u, t) ==
    \/ Create(r, u, t)
    \/ \E who \in User : AssignRead(r, u, t, who)
    \/ \E c \in Category : ClassifyRead(r, u, t, c)
    \/ \E to \in Status : ChangeStatusRead(r, u, t, to)
    \/ RateRead(r, u, t)
    \/ TagRead(r, u, t)
    \/ \E who \in User : AddCollaboratorRead(r, u, t, who)
    \/ \E who \in User : RemoveCollaboratorRead(r, u, t, who)

AdminStep ==
    \/ \E u \in User, t \in Ticket : Remove(u, t)
    \/ \E u \in User, t \in Ticket, mark \in BOOLEAN : SetArchived(u, t, mark)
    \/ \E u \in User : Deactivate(u)
    \/ \E u \in User : RemoveUser(u)
    \/ \E c \in Category : UpdateCategory(c)
    \/ \E c \in Category : RemoveCategoryCount(c)
    \/ RemoveCategoryDelete
    \/ RemoveCategoryFail

Next ==
    \/ \E r \in Request : RequestStep(r)
    \/ \E r \in Request, u \in User, t \in Ticket : RequestStart(r, u, t)
    \/ AdminStep

Spec == Init /\ [][Next]_deskVars

-----------------------------------------------------------------------------
(* What holds of every ticket, however the requests interleave *)

WorkedOn == {"IN_PROGRESS", "RESOLVED", "CLOSED", "REOPENED"}

SomebodyRemoved == \E u \in User : account[u] = "removed"

Owned(t) == ticket[t].assignedTo # Null \/ SomebodyRemoved

Categorised(t) ==
    ticket[t].categoryId # Null \/ \E c \in Category : category[c] = "removed"

\* A ticket that was ever taken into work has been classified: its priority and
\* both deadlines are there even if a stale write brought the status back, and
\* only the removal of a category can leave it without one.
WorkIsClassified ==
    \A t \in Ticket :
        ticket[t].status \in WorkedOn =>
            /\ ticket[t].priority
            /\ ticket[t].responseDueAt # "none"
            /\ ticket[t].resolutionDueAt # "none"
            /\ Categorised(t)

\* The moments the statistics and the SLA read agree with the status: work
\* implies a first response, a resolved or reopened ticket was resolved, a
\* closed one was closed, and only a resolved one is ever rated.
MomentsFollowStatus ==
    \A t \in Ticket :
        LET row == ticket[t] IN
        /\ row.status \in WorkedOn => row.firstRespondedAt
        /\ row.status \in {"RESOLVED", "CLOSED", "REOPENED"} => row.resolvedAt
        /\ row.status = "CLOSED" => row.closedAt # "none"
        /\ row.rating \/ row.closedAt # "none" => row.resolvedAt

\* Nobody loses a ticket: one that left NEW for work has an executor, unless
\* the executor's account was removed.
OwnedUnlessRemoved ==
    \A t \in Ticket :
        ticket[t].status \in WorkedOn \cup {"ASSIGNED"} => Owned(t)

\* The actions whose effect the row of t shows.
Evidence(t) ==
    LET row == ticket[t] IN
    {"CREATED"}
        \cup (IF row.priority THEN {"CLASSIFIED"} ELSE {})
        \cup (IF row.resolvedAt THEN {"STATUS_CHANGED"} ELSE {})
        \cup (IF row.status = "REOPENED" THEN {"REOPENED"} ELSE {})
        \cup (IF row.rating THEN {"RATED"} ELSE {})
        \cup (IF row.status = "ASSIGNED" THEN {"ASSIGNED"} ELSE {})

\* The audit trail is complete: whatever the row of a ticket shows has its entry
\* in the history, or will have it from a request that has written and not yet
\* recorded.  The only entries missing are those of requests that ended between
\* the two statements (the process stopped, the insert failed, the actor was
\* removed); what a later request writes back on a stale read never shows a
\* change that has no entry for any other reason.
Audited ==
    \A t \in Ticket :
        Exists(t) =>
            \A action \in Evidence(t) :
                \/ action \in history[t] \cup unrecorded[t]
                \/ \E r \in Request : /\ req[r].phase = "written"
                                      /\ req[r].id = t
                                      /\ req[r].op = action

-----------------------------------------------------------------------------
(* What holds only while requests do not overlap *)

\* These write a status they have read, or one that is allowed only from it.
MovesStatus == {"ASSIGNED", "REASSIGNED", "STATUS_CHANGED", "REOPENED"}

\* No two of them are between read and write of one ticket.  Whatever else is
\* going on, on this ticket or on others, may overlap.
NoOverlap ==
    \A r, s \in Request :
        /\ req[r].phase = "read" /\ req[r].op \in MovesStatus
        /\ req[s].phase = "read" /\ req[s].op \in MovesStatus
        /\ req[r].id = req[s].id
        => r = s

\* Every change of a status is one of the allowed transitions, the assignment
\* of a new ticket, its creation or its deletion.
StatusMovesAlongMap ==
    [][\A t \in Ticket :
          LET from == ticket[t].status
              to   == ticket'[t].status
          IN  \/ to \in {from, "DELETED"}
              \/ <<from, to>> \in {<<"ABSENT", "NEW">>, <<"NEW", "ASSIGNED">>}
              \/ IsValidStatusTransition(from, to)]_deskVars

Lifecycle ==
    INSTANCE TicketLifecycle
        WITH status <- [t \in Ticket |-> ticket[t].status],
             classified <- [t \in Ticket |-> ticket[t].priority]

\* The service, asked one request at a time or without such an overlap, does
\* what TicketLifecycle promises: the status follows the map and work starts on
\* classified tickets.
ImplementsLifecycle == Lifecycle!Spec
=============================================================================
