---------------------------- MODULE TicketPolicy ----------------------------
(***************************************************************************)
(* The status machine and the role policy of service-desk tickets: pure    *)
(* operators, shared by every module that decides who may do what with a   *)
(* ticket.                                                                 *)
(*                                                                         *)
(* A ticket, for the policy, is any record with the fields createdBy,      *)
(* assignedTo, collaborators and status.                                   *)
(***************************************************************************)

CONSTANTS
    User,       \* accounts that ever exist
    Role,       \* the role each account's access token carries
    Null        \* an absent reference (a NULL foreign key)

ASSUME RoleAssumption == Role \in [User -> {"ADMIN", "INTERN", "USER"}]
ASSUME NullAssumption == Null \notin User

-----------------------------------------------------------------------------
(* The status machine *)

Status == {"NEW", "ASSIGNED", "IN_PROGRESS", "RESOLVED", "CLOSED",
           "REJECTED", "REOPENED"}

\* Slip (not the code; see Tickets): a client may make a new ticket ASSIGNED.
SelfServiceTransitions ==
    [NEW         |-> {"ASSIGNED", "REJECTED"},
     ASSIGNED    |-> {"IN_PROGRESS", "REJECTED"},
     IN_PROGRESS |-> {"RESOLVED", "REJECTED"},
     RESOLVED    |-> {"CLOSED", "REOPENED"},
     CLOSED      |-> {"REOPENED"},
     REJECTED    |-> {},
     REOPENED    |-> {"IN_PROGRESS", "REJECTED"}]

\* Transitions a client may ask for.  NEW -> ASSIGNED is not among them: only
\* assigning an executor takes a ticket there.
AllowedStatusTransitions ==
    [NEW         |-> {"REJECTED"},
     ASSIGNED    |-> {"IN_PROGRESS", "REJECTED"},
     IN_PROGRESS |-> {"RESOLVED", "REJECTED"},
     RESOLVED    |-> {"CLOSED", "REOPENED"},
     CLOSED      |-> {"REOPENED"},
     REJECTED    |-> {},
     REOPENED    |-> {"IN_PROGRESS", "REJECTED"}]

IsValidStatusTransition(from, to) ==
    from \in Status /\ to \in AllowedStatusTransitions[from]

-----------------------------------------------------------------------------
(* The policy *)

IsStaffRole(u) == Role[u] \in {"ADMIN", "INTERN"}

IsTicketWorker(u, ticket) ==
    ticket.assignedTo = u \/ u \in ticket.collaborators

CanView(u, ticket) ==
    \/ Role[u] = "ADMIN"
    \/ Role[u] = "INTERN" /\ IsTicketWorker(u, ticket)
    \/ Role[u] = "USER" /\ ticket.createdBy = u

CanSelfAssign(u, ticket) == Role[u] = "ADMIN" /\ ticket.assignedTo = Null

CanAssignAnyone(u) == Role[u] = "ADMIN"

CanClassify(u, ticket) ==
    \/ Role[u] = "ADMIN"
    \/ Role[u] = "INTERN" /\ IsTicketWorker(u, ticket)

\* Reopening is the creator's word against the executor's: a worker who is not
\* an administrator cannot do it.
CanChangeStatus(u, ticket, to) ==
    /\ IsValidStatusTransition(ticket.status, to)
    /\ \/ Role[u] = "ADMIN"
       \/ to = "REOPENED" /\ ticket.createdBy = u
       \/ to # "REOPENED" /\ Role[u] = "INTERN" /\ IsTicketWorker(u, ticket)

CanComment(u, ticket) ==
    Role[u] = "ADMIN" \/ ticket.createdBy = u \/ IsTicketWorker(u, ticket)

CanRate(u, ticket) ==
    ticket.createdBy = u /\ ticket.status \in {"RESOLVED", "CLOSED"}
=============================================================================
