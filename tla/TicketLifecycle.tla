--------------------------- MODULE TicketLifecycle ---------------------------
(***************************************************************************)
(* What the ticket service promises of a ticket's status, with no request, *)
(* no await and no stale read: the status moves only along the map of      *)
(* allowed transitions or by assigning an executor to a new ticket, and    *)
(* work starts only on a classified one.                                   *)
(***************************************************************************)
EXTENDS TicketPolicy

CONSTANT Ticket

VARIABLES
    status,     \* the status of each ticket
    classified  \* whether a priority was ever set

lifecycleVars == <<status, classified>>

LifecycleInit ==
    /\ status = [t \in Ticket |-> "ABSENT"]
    /\ classified = [t \in Ticket |-> FALSE]

Open(t) ==
    /\ status[t] = "ABSENT"
    /\ status' = [status EXCEPT ![t] = "NEW"]
    /\ UNCHANGED classified

Classify(t) ==
    /\ status[t] \in Status
    /\ classified' = [classified EXCEPT ![t] = TRUE]
    /\ UNCHANGED status

Assign(t) ==
    /\ status[t] = "NEW"
    /\ status' = [status EXCEPT ![t] = "ASSIGNED"]
    /\ UNCHANGED classified

Move(t, to) ==
    /\ IsValidStatusTransition(status[t], to)
    /\ to = "IN_PROGRESS" => classified[t]
    /\ status' = [status EXCEPT ![t] = to]
    /\ UNCHANGED classified

Erase(t) ==
    /\ status[t] \in Status
    /\ status' = [status EXCEPT ![t] = "DELETED"]
    /\ classified' = [classified EXCEPT ![t] = FALSE]

LifecycleNext ==
    \E t \in Ticket :
        \/ Open(t)
        \/ Classify(t)
        \/ Assign(t)
        \/ \E to \in Status : Move(t, to)
        \/ Erase(t)

Spec == LifecycleInit /\ [][LifecycleNext]_lifecycleVars
=============================================================================
