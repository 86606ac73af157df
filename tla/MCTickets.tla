------------------------------ MODULE MCTickets ------------------------------
(***************************************************************************)
(* Small instances of Tickets for TLC: an administrator, an intern and a   *)
(* teacher.                                                                *)
(***************************************************************************)
EXTENDS Tickets, TLC

CONSTANTS admin, intern, teacher

MCRole ==
    [u \in User |-> IF u = admin THEN "ADMIN"
                   ELSE IF u = intern THEN "INTERN" ELSE "USER"]

MCMaster == {admin}

\* Two requests at a time: the operations that write the status, what they
\* depend on, the removal of the people they name, and failures.
RacingOperations ==
    {"CREATED", "ASSIGNED", "CLASSIFIED", "STATUS_CHANGED", "RATED",
     "REMOVE_USER", "FAIL"}

\* Two requests that do not move the status of one ticket at once: every
\* operation but the rating, which the run of two racing requests has.
OtherOperations ==
    {"TAGGED", "COLLABORATOR_ADDED", "COLLABORATOR_REMOVED", "ARCHIVED",
     "DEACTIVATE", "CATEGORY", "DELETED"}
ApartOperations == (RacingOperations \ {"RATED"}) \cup OtherOperations

\* Nothing is decided by the history, so that states which differ in it alone
\* need not be told apart; nor need the requests.
WithoutHistory == <<ticket, account, category, dropping, req>>
\* Audited asks of each write whether its entry is there or accounted for as
\* lost, and no step asks either: states that differ only in which of the two it
\* is need not be told apart.
TrailAsOne ==
    <<ticket, [t \in Ticket |-> history[t] \cup unrecorded[t]],
      account, category, dropping, req>>
RequestsAlike == Permutations(Request)
=============================================================================
