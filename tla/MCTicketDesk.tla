---------------------------- MODULE MCTicketDesk ----------------------------
(***************************************************************************)
(* A small instance of TicketDesk for TLC.                                 *)
(***************************************************************************)
EXTENDS TicketDesk

CONSTANTS admin, intern, teacher

MCRole == [u \in User |-> IF u = admin THEN "ADMIN"
                        ELSE IF u = intern THEN "INTERN" ELSE "USER"]

MCMaster == {admin}

\* What moves a ticket through its life, and both crons.
DeskOperations ==
    {"CREATED", "ASSIGNED", "CLASSIFIED", "STATUS_CHANGED", "ARCHIVE_CRON"}
=============================================================================
