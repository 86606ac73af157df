-------------------------- MODULE MCNotifications --------------------------
(***************************************************************************)
(* A small instance of Notifications for TLC.                              *)
(***************************************************************************)
EXTENDS Notifications

MCFirstRole == [requester |-> "USER", intern |-> "INTERN", admin |-> "ADMIN"]
(* None, one past midnight, one within the day. *)
MCWindow == {[start |-> None, end |-> 1], [start |-> 3, end |-> 2], [start |-> 1, end |-> 2]}
MCFirstWindow == [start |-> 3, end |-> 2]
=============================================================================
