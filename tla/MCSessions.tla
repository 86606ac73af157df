----------------------------- MODULE MCSessions -----------------------------
(***************************************************************************)
(* A small instance of Sessions for TLC.                                   *)
(***************************************************************************)
EXTENDS Sessions, TLC

MCUser == {"petrov", "ivanova"}
MCLocal == {"petrov"}
MCFirstRole == [petrov |-> "ADMIN", ivanova |-> "USER"]
Symmetry == Permutations(Tab) \cup Permutations(Call)
=============================================================================
