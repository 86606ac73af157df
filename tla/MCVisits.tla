------------------------------ MODULE MCVisits ------------------------------
(***************************************************************************)
(* A small instance of Visits for TLC: a quarter of an hour is one minute  *)
(* of an eight-minute day, of which minutes 1 to 6 are working hours.      *)
(***************************************************************************)
EXTENDS Visits, TLC

MCRole == [admin |-> "ADMIN", intern |-> "INTERN", teacher |-> "USER"]

MCUser == DOMAIN MCRole

MCHours == [workdayStart |-> 1, workdayEnd |-> 6,
            workingDays |-> {1, 2}, holidays |-> {}]

\* Two windows that meet the hours and do not overlap... and one that spans a night.
MCWindow == {[start |-> 1, end |-> 3], [start |-> 2, end |-> 3],
             [start |-> 4, end |-> 10]}

Symmetry == Permutations(Visit) \cup Permutations(Op)
=============================================================================
