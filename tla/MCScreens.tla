----------------------------- MODULE MCScreens -----------------------------
(***************************************************************************)
(* Four people: an applicant, one the directory does not call an employee, *)
(* a trainee and an administrator.                                         *)
(***************************************************************************)
EXTENDS Screens

MCAccount == {"teacher", "outsider", "intern", "admin"}
MCRole == [a \in MCAccount |-> CASE a = "intern" -> "INTERN"
                                 [] a = "admin"  -> "ADMIN"
                                 [] OTHER        -> "USER"]
MCStaffAccount == MCAccount \ {"outsider"}
=============================================================================
