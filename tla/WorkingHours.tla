---------------------------- MODULE WorkingHours ----------------------------
(***************************************************************************)
(* The working-hours arithmetic visits and calendar tasks are planned by,  *)
(* common/utils/working-hours.ts.  A moment is a number of minutes since   *)
(* midnight of some Monday, in the server's local time; a day has          *)
(* DayLength of them (1440 in the code, fewer in a small instance).        *)
(***************************************************************************)
EXTENDS Integers

CONSTANTS
    DayLength,  \* minutes of a day
    Hours       \* the WorkingHoursSettings row

ASSUME DayLengthAssumption == DayLength \in Nat \ {0}

\* A working day does not cross midnight.
ASSUME HoursAssumption ==
    /\ Hours \in [workdayStart : Nat, workdayEnd : Nat,
                  workingDays : SUBSET (1 .. 7), holidays : SUBSET Nat]
    /\ Hours.workdayEnd < DayLength

LocalDateKey(t) == t \div DayLength

MinuteOf(t) == t % DayLength

IsoWeekday(t) == (LocalDateKey(t) % 7) + 1

IsWorkingDay(t) ==
    LocalDateKey(t) \notin Hours.holidays /\ IsoWeekday(t) \in Hours.workingDays

IsWithinWorkingHours(t) ==
    /\ IsWorkingDay(t)
    /\ MinuteOf(t) \in Hours.workdayStart .. Hours.workdayEnd

\* Slip: an interval is judged by its ends, which may be on different days.
EndsWithinWorkingHours(start, end) ==
    IsWithinWorkingHours(start) /\ IsWithinWorkingHours(end)

\* checkSlotWithinWorkingHours: the interval raises no objection.
FitsWorkingHours(start, end) ==
    /\ LocalDateKey(start) = LocalDateKey(end)
    /\ IsWorkingDay(start)
    /\ Hours.workdayStart <= MinuteOf(start)
    /\ MinuteOf(end) <= Hours.workdayEnd
=============================================================================
