----------------------------- MODULE MCTimeSet -----------------------------
(* The instance of TimeSet for TLC. *)
EXTENDS TimeSet

(* The last second of a day of the time zone of the board, in UTC.         *)
LastSecond(year, month, date) ==
  Plus(Moment([Hour |-> 23, Min |-> 59, Sec |-> 59,
               Year |-> year, Mon |-> month, Day |-> date]), -tz)

(* The clock without a battery, ends of years and months, and the end of   *)
(* the years of two digits, on the board and in UTC.                       *)
MCClocks ==
  {[day |-> YearDays(2000), sec |-> 0], LastSecond(2023, 12, 31),
   LastSecond(2024, 1, 31), LastSecond(2024, 2, 28), LastSecond(2099, 12, 31),
   [day |-> YearDays(2100) - 1, sec |-> DaySeconds - 1]}
=============================================================================
