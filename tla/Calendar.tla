------------------------------ MODULE Calendar ------------------------------
(***************************************************************************)
(* The conversions between seconds and dates of RT-Thread's ctime.c.  A    *)
(* time_t is a record of days and seconds of the day, 64 bits do not fit   *)
(* into TLC's integers; tm_year is the full year.  Nothing is recursive    *)
(* but functions, which follow the loops of the code.                      *)
(***************************************************************************)
EXTENDS Integers

DaySeconds == 86400

(* __spm: the days of a year before each month, 0 to 12. *)
spm == [mon \in 0..12 |->
          <<0, 31, 59, 90, 120, 151, 181, 212, 243, 273, 304, 334, 365>>[mon + 1]]

isleap(year) == year % 4 = 0 /\ (year % 100 # 0 \/ year % 400 = 0)

Plus(t, seconds) ==
  [day |-> t.day + (t.sec + seconds) \div DaySeconds,
   sec |-> (t.sec + seconds) % DaySeconds]

(* The loop of gmtime_r that takes off whole years, and its variables.     *)
YearPlaces == [year : Nat, yday : Nat]

YearAndDay[d \in YearPlaces] ==
  LET k == IF isleap(d.year) THEN 366 ELSE 365
  IN IF d.yday < k THEN d
                   ELSE YearAndDay[[year |-> d.year + 1, yday |-> d.yday - k]]

(* The loop that looks for the month, from December down. *)
MonthOf(work) ==
  CHOOSE mon \in 0..11 : /\ mon = 0 \/ spm[mon] <= work
                         /\ \A later \in mon + 1 .. 11 : spm[later] > work

(* February 29 is taken out of the days and put back as a day more.        *)
gmtime_r(t) ==
  LET y == YearAndDay[[year |-> 1970, yday |-> t.day]]
      afterFeb28 == isleap(y.year) /\ y.yday > 58
      work == IF afterFeb28 THEN y.yday - 1 ELSE y.yday
      mday == IF afterFeb28 /\ y.yday = 59 THEN 2 ELSE 1
  IN [year |-> y.year, mon |-> MonthOf(work),
      mday |-> mday + work - spm[MonthOf(work)],
      hour |-> t.sec \div 3600, min |-> (t.sec \div 60) % 60, sec |-> t.sec % 60]

(* The loop of timegm that takes months off the day of the month, while it *)
(* exceeds the days of all months so far, and its variables.               *)
MonthPlaces == [year : Nat, mon : 0..11, mday : Nat]

Months[d \in MonthPlaces] ==
  LET leapDay == IF d.mon = 1 /\ isleap(d.year) THEN 1 ELSE 0
      rest == d.mday - spm[d.mon] - leapDay
  IN IF d.mday <= spm[d.mon + 1] THEN d
     ELSE Months[IF d.mon = 11 THEN [year |-> d.year + 1, mon |-> 0, mday |-> rest]
                 ELSE [year |-> d.year, mon |-> d.mon + 1, mday |-> rest]]

(* 365 for each year since 1970 and one for each leap year, of the year    *)
(* before the months are carried.                                          *)
YearDays(year) ==
  LET years == year - 1970
      centuries == (years - 131) \div 100
      skipped == IF years < 131 THEN 0
                 ELSE (centuries \div 4) * 3 + 1
                        + (IF centuries % 4 = 3 THEN 2 ELSE centuries % 4)
  IN years * 365 + (years + 1) \div 4 - skipped

(* 60 seconds are not carried, being a leap second perhaps.                *)
timegm(tm) ==
  LET min == tm.min + (IF tm.sec > 60 THEN tm.sec \div 60 ELSE 0)
      sec == IF tm.sec > 60 THEN tm.sec % 60 ELSE tm.sec
      hour == tm.hour + min \div 60
      date == Months[[year |-> tm.year + tm.mon \div 12, mon |-> tm.mon % 12,
                      mday |-> tm.mday + hour \div 24]]
      leapDay == IF isleap(date.year) /\ date.mon > 1 THEN 1 ELSE 0
  IN Plus([day |-> YearDays(tm.year) + spm[date.mon] + date.mday - 1 + leapDay,
           sec |-> 0],
          ((hour % 24) * 60 + (min % 60)) * 60 + sec)

(* RT_LIBC_TZ_DEFAULT_HOUR of rtconfig.h, in seconds. *)
tz == 28800

localtime_r(t) == gmtime_r(Plus(t, tz))
mktime(tm) == Plus(timegm(tm), -tz)

-----------------------------------------------------------------------------
(* Calendar rules to compare with: the days from 1970 to the beginning of  *)
(* a year, and those of a year before each of its months, counted.         *)
LeapDaysBefore(year) ==
  LET n == year - 1 IN n \div 4 - n \div 100 + n \div 400

DaysBefore(year) ==
  (year - 1970) * 365 + LeapDaysBefore(year) - LeapDaysBefore(1970)

DaysIn(year, mon) ==
  CASE mon \in {4, 6, 9, 11} -> 30
    [] mon = 2 -> IF isleap(year) THEN 29 ELSE 28
    [] OTHER -> 31

DaysBeforeMonth(year) ==
  LET days[mon \in 1..12] ==
        IF mon = 1 THEN 0 ELSE days[mon - 1] + DaysIn(year, mon - 1)
  IN days

=============================================================================
