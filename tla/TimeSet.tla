------------------------------ MODULE TimeSet ------------------------------
(***************************************************************************)
(* The time page, Page_TimeSet.c, with what set_time and set_date of rtc.c *)
(* and the driver drv_rtc.c make of its fields.  The clock runs on while   *)
(* the page shows what it read at Setup.                                   *)
(*                                                                         *)
(* DisplayPage.tla has the page's place among the others; here the page is *)
(* entered and left at will.                                               *)
(***************************************************************************)
EXTENDS Calendar

CONSTANTS
  Clocks,      \* what the RTC may hold when nothing is known of it, in UTC:
               \* before the first visit and past the year 2099
  MaxTicks,    \* bound: seconds that pass
  MaxChanges   \* bound: steps of a field

(* The eight bits of the year register hold 0 to 159, read back from 2000. *)
RtcDays == YearDays(2000) .. YearDays(2160) - 1

ASSUME ClocksAssumption == Clocks \subseteq [day : RtcDays, sec : 0..DaySeconds - 1]
ASSUME BoundsAssumption == MaxTicks \in Nat /\ MaxChanges \in Nat

(* The order of setter_btns, which LVGL's focus follows. *)
Fields == <<"Hour", "Min", "Sec", "Year", "Mon", "Day">>
Field == {"Hour", "Min", "Sec", "Year", "Mon", "Day"}

min == [Hour |-> 0, Min |-> 0, Sec |-> 0, Year |-> 2020, Mon |-> 1, Day |-> 1]
max == [Hour |-> 24, Min |-> 60, Sec |-> 60, Year |-> 2400, Mon |-> 12, Day |-> 31]

VARIABLES
  rtc,         \* the clock, as timegm counts what the registers hold
  shown,       \* the page is set up
  val,         \* the values of the fields
  is_setting,  \* a field is being changed
  focused,     \* the focused button; once a field is changed, its index
  saved,       \* history: the fields as they were last read or written
  ticks, changes

vars == <<rtc, shown, val, is_setting, focused, saved, ticks, changes>>

Init ==
  /\ rtc \in Clocks
  /\ shown = FALSE /\ is_setting = FALSE /\ focused = 1
  /\ val = [Hour |-> 16, Min |-> 16, Sec |-> 16, Year |-> 2023, Mon |-> 6, Day |-> 6]
  /\ saved = val
  /\ ticks = 0 /\ changes = 0

-----------------------------------------------------------------------------
(* rtc.c and drv_rtc.c. *)

(* RTC_ByteToBcd2 of a uint8_t, in the eight bits of the register that     *)
(* RTC_Bcd2ToByte reads back.                                              *)
DR_Year(byte) == ((byte \div 10) % 16) * 10 + (byte % 10)

(* set_rtc_time_stamp: a year before 2000 is refused, of a later one the   *)
(* register keeps what fits.                                               *)
set_secs(clock, now) ==
  LET tm == gmtime_r(now)
  IN IF tm.year < 2000 THEN clock
     ELSE timegm([tm EXCEPT !.year = 2000 + DR_Year((tm.year - 2000) % 256)])

(* The clock after set_time and after set_date.                            *)
set_time(clock, hour, minute, second) ==
  set_secs(clock, mktime([localtime_r(clock) EXCEPT
                            !.hour = hour, !.min = minute, !.sec = second]))

set_date_FromUtc(clock, year, month, day) ==
  set_secs(clock, mktime([gmtime_r(clock) EXCEPT
                            !.year = year, !.mon = month - 1, !.mday = day]))

set_date(clock, year, month, day) ==
  set_secs(clock, mktime([localtime_r(clock) EXCEPT
                            !.year = year, !.mon = month - 1, !.mday = day]))

-----------------------------------------------------------------------------
(* The page. *)

time_set_create_Utc ==
  LET tm == gmtime_r(rtc)
  IN [Hour |-> tm.hour, Min |-> tm.min, Sec |-> tm.sec,
      Year |-> tm.year, Mon |-> tm.mon + 1, Day |-> tm.mday]

(* The fields as time_set_create reads them: time() + 28800 by gmtime.     *)
time_set_create ==
  LET tm == gmtime_r(Plus(rtc, 28800))
  IN [Hour |-> tm.hour, Min |-> tm.min, Sec |-> tm.sec,
      Year |-> tm.year, Mon |-> tm.mon + 1, Day |-> tm.mday]

(* Of the buttons, the first gets LVGL's focus.                            *)
Setup ==
  /\ ~shown
  /\ shown' = TRUE /\ is_setting' = FALSE
  /\ val' = time_set_create /\ saved' = val'
  /\ focused' = 1
  /\ UNCHANGED <<rtc, ticks, changes>>

(* LEFT while no field is changed pops the page.                           *)
Leave ==
  /\ shown /\ ~is_setting
  /\ shown' = FALSE
  /\ UNCHANGED <<rtc, val, is_setting, focused, saved, ticks, changes>>

Confirm_DateFirst ==
  /\ shown /\ is_setting
  /\ is_setting' = FALSE
  /\ rtc' = set_time(set_date(rtc, val.Year, val.Mon, val.Day),
                     val.Hour, val.Min, val.Sec)
  /\ saved' = val
  /\ UNCHANGED <<shown, val, focused, ticks, changes>>

(* LEFT while a field is changed writes all of them.  Neither result is    *)
(* looked at, and set_time restarts the second of the clock, so that it    *)
(* does not tick before set_date.                                          *)
Confirm ==
  /\ shown /\ is_setting
  /\ is_setting' = FALSE
  /\ rtc' = set_date(set_time(rtc, val.Hour, val.Min, val.Sec),
                     val.Year, val.Mon, val.Day)
  /\ saved' = val
  /\ UNCHANGED <<shown, val, focused, ticks, changes>>

(* RIGHT: lv_obj_get_index of the button, halved, is its field; the focus  *)
(* does not move while it is changed.                                      *)
Select ==
  /\ shown /\ ~is_setting
  /\ is_setting' = TRUE
  /\ UNCHANGED <<rtc, shown, val, focused, saved, ticks, changes>>

(* UP and DOWN while no field is changed.                                  *)
Focus ==
  /\ shown /\ ~is_setting
  /\ focused' \in {(focused % 6) + 1, ((focused + 4) % 6) + 1}
  /\ UNCHANGED <<rtc, shown, val, is_setting, saved, ticks, changes>>

btn_change_val_NoMinimum(setter, step) ==
  LET value == val[setter] + step
  IN IF value > max[setter] THEN min[setter] ELSE value

btn_change_val(setter, step) ==
  LET value == val[setter] + step
  IN IF value > max[setter] THEN min[setter]
     ELSE IF value < min[setter] THEN max[setter] ELSE value

Change_AnyTime ==
  /\ shown
  /\ changes < MaxChanges
  /\ changes' = changes + 1
  /\ \E step \in {1, -1} :
       val' = [val EXCEPT ![Fields[focused]] = btn_change_val(Fields[focused], step)]
  /\ UNCHANGED <<rtc, shown, is_setting, focused, saved, ticks>>

(* UP and DOWN while a field is changed.                                   *)
Change ==
  /\ shown /\ is_setting
  /\ changes < MaxChanges
  /\ changes' = changes + 1
  /\ \E step \in {1, -1} :
       val' = [val EXCEPT ![Fields[focused]] = btn_change_val(Fields[focused], step)]
  /\ UNCHANGED <<rtc, shown, is_setting, focused, saved, ticks>>

Event == Leave \/ Confirm \/ Select \/ Focus \/ Change

(* The RTC counts years of two digits, and 2000 comes after 2099. Where it *)
(* goes at the end of a day of a later year is not documented.             *)
NextSecond(t) ==
  IF t.sec + 1 < DaySeconds \/ t.day + 1 < YearDays(2100) THEN {Plus(t, 1)}
  ELSE {[day |-> d, sec |-> 0] :
          d \in IF t.day + 1 = YearDays(2100) THEN {YearDays(2000)}
                ELSE {c.day : c \in Clocks}}

(* The clock ticks, whatever the page does.                                *)
Tick ==
  /\ ticks < MaxTicks
  /\ ticks' = ticks + 1
  /\ rtc' \in NextSecond(rtc)
  /\ UNCHANGED <<shown, val, is_setting, focused, saved, changes>>

Next == Setup \/ Event \/ Tick

Spec == Init /\ [][Next]_vars

-----------------------------------------------------------------------------
(* The clock holds what its registers can, whatever date is confirmed, and *)
(* the fields stay in their ranges, but for the years from 2000 on, with   *)
(* which the clock may start.                                              *)
TypeOK ==
  /\ rtc \in [day : RtcDays, sec : 0..DaySeconds - 1]
  /\ \A f \in Field \ {"Year"} : val[f] \in min[f]..max[f]
  /\ val.Year \in 2000..max.Year
  /\ shown \in BOOLEAN /\ is_setting \in BOOLEAN
  /\ focused \in 1..6
  /\ ticks \in 0..MaxTicks /\ changes \in 0..MaxChanges

(* No change of a field is lost: outside a change, and so when the page is *)
(* left, all that the fields show was read from the clock or given to it.  *)
NothingUnsaved == ~is_setting => val = saved

(* The fields by the calendar rules: the days before a date, of a day that *)
(* may exceed the month, and the time of day, of hours, minutes and        *)
(* seconds that may exceed the day but do not begin another.               *)
DayOf(v) == DaysBefore(v.Year) + DaysBeforeMonth(v.Year)[v.Mon] + v.Day - 1

TimeOf(v) == (v.Hour * 3600 + v.Min * 60 + v.Sec) % DaySeconds

Moment(v) == [day |-> DayOf(v), sec |-> TimeOf(v)]

(* The time zone of the board, eight hours east.                           *)
Local(t) == Plus(t, 8 * 3600)

(* Setup shows the date and time it is on the board, though it computes    *)
(* them another way than set_time and set_date (Page_TimeSet.c:80).        *)
SetupReadsLocal == [][Setup => Moment(val') = Local(rtc)]_vars

(* The driver refuses a time that is still in 1999 in UTC: one before      *)
(* eight in the morning, while the date is January 1, 2000.                *)
Refused ==
  gmtime_r(mktime([localtime_r(rtc) EXCEPT
                     !.hour = val.Hour, !.min = val.Min, !.sec = val.Sec])).year < 2000

(* A confirmed change sets the time of day to the fields, whatever the     *)
(* date, hour 24 and minute 60 included, or not at all if it is refused:   *)
(* set_date does not modify the time (rtc.c:138).                          *)
ConfirmedTime ==
  [][Confirm => IF Refused THEN rtc'.sec = rtc.sec
                           ELSE Local(rtc').sec = TimeOf(val)]_vars

(* A confirmed change sets the date to the fields, as long as the year has *)
(* two digits: hour 24 is the midnight that begins it, though set_time has *)
(* moved on to the next day, and February 31 is March 2 or 3.  The time is *)
(* refused only while the clock is on its first day.                       *)
ConfirmedDate ==
  [][Confirm /\ val.Year \in 2001..2099
       => /\ Local(rtc').day = DayOf(val)
          /\ Refused => rtc.day = YearDays(2000)]_vars

=============================================================================
