--------------------------- MODULE TimeSetProofs ---------------------------
(***************************************************************************)
(* Theorems about the time page, for every time the clock may hold and any *)
(* number of ticks and changes.                                            *)
(***************************************************************************)
EXTENDS TimeSet, CalendarProofs

(* No change of a field is lost, in whatever order the keys come.          *)
THEOREM ChangesSaved == Spec => []NothingUnsaved
<1>1. Init => NothingUnsaved
  BY DEF Init, NothingUnsaved
<1>2. NothingUnsaved /\ [Next]_vars => NothingUnsaved'
  <2> SUFFICES ASSUME NothingUnsaved, [Next]_vars PROVE NothingUnsaved'
    OBVIOUS
  <2>1. CASE Setup
    BY <2>1 DEF Setup, NothingUnsaved
  <2>2. CASE Leave
    BY <2>2 DEF Leave, NothingUnsaved
  <2>3. CASE Confirm
    BY <2>3 DEF Confirm, NothingUnsaved
  <2>4. CASE Select \/ Change
    BY <2>4 DEF Select, Change, NothingUnsaved
  <2>5. CASE Focus
    BY <2>5 DEF Focus, NothingUnsaved
  <2>6. CASE Tick
    BY <2>6 DEF Tick, NothingUnsaved
  <2>7. CASE UNCHANGED vars
    BY <2>7 DEF vars, NothingUnsaved
  <2> QED BY <2>1, <2>2, <2>3, <2>4, <2>5, <2>6, <2>7 DEF Next, Event
<1> QED BY <1>1, <1>2, PTL DEF Spec

-----------------------------------------------------------------------------
(* The time of day, which does not depend on the date. *)

(* What the driver refuses.                                                *)
Refuses(now) == gmtime_r(now).year < 2000

(* The driver keeps the time of day, unless it refuses the date.           *)
LEMMA Kept ==
  ASSUME NEW clock, NEW now, IsTimeOfDay(now.sec)
  PROVE  IF Refuses(now) THEN set_secs(clock, now) = clock
         ELSE set_secs(clock, now).sec = now.sec
<1> DEFINE tm == gmtime_r(now)
           set == [tm EXCEPT !.year = 2000 + DR_Year((tm.year - 2000) % 256)]
<1>1. CASE Refuses(now)
  BY <1>1 DEF set_secs, Refuses
<1>2. CASE ~Refuses(now)
  <2>1. set_secs(clock, now) = timegm(set)
    BY <1>2 DEF set_secs, Refuses
  <2>2. set.hour = tm.hour /\ set.min = tm.min /\ set.sec = tm.sec
    BY DEF gmtime_r
  <2> HIDE DEF set, tm
  <2>3. /\ tm.hour \in 0..23 /\ tm.min \in 0..59 /\ tm.sec \in 0..59
        /\ (tm.hour * 60 + tm.min) * 60 + tm.sec = now.sec
    BY Split DEF tm
  <2>4. /\ set.hour \in 0..24 /\ set.min \in 0..60 /\ set.sec \in 0..60
    BY <2>2, <2>3
  <2>5. timegm(set).sec = Seconds(set.hour, set.min, set.sec)
    BY <2>4, Joined, Zenon
  <2>6. timegm(set).sec = now.sec
    BY <2>2, <2>3, <2>5, SecondsWithin
  <2> QED BY <1>2, <2>1, <2>6
<1> QED BY <1>1, <1>2

(* Seconds moved to the time zone of the board and back.                   *)
LEMMA ThereAndBack ==
  ASSUME NEW s \in Int
  PROVE  /\ IsTimeOfDay(((s % DaySeconds) + (-tz)) % DaySeconds)
         /\ ((((s % DaySeconds) + (-tz)) % DaySeconds) + tz) % DaySeconds = s % DaySeconds
         /\ IsTimeOfDay(s) => (((s + tz) % DaySeconds) + (-tz)) % DaySeconds = s
BY DEF IsTimeOfDay, DaySeconds, tz

(* What set_time asks the driver for.                                      *)
TimeAsked(clock, hour, minute, second) ==
  mktime([localtime_r(clock) EXCEPT !.hour = hour, !.min = minute, !.sec = second])

(* It is the time of day asked for, less the time zone.                    *)
LEMMA AskedTime ==
  ASSUME NEW clock, NEW hour \in 0..24, NEW minute \in 0..60, NEW second \in 0..60
  PROVE  TimeAsked(clock, hour, minute, second).sec
           = (Seconds(hour, minute, second) + (-tz)) % DaySeconds
<1> DEFINE tm == [localtime_r(clock) EXCEPT !.hour = hour, !.min = minute, !.sec = second]
<1>1. tm.hour = hour /\ tm.min = minute /\ tm.sec = second
  BY DEF localtime_r, gmtime_r
<1>2. mktime(tm).sec = (timegm(tm).sec + (-tz)) % DaySeconds
  BY DEF mktime, Plus
<1>3. TimeAsked(clock, hour, minute, second) = mktime(tm)
  BY DEF TimeAsked
<1> HIDE DEF tm
<1>4. /\ tm.hour \in 0..24 /\ tm.min \in 0..60 /\ tm.sec \in 0..60
  BY <1>1
<1>5. timegm(tm).sec = Seconds(tm.hour, tm.min, tm.sec)
  BY <1>4, Joined, Zenon
<1> QED BY <1>1, <1>2, <1>3, <1>5, Zenon

(* set_time sets the time of day, or leaves the clock alone.               *)
LEMMA TimeIsSet ==
  ASSUME NEW clock, NEW hour \in 0..24, NEW minute \in 0..60, NEW second \in 0..60
  PROVE  IF Refuses(TimeAsked(clock, hour, minute, second))
         THEN set_time(clock, hour, minute, second) = clock
         ELSE /\ IsTimeOfDay(set_time(clock, hour, minute, second).sec)
              /\ (set_time(clock, hour, minute, second).sec + tz) % DaySeconds
                   = Seconds(hour, minute, second)
<1> DEFINE asked == TimeAsked(clock, hour, minute, second)
           seconds == hour * 3600 + minute * 60 + second
<1>1. seconds \in Int /\ Seconds(hour, minute, second) = seconds % DaySeconds
  BY DEF Seconds
<1>2. asked.sec = (Seconds(hour, minute, second) + (-tz)) % DaySeconds
  BY AskedTime, Zenon
<1>3. IsTimeOfDay(asked.sec) /\ (asked.sec + tz) % DaySeconds = Seconds(hour, minute, second)
  <2> HIDE DEF asked, seconds
  <2> QED BY <1>1, <1>2, ThereAndBack
<1>4. set_time(clock, hour, minute, second) = set_secs(clock, asked)
  BY DEF set_time, TimeAsked
<1> HIDE DEF asked, seconds
<1>5. IF Refuses(asked) THEN set_secs(clock, asked) = clock
      ELSE set_secs(clock, asked).sec = asked.sec
  BY <1>3, Kept
<1> QED BY <1>3, <1>4, <1>5 DEF asked

(* set_date does not modify the time.                                      *)
LEMMA DateKeepsTime ==
  ASSUME NEW clock, IsTimeOfDay(clock.sec), NEW year, NEW month, NEW day
  PROVE  set_date(clock, year, month, day).sec = clock.sec
<1> DEFINE local == Plus(clock, tz)
           tm == [localtime_r(clock) EXCEPT !.year = year, !.mon = month - 1, !.mday = day]
           now == mktime(tm)
<1>1. local.sec = (clock.sec + tz) % DaySeconds /\ IsTimeOfDay(local.sec)
  BY DEF Plus, IsTimeOfDay, DaySeconds, tz
<1>2. /\ tm.hour = gmtime_r(local).hour /\ tm.min = gmtime_r(local).min
      /\ tm.sec = gmtime_r(local).sec
  BY DEF localtime_r, gmtime_r
<1>3. timegm(tm).sec = local.sec
  <2> HIDE DEF tm, local
  <2>1. /\ tm.hour \in 0..23 /\ tm.min \in 0..59 /\ tm.sec \in 0..59
        /\ (tm.hour * 60 + tm.min) * 60 + tm.sec = local.sec
    BY <1>1, <1>2, Split
  <2>2. tm.hour \in 0..24 /\ tm.min \in 0..60 /\ tm.sec \in 0..60
    BY <2>1
  <2>3. timegm(tm).sec = Seconds(tm.hour, tm.min, tm.sec)
    BY <2>2, Joined, Zenon
  <2> QED BY <2>1, <2>3, SecondsWithin
<1>4. now.sec = (timegm(tm).sec + (-tz)) % DaySeconds
  BY DEF mktime, Plus
<1>5. now.sec = clock.sec
  <2> HIDE DEF now, local, tm
  <2> QED BY <1>1, <1>3, <1>4, ThereAndBack DEF IsTimeOfDay, DaySeconds
<1>6. set_date(clock, year, month, day) = set_secs(clock, now)
  BY DEF set_date
<1> HIDE DEF now
<1> QED BY <1>5, <1>6, Kept

-----------------------------------------------------------------------------
(* The clock, as its registers hold it. *)

IsClock(t) ==
  IsMoment(t) /\ DaysBefore(2000) <= t.day /\ t.day < DaysBefore(2160)

(* The years 2000, 2100 and 2160 in the days of both definitions.          *)
LEMMA RegisterDays ==
  /\ YearDays(2000) = DaysBefore(2000) /\ YearDays(2100) = DaysBefore(2100)
  /\ YearDays(2160) = DaysBefore(2160)
  /\ DaysBefore(2000) \in Nat /\ DaysBefore(2000) > 1
  /\ DaysBefore(2100) \in Nat /\ DaysBefore(2000) < DaysBefore(2100)
  /\ DaysBefore(2160) \in Nat /\ DaysBefore(2100) < DaysBefore(2160)
<1>1. \A year \in {2000, 2100, 2160} : YearDays(year) = DaysBefore(year)
  BY YearDaysCounts
<1>2. \A year \in Nat : DaysBefore(year) \in Int
  BY NextYearDays
<1>3. DaysBefore(1971) = 365
  BY DEF DaysBefore, LeapDaysBefore
<1>4. /\ DaysBefore(1971) <= DaysBefore(2000) /\ DaysBefore(2001) <= DaysBefore(2100)
      /\ DaysBefore(2101) <= DaysBefore(2160)
  BY YearsInOrder
<1>5. /\ DaysBefore(2000 + 1) = DaysBefore(2000) + LeapLength(2000)
      /\ DaysBefore(2100 + 1) = DaysBefore(2100) + LeapLength(2100)
  BY NextYearDays
<1>6. /\ LeapLength(2000) \in Nat \ {0} /\ LeapLength(2100) \in Nat \ {0}
      /\ 2000 + 1 = 2001 /\ 2100 + 1 = 2101
  BY DEF LeapLength
<1>7. /\ DaysBefore(2000) \in Int /\ DaysBefore(2100) \in Int /\ DaysBefore(2160) \in Int
      /\ DaysBefore(2001) = DaysBefore(2000) + LeapLength(2000)
      /\ DaysBefore(2101) = DaysBefore(2100) + LeapLength(2100)
  BY <1>2, <1>5, <1>6
<1> HIDE DEF DaysBefore, LeapLength, YearDays
<1> QED BY <1>1, <1>3, <1>4, <1>6, <1>7

(* The clock's type, in the days of the calendar rules.                    *)
LEMMA ClockType ==
  ASSUME NEW t
  PROVE  t \in [day : RtcDays, sec : 0..DaySeconds - 1] <=> IsClock(t)
<1>1. ASSUME NEW d PROVE d \in RtcDays
        <=> d \in Nat /\ DaysBefore(2000) <= d /\ d < DaysBefore(2160)
  <2> HIDE DEF DaysBefore
  <2> QED BY RegisterDays DEF RtcDays
<1> DEFINE Second == 0..DaySeconds - 1
<1>2. ASSUME NEW s PROVE s \in Second <=> IsTimeOfDay(s)
  <2>1. DaySeconds \in Int
    BY DEF DaySeconds
  <2> QED BY <2>1, SMT DEF IsTimeOfDay
<1> HIDE DEF Second
<1>3. ASSUME t \in [day : RtcDays, sec : Second]
      PROVE  IsClock(t)
  <2>1. t = [day |-> t.day, sec |-> t.sec] /\ t.day \in RtcDays /\ t.sec \in Second
    BY <1>3
  <2> QED BY <1>1, <1>2, <2>1 DEF IsClock, IsMoment
<1>4. ASSUME IsClock(t)
      PROVE  t \in [day : RtcDays, sec : Second]
  <2>1. t = [day |-> t.day, sec |-> t.sec] /\ t.day \in RtcDays /\ t.sec \in Second
    <3>1. t = [day |-> t.day, sec |-> t.sec]
      BY <1>4 DEF IsClock, IsMoment
    <3>2. t.day \in RtcDays
      BY <1>1, <1>4 DEF IsClock, IsMoment
    <3>3. t.sec \in Second
      BY <1>2, <1>4 DEF IsClock, IsMoment
    <3> QED BY <3>1, <3>2, <3>3, Zenon
  <2> QED BY <2>1
<1> QED BY <1>3, <1>4 DEF Second

(* Local time and back.                                                    *)
LEMMA Moved ==
  ASSUME NEW t, IsMoment(t), t.day >= 1
  PROVE  /\ IsMoment(Plus(t, tz)) /\ IsMoment(Plus(t, -tz))
         /\ Plus(Plus(t, tz), -tz) = t /\ Plus(Plus(t, -tz), tz) = t
         /\ t.day <= Plus(t, tz).day /\ Plus(t, tz).day <= t.day + 1
         /\ t.day - 1 <= Plus(t, -tz).day /\ Plus(t, -tz).day <= t.day
<1> DEFINE d == t.day  s == t.sec
           east == Plus(t, tz)  west == Plus(t, -tz)
<1>1. d \in Nat /\ d >= 1 /\ s \in Int /\ 0 <= s /\ s < 86400
  BY SMT DEF IsMoment, IsTimeOfDay, DaySeconds
<1>2. /\ east = [day |-> d + (s + 28800) \div 86400, sec |-> (s + 28800) % 86400]
      /\ west = [day |-> d + (s + (-28800)) \div 86400, sec |-> (s + (-28800)) % 86400]
  BY DEF Plus, DaySeconds, tz
<1>3. /\ IsTimeOfDay(east.sec) /\ IsTimeOfDay(west.sec)
  BY <1>1, <1>2, SMT DEF IsTimeOfDay, DaySeconds
<1>4. /\ east.day \in Nat /\ d <= east.day /\ east.day <= d + 1
      /\ west.day \in Nat /\ d - 1 <= west.day /\ west.day <= d
  BY <1>1, <1>2, SMT
<1>5. /\ east.day + (east.sec + (-28800)) \div 86400 = d
      /\ (east.sec + (-28800)) % 86400 = s
  <2> HIDE DEF d, s
  <2>1. east.day = d + (s + 28800) \div 86400 /\ east.sec = (s + 28800) % 86400
    BY <1>2
  <2> HIDE DEF east
  <2>2. CASE s < 57600
    <3>1. (s + 28800) \div 86400 = 0 /\ (s + 28800) % 86400 = s + 28800
      BY <1>1, <2>2
    <3> QED BY <1>1, <2>1, <3>1
  <2>3. CASE s >= 57600
    <3>1. (s + 28800) \div 86400 = 1 /\ (s + 28800) % 86400 = s - 57600
      BY <1>1, <2>3
    <3> QED BY <1>1, <2>1, <3>1
  <2> QED BY <1>1, <2>2, <2>3
<1>6. /\ west.day + (west.sec + 28800) \div 86400 = d
      /\ (west.sec + 28800) % 86400 = s
  BY <1>1, <1>2, SMT
<1>7. IsMoment(east) /\ IsMoment(west)
  <2>1. east = [day |-> east.day, sec |-> east.sec] /\ west = [day |-> west.day, sec |-> west.sec]
    BY DEF Plus
  <2> HIDE DEF east, west
  <2> QED BY <1>3, <1>4, <2>1, Zenon DEF IsMoment
<1>8. t = [day |-> d, sec |-> s]
  BY DEF IsMoment
<1>9. Plus(east, -tz) = t /\ Plus(west, tz) = t
  <2> HIDE DEF east, west, d, s
  <2> QED BY <1>5, <1>6, <1>8 DEF Plus, DaySeconds, tz
<1> QED BY <1>4, <1>7, <1>9

(* The driver: what it does not refuse, the registers can hold; and a time *)
(* in the years of two digits is stored as it is.                          *)
LEMMA DriverKeeps ==
  ASSUME NEW clock, NEW now, IsMoment(now), ~Refuses(now)
  PROVE  /\ IsClock(set_secs(clock, now))
         /\ gmtime_r(now).year < 2100 => set_secs(clock, now) = now
<1> DEFINE tm == gmtime_r(now)
           year == 2000 + DR_Year((tm.year - 2000) % 256)
           set == [tm EXCEPT !.year = year]
<1>1. set_secs(clock, now) = timegm(set)
  BY DEF set_secs, Refuses
<1>2. IsDate(tm) /\ tm.year >= 2000
  BY GmtimeDate DEF IsMoment, Refuses, IsDate
<1>3. /\ tm.hour \in 0..23 /\ tm.min \in 0..59 /\ tm.sec \in 0..59
  BY Split DEF IsMoment
<1>4. /\ tm = [year |-> tm.year, mon |-> tm.mon, mday |-> tm.mday,
               hour |-> tm.hour, min |-> tm.min, sec |-> tm.sec]
  BY DEF gmtime_r
<1>5. /\ set.year = year /\ set.mon = tm.mon /\ set.mday = tm.mday
      /\ set.hour = tm.hour /\ set.min = tm.min /\ set.sec = tm.sec
  BY DEF gmtime_r
<1>6. tm.year < 2100 => set = tm
  <2> SUFFICES ASSUME tm.year < 2100 PROVE set = tm
    OBVIOUS
  <2>1. year = tm.year
    <3>1. tm.year \in 2000..2099
      BY <1>2 DEF IsDate
    <3> HIDE DEF tm
    <3> DEFINE n == tm.year - 2000
    <3>2. n \in 0..99
      BY <3>1
    <3>3. tm.year = 2000 + n
      BY <3>1
    <3> HIDE DEF n
    <3>4. n % 256 = n /\ (n \div 10) % 16 = n \div 10 /\ (n \div 10) * 10 + (n % 10) = n
      BY <3>2
    <3> QED BY <3>3, <3>4 DEF DR_Year, n
  <2> HIDE DEF tm, year
  <2> QED BY <1>4, <2>1
<1>7. year \in 2000..2159
  <2>1. tm.year \in Nat
    BY <1>2 DEF IsDate
  <2> HIDE DEF tm
  <2> DEFINE byte == (tm.year - 2000) % 256
  <2>2. byte \in 0..255
    BY <2>1
  <2> HIDE DEF byte
  <2>3. DR_Year(byte) \in 0..159
    BY <2>2 DEF DR_Year
  <2> QED BY <2>3 DEF byte
<1> HIDE DEF tm, year, set
<1>8. IsDate(set) /\ set.year \in 2000..2159
  BY <1>2, <1>5, <1>7 DEF IsDate
<1>9. /\ set.hour \in 0..23 /\ set.min \in 0..59 /\ set.sec \in 0..59
  BY <1>3, <1>5
<1> DEFINE second == (set.hour * 60 + set.min) * 60 + set.sec
<1>10. timegm(set) = [day |-> DayNumber(set), sec |-> second] /\ IsTimeOfDay(second)
  <2>1. timegm(set) = [day |-> DayNumber(set), sec |-> second]
    BY <1>8, <1>9, TimegmDate
  <2>2. second \in Nat /\ second < DaySeconds
    BY <1>9, TimeWithin
  <2> QED BY <2>1, <2>2 DEF IsTimeOfDay
<1>11. DaysBefore(2000) <= DayNumber(set) /\ DayNumber(set) < DaysBefore(2160)
  <2>1. set.year \in Nat /\ 2000 <= set.year /\ set.year + 1 \in Nat /\ set.year + 1 <= 2160
    BY <1>8
  <2>2. /\ DaysBefore(2000) <= DaysBefore(set.year)
        /\ DaysBefore(set.year + 1) <= DaysBefore(2160)
    BY <2>1, YearsInOrder
  <2>3. DaysBefore(set.year) <= DayNumber(set) /\ DayNumber(set) < DaysBefore(set.year + 1)
    BY <1>8, DayWithinYear
  <2>4. /\ DaysBefore(set.year) \in Int /\ DaysBefore(set.year + 1) \in Int
        /\ DayNumber(set) \in Nat
    BY <1>8, <2>1, NextYearDays, DayNumberType
  <2> HIDE DEF DaysBefore, DayNumber
  <2> QED BY <2>2, <2>3, <2>4, RegisterDays
<1>12. IsClock(timegm(set))
  <2>1. DayNumber(set) \in Nat
    BY <1>8, DayNumberType
  <2> HIDE DEF second, DaysBefore
  <2> QED BY <1>10, <1>11, <2>1 DEF IsClock, IsMoment
<1>13. set = tm => timegm(set) = now
  BY TimegmOfGmtime DEF tm
<1> QED BY <1>1, <1>6, <1>12, <1>13 DEF tm

(* What set_time asks for is not before the day of the clock, but for the  *)
(* hours of the time zone.                                                 *)
LEMMA AskedDay ==
  ASSUME NEW clock, IsClock(clock),
         NEW hour \in 0..24, NEW minute \in 0..60, NEW second \in 0..60
  PROVE  /\ IsMoment(TimeAsked(clock, hour, minute, second))
         /\ clock.day - 1 <= TimeAsked(clock, hour, minute, second).day
<1> DEFINE local == Plus(clock, tz)
           tm == [localtime_r(clock) EXCEPT !.hour = hour, !.min = minute, !.sec = second]
           hours == hour + minute \div 60
           seconds == ((hours % 24) * 60 + (minute % 60)) * 60 + second
           carried == CarriedDay(tm, hours \div 24)
           at == timegm(tm)
<1>1. IsMoment(clock) /\ clock.day > 1
  <2> HIDE DEF DaysBefore
  <2> QED BY RegisterDays DEF IsClock, IsMoment
<1>2. IsMoment(local) /\ clock.day <= local.day
  <2>1. clock.day >= 1
    BY <1>1 DEF IsMoment
  <2> QED BY <1>1, <2>1, Moved
<1>3. IsDate(gmtime_r(local)) /\ DayNumber(gmtime_r(local)) = local.day
  BY <1>2, GmtimeDate DEF IsMoment
<1>4. /\ tm.year = gmtime_r(local).year /\ tm.mon = gmtime_r(local).mon
      /\ tm.mday = gmtime_r(local).mday
      /\ tm.hour = hour /\ tm.min = minute /\ tm.sec = second
  BY DEF localtime_r, gmtime_r
<1>5. TimeAsked(clock, hour, minute, second) = Plus(at, -tz)
  BY DEF TimeAsked, mktime
<1> HIDE DEF local, tm
<1>6. IsDate(tm) /\ DayNumber(tm) = local.day
  BY <1>3, <1>4 DEF IsDate, DayNumber
<1>7. at = Plus([day |-> carried, sec |-> 0], seconds)
  <2>1. tm.hour \in 0..24 /\ tm.min \in 0..60 /\ tm.sec \in 0..60
    BY <1>4
  <2> QED BY <1>4, <1>6, <2>1, TimegmCarries
<1>8. hours \div 24 \in {0, 1} /\ seconds \in Nat
  <2>1. hours \in 0..25 /\ minute % 60 \in 0..59
    OBVIOUS
  <2>2. hours \div 24 \in {0, 1} /\ hours % 24 \in 0..23
    BY <2>1
  <2> HIDE DEF hours
  <2> QED BY <2>1, <2>2
<1>9. carried \in Nat /\ local.day <= carried
  <2> DEFINE carry == hours \div 24
  <2>1. carry \in {0, 1}
    BY <1>8
  <2> HIDE DEF carry
  <2>2. CarriedDay(tm, carry) \in Nat /\ CarriedDay(tm, carry) >= DayNumber(tm)
    BY <1>6, <2>1, DayCarried
  <2>3. DayNumber(tm) \in Nat
    BY <1>6, DayNumberType
  <2> QED BY <1>6, <2>2, <2>3 DEF carry
<1> HIDE DEF carried, seconds
<1>10. IsMoment(at) /\ carried <= at.day
  <2>1. at = [day |-> carried + (0 + seconds) \div DaySeconds, sec |-> (0 + seconds) % DaySeconds]
    BY <1>7 DEF Plus
  <2>2. (0 + seconds) \div DaySeconds \in Nat /\ IsTimeOfDay((0 + seconds) % DaySeconds)
    BY <1>8, SMT DEF IsTimeOfDay, DaySeconds
  <2> HIDE DEF at
  <2> QED BY <1>9, <2>1, <2>2 DEF IsMoment
<1> HIDE DEF at
<1>11. IsMoment(Plus(at, -tz)) /\ at.day - 1 <= Plus(at, -tz).day
  <2>1. at.day >= 1
    BY <1>1, <1>2, <1>9, <1>10 DEF IsMoment
  <2> QED BY <1>10, <2>1, Moved
<1> QED BY <1>1, <1>2, <1>5, <1>9, <1>10, <1>11 DEF IsMoment

YearShown == 2000..2400
YearOfTwoDigits == 2001..2099

(* set_date: the clock holds what its registers can, and the date that is  *)
(* asked for, as long as the year has two digits.                          *)
LEMMA DateIsSet ==
  ASSUME NEW clock, IsClock(clock),
         NEW year \in YearShown, NEW month \in 1..12, NEW day \in 1..31
  PROVE  /\ IsClock(set_date(clock, year, month, day))
         /\ year \in YearOfTwoDigits
              => Local(set_date(clock, year, month, day)).day
                   = DaysBefore(year) + DaysBeforeMonth(year)[month] + day - 1
<1> DEFINE local == Plus(clock, tz)
           tm == [localtime_r(clock) EXCEPT !.year = year, !.mon = month - 1, !.mday = day]
           at == timegm(tm)
           now == Plus(at, -tz)
<1>1. IsMoment(local)
  <2>1. clock.day >= 1
    <3> HIDE DEF DaysBefore
    <3> QED BY RegisterDays DEF IsClock, IsMoment
  <2> QED BY <2>1, Moved DEF IsClock
<1>2. /\ tm.hour = gmtime_r(local).hour /\ tm.min = gmtime_r(local).min
      /\ tm.sec = gmtime_r(local).sec
      /\ tm.year = year /\ tm.mon = month - 1 /\ tm.mday = day
  BY DEF localtime_r, gmtime_r
<1>3. set_date(clock, year, month, day) = set_secs(clock, now)
  BY DEF set_date, mktime
<1> HIDE DEF local, tm
<1>4. /\ tm.hour \in 0..23 /\ tm.min \in 0..59 /\ tm.sec \in 0..59
      /\ IsTimeOfDay((tm.hour * 60 + tm.min) * 60 + tm.sec)
  BY <1>1, <1>2, Split DEF IsMoment
<1>5. IsDate(tm)
  BY <1>2 DEF IsDate, YearShown
<1>6. DayNumber(tm) \in Nat
  BY <1>5, DayNumberType
<1>7. at = [day |-> DayNumber(tm), sec |-> (tm.hour * 60 + tm.min) * 60 + tm.sec]
  BY <1>4, <1>5, TimegmDate
<1>8. IsMoment(at) /\ at.day = DayNumber(tm)
  BY <1>4, <1>6, <1>7 DEF IsMoment
<1>9. /\ DaysBefore(year) <= DayNumber(tm)
      /\ DayNumber(tm) < DaysBefore(year + 1)
  BY <1>2, <1>5, DayWithinYear
<1>10. /\ DaysBefore(2000) <= DaysBefore(year)
       /\ DaysBefore(year) \in Int /\ DaysBefore(year + 1) \in Int
  <2>1. year \in Nat /\ 2000 <= year /\ year + 1 \in Nat
    BY DEF YearShown
  <2> QED BY <2>1, YearsInOrder, NextYearDays
<1> HIDE DEF at
<1>11. /\ IsMoment(now) /\ Plus(now, tz) = at
       /\ at.day - 1 <= now.day /\ now.day <= at.day
  <2>1. at.day >= 1
    <3> HIDE DEF DaysBefore, DayNumber
    <3> QED BY <1>6, <1>8, <1>9, <1>10, RegisterDays
  <2> QED BY <1>8, <2>1, Moved
<1> HIDE DEF now
<1>12. IsClock(set_secs(clock, now))
  <2>1. CASE Refuses(now)
    <3>1. set_secs(clock, now) = clock
      BY <2>1 DEF set_secs, Refuses
    <3> QED BY <3>1
  <2>2. CASE ~Refuses(now)
    BY <1>11, <2>2, DriverKeeps
  <2> QED BY <2>1, <2>2
<1>13. ASSUME year \in YearOfTwoDigits
       PROVE  set_secs(clock, now) = now
  <2>1. DaysBefore(2000) < DaysBefore(year) /\ DaysBefore(year + 1) <= DaysBefore(2100)
    <3>1. DaysBefore(2000) < DaysBefore(2001)
      <4>1. DaysBefore(2000 + 1) = DaysBefore(2000) + LeapLength(2000) /\ 2000 + 1 = 2001
        BY NextYearDays
      <4>2. LeapLength(2000) \in Nat \ {0}
        BY DEF LeapLength
      <4> HIDE DEF DaysBefore
      <4> QED BY <4>1, <4>2, RegisterDays
    <3>2. DaysBefore(2001) <= DaysBefore(year) /\ DaysBefore(year + 1) <= DaysBefore(2100)
      <4>1. year \in Nat /\ 2001 <= year /\ year + 1 \in Nat /\ year + 1 <= 2100
        BY <1>13 DEF YearOfTwoDigits
      <4> QED BY <4>1, YearsInOrder
    <3>3. DaysBefore(2001) \in Int
      BY NextYearDays
    <3> HIDE DEF DaysBefore
    <3> QED BY <1>10, <3>1, <3>2, <3>3, RegisterDays
  <2>2. DaysBefore(2000) <= now.day /\ now.day < DaysBefore(2100)
    <3>1. now.day \in Nat
      BY <1>11 DEF IsMoment
    <3> HIDE DEF DaysBefore, DayNumber
    <3> QED BY <1>6, <1>8, <1>9, <1>10, <1>11, <2>1, <3>1, RegisterDays
  <2>3. 2000 <= gmtime_r(now).year /\ gmtime_r(now).year < 2100
    BY <1>11, <2>2, GmtimeBetween DEF IsMoment
  <2>4. gmtime_r(now).year \in Nat
    BY <1>11, GmtimeDate DEF IsMoment, IsDate
  <2>5. ~Refuses(now)
    BY <2>3, <2>4 DEF Refuses
  <2> QED BY <1>11, <2>3, <2>5, DriverKeeps
<1>14. DayNumber(tm) = DaysBefore(year) + DaysBeforeMonth(year)[month] + day - 1
  <2>1. DaysBeforeMonth(year)[(month - 1) + 1] = MonthStart(year, month - 1)
    <3>1. year \in Nat /\ month - 1 \in 0..11
      BY DEF YearShown
    <3> QED BY <3>1, MonthStartCounts
  <2>2. (month - 1) + 1 = month
    OBVIOUS
  <2> QED BY <1>2, <2>1, <2>2 DEF DayNumber
<1>15. Local(now).day = DayNumber(tm)
  BY <1>8, <1>11 DEF Local, tz
<1> QED BY <1>3, <1>12, <1>13, <1>14, <1>15

-----------------------------------------------------------------------------
(* The page. *)

FieldTypes ==
  /\ val = [f \in Field |-> val[f]]
  /\ val["Hour"] \in 0..24 /\ val["Min"] \in 0..60 /\ val["Sec"] \in 0..60
  /\ val["Year"] \in 2000..2400 /\ val["Mon"] \in 1..12 /\ val["Day"] \in 1..31

(* The two writes of a confirmed change, seen from the time of day.        *)
LEMMA ConfirmTime ==
  ASSUME IsTimeOfDay(rtc.sec), FieldTypes, Confirm
  PROVE  /\ IsTimeOfDay(rtc'.sec)
         /\ IF Refused THEN rtc'.sec = rtc.sec
            ELSE Local(rtc').sec = TimeOf(val)
<1> DEFINE after == set_time(rtc, val.Hour, val.Min, val.Sec)
<1>1. rtc' = set_date(after, val.Year, val.Mon, val.Day)
  BY DEF Confirm
<1>2. Refused <=> Refuses(TimeAsked(rtc, val.Hour, val.Min, val.Sec))
  BY DEF Refused, Refuses, TimeAsked
<1>3. IF Refused THEN after = rtc
      ELSE /\ IsTimeOfDay(after.sec)
           /\ (after.sec + tz) % DaySeconds
                = Seconds(val.Hour, val.Min, val.Sec)
  <2>1. val.Hour \in 0..24 /\ val.Min \in 0..60 /\ val.Sec \in 0..60
    BY DEF FieldTypes
  <2>2. IF Refuses(TimeAsked(rtc, val.Hour, val.Min, val.Sec))
        THEN after = rtc
        ELSE /\ IsTimeOfDay(after.sec)
             /\ (after.sec + tz) % DaySeconds = Seconds(val.Hour, val.Min, val.Sec)
    BY <2>1, TimeIsSet
  <2> QED BY <1>2, <2>2
<1> HIDE DEF after
<1>4. IsTimeOfDay(after.sec)
  BY <1>3
<1>5. rtc'.sec = after.sec
  BY <1>1, <1>4, DateKeepsTime
<1>6. CASE Refused
  BY <1>3, <1>4, <1>5, <1>6
<1>7. CASE ~Refused
  <2>1. Local(rtc').sec = (rtc'.sec + 28800) % DaySeconds
    BY DEF Local, Plus
  <2> QED BY <1>3, <1>4, <1>5, <1>7, <2>1, SMT DEF Seconds, TimeOf, tz
<1> QED BY <1>6, <1>7

(* The two writes of a confirmed change, seen from the date.               *)
LEMMA ConfirmDate ==
  ASSUME IsClock(rtc), FieldTypes, Confirm
  PROVE  /\ IsClock(rtc')
         /\ val.Year \in 2001..2099 => Local(rtc').day = DayOf(val)
         /\ Refused => rtc.day = YearDays(2000)
<1> DEFINE asked == TimeAsked(rtc, val.Hour, val.Min, val.Sec)
           after == set_time(rtc, val.Hour, val.Min, val.Sec)
<1>1. rtc' = set_date(after, val.Year, val.Mon, val.Day)
  BY DEF Confirm
<1>2. Refused <=> Refuses(asked)
  BY DEF Refused, Refuses, TimeAsked
<1>3. after = set_secs(rtc, asked)
  BY DEF set_time, TimeAsked
<1>4. IsMoment(asked) /\ rtc.day - 1 <= asked.day
  <2>1. val.Hour \in 0..24 /\ val.Min \in 0..60 /\ val.Sec \in 0..60
    BY DEF FieldTypes
  <2> QED BY <2>1, AskedDay
<1> HIDE DEF asked
<1>5. IsClock(after)
  <2>1. CASE Refuses(asked)
    <3>1. after = rtc
      BY <1>3, <2>1 DEF set_secs, Refuses
    <3> QED BY <3>1
  <2>2. CASE ~Refuses(asked)
    BY <1>3, <1>4, <2>2, DriverKeeps
  <2> QED BY <2>1, <2>2
<1> HIDE DEF after
<1>6. /\ IsClock(rtc')
      /\ val.Year \in 2001..2099
           => Local(rtc').day = DaysBefore(val.Year) + DaysBeforeMonth(val.Year)[val.Mon] + val.Day - 1
  <2>1. val.Year \in 2000..2400 /\ val.Mon \in 1..12 /\ val.Day \in 1..31
    BY DEF FieldTypes
  <2> DEFINE year == val.Year  month == val.Mon  day == val.Day
             set == set_date(after, year, month, day)
  <2>2. year \in YearShown /\ month \in 1..12 /\ day \in 1..31 /\ rtc' = set
    BY <1>1, <2>1 DEF YearShown
  <2> HIDE DEF year, month, day
  <2>3. /\ IsClock(set)
        /\ year \in YearOfTwoDigits
             => Local(set).day
                  = DaysBefore(year) + DaysBeforeMonth(year)[month] + day - 1
    BY <1>5, <2>2, DateIsSet
  <2> HIDE DEF set
  <2>4. /\ IsClock(rtc')
        /\ year \in YearOfTwoDigits
             => Local(rtc').day
                  = DaysBefore(year) + DaysBeforeMonth(year)[month] + day - 1
    BY <2>2, <2>3
  <2> QED BY <2>4 DEF year, month, day, YearOfTwoDigits
<1>7. Refused => rtc.day = YearDays(2000)
  <2> SUFFICES ASSUME Refused PROVE rtc.day = YearDays(2000)
    OBVIOUS
  <2>1. gmtime_r(asked).year < 2000
    BY <1>2 DEF Refuses
  <2>2. gmtime_r(asked).year \in Nat
    BY <1>4, GmtimeDate DEF IsMoment, IsDate
  <2>3. ~(DaysBefore(2000) <= asked.day)
    BY <1>4, <2>1, <2>2, GmtimeBetween DEF IsMoment
  <2>4. rtc.day \in Nat /\ asked.day \in Nat /\ DaysBefore(2000) <= rtc.day
    BY <1>4 DEF IsClock, IsMoment
  <2> HIDE DEF DaysBefore, YearDays
  <2> QED BY <1>4, <2>3, <2>4, RegisterDays
<1> QED BY <1>6, <1>7 DEF DayOf

(* Setup shows local time, and fields in their ranges.                     *)
LEMMA FieldsRead ==
  ASSUME IsClock(rtc), Setup
  PROVE  FieldTypes' /\ Moment(val') = Local(rtc)
<1> DEFINE local == Plus(rtc, 28800)
           tm == gmtime_r(local)
<1>1. IsMoment(local) /\ rtc.day <= local.day /\ local.day <= rtc.day + 1
  <2>1. rtc.day >= 1
    <3> HIDE DEF DaysBefore
    <3> QED BY RegisterDays DEF IsClock, IsMoment
  <2> QED BY <2>1, Moved DEF IsClock, tz
<1>2. val' = [Hour |-> tm.hour, Min |-> tm.min, Sec |-> tm.sec,
              Year |-> tm.year, Mon |-> tm.mon + 1, Day |-> tm.mday]
  BY DEF Setup, time_set_create
<1>3. IsDate(tm)
      /\ DaysBefore(tm.year) + DaysBeforeMonth(tm.year)[tm.mon + 1] + tm.mday - 1 = local.day
  BY <1>1, GmtimeDate, GmtimeCounts DEF IsMoment
<1>4. /\ tm.hour \in 0..23 /\ tm.min \in 0..59 /\ tm.sec \in 0..59
      /\ (tm.hour * 60 + tm.min) * 60 + tm.sec = local.sec
  BY <1>1, Split DEF IsMoment
<1>5. 2000 <= tm.year /\ tm.year < 2161
  <2>1. DaysBefore(2000) <= local.day /\ local.day < DaysBefore(2161)
    <3>1. DaysBefore(2160 + 1) = DaysBefore(2160) + LeapLength(2160) /\ 2160 + 1 = 2161
      BY NextYearDays
    <3>2. LeapLength(2160) \in Nat \ {0}
      BY DEF LeapLength
    <3>3. rtc.day \in Nat /\ local.day \in Nat
      BY <1>1 DEF IsClock, IsMoment
    <3> HIDE DEF DaysBefore, local
    <3> QED BY <1>1, <3>1, <3>2, <3>3, RegisterDays DEF IsClock
  <2> QED BY <1>1, <2>1, GmtimeBetween DEF IsMoment
<1> HIDE DEF tm
<1>6. FieldTypes'
  <2>1. val' = [f \in Field |-> val'[f]]
    BY <1>2 DEF Field
  <2>2. /\ val'["Hour"] = tm.hour /\ val'["Min"] = tm.min /\ val'["Sec"] = tm.sec
        /\ val'["Year"] = tm.year /\ val'["Mon"] = tm.mon + 1 /\ val'["Day"] = tm.mday
    BY <1>2
  <2>3. /\ val'["Hour"] \in 0..24 /\ val'["Min"] \in 0..60 /\ val'["Sec"] \in 0..60
    BY <1>4, <2>2
  <2>4. /\ val'["Year"] \in 2000..2400 /\ val'["Mon"] \in 1..12 /\ val'["Day"] \in 1..31
    BY <1>3, <1>5, <2>2 DEF IsDate
  <2> QED BY <2>1, <2>3, <2>4 DEF FieldTypes
<1>7. DayOf(val') = local.day
  BY <1>2, <1>3 DEF DayOf
<1>8. TimeOf(val') = local.sec
  <2> HIDE DEF local
  <2>1. TimeOf(val') = Seconds(tm.hour, tm.min, tm.sec)
    BY <1>2 DEF TimeOf, Seconds
  <2>2. Seconds(tm.hour, tm.min, tm.sec) = (tm.hour * 60 + tm.min) * 60 + tm.sec
    <3>1. \A h \in 0..23, m \in 0..59, s \in 0..59 :
            Seconds(h, m, s) = (h * 60 + m) * 60 + s
      BY SecondsWithin
    <3> QED BY <1>4, <3>1, Zenon
  <2> QED BY <1>4, <2>1, <2>2, Zenon
<1>9. local = [day |-> local.day, sec |-> local.sec] /\ Local(rtc) = local
  BY DEF Plus, Local
<1> HIDE DEF local
<1> QED BY <1>6, <1>7, <1>8, <1>9 DEF Moment

(* A step of a field stays in its range.                                   *)
LEMMA FieldChanged ==
  ASSUME FieldTypes, NEW setter, NEW step \in {1, -1},
         val' = [val EXCEPT ![setter] = btn_change_val(setter, step)]
  PROVE  FieldTypes'
<1>1. val' = [f \in Field |-> val'[f]]
  BY DEF FieldTypes
<1>2. \A f \in Field : val'[f] = IF f = setter THEN btn_change_val(f, step) ELSE val[f]
  BY DEF FieldTypes
<1>3. btn_change_val("Hour", step) \in 0..24
  BY DEF btn_change_val, FieldTypes, min, max
<1>4. btn_change_val("Min", step) \in 0..60
  BY DEF btn_change_val, FieldTypes, min, max
<1>5. btn_change_val("Sec", step) \in 0..60
  BY DEF btn_change_val, FieldTypes, min, max
<1>6. btn_change_val("Year", step) \in 2000..2400
  BY DEF btn_change_val, FieldTypes, min, max
<1>7. btn_change_val("Mon", step) \in 1..12
  BY DEF btn_change_val, FieldTypes, min, max
<1>8. btn_change_val("Day", step) \in 1..31
  BY DEF btn_change_val, FieldTypes, min, max
<1>9. /\ val'["Hour"] \in 0..24 /\ val'["Min"] \in 0..60 /\ val'["Sec"] \in 0..60
      /\ val'["Mon"] \in 1..12 /\ val'["Day"] \in 1..31
  BY <1>2, <1>3, <1>4, <1>5, <1>7, <1>8 DEF FieldTypes, Field
<1>10. val'["Year"] \in 2000..2400
  <2>1. val'["Year"] = IF "Year" = setter THEN btn_change_val("Year", step) ELSE val["Year"]
    BY <1>2 DEF Field
  <2> QED BY <1>6, <2>1 DEF FieldTypes
<1> QED BY <1>1, <1>9, <1>10 DEF FieldTypes

(* A tick keeps the clock in its registers.                                *)
LEMMA ClockTicks ==
  ASSUME NEW t, IsClock(t), NEW next \in NextSecond(t)
  PROVE  IsClock(next)
<1>1. IsMoment(t) /\ t.day \in Nat /\ IsTimeOfDay(t.sec)
  BY DEF IsClock, IsMoment
<1>2. CASE t.sec + 1 < DaySeconds
  <2>1. next = [day |-> t.day + (t.sec + 1) \div DaySeconds, sec |-> (t.sec + 1) % DaySeconds]
    BY <1>2 DEF NextSecond, Plus
  <2>2. /\ (t.sec + 1) \div DaySeconds = 0
        /\ IsTimeOfDay((t.sec + 1) % DaySeconds)
    BY <1>1, <1>2, SMT DEF IsTimeOfDay, DaySeconds
  <2>3. next.day = t.day /\ IsMoment(next)
    BY <1>1, <2>1, <2>2 DEF IsMoment
  <2> QED BY <2>3 DEF IsClock
<1>3. CASE ~(t.sec + 1 < DaySeconds) /\ t.day + 1 < YearDays(2100)
  <2>1. next = [day |-> t.day + (t.sec + 1) \div DaySeconds, sec |-> (t.sec + 1) % DaySeconds]
    BY <1>3 DEF NextSecond, Plus
  <2>2. /\ (t.sec + 1) \div DaySeconds = 1
        /\ IsTimeOfDay((t.sec + 1) % DaySeconds)
    BY <1>1, <1>3, SMT DEF IsTimeOfDay, DaySeconds
  <2>3. next.day = t.day + 1 /\ IsMoment(next)
    BY <1>1, <2>1, <2>2 DEF IsMoment
  <2> HIDE DEF DaysBefore, YearDays
  <2> QED BY <1>1, <1>3, <2>3, RegisterDays DEF IsClock
<1>4. CASE ~(t.sec + 1 < DaySeconds) /\ ~(t.day + 1 < YearDays(2100))
  <2>1. PICK d : /\ next = [day |-> d, sec |-> 0]
                 /\ d = YearDays(2000) \/ \E c \in Clocks : d = c.day
    BY <1>4 DEF NextSecond
  <2>2. DaysBefore(2000) <= d /\ d < DaysBefore(2160) /\ d \in Nat
    <3>1. CASE d = YearDays(2000)
      <4> HIDE DEF DaysBefore, YearDays
      <4> QED BY <3>1, RegisterDays
    <3>2. CASE \E c \in Clocks : d = c.day
      <4>1. PICK c \in Clocks : d = c.day
        BY <3>2
      <4>2. IsClock(c)
        BY <4>1, ClocksAssumption, ClockType
      <4> QED BY <4>1, <4>2 DEF IsClock, IsMoment
    <3> QED BY <2>1, <3>1, <3>2
  <2>3. IsTimeOfDay(0)
    BY SMT DEF IsTimeOfDay, DaySeconds
  <2> QED BY <2>1, <2>2, <2>3 DEF IsClock, IsMoment
<1> QED BY <1>2, <1>3, <1>4

-----------------------------------------------------------------------------
(* The clock holds what its registers can, so that it reads the dates it   *)
(* was given, and the fields are in the ranges that set_time and set_date  *)
(* can carry: neither is kept without the other.                           *)
Controls ==
  /\ shown \in BOOLEAN /\ is_setting \in BOOLEAN
  /\ focused \in 1..6
  /\ ticks \in 0..MaxTicks /\ changes \in 0..MaxChanges

Inv == IsClock(rtc) /\ FieldTypes /\ Controls

(* Inv holds in every state: the step of each action keeps the fields in   *)
(* range, and the clock is set to a date its year register holds.          *)
LEMMA Invariant == Spec => []Inv
<1>1. Init => Inv
  <2> SUFFICES ASSUME Init PROVE Inv
    OBVIOUS
  <2>1. IsClock(rtc)
    BY ClocksAssumption, ClockType DEF Init
  <2>2. FieldTypes
    BY DEF Init, FieldTypes, Field
  <2>3. Controls
    <3>1. 0 \in 0..MaxTicks /\ 0 \in 0..MaxChanges /\ 1 \in 1..6
      BY BoundsAssumption
    <3> QED BY <3>1 DEF Init, Controls
  <2> QED BY <2>1, <2>2, <2>3 DEF Inv
<1>2. Inv /\ [Next]_vars => Inv'
  <2> SUFFICES ASSUME Inv, [Next]_vars PROVE Inv'
    OBVIOUS
  <2>1. IsClock(rtc) /\ FieldTypes /\ Controls
    BY DEF Inv
  <2>2. CASE Setup
    <3>1. rtc' = rtc /\ FieldTypes'
      BY <2>1, <2>2, FieldsRead DEF Setup
    <3>2. Controls'
      <4>1. /\ shown' = TRUE /\ is_setting' = FALSE /\ focused' = 1
            /\ ticks' = ticks /\ changes' = changes
        BY <2>2 DEF Setup
      <4>2. 1 \in 1..6
        OBVIOUS
      <4> QED BY <2>1, <4>1, <4>2, Zenon DEF Controls
    <3> QED BY <2>1, <3>1, <3>2 DEF Inv
  <2>3. CASE Leave \/ Select
    <3>1. rtc' = rtc /\ val' = val
      BY <2>3 DEF Leave, Select
    <3>2. Controls'
      <4>1. CASE Leave
        BY <2>1, <4>1 DEF Leave, Controls
      <4>2. CASE Select
        BY <2>1, <4>2 DEF Select, Controls
      <4> QED BY <2>3, <4>1, <4>2
    <3> QED BY <2>1, <3>1, <3>2 DEF Inv, FieldTypes
  <2>4. CASE Confirm
    <3>1. IsClock(rtc')
      BY <2>1, <2>4, ConfirmDate
    <3>2. Controls'
      BY <2>1, <2>4 DEF Confirm, Controls
    <3>3. val' = val
      BY <2>4 DEF Confirm
    <3> QED BY <2>1, <3>1, <3>2, <3>3 DEF Inv, FieldTypes
  <2>5. CASE Focus
    <3>1. rtc' = rtc /\ val' = val
      BY <2>5 DEF Focus
    <3>2. focused' \in 1..6
      BY <2>1, <2>5 DEF Focus, Controls
    <3>3. Controls'
      BY <2>1, <2>5, <3>2 DEF Focus, Controls
    <3> QED BY <2>1, <3>1, <3>3 DEF Inv, FieldTypes
  <2>6. CASE Change
    <3>1. rtc' = rtc /\ FieldTypes'
      BY <2>1, <2>6, FieldChanged DEF Change
    <3>2. changes' \in 0..MaxChanges
      BY <2>1, <2>6, BoundsAssumption DEF Change, Controls
    <3>3. Controls'
      BY <2>1, <2>6, <3>2 DEF Change, Controls
    <3> QED BY <2>1, <3>1, <3>3 DEF Inv
  <2>7. CASE Tick
    <3>1. IsClock(rtc') /\ val' = val
      BY <2>1, <2>7, ClockTicks DEF Tick
    <3>2. ticks' \in 0..MaxTicks
      BY <2>1, <2>7, BoundsAssumption DEF Tick, Controls
    <3>3. Controls'
      BY <2>1, <2>7, <3>2 DEF Tick, Controls
    <3> QED BY <2>1, <3>1, <3>3 DEF Inv, FieldTypes
  <2>8. CASE UNCHANGED vars
    <3>1. rtc' = rtc /\ val' = val
      BY <2>8 DEF vars
    <3>2. Controls'
      BY <2>1, <2>8 DEF vars, Controls
    <3> QED BY <2>1, <3>1, <3>2 DEF Inv, FieldTypes
  <2> QED BY <2>2, <2>3, <2>4, <2>5, <2>6, <2>7, <2>8 DEF Next, Event
<1> QED BY <1>1, <1>2, PTL DEF Spec

(* Whatever date is confirmed, the clock holds what its registers can, and *)
(* the fields stay in their ranges.                                        *)
THEOREM TypesCorrect == Spec => []TypeOK
<1>1. Inv => TypeOK
  <2> SUFFICES ASSUME Inv PROVE TypeOK
    OBVIOUS
  <2>1. rtc \in [day : RtcDays, sec : 0..DaySeconds - 1]
    BY ClockType DEF Inv
  <2>2. \A f \in Field \ {"Year"} : val[f] \in min[f]..max[f]
    BY DEF Inv, FieldTypes, Field, min, max
  <2>3. val.Year \in 2000..max.Year
    BY DEF Inv, FieldTypes, max
  <2> QED BY <2>1, <2>2, <2>3 DEF Inv, Controls, TypeOK
<1> QED BY <1>1, Invariant, PTL

(* Setup shows the date and time it is on the board, for every time the    *)
(* clock may hold.                                                         *)
THEOREM LocalRead == Spec => SetupReadsLocal
<1>1. Inv /\ [Next]_vars => [Setup => Moment(val') = Local(rtc)]_vars
  BY FieldsRead DEF Inv
<1> QED BY <1>1, Invariant, PTL DEF Spec, SetupReadsLocal

(* A confirmed change sets the time of day to the fields, or not at all if *)
(* the driver refuses it, for every clock and every value of the fields.   *)
THEOREM TimeConfirmed == Spec => ConfirmedTime
<1>1. Inv /\ [Next]_vars
        => [Confirm => IF Refused THEN rtc'.sec = rtc.sec
                       ELSE Local(rtc').sec = TimeOf(val)]_vars
  BY ConfirmTime DEF Inv, IsClock, IsMoment
<1> QED BY <1>1, Invariant, PTL DEF Spec, ConfirmedTime

(* A confirmed change sets the date to the fields, for every clock and     *)
(* every date of a year of two digits but 2000, and the time is refused on *)
(* the first day of the clock only.                                        *)
THEOREM DateConfirmed == Spec => ConfirmedDate
<1>1. Inv /\ [Next]_vars
        => [Confirm /\ val.Year \in 2001..2099
              => /\ Local(rtc').day = DayOf(val)
                 /\ Refused => rtc.day = YearDays(2000)]_vars
  BY ConfirmDate DEF Inv
<1> QED BY <1>1, Invariant, PTL DEF Spec, ConfirmedDate
=============================================================================
