--------------------------- MODULE CalendarProofs --------------------------
(***************************************************************************)
(* What the conversions of ctime.c compute, for every time.                *)
(***************************************************************************)
EXTENDS Calendar, WellFoundedInduction, TLAPS

(* A set of numbers has a least one. *)
LEMMA Least ==
  ASSUME NEW T, T \subseteq Nat, T # {}
  PROVE  \E x \in T : \A y \in T : ~(y < x)
<1>1. IsWellFoundedOn(OpToRel(<, Nat), Nat)
  BY NatLessThanWellFounded
<1>2. \E x \in T : \A y \in T : ~(<<y, x>> \in OpToRel(<, Nat))
  BY <1>1, WFMin
<1> QED BY <1>2 DEF OpToRel

(* A loop that stops in the places of "stop" and goes on to next[p], which *)
(* is lower, elsewhere: what holds where it stops and is handed back, holds *)
(* everywhere.                                                             *)
LoopGoesDown(D, mu, next, stop) ==
  /\ mu \in [D -> Nat]
  /\ \A p \in D \ stop : next[p] \in D /\ mu[next[p]] < mu[p]

LEMMA LoopInduction ==
  ASSUME NEW D, NEW mu, NEW next, NEW stop, LoopGoesDown(D, mu, next, stop),
         NEW P, \A p \in D \cap stop : p \in P,
         \A p \in D \ stop : next[p] \in P => p \in P
  PROVE  D \subseteq P
<1> DEFINE T == {mu[p] : p \in D \ P}
<1>1. SUFFICES ASSUME D \ P # {} PROVE FALSE
  OBVIOUS
<1>2. T \subseteq Nat /\ T # {}
  BY <1>1 DEF LoopGoesDown
<1>3. PICK p \in D \ P : \A q \in D \ P : ~(mu[q] < mu[p])
  <2> HIDE DEF T
  <2>1. PICK x \in T : \A y \in T : ~(y < x)
    BY <1>2, Least
  <2> QED BY <2>1 DEF T
<1> QED BY <1>3 DEF LoopGoesDown

(* Such a loop computes something: its recursive equation has a solution.  *)
LoopFrom(F, D, next, stop, result) ==
  F = [p \in D |-> IF p \in stop THEN result[p] ELSE F[next[p]]]

Below(D, mu, n) == {p \in D : mu[p] < n}

(* Two computations of such a loop, each from the places whose measure is  *)
(* below a bound, agree wherever both are defined.                         *)
LEMMA LoopsAgree ==
  ASSUME NEW D, NEW mu, NEW next, NEW stop, LoopGoesDown(D, mu, next, stop),
         NEW result, NEW m \in Nat, NEW n \in Nat, NEW f, NEW g,
         LoopFrom(f, Below(D, mu, m), next, stop, result),
         LoopFrom(g, Below(D, mu, n), next, stop, result),
         NEW p \in Below(D, mu, m) \cap Below(D, mu, n)
  PROVE  f[p] = g[p]
<1> DEFINE E == Below(D, mu, m) \cap Below(D, mu, n)
           P == {q \in E : f[q] = g[q]}
<1>1. LoopGoesDown(E, [q \in E |-> mu[q]], next, stop)
  BY DEF LoopGoesDown, Below
<1>2. \A q \in E \cap stop : q \in P
  BY DEF LoopFrom
<1>3. \A q \in E \ stop : next[q] \in P => q \in P
  BY DEF LoopFrom
<1>4. E \subseteq P
  <2> HIDE DEF E, P
  <2> QED BY <1>1, <1>2, <1>3, LoopInduction
<1> QED BY <1>4

(* For every bound, the loop computes something from the places below it.  *)
LEMMA LoopBelow ==
  ASSUME NEW D, NEW mu, NEW next, NEW stop, LoopGoesDown(D, mu, next, stop),
         NEW result
  PROVE  \A n \in Nat : \E f : LoopFrom(f, Below(D, mu, n), next, stop, result)
<1> DEFINE T == {n \in Nat : ~\E f : LoopFrom(f, Below(D, mu, n), next, stop, result)}
<1>1. SUFFICES ASSUME T # {} PROVE FALSE
  OBVIOUS
<1>2. PICK n \in T : \A y \in T : ~(y < n)
  <2>1. T \subseteq Nat
    OBVIOUS
  <2> HIDE DEF T
  <2> QED BY <1>1, <2>1, Least
<1>3. CASE n = 0
  <2>1. Below(D, mu, 0) = {}
    BY DEF Below, LoopGoesDown
  <2>2. LoopFrom([p \in {} |-> 0], {}, next, stop, result)
    BY DEF LoopFrom
  <2> QED BY <1>2, <1>3, <2>1, <2>2
<1>4. CASE n # 0
  <2>1. n \in Nat /\ n - 1 \in Nat /\ n - 1 \notin T
    BY <1>2, <1>4
  <2>2. PICK f : LoopFrom(f, Below(D, mu, n - 1), next, stop, result)
    BY <2>1
  <2> DEFINE B == Below(D, mu, n)
             C == Below(D, mu, n - 1)
             g == [p \in B |-> IF p \in stop THEN result[p] ELSE f[next[p]]]
  <2>3. C \subseteq B
    BY <2>1 DEF Below, LoopGoesDown
  <2>4. \A p \in B \ stop : next[p] \in C
    BY <2>1 DEF Below, LoopGoesDown
  <2>5. \A p \in C : f[p] = IF p \in stop THEN result[p] ELSE f[next[p]]
    BY <2>2 DEF LoopFrom
  <2>6. \A p \in C : g[p] = f[p]
    BY <2>3, <2>5
  <2>7. \A p \in B : g[p] = IF p \in stop THEN result[p] ELSE g[next[p]]
    BY <2>4, <2>6
  <2>8. LoopFrom(g, B, next, stop, result)
    BY <2>7 DEF LoopFrom
  <2> QED BY <1>2, <2>8
<1> QED BY <1>3, <1>4

(* Together these make one function on all places.                         *)
LEMMA LoopExists ==
  ASSUME NEW D, NEW mu, NEW next, NEW stop, LoopGoesDown(D, mu, next, stop),
         NEW result
  PROVE  \E F : LoopFrom(F, D, next, stop, result)
<1> DEFINE f(n) == CHOOSE g : LoopFrom(g, Below(D, mu, n), next, stop, result)
           F == [p \in D |-> f(mu[p] + 1)[p]]
<1>1. \A n \in Nat : LoopFrom(f(n), Below(D, mu, n), next, stop, result)
  BY LoopBelow
<1> HIDE DEF f
<1>2. ASSUME NEW p \in D
      PROVE  F[p] = IF p \in stop THEN result[p] ELSE F[next[p]]
  <2> DEFINE n == mu[p] + 1
  <2>1. n \in Nat /\ p \in Below(D, mu, n)
    BY DEF LoopGoesDown, Below
  <2>2. F[p] = f(n)[p]
    OBVIOUS
  <2> HIDE DEF n
  <2>3. f(n)[p] = IF p \in stop THEN result[p] ELSE f(n)[next[p]]
    BY <1>1, <2>1 DEF LoopFrom
  <2>4. CASE p \in stop
    BY <2>2, <2>3, <2>4
  <2>5. CASE p \notin stop
    <3> DEFINE q == next[p] m == mu[q] + 1
    <3>1. q \in D /\ m \in Nat /\ q \in Below(D, mu, m) \cap Below(D, mu, n)
      BY <2>1, <2>5 DEF LoopGoesDown, Below, n
    <3>2. F[q] = f(m)[q]
      BY <3>1
    <3> HIDE DEF m, q
    <3>3. f(m)[q] = f(n)[q]
      BY <1>1, <2>1, <3>1, LoopsAgree
    <3> QED BY <2>2, <2>3, <2>5, <3>2, <3>3 DEF q
  <2> QED BY <2>4, <2>5
<1>3. LoopFrom(F, D, next, stop, result)
  BY <1>2 DEF LoopFrom
<1> QED BY <1>3

-----------------------------------------------------------------------------
(* The years. *)

LeapLength(year) == IF isleap(year) THEN 366 ELSE 365

NextYear == [d \in YearPlaces |->
               [year |-> d.year + 1, yday |-> d.yday - LeapLength(d.year)]]
WithinYear == {d \in YearPlaces : d.yday < LeapLength(d.year)}

(* Each round of the loop over the years takes days off.                   *)
LEMMA YearLoop ==
  LoopGoesDown(YearPlaces, [d \in YearPlaces |-> d.yday], NextYear, WithinYear)
<1>1. ASSUME NEW d \in YearPlaces, d \notin WithinYear
      PROVE  NextYear[d] \in YearPlaces /\ NextYear[d].yday < d.yday
  BY <1>1 DEF YearPlaces, NextYear, WithinYear, LeapLength
<1>2. [d \in YearPlaces |-> d.yday] \in [YearPlaces -> Nat]
  BY DEF YearPlaces
<1> QED BY <1>1, <1>2 DEF LoopGoesDown

(* YearAndDay meets its recursive equation.                                *)
LEMMA YearAndDayDef ==
  LoopFrom(YearAndDay, YearPlaces, NextYear, WithinYear, [d \in YearPlaces |-> d])
<1>1. PICK F : LoopFrom(F, YearPlaces, NextYear, WithinYear, [d \in YearPlaces |-> d])
  <2> HIDE DEF YearPlaces, NextYear, WithinYear
  <2> QED BY YearLoop, LoopExists
<1> DEFINE Body(G) ==
             [d \in YearPlaces |->
                LET k == IF isleap(d.year) THEN 366 ELSE 365
                IN IF d.yday < k THEN d
                   ELSE G[[year |-> d.year + 1, yday |-> d.yday - k]]]
<1>2. F = Body(F)
  BY <1>1 DEF LoopFrom, YearPlaces, NextYear, WithinYear, LeapLength
<1>3. YearAndDay = CHOOSE G : G = Body(G)
  BY DEF YearAndDay
<1>4. YearAndDay = Body(YearAndDay)
  <2> HIDE DEF Body
  <2> QED BY <1>2, <1>3
<1> QED BY <1>4 DEF LoopFrom, YearPlaces, NextYear, WithinYear, LeapLength

(* From one New Year to the next the rules count the year's length.        *)
LEMMA NextYearDays ==
  ASSUME NEW year \in Nat
  PROVE  /\ DaysBefore(year) \in Int
         /\ DaysBefore(year + 1) = DaysBefore(year) + LeapLength(year)
<1>1. LeapDaysBefore(year + 1) = LeapDaysBefore(year) + (IF isleap(year) THEN 1 ELSE 0)
  BY SMT DEF LeapDaysBefore, isleap
<1>2. LeapDaysBefore(year) \in Int /\ LeapDaysBefore(1970) \in Int
  BY DEF LeapDaysBefore
<1> HIDE DEF LeapDaysBefore
<1> QED BY <1>1, <1>2 DEF DaysBefore, LeapLength

(* YearAndDay keeps the day it is given, counted from 1970.                *)
LEMMA YearAndDayKeepsDay ==
  ASSUME NEW d \in YearPlaces
  PROVE  /\ YearAndDay[d] \in WithinYear
         /\ YearAndDay[d].year >= d.year
         /\ DaysBefore(YearAndDay[d].year) + YearAndDay[d].yday
              = DaysBefore(d.year) + d.yday
<1> DEFINE Same(p, r) == /\ r \in WithinYear
                         /\ r.year >= p.year
                         /\ DaysBefore(r.year) + r.yday = DaysBefore(p.year) + p.yday
           P == {p \in YearPlaces : Same(p, YearAndDay[p])}
<1>1. ASSUME NEW p \in YearPlaces \cap WithinYear
      PROVE  p \in P
  <2>1. YearAndDay[p] = p
    BY YearAndDayDef DEF LoopFrom
  <2> QED BY <2>1 DEF YearPlaces
<1>2. ASSUME NEW p \in YearPlaces \ WithinYear, NextYear[p] \in P
      PROVE  p \in P
  <2>1. YearAndDay[p] = YearAndDay[NextYear[p]]
    BY YearAndDayDef DEF LoopFrom
  <2> DEFINE q == NextYear[p]  r == YearAndDay[q]
  <2>2. q.year = p.year + 1 /\ q.yday = p.yday - LeapLength(p.year)
    BY DEF NextYear
  <2>3. p.year \in Nat /\ p.yday \in Nat /\ LeapLength(p.year) \in Nat
    BY DEF YearPlaces, LeapLength
  <2>4. DaysBefore(q.year) + q.yday = DaysBefore(p.year) + p.yday
    BY <2>2, <2>3, NextYearDays
  <2>5. Same(q, r)
    BY <1>2
  <2> HIDE DEF q, r
  <2>6. r.year \in Nat
    BY <2>5 DEF WithinYear, YearPlaces
  <2>7. Same(p, r)
    BY <2>2, <2>3, <2>4, <2>5, <2>6
  <2> QED BY <2>1, <2>7 DEF q, r
<1>3. YearPlaces \subseteq P
  <2> HIDE DEF P
  <2> QED BY <1>1, <1>2, YearLoop, LoopInduction
<1> QED BY <1>3

(* The days of timegm, of years and quarters of years less the centuries   *)
(* that skip a leap day, are those the calendar counts.                    *)
LEMMA YearDaysCounts ==
  ASSUME NEW year \in Nat, year >= 1970
  PROVE  YearDays(year) = DaysBefore(year)
<1> DEFINE n == year - 1
           q == n \div 100
           centuries == (year - 1970 - 131) \div 100
<1>1. n \in Nat /\ q \in Nat /\ n \div 400 = q \div 4
  BY Z3
<1>2. (year - 1970 + 1) \div 4 = n \div 4 - 492
  BY Z3
<1>3. CASE year - 1970 < 131
  <2>1. q = 19 \/ q = 20
    BY <1>3, Z3
  <2>2. q \div 4 - q = -15
    BY <2>1
  <2> QED BY <1>1, <1>2, <1>3, <2>2 DEF YearDays, DaysBefore, LeapDaysBefore
<1>4. CASE year - 1970 >= 131
  <2>1. centuries = q - 21 /\ q >= 21
    BY <1>4, Z3
  <2> HIDE DEF q, centuries
  <2>2. ((centuries \div 4) * 3 + 1 + (IF centuries % 4 = 3 THEN 2 ELSE centuries % 4))
           = q - (q \div 4) - 15
    BY <1>1, <2>1, Z3
  <2> QED BY <1>1, <1>2, <1>4, <2>1, <2>2 DEF YearDays, DaysBefore, LeapDaysBefore, q, centuries
<1> QED BY <1>3, <1>4

(* Later years begin later. *)
LEMMA YearsInOrder ==
  ASSUME NEW y \in Nat, NEW z \in Nat, y <= z
  PROVE  DaysBefore(y) <= DaysBefore(z)
<1> DEFINE a == (y - 1) \div 4  b == (z - 1) \div 4
           c == a \div 25  e == b \div 25
<1>1. /\ a \in Int /\ b \in Int /\ a <= b
      /\ (y - 1) \div 100 = c /\ (z - 1) \div 100 = e
      /\ (y - 1) \div 400 = c \div 4 /\ (z - 1) \div 400 = e \div 4
  BY Z3
<1>2. a - c + c \div 4 <= b - e + e \div 4
  <2> HIDE DEF a, b
  <2> QED BY <1>1, Z3
<1>3. LeapDaysBefore(y) <= LeapDaysBefore(z)
  BY <1>1, <1>2 DEF LeapDaysBefore
<1>4. \A year \in Nat : LeapDaysBefore(year) \in Int
  BY DEF LeapDaysBefore
<1> HIDE DEF LeapDaysBefore
<1> QED BY <1>3, <1>4 DEF DaysBefore

(* A day between the beginnings of two years is in a year between them.    *)
LEMMA YearsBetween ==
  ASSUME NEW day \in Nat, NEW y \in Nat, NEW z \in Nat
  PROVE  LET year == YearAndDay[[year |-> 1970, yday |-> day]].year
         IN /\ DaysBefore(y) <= day => y <= year
            /\ day < DaysBefore(z) => year < z
<1> DEFINE d == [year |-> 1970, yday |-> day]
           r == YearAndDay[d]
<1>1. d \in YearPlaces /\ d.year = 1970 /\ d.yday = day
  BY DEF YearPlaces
<1>2. DaysBefore(1970) = 0
  BY DEF DaysBefore, LeapDaysBefore
<1> HIDE DEF d
<1>3. r \in WithinYear /\ DaysBefore(r.year) + r.yday = day
  BY <1>1, <1>2, YearAndDayKeepsDay
<1> HIDE DEF r
<1>4. r.year \in Nat /\ r.yday \in Nat /\ r.yday < LeapLength(r.year) /\ LeapLength(r.year) \in Nat
  BY <1>3 DEF WithinYear, YearPlaces, LeapLength
<1>5. /\ DaysBefore(r.year) \in Int /\ DaysBefore(y) \in Int /\ DaysBefore(z) \in Int
      /\ DaysBefore(r.year + 1) = DaysBefore(r.year) + LeapLength(r.year)
  BY <1>4, NextYearDays
<1>6. ASSUME DaysBefore(y) <= day PROVE y <= r.year
  <2> SUFFICES ASSUME r.year + 1 <= y PROVE FALSE
    BY <1>4
  <2>1. DaysBefore(r.year + 1) <= DaysBefore(y)
    BY <1>4, YearsInOrder
  <2> QED BY <1>3, <1>4, <1>5, <1>6, <2>1
<1>7. ASSUME day < DaysBefore(z) PROVE r.year < z
  <2> SUFFICES ASSUME z <= r.year PROVE FALSE
    BY <1>4
  <2>1. DaysBefore(z) <= DaysBefore(r.year)
    BY <1>4, YearsInOrder
  <2> QED BY <1>3, <1>4, <1>5, <1>7, <2>1
<1> QED BY <1>6, <1>7 DEF r, d

-----------------------------------------------------------------------------
(* The months. *)

(* The days of a year before a month, 0 to 11, by the table of the code.   *)
MonthStart(year, mon) == spm[mon] + (IF isleap(year) /\ mon > 1 THEN 1 ELSE 0)

(* They are those the calendar counts, month by month.                     *)
LEMMA MonthStartCounts ==
  ASSUME NEW year \in Nat, NEW mon \in 0..11
  PROVE  DaysBeforeMonth(year)[mon + 1] = MonthStart(year, mon)
<1> DEFINE Body(G) == [m \in 1..12 |->
                         IF m = 1 THEN 0 ELSE G[m - 1] + DaysIn(year, m - 1)]
           F == [m \in 1..12 |-> MonthStart(year, m - 1)]
           days == DaysBeforeMonth(year)
<1>1. ASSUME NEW m \in 2..12
      PROVE  MonthStart(year, m - 1) = MonthStart(year, m - 2) + DaysIn(year, m - 1)
  BY DEF MonthStart, DaysIn, spm
<1>2. MonthStart(year, 0) = 0
  BY DEF MonthStart, spm
<1>3. F = Body(F)
  <2> HIDE DEF MonthStart
  <2>1. \A m \in 1..12 : F[m] = Body(F)[m]
    BY <1>1, <1>2
  <2> QED BY <2>1
<1>4. days = CHOOSE G : G = Body(G)
  BY DEF DaysBeforeMonth
<1>5. days = Body(days)
  <2> HIDE DEF F, Body, days
  <2> QED BY <1>3, <1>4
<1> HIDE DEF days
<1> DEFINE next == [m \in 1..12 |-> m - 1]
           P == {m \in 1..12 : days[m] = MonthStart(year, m - 1)}
<1>6. LoopGoesDown(1..12, [m \in 1..12 |-> m], next, {1})
  BY DEF LoopGoesDown
<1>7. ASSUME NEW m \in (1..12) \cap {1}
      PROVE  m \in P
  BY <1>2, <1>5
<1>8. ASSUME NEW m \in (1..12) \ {1}, next[m] \in P
      PROVE  m \in P
  <2>1. days[m] = days[m - 1] + DaysIn(year, m - 1)
    BY <1>5
  <2>2. days[m - 1] = MonthStart(year, m - 2)
    BY <1>8
  <2> QED BY <1>1, <2>1, <2>2
<1>9. 1..12 \subseteq P
  <2> HIDE DEF next, P
  <2> QED BY <1>6, <1>7, <1>8, LoopInduction
<1> QED BY <1>9 DEF days

(* The month that is looked for is the one that holds the day.             *)
LEMMA MonthOfHolds ==
  ASSUME NEW work \in 0..364
  PROVE  /\ MonthOf(work) \in 0..11
         /\ spm[MonthOf(work)] <= work
         /\ work < spm[MonthOf(work) + 1]
<1> DEFINE Holds(mon) == /\ mon = 0 \/ spm[mon] <= work
                         /\ \A later \in mon + 1 .. 11 : spm[later] > work
<1>1. \E mon \in 0..11 : Holds(mon)
  <2>1. \E mon \in 0..11 : spm[mon] <= work /\ work < spm[mon + 1]
    BY DEF spm
  <2>2. PICK mon \in 0..11 : spm[mon] <= work /\ work < spm[mon + 1]
    BY <2>1
  <2>3. \A later \in mon + 1 .. 11 : spm[later] >= spm[mon + 1]
    BY DEF spm
  <2>4. \A later \in 0..12 : spm[later] \in Nat
    BY DEF spm
  <2> QED BY <2>2, <2>3, <2>4
<1>2. MonthOf(work) = CHOOSE mon \in 0..11 : Holds(mon)
  BY DEF MonthOf
<1>3. MonthOf(work) \in 0..11 /\ Holds(MonthOf(work))
  <2> HIDE DEF Holds
  <2> QED BY <1>1, <1>2
<1>4. \A mon \in 0..11 : Holds(mon) => spm[mon] <= work /\ work < spm[mon + 1]
  BY DEF spm
<1> QED BY <1>3, <1>4

(* What is left of the day of the month when a month is taken off.         *)
RestOf(d) == d.mday - spm[d.mon] - (IF d.mon = 1 /\ isleap(d.year) THEN 1 ELSE 0)

NextMonth ==
  [d \in MonthPlaces |->
     IF d.mon = 11 THEN [year |-> d.year + 1, mon |-> 0, mday |-> RestOf(d)]
     ELSE [year |-> d.year, mon |-> d.mon + 1, mday |-> RestOf(d)]]

WithinMonths == {d \in MonthPlaces : d.mday <= spm[d.mon + 1]}

(* Nothing is taken off for January, but the month goes on.                *)
MonthsLeft == [d \in MonthPlaces |-> 2 * d.mday + (IF d.mon = 0 THEN 1 ELSE 0)]

(* The loop over the months goes down as well.                             *)
LEMMA MonthLoop == LoopGoesDown(MonthPlaces, MonthsLeft, NextMonth, WithinMonths)
<1>1. ASSUME NEW d \in MonthPlaces, d \notin WithinMonths
      PROVE  NextMonth[d] \in MonthPlaces /\ MonthsLeft[NextMonth[d]] < MonthsLeft[d]
  <2>1. /\ d.year \in Nat /\ d.mon \in 0..11 /\ d.mday \in Nat
        /\ d.mday > spm[d.mon + 1]
    BY <1>1 DEF MonthPlaces, WithinMonths, spm
  <2>2. /\ RestOf(d) \in Nat
        /\ IF d.mon = 0 THEN RestOf(d) = d.mday ELSE RestOf(d) < d.mday
    BY <2>1 DEF RestOf, spm
  <2>3. NextMonth[d] \in MonthPlaces /\ NextMonth[d].mday = RestOf(d)
        /\ (NextMonth[d].mon = 0 => d.mon = 11)
    <3> HIDE DEF RestOf
    <3> QED BY <2>1, <2>2 DEF NextMonth, MonthPlaces
  <2>4. NextMonth[d].mday \in Nat
    BY <2>2, <2>3
  <2> HIDE DEF NextMonth, RestOf
  <2>5. MonthsLeft[NextMonth[d]] = 2 * NextMonth[d].mday + (IF NextMonth[d].mon = 0 THEN 1 ELSE 0)
    BY <2>3 DEF MonthsLeft
  <2>6. MonthsLeft[d] = 2 * d.mday + (IF d.mon = 0 THEN 1 ELSE 0)
    BY DEF MonthsLeft
  <2> QED BY <2>1, <2>2, <2>3, <2>4, <2>5, <2>6
<1>2. MonthsLeft \in [MonthPlaces -> Nat]
  BY DEF MonthPlaces, MonthsLeft
<1> QED BY <1>1, <1>2 DEF LoopGoesDown

(* Months meets its recursive equation.                                    *)
LEMMA MonthsDef ==
  LoopFrom(Months, MonthPlaces, NextMonth, WithinMonths, [d \in MonthPlaces |-> d])
<1>1. PICK F : LoopFrom(F, MonthPlaces, NextMonth, WithinMonths, [d \in MonthPlaces |-> d])
  <2> HIDE DEF MonthPlaces, NextMonth, WithinMonths, MonthsLeft
  <2> QED BY MonthLoop, LoopExists
<1> DEFINE Body(G) ==
             [d \in MonthPlaces |->
                LET leapDay == IF d.mon = 1 /\ isleap(d.year) THEN 1 ELSE 0
                    rest == d.mday - spm[d.mon] - leapDay
                IN IF d.mday <= spm[d.mon + 1] THEN d
                   ELSE G[IF d.mon = 11 THEN [year |-> d.year + 1, mon |-> 0, mday |-> rest]
                          ELSE [year |-> d.year, mon |-> d.mon + 1, mday |-> rest]]]
<1>2. \A G : G = Body(G)
        <=> LoopFrom(G, MonthPlaces, NextMonth, WithinMonths, [d \in MonthPlaces |-> d])
  BY DEF LoopFrom, MonthPlaces, NextMonth, WithinMonths, RestOf
<1>3. Months = CHOOSE G : G = Body(G)
  BY DEF Months
<1>4. Months = Body(Months)
  <2>1. F = Body(F)
    BY <1>1, <1>2
  <2> HIDE DEF Body
  <2> QED BY <1>3, <2>1
<1> QED BY <1>2, <1>4

(* A day up to the 31st stays in its month; the 32nd is carried from       *)
(* January only, whose days are taken off with those of February.          *)
LEMMA MonthsCarry ==
  ASSUME NEW d \in MonthPlaces, d.mday <= 32
  PROVE  Months[d] = IF d.mday = 32 /\ d.mon = 0 THEN [d EXCEPT !.mon = 1] ELSE d
<1>1. d.year \in Nat /\ d.mon \in 0..11 /\ d.mday \in Nat
  BY DEF MonthPlaces
<1>2. \A e \in WithinMonths : Months[e] = e
  BY MonthsDef DEF LoopFrom, WithinMonths
<1>3. CASE d.mday = 32 /\ d.mon = 0
  <2> DEFINE e == [d EXCEPT !.mon = 1]
  <2>1. d \in MonthPlaces \ WithinMonths
    BY <1>1, <1>3 DEF WithinMonths, spm
  <2>2. NextMonth[d] = [year |-> d.year, mon |-> 1, mday |-> 32]
    BY <1>1, <1>3 DEF NextMonth, RestOf, spm
  <2>3. e = [year |-> d.year, mon |-> 1, mday |-> 32]
    BY <1>3 DEF MonthPlaces
  <2>4. e \in WithinMonths
    BY <1>1, <2>3 DEF WithinMonths, MonthPlaces, spm
  <2>5. Months[d] = Months[NextMonth[d]]
    BY <2>1, MonthsDef DEF LoopFrom
  <2> QED BY <1>2, <1>3, <2>2, <2>3, <2>4, <2>5
<1>4. CASE ~(d.mday = 32 /\ d.mon = 0)
  <2>1. d \in WithinMonths
    BY <1>1, <1>4 DEF WithinMonths, spm
  <2> QED BY <1>2, <1>4, <2>1
<1> QED BY <1>3, <1>4

-----------------------------------------------------------------------------
(* The time of day. *)

IsTimeOfDay(s) == s \in Int /\ 0 <= s /\ s < DaySeconds

Seconds(hour, minute, second) == (hour * 3600 + minute * 60 + second) % DaySeconds

(* Within a day there is nothing to take off.                              *)
LEMMA SecondsWithin ==
  ASSUME NEW hour \in 0..23, NEW minute \in 0..59, NEW second \in 0..59
  PROVE  Seconds(hour, minute, second) = (hour * 60 + minute) * 60 + second
BY SMT DEF Seconds, DaySeconds

(* gmtime_r splits the time of day into hours, minutes and seconds,        *)
LEMMA Split ==
  ASSUME NEW t, IsTimeOfDay(t.sec)
  PROVE  /\ gmtime_r(t).hour \in 0..23
         /\ gmtime_r(t).min \in 0..59
         /\ gmtime_r(t).sec \in 0..59
         /\ (gmtime_r(t).hour * 60 + gmtime_r(t).min) * 60 + gmtime_r(t).sec = t.sec
<1>1. /\ gmtime_r(t).hour = t.sec \div 3600
      /\ gmtime_r(t).min = (t.sec \div 60) % 60
      /\ gmtime_r(t).sec = t.sec % 60
  BY DEF gmtime_r
<1>2. t.sec \in Int /\ 0 <= t.sec /\ t.sec < 86400
  BY DEF IsTimeOfDay, DaySeconds
<1> QED BY <1>1, <1>2

(* The seconds that timegm adds to the beginning of a day.                 *)
CarriedSeconds(hour, minute, second) ==
  (((hour + minute \div 60) % 24) * 60 + (minute % 60)) * 60 + second

(* Carrying a 60th minute and a 24th hour changes the time by whole days.  *)
LEMMA CarriedTime ==
  ASSUME NEW h \in 0..24, NEW m \in 0..60, NEW s \in 0..60
  PROVE  /\ CarriedSeconds(h, m, s) \in Int
         /\ CarriedSeconds(h, m, s) % DaySeconds = Seconds(h, m, s)
<1> DEFINE total == h * 3600 + m * 60 + s
           carry == m \div 60
           left == m % 60
           hour == (h + carry) % 24
<1>1. carry \in 0..1 /\ left \in 0..59 /\ m = carry * 60 + left
  OBVIOUS
<1> HIDE DEF carry, left
<1>2. hour \in 0..23 /\ (hour = h + carry \/ hour = h + carry - 24)
  BY <1>1
<1> HIDE DEF hour
<1>3. total \in Int /\ total = (h + carry) * 3600 + left * 60 + s
  BY <1>1
<1> HIDE DEF total
<1>4. \/ (hour * 60 + left) * 60 + s = total
      \/ (hour * 60 + left) * 60 + s = total - 86400
  BY <1>1, <1>2, <1>3
<1>5. (total - 86400) % 86400 = total % 86400
  BY <1>3
<1>6. ((hour * 60 + left) * 60 + s) % 86400 = total % 86400
  BY <1>4, <1>5
<1>7. CarriedSeconds(h, m, s) = (hour * 60 + left) * 60 + s
  BY DEF CarriedSeconds, hour, left, carry
<1>8. Seconds(h, m, s) = total % 86400
  BY DEF Seconds, DaySeconds, total
<1>9. DaySeconds = 86400 /\ (hour * 60 + left) * 60 + s \in Int
  BY <1>1, <1>2 DEF DaySeconds
<1> QED BY <1>6, <1>7, <1>8, <1>9

(* timegm puts them together, the 24th hour and the 60th minute carried.   *)
LEMMA Joined ==
  ASSUME NEW tm, tm.hour \in 0..24, tm.min \in 0..60, tm.sec \in 0..60
  PROVE  timegm(tm).sec = Seconds(tm.hour, tm.min, tm.sec)
<1> DEFINE carried == CarriedSeconds(tm.hour, tm.min, tm.sec)
<1>1. timegm(tm).sec = (0 + carried) % DaySeconds
  BY DEF timegm, Plus, CarriedSeconds
<1>2. carried \in Int /\ carried % DaySeconds = Seconds(tm.hour, tm.min, tm.sec)
  BY CarriedTime
<1> HIDE DEF carried
<1>3. 0 + carried = carried
  BY <1>2
<1> QED BY <1>1, <1>2, <1>3

-----------------------------------------------------------------------------
(* The dates. *)

(* The date of a tm, and its day counted from 1970.                        *)
IsDate(tm) ==
  /\ tm.year \in Nat /\ tm.year >= 1970
  /\ tm.mon \in 0..11 /\ tm.mday \in 1..31

DayNumber(tm) == DaysBefore(tm.year) + MonthStart(tm.year, tm.mon) + tm.mday - 1

(* The ranges of a date's day and of what it is added up from.             *)
LEMMA DayNumberType ==
  ASSUME NEW tm, IsDate(tm)
  PROVE  /\ DaysBefore(tm.year) \in Nat /\ MonthStart(tm.year, tm.mon) \in 0..335
         /\ DayNumber(tm) \in Nat
<1>1. DaysBefore(1970) = 0
  BY DEF DaysBefore, LeapDaysBefore
<1>2. DaysBefore(tm.year) \in Nat
  <2>1. tm.year \in Nat /\ 1970 \in Nat /\ 1970 <= tm.year
    BY DEF IsDate
  <2>2. DaysBefore(tm.year) \in Int
    BY <2>1, NextYearDays
  <2>3. DaysBefore(1970) <= DaysBefore(tm.year)
    BY <2>1, YearsInOrder
  <2> QED BY <1>1, <2>2, <2>3
<1>3. MonthStart(tm.year, tm.mon) \in 0..335
  BY DEF IsDate, MonthStart, spm
<1>4. DayNumber(tm) \in Nat
  <2> HIDE DEF DaysBefore, MonthStart
  <2>1. tm.mday \in 1..31 
    BY DEF IsDate
  <2> DEFINE first == DaysBefore(tm.year)  start == MonthStart(tm.year, tm.mon)
  <2>2. first \in Nat /\ start \in Nat /\ DayNumber(tm) = first + start + tm.mday - 1
    BY <1>2, <1>3 DEF DayNumber
  <2> HIDE DEF first, start
  <2> QED BY <2>1, <2>2
<1> QED BY <1>2, <1>3, <1>4, Zenon

(* A date is in its year: the day of the month may exceed the month, but    *)
(* December has all 31.                                                    *)
LEMMA DayWithinYear ==
  ASSUME NEW tm, IsDate(tm)
  PROVE  /\ DaysBefore(tm.year) <= DayNumber(tm)
         /\ DayNumber(tm) < DaysBefore(tm.year + 1)
<1> DEFINE y == tm.year  m == tm.mon
<1>1. y \in Nat /\ m \in 0..11 /\ tm.mday \in 1..31
  BY DEF IsDate
<1>2. DayNumber(tm) = DaysBefore(y) + MonthStart(y, m) + tm.mday - 1
  BY DEF DayNumber
<1> HIDE DEF y, m
<1>3. DaysBefore(y) \in Int /\ DaysBefore(y + 1) = DaysBefore(y) + LeapLength(y)
  BY <1>1, NextYearDays
<1>4. /\ MonthStart(y, m) \in Nat /\ LeapLength(y) \in Nat
      /\ MonthStart(y, m) + 31 <= LeapLength(y)
  BY <1>1 DEF MonthStart, LeapLength, spm
<1>5. DaysBefore(y) <= DayNumber(tm) /\ DayNumber(tm) < DaysBefore(y + 1)
  <2> HIDE DEF DaysBefore, MonthStart, LeapLength
  <2> QED BY <1>1, <1>2, <1>3, <1>4
<1> QED BY <1>5 DEF y

(* gmtime_r: what it makes of a time is a date, of that day.               *)
LEMMA GmtimeDate ==
  ASSUME NEW t, t.day \in Nat
  PROVE  IsDate(gmtime_r(t)) /\ DayNumber(gmtime_r(t)) = t.day
<1> DEFINE d == [year |-> 1970, yday |-> t.day]
           y == YearAndDay[d]
           afterFeb28 == isleap(y.year) /\ y.yday > 58
           work == IF afterFeb28 THEN y.yday - 1 ELSE y.yday
           first == IF afterFeb28 /\ y.yday = 59 THEN 2 ELSE 1
           tm == gmtime_r(t)
<1>1. /\ tm.year = y.year /\ tm.mon = MonthOf(work)
      /\ tm.mday = first + work - spm[MonthOf(work)]
  BY DEF gmtime_r
<1>2. y \in WithinYear /\ y.year >= 1970 /\ DaysBefore(y.year) + y.yday = t.day
  <2>1. d \in YearPlaces /\ d.year = 1970 /\ d.yday = t.day
    BY DEF YearPlaces
  <2>2. DaysBefore(1970) = 0
    BY DEF DaysBefore, LeapDaysBefore
  <2> HIDE DEF d
  <2> QED BY <2>1, <2>2, YearAndDayKeepsDay
<1> HIDE DEF y, tm
<1>3. y.year \in Nat /\ y.yday \in Nat /\ y.yday < LeapLength(y.year)
  BY <1>2 DEF WithinYear, YearPlaces
<1>4. work \in 0..364
  BY <1>3 DEF LeapLength
<1>5. /\ MonthOf(work) \in 0..11
      /\ spm[MonthOf(work)] <= work /\ work < spm[MonthOf(work) + 1]
  <2> HIDE DEF work
  <2> QED BY <1>4, MonthOfHolds
<1> DEFINE mon == MonthOf(work)
<1>6. /\ first + work - spm[mon] \in 1..31
      /\ MonthStart(y.year, mon) + first + work - spm[mon] - 1 = y.yday
  <2>1. mon \in 0..11 /\ spm[mon] <= work /\ work < spm[mon + 1]
    BY <1>5
  <2> HIDE DEF mon
  <2>2. CASE afterFeb28 /\ y.yday = 59
    <3>1. mon = 1
      BY <2>1, <2>2 DEF spm
    <3> QED BY <2>2, <3>1 DEF spm, MonthStart
  <2>3. CASE afterFeb28 /\ y.yday # 59
    <3>1. mon > 1
      BY <1>3, <2>1, <2>3 DEF spm
    <3> QED BY <1>3, <2>1, <2>3, <3>1 DEF spm, MonthStart
  <2>4. CASE ~afterFeb28
    <3>1. ~isleap(y.year) \/ mon <= 1
      BY <1>3, <2>1, <2>4 DEF spm
    <3> QED BY <1>3, <2>1, <2>4, <3>1 DEF spm, MonthStart
  <2> QED BY <2>2, <2>3, <2>4
<1> HIDE DEF mon, work, first
<1>7. IsDate(tm)
  BY <1>1, <1>2, <1>3, <1>5, <1>6 DEF IsDate, mon
<1>8. DayNumber(tm) = DaysBefore(y.year) + (MonthStart(y.year, mon) + first + work - spm[mon] - 1)
  <2>1. DaysBefore(y.year) \in Int /\ MonthStart(y.year, mon) \in Int /\ tm.mday \in Int
    BY <1>1, <1>7, DayNumberType DEF IsDate, mon
  <2>2. tm.mday = first + work - spm[mon] /\ tm.year = y.year /\ tm.mon = mon
    BY <1>1 DEF mon
  <2>3. spm[mon] \in Int /\ work \in Int /\ first \in Int
    BY <1>4, <1>5 DEF spm, mon, first
  <2> QED BY <2>1, <2>2, <2>3 DEF DayNumber
<1> QED BY <1>2, <1>6, <1>7, <1>8 DEF tm

(* The days timegm counts for a date after which hours make one more.      *)
CarriedDay(tm, carry) ==
  LET date == Months[[year |-> tm.year, mon |-> tm.mon, mday |-> tm.mday + carry]]
  IN YearDays(tm.year) + spm[date.mon] + date.mday - 1
       + (IF isleap(date.year) /\ date.mon > 1 THEN 1 ELSE 0)

(* Hours carried into the next day make the day one later, or, of the 31st *)
(* of January, of which Months takes nothing off, a month later: never     *)
(* earlier.                                                                *)
LEMMA DayCarried ==
  ASSUME NEW tm, IsDate(tm), NEW carry \in {0, 1}
  PROVE  /\ CarriedDay(tm, carry) \in Nat
         /\ CarriedDay(tm, carry) >= DayNumber(tm)
         /\ CarriedDay(tm, 0) = DayNumber(tm)
<1> DEFINE d(c) == [year |-> tm.year, mon |-> tm.mon, mday |-> tm.mday + c]
<1>1. tm.year \in Nat /\ tm.year >= 1970 /\ tm.mon \in 0..11 /\ tm.mday \in 1..31
  BY DEF IsDate
<1>2. \A c \in {0, 1} : d(c) \in MonthPlaces /\ d(c).mday <= 32
  BY <1>1 DEF MonthPlaces
<1>3. \A c \in {0, 1} : Months[d(c)] = IF d(c).mday = 32 /\ d(c).mon = 0
                                       THEN [d(c) EXCEPT !.mon = 1] ELSE d(c)
  <2> HIDE DEF d
  <2> QED BY <1>2, MonthsCarry
<1>4. ASSUME NEW c \in {0, 1}
      PROVE  LET mon == IF tm.mday + c = 32 /\ tm.mon = 0 THEN 1 ELSE tm.mon
             IN Months[d(c)] = [year |-> tm.year, mon |-> mon, mday |-> tm.mday + c]
  BY <1>3
<1>5. YearDays(tm.year) = DaysBefore(tm.year) /\ DaysBefore(tm.year) \in Nat
  BY <1>1, YearDaysCounts, DayNumberType
<1>6. ASSUME NEW c \in {0, 1}
      PROVE  CarriedDay(tm, c) = DaysBefore(tm.year) + tm.mday + c - 1
               + MonthStart(tm.year, IF tm.mday + c = 32 /\ tm.mon = 0 THEN 1 ELSE tm.mon)
  <2> DEFINE mon == IF tm.mday + c = 32 /\ tm.mon = 0 THEN 1 ELSE tm.mon
             date == Months[d(c)]
  <2>1. date.year = tm.year /\ date.mon = mon /\ date.mday = tm.mday + c
    BY <1>4
  <2>2. CarriedDay(tm, c) = DaysBefore(tm.year) + spm[date.mon] + date.mday - 1
          + (IF isleap(date.year) /\ date.mon > 1 THEN 1 ELSE 0)
    BY <1>5 DEF CarriedDay
  <2>3. mon \in 0..11 /\ spm[mon] \in Int
    BY <1>1 DEF spm
  <2> HIDE DEF date, mon
  <2>4. CarriedDay(tm, c) = DaysBefore(tm.year) + spm[mon] + tm.mday + c - 1
          + (IF isleap(tm.year) /\ mon > 1 THEN 1 ELSE 0)
    BY <1>1, <1>5, <2>1, <2>2, <2>3
  <2>5. CarriedDay(tm, c) = DaysBefore(tm.year) + tm.mday + c - 1 + MonthStart(tm.year, mon)
    BY <1>1, <1>5, <2>3, <2>4 DEF MonthStart
  <2> QED BY <2>5 DEF mon
<1>7. MonthStart(tm.year, tm.mon) \in Nat /\ MonthStart(tm.year, 1) = 31
      /\ (tm.mon = 0 => MonthStart(tm.year, tm.mon) = 0)
  BY <1>1 DEF MonthStart, spm
<1>8. DayNumber(tm) = DaysBefore(tm.year) + MonthStart(tm.year, tm.mon) + tm.mday - 1
  BY DEF DayNumber
<1> HIDE DEF d
<1>9. CarriedDay(tm, 0) = DayNumber(tm)
  BY <1>1, <1>5, <1>6, <1>7, <1>8
<1>10. CarriedDay(tm, 1) > DayNumber(tm)
  <2>1. CASE tm.mday + 1 = 32 /\ tm.mon = 0
    BY <1>1, <1>5, <1>6, <1>7, <1>8, <2>1
  <2>2. CASE ~(tm.mday + 1 = 32 /\ tm.mon = 0)
    BY <1>1, <1>5, <1>6, <1>7, <1>8, <2>2
  <2> QED BY <2>1, <2>2
<1>11. CarriedDay(tm, 1) \in Int
  BY <1>1, <1>5, <1>6, <1>7
<1>12. DayNumber(tm) \in Nat
  BY DayNumberType
<1> QED BY <1>9, <1>10, <1>11, <1>12

(* timegm of a date and a time of day, with minutes, hours and the leap    *)
(* second carried.                                                         *)
LEMMA TimegmCarries ==
  ASSUME NEW tm, IsDate(tm), tm.hour \in 0..24, tm.min \in 0..60, tm.sec \in 0..60
  PROVE  LET hour == tm.hour + tm.min \div 60
             seconds == ((hour % 24) * 60 + (tm.min % 60)) * 60 + tm.sec
         IN timegm(tm) = Plus([day |-> CarriedDay(tm, hour \div 24), sec |-> 0], seconds)
<1>1. /\ tm.year + tm.mon \div 12 = tm.year /\ tm.mon % 12 = tm.mon
      /\ ~(tm.sec > 60)
      /\ tm.min + 0 = tm.min
  BY DEF IsDate
<1> QED BY <1>1 DEF timegm, CarriedDay

(* A time of day in its ranges is less than a day.                         *)
LEMMA TimeWithin ==
  ASSUME NEW hour \in 0..23, NEW minute \in 0..59, NEW second \in 0..59
  PROVE  /\ (hour * 60 + minute) * 60 + second \in Nat
         /\ (hour * 60 + minute) * 60 + second < DaySeconds
BY SMT DEF DaySeconds

(* The time of a date and a time of day that are in their ranges.          *)
LEMMA TimegmDate ==
  ASSUME NEW tm, IsDate(tm), tm.hour \in 0..23, tm.min \in 0..59, tm.sec \in 0..59
  PROVE  timegm(tm) = [day |-> DayNumber(tm), sec |-> (tm.hour * 60 + tm.min) * 60 + tm.sec]
<1> DEFINE hour == tm.hour + tm.min \div 60
           seconds == ((hour % 24) * 60 + (tm.min % 60)) * 60 + tm.sec
           total == (tm.hour * 60 + tm.min) * 60 + tm.sec
<1>1. hour \div 24 = 0 /\ seconds = total /\ total \in Nat /\ total < DaySeconds
  <2>1. tm.min \div 60 = 0 /\ tm.min % 60 = tm.min
    OBVIOUS
  <2>2. hour = tm.hour /\ tm.hour \div 24 = 0 /\ tm.hour % 24 = tm.hour
    BY <2>1
  <2>3. total \in Nat /\ total < DaySeconds
    BY TimeWithin, Zenon
  <2> HIDE DEF total
  <2> QED BY <2>1, <2>2, <2>3 DEF total
<1>2. timegm(tm) = Plus([day |-> CarriedDay(tm, hour \div 24), sec |-> 0], seconds)
  <2>1. tm.hour \in 0..24 /\ tm.min \in 0..60 /\ tm.sec \in 0..60
    OBVIOUS
  <2> QED BY <2>1, TimegmCarries
<1>3. CarriedDay(tm, 0) = DayNumber(tm) /\ DayNumber(tm) \in Nat
  BY DayCarried, DayNumberType
<1> HIDE DEF hour, seconds, total
<1>4. timegm(tm) = Plus([day |-> DayNumber(tm), sec |-> 0], total)
  BY <1>1, <1>2, <1>3
<1>5. (0 + total) \div 86400 = 0 /\ (0 + total) % 86400 = total
  BY <1>1, SMT DEF DaySeconds
<1> QED BY <1>3, <1>4, <1>5 DEF Plus, DaySeconds, total

-----------------------------------------------------------------------------
(* There and back. *)

(* A time, from 1970 on.                                                   *)
IsMoment(t) ==
  t = [day |-> t.day, sec |-> t.sec] /\ t.day \in Nat /\ IsTimeOfDay(t.sec)

(* timegm undoes gmtime_r, for every time from 1970 on (ctime.c:156, 376). *)
THEOREM TimegmOfGmtime ==
  ASSUME NEW t, IsMoment(t)
  PROVE  timegm(gmtime_r(t)) = t
<1> DEFINE tm == gmtime_r(t)
<1>1. IsDate(tm) /\ DayNumber(tm) = t.day
  BY GmtimeDate DEF IsMoment
<1>2. /\ tm.hour \in 0..23 /\ tm.min \in 0..59 /\ tm.sec \in 0..59
      /\ (tm.hour * 60 + tm.min) * 60 + tm.sec = t.sec
  BY Split DEF IsMoment
<1> HIDE DEF tm
<1>3. timegm(tm) = [day |-> t.day, sec |-> t.sec]
  BY <1>1, <1>2, TimegmDate
<1> QED BY <1>3, Zenon DEF IsMoment, tm

(* The date gmtime_r gives a day is the one the calendar rules count that  *)
(* many days to.                                                           *)
THEOREM GmtimeCounts ==
  ASSUME NEW t, t.day \in Nat
  PROVE  LET tm == gmtime_r(t)
         IN DaysBefore(tm.year) + DaysBeforeMonth(tm.year)[tm.mon + 1] + tm.mday - 1 = t.day
<1> DEFINE tm == gmtime_r(t)
<1>1. IsDate(tm) /\ DayNumber(tm) = t.day
  BY GmtimeDate
<1>2. DaysBeforeMonth(tm.year)[tm.mon + 1] = MonthStart(tm.year, tm.mon)
  BY <1>1, MonthStartCounts DEF IsDate
<1> HIDE DEF tm
<1> QED BY <1>1, <1>2 DEF DayNumber, tm

(* A day between the beginnings of two years gets a year between them.     *)
LEMMA GmtimeBetween ==
  ASSUME NEW t, t.day \in Nat, NEW y \in Nat, NEW z \in Nat
  PROVE  /\ DaysBefore(y) <= t.day => y <= gmtime_r(t).year
         /\ t.day < DaysBefore(z) => gmtime_r(t).year < z
<1>1. gmtime_r(t).year = YearAndDay[[year |-> 1970, yday |-> t.day]].year
  BY DEF gmtime_r
<1> QED BY <1>1, YearsBetween

=============================================================================
