--------------------------- MODULE KeyScanProofs ---------------------------
(***************************************************************************)
(* Theorems about the key scan, for any number of keys, any duration of a  *)
(* round of the display loop and any bouncing of the pins.                 *)
(***************************************************************************)
EXTENDS KeyScan, WellFoundedInduction, TLAPS

USE TickAssumption, TimesAssumption

(* A set of indices has a least one. *)
LEMMA Least ==
  ASSUME NEW T, T \subseteq Nat, T # {}
  PROVE  \E x \in T : \A y \in T : ~(y < x)
<1>1. IsWellFoundedOn(OpToRel(<, Nat), Nat)
  BY NatLessThanWellFounded
<1>2. \E x \in T : \A y \in T : ~(<<y, x>> \in OpToRel(<, Nat))
  BY <1>1, WFMin
<1> QED BY <1>2 DEF OpToRel

(* Key_Read returns a key, the first whose pin is low, or none.            *)
LEMMA KeyRead ==
  ASSUME NEW low, low \subseteq Keys
  PROVE  Key_Read(low) \in Keys \cup {PAGE_KEY_NONE}
<1>1. CASE low = {}
  BY <1>1 DEF Key_Read
<1>2. CASE low # {}
  <2> DEFINE T == {i \in DOMAIN KeyOrder : KeyOrder[i] \in low}
             IsFirst(i) == /\ KeyOrder[i] \in low
                           /\ \A j \in 1..(i - 1) : KeyOrder[j] \notin low
  <2>1. DOMAIN KeyOrder = 1..Len(KeyOrder) /\ Len(KeyOrder) \in Nat
    BY KeyOrderAssumption
  <2>2. T \subseteq Nat /\ T # {}
    BY <1>2, <2>1 DEF Keys
  <2>3. PICK x \in T : \A y \in T : ~(y < x)
    BY <2>2, Least
  <2>4. \A j \in 1..(x - 1) : KeyOrder[j] \notin low
    BY <2>1, <2>3
  <2>5. \E i \in DOMAIN KeyOrder : IsFirst(i)
    BY <2>3, <2>4
  <2>6. Key_Read(low) = KeyOrder[CHOOSE i \in DOMAIN KeyOrder : IsFirst(i)]
    BY <1>2 DEF Key_Read
  <2> QED BY <2>5, <2>6 DEF Keys
<1> QED BY <1>1, <1>2

(* Sleeping keeps the types of what it changes. *)
LEMMA SleepTypes ==
  ASSUME TypeOK, NEW d \in Nat, Sleep(d)
  PROVE  /\ pins' \subseteq Keys
         /\ since' \in 0..MaxTime
         /\ event' \in [kind : {"none", "press", "repeat"},
                        key : Keys \cup {PAGE_KEY_NONE}]
BY DEF TypeOK, Sleep, Min, NoEvent

(* Every field keeps its type. *)
THEOREM TypeCorrect == Spec => []TypeOK
<1>1. Init => TypeOK
  BY DEF Init, TypeOK, NoEvent
<1>2. TypeOK /\ [Next]_vars => TypeOK'
  <2> SUFFICES ASSUME TypeOK, [Next]_vars PROVE TypeOK'
    OBVIOUS
  <2>1. CASE Scan
    <3>1. key' \in Keys \cup {PAGE_KEY_NONE}
      BY <2>1, KeyRead DEF Scan, TypeOK
    <3> QED BY <2>1, <3>1 DEF Scan, TypeOK, NoEvent
  <2>2. CASE Debounce
    <3>1. 50 \div Tick \in Nat
      OBVIOUS
    <3> QED BY <2>2, <3>1, SleepTypes DEF Debounce, TypeOK
  <2>3. CASE Press
    BY <2>3 DEF Press, TypeOK, Min
  <2>4. CASE Repeat
    BY <2>4 DEF Repeat, TypeOK
  <2>5. CASE Neither
    BY <2>5 DEF Neither, TypeOK, NoEvent
  <2>6. CASE Loop
    BY <2>6, SleepTypes DEF Loop, TypeOK
  <2>7. CASE UNCHANGED vars
    BY <2>7 DEF vars, TypeOK
  <2> QED BY <2>1, <2>2, <2>3, <2>4, <2>5, <2>6, <2>7 DEF Next
<1> QED BY <1>1, <1>2, PTL DEF Spec

(* A key that was pressed and has been seen since is the last key: that is *)
(* what stops a second press.  What a scan compares with it is a key.      *)
PressedIsLast ==
  /\ pressed \in {PAGE_KEY_NONE, last_key}
  /\ pc \in {"debounce", "decide"} => key # PAGE_KEY_NONE

(* One touch of a key is one press, however it bounces, however long it    *)
(* lasts and whatever the display loop is doing in the meantime.           *)
THEOREM OneTouchOnePress == Spec => OnePressPerHold
<1>1. Init => PressedIsLast
  BY DEF Init, PressedIsLast
<1>2. PressedIsLast /\ [Next]_vars => PressedIsLast'
  <2> SUFFICES ASSUME PressedIsLast, [Next]_vars PROVE PressedIsLast'
    OBVIOUS
  <2>1. CASE Scan
    BY <2>1 DEF Scan, PressedIsLast
  <2>2. CASE Debounce
    BY <2>2 DEF Debounce, PressedIsLast
  <2>3. CASE Press
    BY <2>3 DEF Press, PressedIsLast
  <2>4. CASE Repeat \/ Neither
    BY <2>4 DEF Repeat, Neither, PressedIsLast
  <2>5. CASE Loop
    BY <2>5 DEF Loop, PressedIsLast
  <2>6. CASE UNCHANGED vars
    BY <2>6 DEF vars, PressedIsLast
  <2> QED BY <2>1, <2>2, <2>3, <2>4, <2>5, <2>6 DEF Next
<1>3. PressedIsLast /\ [Next]_vars
        => [event'.kind = "press" => event'.key # pressed]_vars
  <2> SUFFICES ASSUME PressedIsLast, Next, event'.kind = "press"
               PROVE  event'.key # pressed
    OBVIOUS
  <2>1. CASE Press
    BY <2>1 DEF Press, IsPress, PressedIsLast
  <2>2. CASE Repeat
    BY <2>2 DEF Repeat
  <2>3. CASE Scan \/ Debounce \/ Neither \/ Loop
    BY <2>3 DEF Scan, Debounce, Neither, Loop, Sleep, NoEvent
  <2> QED BY <2>1, <2>2, <2>3 DEF Next
<1> QED BY <1>1, <1>2, <1>3, PTL DEF Spec, OnePressPerHold
=============================================================================
