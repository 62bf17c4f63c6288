------------------------------ MODULE KeyScan ------------------------------
(***************************************************************************)
(* KeyScan_ThreadEntry of DisplayPage.c, called by the display thread once *)
(* per round: a key is read, read again 50 ms later, and reported to the   *)
(* page as a press or as a repeat.  The pins change only while the thread  *)
(* sleeps.                                                                 *)
(***************************************************************************)
EXTENDS Naturals, Sequences

CONSTANTS
  Tick,        \* milliseconds per unit of time here
  KeyOrder,    \* the keys, in the order Key_Read asks for them
  Delays,      \* how long the display thread may take from scan to scan
  MaxTime      \* times are counted up to this bound

ASSUME TickAssumption == Tick \in Nat \ {0}
ASSUME KeyOrderAssumption == KeyOrder \in Seq(STRING)
ASSUME TimesAssumption == Delays \subseteq Nat /\ MaxTime \in Nat \ {0}

PAGE_KEY_NONE == "NONE"
Keys == {KeyOrder[i] : i \in DOMAIN KeyOrder}

VARIABLES
  pins,        \* the keys whose pin is low
  pc,          \* the thread is between scans, or in the debounce delay
  key,         \* the first reading of the scan
  last_key,    \* the key reported last
  since,       \* rt_tick_get() - last_tick
  event,       \* what the last step reported
  pressed      \* history: the key pressed last, until a scan begins without it

vars == <<pins, pc, key, last_key, since, event, pressed>>

Min(a, b) == IF a < b THEN a ELSE b

(* The first key of the order whose pin is low. *)
Key_Read(low) ==
  IF low = {} THEN PAGE_KEY_NONE
  ELSE LET first == CHOOSE i \in DOMAIN KeyOrder :
                      /\ KeyOrder[i] \in low
                      /\ \A j \in 1..(i - 1) : KeyOrder[j] \notin low
       IN KeyOrder[first]

NoEvent == [kind |-> "none", key |-> PAGE_KEY_NONE]

(* last_tick and the tick counter start at 0. *)
Init ==
  /\ pins = {}
  /\ pc = "scan" /\ key = PAGE_KEY_NONE
  /\ last_key = PAGE_KEY_NONE
  /\ since = 0
  /\ event = NoEvent
  /\ pressed = PAGE_KEY_NONE

(* Time passes while the thread sleeps, and keys go down, up, and bounce.  *)
Sleep(d) ==
  /\ since' = Min(since + d, MaxTime)
  /\ event' = NoEvent
  /\ pins' \in SUBSET Keys

Scan ==
  /\ pc = "scan"
  /\ key' = Key_Read(pins)
  /\ IF key' # PAGE_KEY_NONE
       THEN pc' = "debounce" /\ UNCHANGED last_key
       ELSE pc' = "loop" /\ last_key' = PAGE_KEY_NONE
  /\ pressed' = IF key' = pressed THEN pressed ELSE PAGE_KEY_NONE
  /\ event' = NoEvent
  /\ UNCHANGED <<pins, since>>

Debounce ==
  /\ pc = "debounce"
  /\ Sleep(50 \div Tick)
  /\ pc' = "decide"
  /\ UNCHANGED <<key, last_key, pressed>>

IsPress_AfterRelease == key = Key_Read(pins) /\ last_key = PAGE_KEY_NONE

IsPress == key = Key_Read(pins) /\ last_key # key

Press_Forgets ==
  /\ pc = "decide" /\ IsPress
  /\ since' = 0
  /\ event' = [kind |-> "press", key |-> key]
  /\ pressed' = key
  /\ pc' = "loop"
  /\ UNCHANGED <<pins, key, last_key>>

Press ==
  /\ pc = "decide" /\ IsPress
  /\ since' = 0
  /\ last_key' = key
  /\ event' = [kind |-> "press", key |-> key]
  /\ pressed' = key
  /\ pc' = "loop"
  /\ UNCHANGED <<pins, key>>

Repeat_TickAhead ==
  /\ pc = "decide" /\ ~IsPress
  /\ last_key = key
  /\ since * Tick > 200
  /\ since' = since - 1000 \div Tick
  /\ event' = [kind |-> "repeat", key |-> key]
  /\ pc' = "loop"
  /\ UNCHANGED <<pins, key, last_key, pressed>>

Repeat ==
  /\ pc = "decide" /\ ~IsPress
  /\ last_key = key
  /\ since * Tick > 200
  /\ last_key' = key
  /\ event' = [kind |-> "repeat", key |-> key]
  /\ pc' = "loop"
  /\ UNCHANGED <<pins, key, since, pressed>>

Neither ==
  /\ pc = "decide" /\ ~IsPress
  /\ last_key # key \/ since * Tick <= 200
  /\ event' = NoEvent
  /\ pc' = "loop"
  /\ UNCHANGED <<pins, key, last_key, since, pressed>>

(* The rest of the display loop, up to the next scan. *)
Loop ==
  /\ pc = "loop"
  /\ \E d \in Delays : Sleep(d)
  /\ pc' = "scan"
  /\ UNCHANGED <<key, last_key, pressed>>

Next == Scan \/ Debounce \/ Press \/ Repeat \/ Neither \/ Loop

Spec == Init /\ [][Next]_vars

(* The display thread never stops scanning. *)
FairSpec == Spec /\ WF_vars(Next)

-----------------------------------------------------------------------------
TypeOK ==
  /\ pins \subseteq Keys
  /\ pc \in {"scan", "debounce", "decide", "loop"}
  /\ key \in Keys \cup {PAGE_KEY_NONE}
  /\ last_key \in Keys \cup {PAGE_KEY_NONE}
  /\ since \in 0..MaxTime
  /\ pressed \in Keys \cup {PAGE_KEY_NONE}
  /\ event \in [kind : {"none", "press", "repeat"}, key : Keys \cup {PAGE_KEY_NONE}]

(* However long a key is held, however it bounces during the debounce or   *)
(* between scans and however the loop is delayed: once it was pressed, it  *)
(* is not pressed again before a scan has begun without it, so that a page *)
(* is not left twice by one touch (DisplayPage.c:92).                      *)
OnePressPerHold == [][event'.kind = "press" => event'.key # pressed]_vars

(* A key that stays down is reported, also when another was down before,   *)
(* and keys that stay up are noticed, so that the next press is reported.  *)
HeldKeyIsReported ==
  \A k \in Keys \cup {PAGE_KEY_NONE} :
    <>[](Key_Read(pins) = k) => <>[](last_key = k)
=============================================================================
