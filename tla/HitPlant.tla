------------------------------ MODULE HitPlant ------------------------------
(***************************************************************************)
(* The plane game, Page_HitPlant.c: bullets and enemies moved by three     *)
(* LVGL timers, the plane moved by the keys, and the LVGL objects of all   *)
(* of them, which belong to the window of the page.                        *)
(*                                                                         *)
(* Timers, keys, Setup and Exit all run on the display thread, so each is  *)
(* one step.  Time is counted in runs of the 200 ms timer.                 *)
(***************************************************************************)
EXTENDS Integers, FiniteSets

CONSTANTS
  BULLET_COUNT, ENEMY_COUNT,
  BulletEvery, EnemyEvery,  \* 200 ms rounds from one run of the 1500 ms and
                            \* of the 2500 ms timer to the next
  RandX, RandMoveX, RandMoveY,  \* what rand() returns for an enemy
  Keys,                     \* the keys the player uses
  MaxMoves,                 \* the most key events while a game lasts
  StaleEnemies              \* whether to play again after enemies survived

ASSUME CountsAssumption ==
  BULLET_COUNT \in Nat \ {0} /\ ENEMY_COUNT \in Nat \ {0}
ASSUME RandAssumption ==
  RandX \subseteq Nat /\ RandMoveX \subseteq Nat /\ RandMoveY \subseteq Nat
ASSUME BoundsAssumption == MaxMoves \in Nat /\ StaleEnemies \in BOOLEAN

VARIABLES
  page,        \* the page: off, in Setup's delay, on, or leaving
  blood_num,   \* lives, a uint8_t
  Bullet, Enemy,
  plane,       \* the position of fly_plant
  timers,      \* the three timers exist
  since2, since3,  \* rounds since Timer2 and Timer3 ran
  hearts,      \* the hearts that are not hidden
  misused,     \* an LVGL function was given an object already deleted
  moves        \* key events since the game began

vars == <<page, blood_num, Bullet, Enemy, plane, timers, since2,
          since3, hearts, misused, moves>>

Bullets == 1..BULLET_COUNT
Enemies == 1..ENEMY_COUNT

abs(n) == IF n < 0 THEN -n ELSE n

(* The element of a set of one (TLC computes it once). *)
The(S) == CHOOSE x \in S : TRUE

(* lv_obj_del and lv_obj_set_pos of a pointer: bad if it dangles. *)
Dangles(thing) == thing.obj # "live"

NoBullet == [alive |-> FALSE, x |-> 0, y |-> 0, obj |-> "none"]
NoEnemy == [alive |-> FALSE, x |-> 0, y |-> 0, move_x |-> 0, move_y |-> 0,
            obj |-> "none"]

(* A slot whose object was deleted, and whose other fields are set before  *)
(* they are read again.                                                    *)
FreedBullet == [NoBullet EXCEPT !.obj = "freed"]
FreedEnemy == [NoEnemy EXCEPT !.obj = "freed"]

Init ==
  /\ page = "off"
  /\ blood_num = 3
  /\ Bullet = [i \in Bullets |-> NoBullet]
  /\ Enemy = [i \in Enemies |-> NoEnemy]
  /\ plane = [x |-> 0, y |-> 0]
  /\ timers = FALSE /\ since2 = 0 /\ since3 = 0 /\ hearts = {}
  /\ misused = FALSE /\ moves = 0

-----------------------------------------------------------------------------
(* Bullet_Init *)
Bullet_Init == [i \in Bullets |-> NoBullet]

(* The plane, 30 by 30, is at the bottom of 240 by 240; three hearts.      *)
fly_plant_init == [x |-> 105, y |-> 210]
blood_init == 1..3

(* Setup blocks in PageDelay before it creates the timers. *)
Setup ==
  /\ page = "off"
  /\ StaleEnemies \/ \A i \in Enemies : ~Enemy[i].alive
  /\ page' = "setup"
  /\ blood_num' = 3
  /\ Bullet' = Bullet_Init
  /\ plane' = fly_plant_init
  /\ hearts' = blood_init
  /\ moves' = 0
  /\ UNCHANGED <<Enemy, timers, since2, since3, misused>>

SetupDone ==
  /\ page = "setup"
  /\ page' = "on"
  /\ timers' = TRUE /\ since2' = 0 /\ since3' = 0
  /\ UNCHANGED <<blood_num, Bullet, Enemy, plane, hearts, misused, moves>>

-----------------------------------------------------------------------------
(* Bullet_Move: one bullet of the loop.  It goes off the screen, or hits   *)
(* the first enemy near it, or is drawn further up.                        *)
Hits_Narrow(b, e) == e.alive /\ abs(b.x - e.x) < 10 /\ abs(b.y - e.y) < 5

Hits(b, e) == e.alive /\ abs(b.x - e.x) < 10 /\ abs(b.y - e.y) < 10

MoveBullet_LeavesEnemy(s, i, step) ==
  LET b == [s.Bullet[i] EXCEPT !.y = @ - step]
      near == {j \in Enemies : Hits(b, s.Enemy[j])}
      j == CHOOSE j \in near : \A k \in near : j <= k
  IN IF ~b.alive THEN s
     ELSE IF b.y < 0 THEN
       [s EXCEPT !.Bullet[i] = NoBullet, !.misused = @ \/ Dangles(b)]
     ELSE IF near = {} THEN
       [s EXCEPT !.Bullet[i] = b, !.misused = @ \/ Dangles(b)]
     ELSE
       [s EXCEPT !.Bullet[i] = FreedBullet,
                 !.Enemy[j].obj = "freed",
                 !.misused = @ \/ Dangles(b) \/ Dangles(s.Enemy[j])]

MoveBullet(s, i, step) ==
  LET b == [s.Bullet[i] EXCEPT !.y = @ - step]
      near == {j \in Enemies : Hits(b, s.Enemy[j])}
      j == CHOOSE j \in near : \A k \in near : j <= k
  IN IF ~b.alive THEN s
     ELSE IF b.y < 0 THEN
       [s EXCEPT !.Bullet[i] = NoBullet, !.misused = @ \/ Dangles(b)]
     ELSE IF near = {} THEN
       [s EXCEPT !.Bullet[i] = b, !.misused = @ \/ Dangles(b)]
     ELSE
       [s EXCEPT !.Bullet[i] = FreedBullet,
                 !.Enemy[j] = FreedEnemy,
                 !.misused = @ \/ Dangles(b) \/ Dangles(s.Enemy[j])]

Bullet_Move(s, step) ==
  LET after[i \in 0..BULLET_COUNT] ==
        IF i = 0 THEN s
        ELSE The({MoveBullet(t, i, step) : t \in {after[i - 1]}})
  IN after[BULLET_COUNT]

(* Game_over: the timers are deleted, the one that is running among them   *)
(* (and a window that nobody deletes goes on the screen).                  *)
Game_over_KeepsTimers(s) == s

Game_over(s) == [s EXCEPT !.timers = FALSE]

(* Enemy_move: one enemy of the loop.  It leaves the screen, or takes a    *)
(* life of the plane, or is drawn where it moved to.                       *)
OffScreen(e) == e.x > 240 \/ e.y > 240 \/ e.x < 0
Crashes(e) == abs(e.x - plane.x) < 20 /\ abs(e.y - plane.y) < 20

LoseLife(s) ==
  LET left == (s.blood_num + 255) % 256
      hurt == [s EXCEPT !.blood_num = left]
  IN IF left = 0 THEN Game_over(hurt) ELSE hurt

MoveEnemy_Stands(s, i) ==
  LET e == [s.Enemy[i] EXCEPT !.x = @ + s.Enemy[i].move_x,
                              !.y = @ + s.Enemy[i].move_y]
      used == s.misused \/ Dangles(e)
  IN IF ~e.alive THEN s
     ELSE IF OffScreen(e) THEN
       [s EXCEPT !.Enemy[i] = FreedEnemy, !.misused = used]
     ELSE IF Crashes(e) THEN
       LoseLife([s EXCEPT !.Enemy[i] = FreedEnemy, !.misused = used])
     ELSE
       [s EXCEPT !.misused = used]

MoveEnemy(s, i) ==
  LET e == [s.Enemy[i] EXCEPT !.x = @ + s.Enemy[i].move_x,
                              !.y = @ + s.Enemy[i].move_y]
      used == s.misused \/ Dangles(e)
  IN IF ~e.alive THEN s
     ELSE IF OffScreen(e) THEN
       [s EXCEPT !.Enemy[i] = FreedEnemy, !.misused = used]
     ELSE IF Crashes(e) THEN
       LoseLife([s EXCEPT !.Enemy[i] = FreedEnemy, !.misused = used])
     ELSE
       [s EXCEPT !.Enemy[i] = e, !.misused = used]

Enemy_move(s) ==
  LET after[i \in 0..ENEMY_COUNT] ==
        IF i = 0 THEN s
        ELSE The({MoveEnemy(t, i) : t \in {after[i - 1]}})
  IN after[ENEMY_COUNT]

(* blood_update hides the heart that goes with the number of lives. *)
blood_update(s) ==
  [s EXCEPT !.hearts = @ \ (IF s.blood_num < 3 THEN {3 - s.blood_num} ELSE {})]

Round ==
  LET start == [Bullet |-> Bullet, Enemy |-> Enemy, misused |-> misused,
                blood_num |-> blood_num, hearts |-> hearts, timers |-> timers]
      moved == The({Enemy_move(s) : s \in {Bullet_Move(start, 8)}})
  IN The({blood_update(s) : s \in {moved}})

(* Timer1_CallBack; the other timers are run when they are due. *)
Timer1_CallBack ==
  /\ timers
  /\ \E r \in BulletEvery : since2 < r
  /\ \E r \in EnemyEvery : since3 < r
  /\ \E r \in {Round} :
       /\ Bullet' = r.Bullet /\ Enemy' = r.Enemy /\ misused' = r.misused
       /\ blood_num' = r.blood_num /\ hearts' = r.hearts
       /\ timers' = r.timers
  /\ since2' = since2 + 1 /\ since3' = since3 + 1
  /\ UNCHANGED <<page, plane, moves>>

-----------------------------------------------------------------------------
(* Bullet_Create: the first free bullet starts where the plane is. *)
Bullet_Create ==
  LET free == {i \in Bullets : ~Bullet[i].alive}
      i == CHOOSE i \in free : \A k \in free : i <= k
  IN Bullet' = IF free = {} THEN Bullet
               ELSE [Bullet EXCEPT ![i] =
                       [alive |-> TRUE, x |-> plane.x, y |-> plane.y, obj |-> "live"]]

Timer2_CallBack ==
  /\ timers /\ since2 \in BulletEvery
  /\ Bullet_Create
  /\ since2' = 0
  /\ UNCHANGED <<page, blood_num, Enemy, plane, timers, since3,
                 hearts, misused, moves>>

(* Enemy_create: the first free enemy starts above the screen. *)
start_x(r) == (r % 50) + 70
start_move_x(r) == (r % 3) - 1
start_move_y(r) == (r % 8) + 1

Enemy_create ==
  LET free == {i \in Enemies : ~Enemy[i].alive}
      i == CHOOSE i \in free : \A k \in free : i <= k
  IN IF free = {} THEN UNCHANGED Enemy
     ELSE \E rx \in RandX, rmx \in RandMoveX, rmy \in RandMoveY :
            Enemy' = [Enemy EXCEPT ![i] =
              [alive |-> TRUE, x |-> start_x(rx), y |-> -20,
               move_x |-> start_move_x(rmx), move_y |-> start_move_y(rmy),
               obj |-> "live"]]

Timer3_CallBack ==
  /\ timers /\ since3 \in EnemyEvery
  /\ Enemy_create
  /\ since3' = 0
  /\ UNCHANGED <<page, blood_num, Bullet, plane, timers, since2,
                 hearts, misused, moves>>

-----------------------------------------------------------------------------
Clamp_AtZero(n) == IF n < 0 THEN 0 ELSE n

Clamp(n) == IF n < 0 THEN 0 ELSE IF n > 210 THEN 210 ELSE n

(* Event: a key moves the plane while there are lives, and leaves the page *)
(* when there are none.                                                    *)
Event(key) ==
  /\ page = "on"
  /\ timers => moves < MaxMoves
  /\ moves' = IF timers THEN moves + 1 ELSE moves
  /\ IF blood_num > 0
       THEN /\ plane' = [x |-> Clamp(plane.x + (CASE key = "LEFT" -> -8
                                                  [] key = "RIGHT" -> 8
                                                  [] OTHER -> 0)),
                         y |-> Clamp(plane.y + (CASE key = "UP" -> -8
                                                  [] key = "DOWN" -> 8
                                                  [] OTHER -> 0))]
            /\ UNCHANGED page
       ELSE page' = "leaving" /\ UNCHANGED plane
  /\ UNCHANGED <<blood_num, Bullet, Enemy, timers, since2, since3,
                 hearts, misused>>

(* Exit: the window is emptied; the arrays keep their pointers. *)
Freed(thing) == [thing EXCEPT !.obj = IF @ = "live" THEN "freed" ELSE @]

Exit ==
  /\ page = "leaving"
  /\ page' = "off"
  /\ Bullet' = [i \in Bullets |-> Freed(Bullet[i])]
  /\ Enemy' = [i \in Enemies |-> Freed(Enemy[i])]
  /\ hearts' = {}
  /\ UNCHANGED <<blood_num, plane, timers, since2, since3,
                 misused, moves>>

Next ==
  \/ Setup \/ SetupDone \/ Exit
  \/ Timer1_CallBack \/ Timer2_CallBack \/ Timer3_CallBack
  \/ \E key \in Keys : Event(key)

Spec == Init /\ [][Next]_vars

(* LVGL runs a timer that is due; the display thread never stops. *)
FairSpec == Spec /\ WF_vars(Timer1_CallBack)
                 /\ WF_vars(Timer2_CallBack) /\ WF_vars(Timer3_CallBack)

-----------------------------------------------------------------------------
TypeOK ==
  /\ page \in {"off", "setup", "on", "leaving"}
  /\ blood_num \in 0..255
  /\ Bullet \in [Bullets -> [alive : BOOLEAN, x : 0..210, y : -8..210,
                             obj : {"none", "live", "freed"}]]
  /\ Enemy \in [Enemies -> [alive : BOOLEAN, x : -1..241, y : -20..248,
                            move_x : -1..1, move_y : 0..8,
                            obj : {"none", "live", "freed"}]]
  /\ plane \in [x : 0..210, y : 0..210]
  /\ timers \in BOOLEAN /\ misused \in BOOLEAN
  /\ since2 \in Nat /\ since3 \in Nat
  /\ hearts \subseteq 1..3
  /\ moves \in 0..MaxMoves

(* An object is not given to LVGL after it was deleted: a slot that is     *)
(* alive has an object, and no two of the loops over bullets and enemies   *)
(* delete the same one.                                                    *)
NoMisuse == ~misused

(* The timers, which move objects of the page, never run before its Setup  *)
(* is done or after a key has left it: it is left only after Game_over.    *)
TimersOnlyOnPage == timers => page = "on"

(* A bullet under an enemy, within reach to its sides, stays under it or   *)
(* hits it: the two together never move further in a round than the hit    *)
(* window is high.                                                         *)
NoTunnelling ==
  [][\A i \in Bullets, j \in Enemies :
       LET b == Bullet[i] e == Enemy[j]
       IN (/\ b.alive /\ Bullet'[i].alive
           /\ e.alive /\ Enemy'[j].alive
           /\ abs(b.x - e.x) < 10 /\ b.y > e.y)
          => Bullet'[i].y > Enemy'[j].y]_vars

(* Every enemy gives its slot back, or the game ends: the three slots      *)
(* never fill up with enemies that do not move on.                         *)
EnemyGoes ==
  \A i \in Enemies : Enemy[i].alive ~> ~Enemy[i].alive \/ ~timers

(* README.md: "three lives at the start".  There are never more.           *)
LivesInRange == blood_num <= 3

=============================================================================
