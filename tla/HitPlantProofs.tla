--------------------------- MODULE HitPlantProofs --------------------------
(***************************************************************************)
(* Theorems about the plane game, for any number of bullets and enemies,   *)
(* any period of the timers and whatever rand() returns.                   *)
(*                                                                         *)
(* The loops over bullets and enemies are recursive functions.  That they  *)
(* keep what each of their rounds keeps is shown without induction over an *)
(* operator: a set of rounds where it fails would have a least element.    *)
(***************************************************************************)
EXTENDS HitPlant, WellFoundedInduction, TLAPS

USE CountsAssumption, RandAssumption, BoundsAssumption

(* A set of numbers has a least one. *)
LEMMA Least ==
  ASSUME NEW T, T \subseteq Nat, T # {}
  PROVE  \E x \in T : \A y \in T : ~(y < x)
<1>1. IsWellFoundedOn(OpToRel(<, Nat), Nat)
  BY NatLessThanWellFounded
<1>2. \E x \in T : \A y \in T : ~(<<y, x>> \in OpToRel(<, Nat))
  BY <1>1, WFMin
<1> QED BY <1>2 DEF OpToRel

LEMMA LeastChosen ==
  ASSUME NEW T, T \subseteq Nat, T # {}
  PROVE  (CHOOSE i \in T : \A k \in T : i <= k) \in T
<1>1. PICK x \in T : \A y \in T : ~(y < x)
  BY Least
<1>2. \A y \in T : x <= y
  BY <1>1
<1> QED BY <1>2

-----------------------------------------------------------------------------
(* The loops. *)

NextEnemy(s, i) == The({MoveEnemy(t, i) : t \in {s}})
NextBullet(s, i, step) == The({MoveBullet(t, i, step) : t \in {s}})

(* f is a run of the loop over the first n enemies, or bullets, from s.    *)
EnemyLoop(f, s, n) ==
  f = [i \in 0..n |-> IF i = 0 THEN s ELSE NextEnemy(f[i - 1], i)]
BulletLoop(f, s, step, n) ==
  f = [i \in 0..n |-> IF i = 0 THEN s ELSE NextBullet(f[i - 1], i, step)]

LEMMA EnemyLoopExists ==
  ASSUME NEW s PROVE \A n \in Nat : \E f : EnemyLoop(f, s, n)
<1> DEFINE T == {n \in Nat : ~\E f : EnemyLoop(f, s, n)}
<1>1. SUFFICES ASSUME T # {} PROVE FALSE
  OBVIOUS
<1>2. PICK n \in T : \A y \in T : ~(y < n)
  BY <1>1, Least
<1>3. CASE n = 0
  <2>1. EnemyLoop([i \in 0..0 |-> s], s, 0)
    BY DEF EnemyLoop
  <2> QED BY <1>2, <1>3, <2>1
<1>4. CASE n # 0
  <2>1. n \in Nat /\ n - 1 \in Nat /\ n - 1 \notin T
    BY <1>2, <1>4
  <2>2. PICK f : EnemyLoop(f, s, n - 1)
    BY <2>1
  <2> DEFINE g == [i \in 0..n |-> IF i = n THEN NextEnemy(f[n - 1], n) ELSE f[i]]
  <2>3. ASSUME NEW i \in 0..n
        PROVE  g[i] = IF i = 0 THEN s ELSE NextEnemy(g[i - 1], i)
    <3>1. \A k \in 0..n - 1 : f[k] = IF k = 0 THEN s ELSE NextEnemy(f[k - 1], k)
      BY <2>1, <2>2 DEF EnemyLoop
    <3>2. CASE i = n
      BY <1>4, <2>1, <3>2
    <3>3. CASE i # n
      BY <2>1, <3>1, <3>3
    <3> QED BY <3>2, <3>3
  <2>4. EnemyLoop(g, s, n)
    BY <2>3 DEF EnemyLoop
  <2> QED BY <1>2, <2>4
<1> QED BY <1>3, <1>4

LEMMA BulletLoopExists ==
  ASSUME NEW s, NEW step PROVE \A n \in Nat : \E f : BulletLoop(f, s, step, n)
<1> DEFINE T == {n \in Nat : ~\E f : BulletLoop(f, s, step, n)}
<1>1. SUFFICES ASSUME T # {} PROVE FALSE
  OBVIOUS
<1>2. PICK n \in T : \A y \in T : ~(y < n)
  BY <1>1, Least
<1>3. CASE n = 0
  <2>1. BulletLoop([i \in 0..0 |-> s], s, step, 0)
    BY DEF BulletLoop
  <2> QED BY <1>2, <1>3, <2>1
<1>4. CASE n # 0
  <2>1. n \in Nat /\ n - 1 \in Nat /\ n - 1 \notin T
    BY <1>2, <1>4
  <2>2. PICK f : BulletLoop(f, s, step, n - 1)
    BY <2>1
  <2> DEFINE g == [i \in 0..n |-> IF i = n THEN NextBullet(f[n - 1], n, step) ELSE f[i]]
  <2>3. ASSUME NEW i \in 0..n
        PROVE  g[i] = IF i = 0 THEN s ELSE NextBullet(g[i - 1], i, step)
    <3>1. \A k \in 0..n - 1 : f[k] = IF k = 0 THEN s ELSE NextBullet(f[k - 1], k, step)
      BY <2>1, <2>2 DEF BulletLoop
    <3>2. CASE i = n
      BY <1>4, <2>1, <3>2
    <3>3. CASE i # n
      BY <2>1, <3>1, <3>3
    <3> QED BY <3>2, <3>3
  <2>4. BulletLoop(g, s, step, n)
    BY <2>3 DEF BulletLoop
  <2> QED BY <1>2, <2>4
<1> QED BY <1>3, <1>4

(* What every round carries from one number of rounds to the next holds    *)
(* after the loop; a set that every round stays in is not left.            *)
LEMMA EnemyMoveReaches ==
  ASSUME NEW G, NEW s \in G[0],
         \A i \in Enemies : \A t \in G[i - 1] : MoveEnemy(t, i) \in G[i]
  PROVE  Enemy_move(s) \in G[ENEMY_COUNT]
<1> DEFINE after == CHOOSE f : EnemyLoop(f, s, ENEMY_COUNT)
<1>1. EnemyLoop(after, s, ENEMY_COUNT)
  BY EnemyLoopExists
<1>2. Enemy_move(s) = after[ENEMY_COUNT]
  BY DEF Enemy_move, EnemyLoop, NextEnemy
<1> HIDE DEF after
<1>3. after[0] = s /\ \A i \in Enemies : after[i] = MoveEnemy(after[i - 1], i)
  <2>1. \A t, i : NextEnemy(t, i) = MoveEnemy(t, i)
    BY DEF NextEnemy, The
  <2> QED BY <1>1, <2>1 DEF EnemyLoop, Enemies
<1> DEFINE T == {n \in 0..ENEMY_COUNT : after[n] \notin G[n]}
<1>4. T = {}
  <2>1. SUFFICES ASSUME T # {} PROVE FALSE
    OBVIOUS
  <2>0. T \subseteq Nat
    OBVIOUS
  <2>2. PICK n \in T : \A y \in T : ~(y < n)
    <3> HIDE DEF T
    <3> QED BY <2>0, <2>1, Least
  <2>3. n # 0
    BY <1>3
  <2>4. n \in Enemies /\ n - 1 \in 0..ENEMY_COUNT /\ n - 1 \notin T
    BY <2>2, <2>3 DEF Enemies
  <2> QED BY <1>3, <2>2, <2>4
<1> QED BY <1>2, <1>4

LEMMA EnemyMoveStays ==
  ASSUME NEW G, NEW s \in G,
         \A t \in G, i \in Enemies : MoveEnemy(t, i) \in G
  PROVE  Enemy_move(s) \in G
<1> DEFINE H == [n \in 0..ENEMY_COUNT |-> G]
<1>1. s \in H[0] /\ H[ENEMY_COUNT] = G
  OBVIOUS
<1>2. \A i \in Enemies : H[i - 1] = G /\ H[i] = G
  BY DEF Enemies
<1> HIDE DEF H
<1>3. \A i \in Enemies : \A t \in H[i - 1] : MoveEnemy(t, i) \in H[i]
  BY <1>2
<1> QED BY <1>1, <1>3, EnemyMoveReaches

LEMMA BulletMoveReaches ==
  ASSUME NEW G, NEW s \in G[0], NEW step,
         \A i \in Bullets : \A t \in G[i - 1] : MoveBullet(t, i, step) \in G[i]
  PROVE  Bullet_Move(s, step) \in G[BULLET_COUNT]
<1> DEFINE after == CHOOSE f : BulletLoop(f, s, step, BULLET_COUNT)
<1>1. BulletLoop(after, s, step, BULLET_COUNT)
  BY BulletLoopExists
<1>2. Bullet_Move(s, step) = after[BULLET_COUNT]
  BY DEF Bullet_Move, BulletLoop, NextBullet
<1> HIDE DEF after
<1>3. after[0] = s /\ \A i \in Bullets : after[i] = MoveBullet(after[i - 1], i, step)
  <2>1. \A t, i : NextBullet(t, i, step) = MoveBullet(t, i, step)
    BY DEF NextBullet, The
  <2> QED BY <1>1, <2>1 DEF BulletLoop, Bullets
<1> DEFINE T == {n \in 0..BULLET_COUNT : after[n] \notin G[n]}
<1>4. T = {}
  <2>1. SUFFICES ASSUME T # {} PROVE FALSE
    OBVIOUS
  <2>0. T \subseteq Nat
    OBVIOUS
  <2>2. PICK n \in T : \A y \in T : ~(y < n)
    <3> HIDE DEF T
    <3> QED BY <2>0, <2>1, Least
  <2>3. n # 0
    BY <1>3
  <2>4. n \in Bullets /\ n - 1 \in 0..BULLET_COUNT /\ n - 1 \notin T
    BY <2>2, <2>3 DEF Bullets
  <2> QED BY <1>3, <2>2, <2>4
<1> QED BY <1>2, <1>4

LEMMA BulletMoveStays ==
  ASSUME NEW G, NEW s \in G, NEW step,
         \A t \in G, i \in Bullets : MoveBullet(t, i, step) \in G
  PROVE  Bullet_Move(s, step) \in G
<1> DEFINE H == [n \in 0..BULLET_COUNT |-> G]
<1>1. s \in H[0] /\ H[BULLET_COUNT] = G
  OBVIOUS
<1>2. \A i \in Bullets : H[i - 1] = G /\ H[i] = G
  BY DEF Bullets
<1> HIDE DEF H
<1>3. \A i \in Bullets : \A t \in H[i - 1] : MoveBullet(t, i, step) \in H[i]
  BY <1>2
<1> QED BY <1>1, <1>3, BulletMoveReaches

-----------------------------------------------------------------------------
(* What the loops work on. *)

BulletType == [alive : BOOLEAN, x : 0..210, y : -8..210,
               obj : {"none", "live", "freed"}]
EnemyType == [alive : BOOLEAN, x : -1..241, y : -20..248,
              move_x : -1..1, move_y : 0..8, obj : {"none", "live", "freed"}]
State == [Bullet : [Bullets -> BulletType], Enemy : [Enemies -> EnemyType],
          misused : BOOLEAN, blood_num : 0..255, hearts : SUBSET (1..3),
          timers : BOOLEAN]

(* The timers are deleted with the last life. *)
Fit == {s \in State : s.timers => s.blood_num # 0}

(* An alive slot has an object. *)
Whole(s) ==
  /\ \A i \in Bullets : s.Bullet[i].alive => s.Bullet[i].obj = "live"
  /\ \A i \in Enemies : s.Enemy[i].alive => s.Enemy[i].obj = "live"

Clean == {s \in Fit : ~s.misused /\ Whole(s)}

LEMMA NothingsTyped ==
  /\ NoBullet \in BulletType /\ FreedBullet \in BulletType
  /\ FreedEnemy \in EnemyType /\ NoEnemy \in EnemyType
  /\ ~NoBullet.alive /\ ~FreedBullet.alive /\ ~FreedEnemy.alive
<1>1. NoBullet \in BulletType /\ ~NoBullet.alive
  BY DEF NoBullet, BulletType
<1>3. FreedBullet \in BulletType /\ ~FreedBullet.alive
  <2> QED BY <1>1 DEF FreedBullet, BulletType
<1>4. NoEnemy \in EnemyType /\ ~NoEnemy.alive
  BY DEF NoEnemy, EnemyType
<1>6. FreedEnemy \in EnemyType /\ ~FreedEnemy.alive
  BY <1>4 DEF FreedEnemy, EnemyType
<1> QED BY <1>1, <1>3, <1>4, <1>6

(* What one round of Bullet_Move does: the three ways of the loop.         *)
LEMMA BulletRound ==
  ASSUME NEW s \in State, NEW i \in Bullets
  PROVE  LET t == MoveBullet(s, i, 8)
             b == [s.Bullet[i] EXCEPT !.y = @ - 8]
         IN \/ t = s /\ ~s.Bullet[i].alive
            \/ /\ s.Bullet[i].alive
               /\ t = [s EXCEPT !.Bullet[i] = NoBullet,
                                !.misused = @ \/ Dangles(b)]
            \/ /\ s.Bullet[i].alive /\ b \in BulletType
               /\ \A j \in Enemies : ~Hits(b, s.Enemy[j])
               /\ t = [s EXCEPT !.Bullet[i] = b, !.misused = @ \/ Dangles(b)]
            \/ /\ s.Bullet[i].alive
               /\ \E j \in Enemies :
                    /\ s.Enemy[j].alive
                    /\ t = [s EXCEPT !.Bullet[i] = FreedBullet,
                                     !.Enemy[j] = FreedEnemy,
                                     !.misused = @ \/ Dangles(b)
                                                 \/ Dangles(s.Enemy[j])]
<1> DEFINE b == [s.Bullet[i] EXCEPT !.y = @ - 8]
           near == {j \in Enemies : Hits(b, s.Enemy[j])}
<1>1. s.Bullet[i] \in BulletType
  BY DEF State
<1>2. b.alive = s.Bullet[i].alive /\ (b.y >= 0 => b \in BulletType)
  BY <1>1 DEF BulletType
<1>3. CASE ~b.alive
  BY <1>2, <1>3 DEF MoveBullet
<1>4. CASE b.alive /\ b.y < 0
  BY <1>2, <1>4 DEF MoveBullet
<1>5. CASE b.alive /\ ~(b.y < 0) /\ near = {}
  <2>1. b.y >= 0
    BY <1>1, <1>5 DEF BulletType
  <2>2. /\ MoveBullet(s, i, 8) = [s EXCEPT !.Bullet[i] = b, !.misused = @ \/ Dangles(b)]
        /\ \A j \in Enemies : ~Hits(b, s.Enemy[j])
    BY <1>5 DEF MoveBullet
  <2> QED BY <1>2, <1>5, <2>1, <2>2
<1>6. CASE b.alive /\ ~(b.y < 0) /\ near # {}
  <2> DEFINE j == CHOOSE j \in near : \A k \in near : j <= k
  <2>1. near \subseteq Nat
    BY CountsAssumption DEF Enemies
  <2>4. j \in near
    <3> HIDE DEF near
    <3> QED BY <1>6, <2>1, LeastChosen
  <2>5. j \in Enemies /\ s.Enemy[j].alive
    BY <2>4 DEF Hits
  <2>6. MoveBullet(s, i, 8) =
          [s EXCEPT !.Bullet[i] = FreedBullet, !.Enemy[j] = FreedEnemy,
                    !.misused = @ \/ Dangles(b) \/ Dangles(s.Enemy[j])]
    BY <1>6 DEF MoveBullet
  <2> HIDE DEF j
  <2> QED BY <1>2, <1>6, <2>5, <2>6
<1> QED BY <1>3, <1>4, <1>5, <1>6

LEMMA BulletFit ==
  ASSUME NEW s \in Fit, NEW i \in Bullets
  PROVE  MoveBullet(s, i, 8) \in Fit
<1> DEFINE t == MoveBullet(s, i, 8)
           b == [s.Bullet[i] EXCEPT !.y = @ - 8]
<1>1. s \in State /\ (s.timers => s.blood_num # 0)
  BY DEF Fit
<1>2. /\ s.Bullet \in [Bullets -> BulletType]
      /\ s.Enemy \in [Enemies -> EnemyType]
  BY <1>1 DEF State
<1>3. CASE \E B \in BulletType, m \in BOOLEAN :
             t = [s EXCEPT !.Bullet[i] = B, !.misused = m]
  <2> PICK B \in BulletType, m \in BOOLEAN :
             t = [s EXCEPT !.Bullet[i] = B, !.misused = m]
    BY <1>3
  <2>1. t \in Fit
    <3> HIDE DEF t
    <3> QED BY <1>1, <1>2 DEF State, Fit
  <2> QED BY <2>1
<1>4. CASE \E B \in BulletType, m \in BOOLEAN, j \in Enemies :
             t = [s EXCEPT !.Bullet[i] = B, !.Enemy[j] = FreedEnemy, !.misused = m]
  <2> PICK B \in BulletType, m \in BOOLEAN, j \in Enemies :
             t = [s EXCEPT !.Bullet[i] = B, !.Enemy[j] = FreedEnemy, !.misused = m]
    BY <1>4
  <2>1. t \in Fit
    <3> HIDE DEF t
    <3> QED BY <1>1, <1>2, NothingsTyped DEF State, Fit
  <2> QED BY <2>1
<1>5. \A thing : Dangles(thing) \in BOOLEAN
  BY DEF Dangles
<1>6. s.misused \in BOOLEAN
  BY <1>1 DEF State
<1>7. t = s \/ (\E B \in BulletType, m \in BOOLEAN :
                  t = [s EXCEPT !.Bullet[i] = B, !.misused = m])
            \/ (\E B \in BulletType, m \in BOOLEAN, j \in Enemies :
                  t = [s EXCEPT !.Bullet[i] = B, !.Enemy[j] = FreedEnemy, !.misused = m])
  <2> HIDE DEF t, b
  <2>1. \/ t = s
        \/ t = [s EXCEPT !.Bullet[i] = NoBullet, !.misused = @ \/ Dangles(b)]
        \/ /\ b \in BulletType
           /\ t = [s EXCEPT !.Bullet[i] = b, !.misused = @ \/ Dangles(b)]
        \/ \E j \in Enemies :
             t = [s EXCEPT !.Bullet[i] = FreedBullet, !.Enemy[j] = FreedEnemy,
                           !.misused = @ \/ Dangles(b) \/ Dangles(s.Enemy[j])]
    BY <1>1, BulletRound DEF t, b
  <2>2. \A c, d : (s.misused \/ Dangles(c)) \in BOOLEAN
                  /\ (s.misused \/ Dangles(c) \/ Dangles(d)) \in BOOLEAN
    OBVIOUS
  <2>3. CASE t = [s EXCEPT !.Bullet[i] = NoBullet, !.misused = @ \/ Dangles(b)]
    BY <2>2, <2>3, NothingsTyped
  <2>4. CASE /\ b \in BulletType
             /\ t = [s EXCEPT !.Bullet[i] = b, !.misused = @ \/ Dangles(b)]
    BY <2>2, <2>4
  <2>5. ASSUME NEW j \in Enemies,
               t = [s EXCEPT !.Bullet[i] = FreedBullet, !.Enemy[j] = FreedEnemy,
                             !.misused = @ \/ Dangles(b) \/ Dangles(s.Enemy[j])]
        PROVE  \E B \in BulletType, m \in BOOLEAN, k \in Enemies :
                 t = [s EXCEPT !.Bullet[i] = B, !.Enemy[k] = FreedEnemy, !.misused = m]
    BY <2>2, <2>5, NothingsTyped
  <2> QED BY <2>1, <2>3, <2>4, <2>5
<1> QED BY <1>3, <1>4, <1>7

LEMMA BulletClean ==
  ASSUME NEW s \in Clean, NEW i \in Bullets
  PROVE  MoveBullet(s, i, 8) \in Clean
<1> DEFINE t == MoveBullet(s, i, 8)
           b == [s.Bullet[i] EXCEPT !.y = @ - 8]
<1>1. s \in State /\ s \in Fit /\ ~s.misused /\ Whole(s)
  BY DEF Clean, Fit
<1>2. t \in Fit
  BY <1>1, BulletFit
<1>3. /\ s.Bullet \in [Bullets -> BulletType]
      /\ s.Enemy \in [Enemies -> EnemyType]
  BY <1>1 DEF State
<1>4. b.alive = s.Bullet[i].alive /\ b.obj = s.Bullet[i].obj
  BY <1>3 DEF BulletType
<1>5. s.Bullet[i].alive => ~Dangles(b)
  BY <1>1, <1>4 DEF Whole, Dangles
<1>6. \A j \in Enemies : s.Enemy[j].alive => ~Dangles(s.Enemy[j])
  BY <1>1 DEF Whole, Dangles
<1>7. ~t.misused /\ Whole(t)
  <2> HIDE DEF t, b
  <2>1. CASE t = s
    BY <1>1, <2>1
  <2>2. CASE /\ s.Bullet[i].alive
             /\ t = [s EXCEPT !.Bullet[i] = NoBullet, !.misused = @ \/ Dangles(b)]
    BY <1>1, <1>3, <1>5, <2>2, NothingsTyped DEF Whole, State
  <2>3. CASE /\ s.Bullet[i].alive /\ b \in BulletType
             /\ t = [s EXCEPT !.Bullet[i] = b, !.misused = @ \/ Dangles(b)]
    BY <1>1, <1>3, <1>4, <1>5, <2>3 DEF Whole, State
  <2>4. ASSUME s.Bullet[i].alive, NEW j \in Enemies, s.Enemy[j].alive,
               t = [s EXCEPT !.Bullet[i] = FreedBullet, !.Enemy[j] = FreedEnemy,
                             !.misused = @ \/ Dangles(b) \/ Dangles(s.Enemy[j])]
        PROVE  ~t.misused /\ Whole(t)
    BY <1>1, <1>3, <1>5, <1>6, <2>4, NothingsTyped DEF Whole, State
  <2> QED BY <1>1, <2>1, <2>2, <2>3, <2>4, BulletRound DEF t, b
<1> QED BY <1>2, <1>7 DEF Clean

(* What one round of Enemy_move does.                                      *)
LEMMA EnemyRound ==
  ASSUME NEW s \in State, NEW i \in Enemies
  PROVE  LET t == MoveEnemy(s, i)
             e == [s.Enemy[i] EXCEPT !.x = @ + s.Enemy[i].move_x,
                                     !.y = @ + s.Enemy[i].move_y]
             m == s.misused \/ Dangles(e)
         IN \/ t = s
            \/ /\ s.Enemy[i].alive
               /\ \/ t = [s EXCEPT !.Enemy[i] = FreedEnemy, !.misused = m]
                  \/ t = LoseLife([s EXCEPT !.Enemy[i] = FreedEnemy, !.misused = m])
                  \/ e \in EnemyType /\ t = [s EXCEPT !.Enemy[i] = e, !.misused = m]
<1> DEFINE e == [s.Enemy[i] EXCEPT !.x = @ + s.Enemy[i].move_x,
                                   !.y = @ + s.Enemy[i].move_y]
<1>1. s.Enemy[i] \in EnemyType
  BY DEF State
<1>2. e.alive = s.Enemy[i].alive
  BY <1>1 DEF EnemyType
<1>3. ASSUME ~OffScreen(e) PROVE e \in EnemyType
  <2> DEFINE X == s.Enemy[i].x + s.Enemy[i].move_x
             Y == s.Enemy[i].y + s.Enemy[i].move_y
  <2>1. e.x = X /\ e.y = Y
    BY <1>1 DEF EnemyType
  <2>2. X \in Int /\ Y \in Int /\ Y >= -20
    <3>1. /\ s.Enemy[i].x \in Int /\ s.Enemy[i].move_x \in Int
          /\ s.Enemy[i].y \in Int /\ s.Enemy[i].y >= -20
          /\ s.Enemy[i].move_y \in Int /\ s.Enemy[i].move_y >= 0
      BY <1>1 DEF EnemyType
    <3> HIDE DEF e
    <3> QED BY <3>1
  <2>3. X \in -1..241 /\ Y \in -20..248
    <3> HIDE DEF X, Y
    <3> QED BY <1>3, <2>1, <2>2 DEF OffScreen
  <2>4. e = [s.Enemy[i] EXCEPT !.x = X, !.y = Y]
    OBVIOUS
  <2>5. ASSUME NEW z \in EnemyType, NEW nx \in -1..241, NEW ny \in -20..248
        PROVE  [z EXCEPT !.x = nx, !.y = ny] \in EnemyType
    <3>1. [z EXCEPT !.x = nx] \in EnemyType
      BY DEF EnemyType
    <3>2. ASSUME NEW w \in EnemyType PROVE [w EXCEPT !.y = ny] \in EnemyType
      BY DEF EnemyType
    <3>3. [z EXCEPT !.x = nx, !.y = ny] = [[z EXCEPT !.x = nx] EXCEPT !.y = ny]
      OBVIOUS
    <3> QED BY <3>1, <3>2, <3>3
  <2> HIDE DEF e, X, Y
  <2> QED BY <1>1, <2>3, <2>4, <2>5
<1>4. CASE ~e.alive
  BY <1>4 DEF MoveEnemy
<1>5. CASE e.alive /\ OffScreen(e)
  BY <1>2, <1>5 DEF MoveEnemy
<1>6. CASE e.alive /\ ~OffScreen(e) /\ Crashes(e)
  BY <1>2, <1>6 DEF MoveEnemy
<1>7. CASE e.alive /\ ~OffScreen(e) /\ ~Crashes(e)
  BY <1>2, <1>3, <1>7 DEF MoveEnemy
<1> QED BY <1>4, <1>5, <1>6, <1>7

(* A lost life leaves the slots alone, and the last one stops the timers.  *)
LEMMA LifeLost ==
  ASSUME NEW s \in State
  PROVE  /\ LoseLife(s) \in State
         /\ LoseLife(s).timers => s.timers /\ LoseLife(s).blood_num # 0
         /\ LoseLife(s).Enemy = s.Enemy /\ LoseLife(s).Bullet = s.Bullet
         /\ LoseLife(s).misused = s.misused
<1> DEFINE left == (s.blood_num + 255) % 256
<1>1. left \in 0..255
  BY DEF State
<1> HIDE DEF left
<1>2. CASE left = 0
  <2>1. LoseLife(s) = [s EXCEPT !.blood_num = left, !.timers = FALSE]
    BY <1>2 DEF LoseLife, Game_over, State, left
  <2> QED BY <1>1, <2>1 DEF State
<1>3. CASE left # 0
  <2>1. LoseLife(s) = [s EXCEPT !.blood_num = left]
    BY <1>3 DEF LoseLife, left
  <2> QED BY <1>1, <1>3, <2>1 DEF State
<1> QED BY <1>2, <1>3

LEMMA EnemyFit ==
  ASSUME NEW s \in Fit, NEW i \in Enemies
  PROVE  MoveEnemy(s, i) \in Fit
<1> DEFINE t == MoveEnemy(s, i)
           e == [s.Enemy[i] EXCEPT !.x = @ + s.Enemy[i].move_x,
                                   !.y = @ + s.Enemy[i].move_y]
           m == s.misused \/ Dangles(e)
           hit == [s EXCEPT !.Enemy[i] = FreedEnemy, !.misused = m]
<1>1. s \in State /\ (s.timers => s.blood_num # 0)
  BY DEF Fit
<1>2. s.Enemy \in [Enemies -> EnemyType]
  BY <1>1 DEF State
<1>3. m \in BOOLEAN
  BY DEF Dangles
<1>4. hit \in Fit
  <2> HIDE DEF m
  <2> QED BY <1>1, <1>2, <1>3, NothingsTyped DEF Fit, State
<1>5. LoseLife(hit) \in Fit
  <2> HIDE DEF hit
  <2> QED BY <1>4, LifeLost DEF Fit
<1>6. ASSUME e \in EnemyType PROVE [s EXCEPT !.Enemy[i] = e, !.misused = m] \in Fit
  <2> HIDE DEF m, e
  <2> QED BY <1>1, <1>2, <1>3, <1>6 DEF Fit, State
<1>7. \/ t = s \/ t = hit \/ t = LoseLife(hit)
      \/ e \in EnemyType /\ t = [s EXCEPT !.Enemy[i] = e, !.misused = m]
  BY <1>1, EnemyRound
<1>8. t \in Fit
  <2> HIDE DEF t, e, m, hit
  <2> QED BY <1>4, <1>5, <1>6, <1>7
<1> QED BY <1>8

LEMMA EnemyClean ==
  ASSUME NEW s \in Clean, NEW i \in Enemies
  PROVE  MoveEnemy(s, i) \in Clean
<1> DEFINE t == MoveEnemy(s, i)
           e == [s.Enemy[i] EXCEPT !.x = @ + s.Enemy[i].move_x,
                                   !.y = @ + s.Enemy[i].move_y]
           m == s.misused \/ Dangles(e)
           hit == [s EXCEPT !.Enemy[i] = FreedEnemy, !.misused = m]
<1>1. s \in State /\ s \in Fit /\ ~s.misused /\ Whole(s)
  BY DEF Clean, Fit
<1>2. s.Enemy \in [Enemies -> EnemyType] /\ s.Bullet \in [Bullets -> BulletType]
  BY <1>1 DEF State
<1>3. e.alive = s.Enemy[i].alive /\ e.obj = s.Enemy[i].obj
  BY <1>2 DEF EnemyType
<1>4. ASSUME s.Enemy[i].alive PROVE m = FALSE
  BY <1>1, <1>3, <1>4 DEF Whole, Dangles
<1>5. ASSUME s.Enemy[i].alive
      PROVE  /\ hit \in State /\ ~hit.misused /\ Whole(hit)
             /\ ~LoseLife(hit).misused /\ Whole(LoseLife(hit))
  <2>1. m = FALSE
    BY <1>4, <1>5
  <2> HIDE DEF m
  <2>2. hit \in State /\ ~hit.misused /\ Whole(hit)
    BY <1>1, <1>2, <2>1, NothingsTyped DEF State, Whole
  <2> HIDE DEF hit
  <2> QED BY <2>2, LifeLost DEF Whole
<1>6. ASSUME s.Enemy[i].alive, t = [s EXCEPT !.Enemy[i] = e, !.misused = m]
      PROVE  ~t.misused /\ Whole(t)
  <2>1. m = FALSE
    BY <1>4, <1>6
  <2> HIDE DEF m, e, t
  <2> QED BY <1>1, <1>2, <1>3, <1>6, <2>1 DEF State, Whole
<1>7. \/ t = s
      \/ /\ s.Enemy[i].alive
         /\ \/ t = hit \/ t = LoseLife(hit)
            \/ t = [s EXCEPT !.Enemy[i] = e, !.misused = m]
  BY <1>1, EnemyRound
<1>8. ~t.misused /\ Whole(t)
  <2> HIDE DEF t, e, m, hit
  <2> QED BY <1>1, <1>5, <1>6, <1>7
<1>9. t \in Fit
  BY <1>1, EnemyFit
<1> QED BY <1>8, <1>9 DEF Clean

-----------------------------------------------------------------------------
(* A round of the 200 ms timer. *)

Start == [Bullet |-> Bullet, Enemy |-> Enemy, misused |-> misused,
          blood_num |-> blood_num, hearts |-> hearts, timers |-> timers]

LEMMA RoundIs ==
  Round = blood_update(Enemy_move(Bullet_Move(Start, 8)))
BY DEF Round, The, Start

LEMMA HeartsUpdate ==
  ASSUME NEW s \in State
  PROVE  /\ blood_update(s) \in State
         /\ s \in Fit => blood_update(s) \in Fit
         /\ s \in Clean => blood_update(s) \in Clean
<1> DEFINE h == s.hearts \ (IF s.blood_num < 3 THEN {3 - s.blood_num} ELSE {})
<1>1. h \subseteq 1..3
  BY DEF State
<1>2. blood_update(s) = [s EXCEPT !.hearts = h]
  BY DEF blood_update
<1> HIDE DEF h
<1>3. blood_update(s) \in State
  BY <1>1, <1>2 DEF State
<1>4. s \in Fit => blood_update(s) \in Fit
  BY <1>2, <1>3 DEF Fit, State
<1>5. s \in Clean => blood_update(s) \in Clean
  BY <1>2, <1>4 DEF Clean, State, Whole
<1> QED BY <1>3, <1>4, <1>5

LEMMA RoundStays ==
  /\ Start \in Fit => Round \in Fit
  /\ Start \in Clean => Round \in Clean
<1>1. ASSUME Start \in Fit PROVE Round \in Fit
  <2>1. Bullet_Move(Start, 8) \in Fit
    BY <1>1, BulletFit, BulletMoveStays
  <2>2. Enemy_move(Bullet_Move(Start, 8)) \in Fit
    BY <2>1, EnemyFit, EnemyMoveStays
  <2> QED BY <2>2, RoundIs, HeartsUpdate DEF Fit
<1>2. ASSUME Start \in Clean PROVE Round \in Clean
  <2>1. Bullet_Move(Start, 8) \in Clean
    BY <1>2, BulletClean, BulletMoveStays
  <2>2. Enemy_move(Bullet_Move(Start, 8)) \in Clean
    BY <2>1, EnemyClean, EnemyMoveStays
  <2> QED BY <2>2, RoundIs, HeartsUpdate DEF Clean, Fit
<1> QED BY <1>1, <1>2

-----------------------------------------------------------------------------
(* The actions. *)

Slots == Bullet \in [Bullets -> BulletType] /\ Enemy \in [Enemies -> EnemyType]

Rest ==
  /\ page \in {"off", "setup", "on", "leaving"}
  /\ blood_num \in 0..255
  /\ plane \in [x : 0..210, y : 0..210]
  /\ timers \in BOOLEAN /\ misused \in BOOLEAN
  /\ since2 \in Nat /\ since3 \in Nat
  /\ hearts \subseteq 1..3
  /\ moves \in 0..MaxMoves

LEMMA TypeParts == TypeOK <=> Slots /\ Rest
BY DEF TypeOK, Slots, Rest, BulletType, EnemyType

(* The page is left by a key when no life is left, and the last life takes *)
(* the timers with it.                                                     *)
TimersWithLives ==
  /\ timers => page = "on" /\ blood_num # 0
  /\ page = "setup" => ~timers /\ blood_num = 3

HInv == Slots /\ Rest /\ TimersWithLives

LEMMA StartFit == HInv => Start \in Fit
BY DEF HInv, Slots, Rest, TimersWithLives, Start, Fit, State

LEMMA InitHInv == Init => HInv
<1> SUFFICES ASSUME Init PROVE HInv
  OBVIOUS
<1>1. Slots
  <2>1. Bullet = [i \in Bullets |-> NoBullet] /\ Enemy = [i \in Enemies |-> NoEnemy]
    BY DEF Init
  <2> QED BY <2>1, NothingsTyped DEF Slots
<1>2. plane \in [x : 0..210, y : 0..210]
  BY DEF Init
<1>3. Rest
  <2>1. timers \in BOOLEAN /\ misused \in BOOLEAN
    BY Zenon DEF Init
  <2>2. /\ page = "off" /\ blood_num = 3 /\ since2 = 0 /\ since3 = 0
        /\ hearts = {} /\ moves = 0
    BY DEF Init
  <2>3. page \in {"off", "setup", "on", "leaving"} /\ hearts \subseteq 1..3
    BY <2>2
  <2>4. blood_num \in 0..255 /\ since2 \in Nat /\ since3 \in Nat
        /\ moves \in 0..MaxMoves
    BY <2>2
  <2> QED BY <1>2, <2>1, <2>3, <2>4 DEF Rest
<1>4. TimersWithLives
  BY DEF Init, TimersWithLives
<1> QED BY <1>1, <1>3, <1>4 DEF HInv

LEMMA RoundHInv == HInv /\ Timer1_CallBack => HInv'
<1> SUFFICES ASSUME HInv, Timer1_CallBack PROVE HInv'
  OBVIOUS
<1>1. Round \in Fit
  BY StartFit, RoundStays
<1>2. /\ Bullet' = Round.Bullet /\ Enemy' = Round.Enemy
      /\ misused' = Round.misused /\ blood_num' = Round.blood_num
      /\ hearts' = Round.hearts /\ timers' = Round.timers
      /\ since2' = since2 + 1 /\ since3' = since3 + 1
      /\ UNCHANGED <<page, plane, moves>> /\ timers
  BY DEF Timer1_CallBack
<1> DEFINE r == Round
<1> HIDE DEF r
<1>3. /\ r \in State /\ (r.timers => r.blood_num # 0)
  BY <1>1 DEF Fit, r
<1>4. Slots'
  BY <1>2, <1>3 DEF Slots, State, r
<1>5. Rest'
  <2>1. misused' \in BOOLEAN /\ timers' \in BOOLEAN
    BY <1>2, <1>3, Zenon DEF State, r
  <2>2. blood_num' \in 0..255 /\ hearts' \subseteq 1..3
    BY <1>2, <1>3 DEF State, r
  <2>3. page' = page /\ plane' = plane /\ moves' = moves
    BY <1>2
  <2>4. since2' \in Nat /\ since3' \in Nat
    BY <1>2 DEF HInv, Rest
  <2> QED BY <2>1, <2>2, <2>3, <2>4 DEF HInv, Rest
<1>6. TimersWithLives'
  BY <1>2, <1>3 DEF HInv, TimersWithLives, r
<1> QED BY <1>4, <1>5, <1>6 DEF HInv

LEMMA CreatesBullet ==
  ASSUME HInv, Bullet_Create
  PROVE  /\ Bullet' \in [Bullets -> BulletType]
         /\ \A i \in Bullets : Bullet'[i] = Bullet[i] \/ Bullet'[i].obj = "live"
         /\ \A i \in Bullets : Bullet[i].alive => Bullet'[i] = Bullet[i]
<1> DEFINE free == {i \in Bullets : ~Bullet[i].alive}
           i == CHOOSE i \in free : \A k \in free : i <= k
           new == [alive |-> TRUE, x |-> plane.x, y |-> plane.y, obj |-> "live"]
<1>1. Bullet' = IF free = {} THEN Bullet ELSE [Bullet EXCEPT ![i] = new]
  BY DEF Bullet_Create
<1>2. new \in BulletType /\ new.obj = "live"
  <2>1. plane.x \in 0..210 /\ plane.y \in 0..210
    BY DEF HInv, Rest
  <2> QED BY <2>1 DEF BulletType
<1>3. Bullet \in [Bullets -> BulletType]
  BY DEF HInv, Slots
<1>4. free # {} => i \in free
  <2>1. free \subseteq Nat
    BY CountsAssumption DEF Bullets
  <2> HIDE DEF free
  <2> QED BY <2>1, LeastChosen
<1>5. free # {} => ~Bullet[i].alive
  <2> HIDE DEF i
  <2> QED BY <1>4
<1> HIDE DEF free, i, new
<1> QED BY <1>1, <1>2, <1>3, <1>5

LEMMA CreatesEnemy ==
  ASSUME HInv, Enemy_create
  PROVE  /\ Enemy' \in [Enemies -> EnemyType]
         /\ \A i \in Enemies : Enemy'[i] = Enemy[i] \/ Enemy'[i].obj = "live"
         /\ \A i \in Enemies : Enemy[i].alive => Enemy'[i] = Enemy[i]
<1> DEFINE free == {i \in Enemies : ~Enemy[i].alive}
           i == CHOOSE i \in free : \A k \in free : i <= k
           new(rx, rmx, rmy) ==
             [alive |-> TRUE, x |-> start_x(rx), y |-> -20,
              move_x |-> start_move_x(rmx), move_y |-> start_move_y(rmy),
              obj |-> "live"]
<1>1. Enemy \in [Enemies -> EnemyType]
  BY DEF HInv, Slots
<1>2. CASE free = {}
  <2>1. Enemy' = Enemy
    BY <1>2 DEF Enemy_create
  <2> QED BY <1>1, <2>1
<1>3. CASE free # {}
  <2>1. PICK rx \in RandX, rmx \in RandMoveX, rmy \in RandMoveY :
          Enemy' = [Enemy EXCEPT ![i] = new(rx, rmx, rmy)]
    BY <1>3 DEF Enemy_create
  <2>2. /\ start_x(rx) \in 70..119 /\ start_move_x(rmx) \in -1..1
        /\ start_move_y(rmy) \in 1..8
    BY DEF start_x, start_move_x, start_move_y
  <2>3. new(rx, rmx, rmy) \in EnemyType /\ new(rx, rmx, rmy).obj = "live"
    BY <2>2 DEF EnemyType
  <2>4. i \in free
    <3>1. free \subseteq Nat
      BY CountsAssumption DEF Enemies
    <3> HIDE DEF free
    <3> QED BY <1>3, <3>1, LeastChosen
  <2>5. ~Enemy[i].alive
    <3> HIDE DEF i
    <3> QED BY <2>4
  <2> HIDE DEF i, new
  <2> QED BY <1>1, <2>1, <2>3, <2>5
<1> QED BY <1>2, <1>3

LEMMA NextHInv == HInv /\ [Next]_vars => HInv'
<1> SUFFICES ASSUME HInv, [Next]_vars PROVE HInv'
  OBVIOUS
<1>1. CASE Setup
  <2>1. Slots'
    BY <1>1, NothingsTyped DEF Setup, Bullet_Init, HInv, Slots
  <2>2. Rest'
    BY <1>1 DEF Setup, fly_plant_init, blood_init, HInv, Rest
  <2>3. TimersWithLives'
    BY <1>1 DEF Setup, HInv, TimersWithLives
  <2> QED BY <2>1, <2>2, <2>3 DEF HInv
<1>2. CASE SetupDone
  <2>1. Slots'
    BY <1>2 DEF SetupDone, HInv, Slots
  <2>2. Rest'
    BY <1>2 DEF SetupDone, HInv, Rest
  <2>3. TimersWithLives'
    BY <1>2 DEF SetupDone, HInv, TimersWithLives
  <2> QED BY <2>1, <2>2, <2>3 DEF HInv
<1>3. CASE Exit
  <2>1. Slots'
    <3>1. \A z \in BulletType : Freed(z) \in BulletType
      BY DEF Freed, BulletType
    <3>2. \A z \in EnemyType : Freed(z) \in EnemyType
      BY DEF Freed, EnemyType
    <3> QED BY <1>3, <3>1, <3>2 DEF Exit, HInv, Slots
  <2>2. Rest'
    BY <1>3 DEF Exit, HInv, Rest
  <2>3. TimersWithLives'
    BY <1>3 DEF Exit, HInv, TimersWithLives
  <2> QED BY <2>1, <2>2, <2>3 DEF HInv
<1>4. CASE Timer1_CallBack
  BY <1>4, RoundHInv
<1>5. CASE Timer2_CallBack
  <2>1. Slots'
    BY <1>5, CreatesBullet DEF Timer2_CallBack, HInv, Slots
  <2>2. Rest'
    BY <1>5 DEF Timer2_CallBack, HInv, Rest
  <2>3. TimersWithLives'
    BY <1>5 DEF Timer2_CallBack, HInv, TimersWithLives
  <2> QED BY <2>1, <2>2, <2>3 DEF HInv
<1>6. CASE Timer3_CallBack
  <2>1. Slots'
    BY <1>6, CreatesEnemy DEF Timer3_CallBack, HInv, Slots
  <2>2. Rest'
    BY <1>6 DEF Timer3_CallBack, HInv, Rest
  <2>3. TimersWithLives'
    BY <1>6 DEF Timer3_CallBack, HInv, TimersWithLives
  <2> QED BY <2>1, <2>2, <2>3 DEF HInv
<1>7. ASSUME NEW key \in Keys, Event(key) PROVE HInv'
  <2>1. Slots'
    BY <1>7 DEF Event, HInv, Slots
  <2>2. plane' \in [x : 0..210, y : 0..210]
    <3>1. plane.x \in Int /\ plane.y \in Int /\ plane \in [x : 0..210, y : 0..210]
      BY DEF HInv, Rest
    <3>2. \A n \in Int : Clamp(n) \in 0..210
      BY DEF Clamp
    <3>3. CASE blood_num > 0
      <4> DEFINE dx == CASE key = "LEFT" -> -8 [] key = "RIGHT" -> 8 [] OTHER -> 0
                 dy == CASE key = "UP" -> -8 [] key = "DOWN" -> 8 [] OTHER -> 0
      <4>1. plane' = [x |-> Clamp(plane.x + dx), y |-> Clamp(plane.y + dy)]
        BY <1>7, <3>3 DEF Event
      <4>2. dx \in Int /\ dy \in Int
        OBVIOUS
      <4> HIDE DEF dx, dy
      <4>3. plane.x + dx \in Int /\ plane.y + dy \in Int
        BY <3>1, <4>2
      <4> QED BY <3>2, <4>1, <4>3
    <3>4. CASE ~(blood_num > 0)
      BY <1>7, <3>1, <3>4 DEF Event
    <3> QED BY <3>3, <3>4
  <2>3. Rest'
    <3>1. page' \in {"off", "setup", "on", "leaving"}
      BY <1>7 DEF Event, HInv, Rest
    <3>2. moves' \in 0..MaxMoves
      BY <1>7 DEF Event, HInv, Rest
    <3> QED BY <1>7, <2>2, <3>1, <3>2 DEF Event, HInv, Rest
  <2>4. TimersWithLives'
    BY <1>7 DEF Event, HInv, TimersWithLives, Rest
  <2> QED BY <2>1, <2>3, <2>4 DEF HInv
<1>8. CASE UNCHANGED vars
  BY <1>8 DEF vars, HInv, Slots, Rest, TimersWithLives
<1> QED BY <1>1, <1>2, <1>3, <1>4, <1>5, <1>6, <1>7, <1>8 DEF Next

LEMMA HInvariant == Spec => []HInv
BY InitHInv, NextHInv, PTL DEF Spec

(* Page_HitPlant.c's arrays, lives and positions keep their types: the     *)
(* coordinates stay on the screen, or a jump beside it, for any enemies.   *)
THEOREM TypeCorrect == Spec => []TypeOK
BY HInvariant, TypeParts, PTL DEF HInv

(* The timers, which move objects of the page, never run before Setup is   *)
(* done or after Exit: Game_over has deleted them when a key may leave.    *)
THEOREM TimersGoFirst == Spec => []TimersOnlyOnPage
<1>1. HInv => TimersOnlyOnPage
  BY DEF HInv, TimersWithLives, TimersOnlyOnPage
<1> QED BY <1>1, HInvariant, PTL

-----------------------------------------------------------------------------
(* No deleted object is used. *)

WholeSlots ==
  /\ \A i \in Bullets : Bullet[i].alive => Bullet[i].obj = "live"
  /\ \A i \in Enemies : Enemy[i].alive => Enemy[i].obj = "live"

(* From Setup to Exit every alive slot has its object. *)
CInv == ~misused /\ (page # "off" => WholeSlots)

LEMMA NextCInv ==
  ASSUME ~StaleEnemies
  PROVE  HInv /\ CInv /\ [Next]_vars => CInv'
<1> SUFFICES ASSUME HInv, CInv, [Next]_vars PROVE CInv'
  OBVIOUS
<1>0. ~misused /\ (page # "off" => WholeSlots)
  BY DEF CInv
<1>1. CASE Setup
  <2>1. \A i \in Enemies : ~Enemy[i].alive
    BY <1>1 DEF Setup
  <2>2. Enemy' = Enemy /\ Bullet' = [i \in Bullets |-> NoBullet] /\ misused' = misused
    BY <1>1 DEF Setup, Bullet_Init
  <2> QED BY <1>0, <2>1, <2>2, NothingsTyped DEF CInv, WholeSlots
<1>2. CASE SetupDone
  BY <1>0, <1>2 DEF SetupDone, CInv, WholeSlots
<1>3. CASE Exit
  BY <1>0, <1>3 DEF Exit, CInv
<1>4. CASE Timer1_CallBack
  <2>1. page = "on"
    BY <1>4 DEF Timer1_CallBack, HInv, TimersWithLives
  <2>2. Start \in Fit
    BY StartFit
  <2>3. ~Start.misused /\ Whole(Start)
    BY <1>0, <2>1 DEF Start, Whole, WholeSlots
  <2>4. Round \in Clean
    BY <2>2, <2>3, RoundStays DEF Clean
  <2>5. Bullet' = Round.Bullet /\ Enemy' = Round.Enemy /\ misused' = Round.misused
    BY <1>4 DEF Timer1_CallBack
  <2> QED BY <2>4, <2>5 DEF Clean, Whole, CInv, WholeSlots
<1>5. CASE Timer2_CallBack
  <2>1. page = "on"
    BY <1>5 DEF Timer2_CallBack, HInv, TimersWithLives
  <2>2. Enemy' = Enemy /\ misused' = misused
    BY <1>5 DEF Timer2_CallBack
  <2>3. \A i \in Bullets : Bullet'[i] = Bullet[i] \/ Bullet'[i].obj = "live"
    BY <1>5, CreatesBullet DEF Timer2_CallBack
  <2> QED BY <1>0, <2>1, <2>2, <2>3 DEF CInv, WholeSlots
<1>6. CASE Timer3_CallBack
  <2>1. page = "on"
    BY <1>6 DEF Timer3_CallBack, HInv, TimersWithLives
  <2>2. Bullet' = Bullet /\ misused' = misused
    BY <1>6 DEF Timer3_CallBack
  <2>3. \A i \in Enemies : Enemy'[i] = Enemy[i] \/ Enemy'[i].obj = "live"
    BY <1>6, CreatesEnemy DEF Timer3_CallBack
  <2> QED BY <1>0, <2>1, <2>2, <2>3 DEF CInv, WholeSlots
<1>7. ASSUME NEW key \in Keys, Event(key) PROVE CInv'
  <2>1. Bullet' = Bullet /\ Enemy' = Enemy /\ misused' = misused /\ page = "on"
    BY <1>7 DEF Event
  <2> QED BY <1>0, <2>1 DEF CInv, WholeSlots
<1>8. CASE UNCHANGED vars
  BY <1>0, <1>8 DEF vars, CInv, WholeSlots
<1> QED BY <1>1, <1>2, <1>3, <1>4, <1>5, <1>6, <1>7, <1>8 DEF Next

(* If a game begins only after no enemy survived the last one, no object   *)
(* is used after it was deleted, by however many bullets and enemies: what *)
(* game_again shows is the only way.                                       *)
THEOREM NoDeletedObjectUsed ==
  ASSUME ~StaleEnemies PROVE Spec => []NoMisuse
<1>1. Init => CInv
  BY DEF Init, CInv
<1>2. CInv => NoMisuse
  BY DEF CInv, NoMisuse
<1> QED BY <1>1, <1>2, HInvariant, NextCInv, PTL DEF Spec

-----------------------------------------------------------------------------
(* No bullet passes an enemy. *)

LEMMA BulletChanges ==
  ASSUME NEW s \in State, NEW i \in Bullets
  PROVE  LET t == MoveBullet(s, i, 8)
             c == [s.Bullet[i] EXCEPT !.y = @ - 8]
         IN /\ \A j \in Enemies : t.Enemy[j].alive => t.Enemy[j] = s.Enemy[j]
            /\ \A k \in Bullets : k # i => t.Bullet[k] = s.Bullet[k]
            /\ t.Bullet[i].alive => /\ t.Bullet[i] = c
                                    /\ \A e \in Enemies : ~Hits(c, s.Enemy[e])
<1> DEFINE t == MoveBullet(s, i, 8)
           c == [s.Bullet[i] EXCEPT !.y = @ - 8]
           Done == /\ \A j \in Enemies : t.Enemy[j].alive => t.Enemy[j] = s.Enemy[j]
                   /\ \A k \in Bullets : k # i => t.Bullet[k] = s.Bullet[k]
                   /\ t.Bullet[i].alive => /\ t.Bullet[i] = c
                                           /\ \A e \in Enemies : ~Hits(c, s.Enemy[e])
<1>1. s.Bullet \in [Bullets -> BulletType] /\ s.Enemy \in [Enemies -> EnemyType]
  BY DEF State
<1>2. Done
  <2> HIDE DEF t, c
  <2>1. CASE t = s /\ ~s.Bullet[i].alive
    BY <2>1
  <2>2. CASE t = [s EXCEPT !.Bullet[i] = NoBullet, !.misused = @ \/ Dangles(c)]
    BY <1>1, <2>2, NothingsTyped DEF State
  <2>3. CASE /\ \A j \in Enemies : ~Hits(c, s.Enemy[j])
             /\ t = [s EXCEPT !.Bullet[i] = c, !.misused = @ \/ Dangles(c)]
    BY <1>1, <2>3 DEF State
  <2>4. ASSUME NEW j \in Enemies,
               t = [s EXCEPT !.Bullet[i] = FreedBullet, !.Enemy[j] = FreedEnemy,
                             !.misused = @ \/ Dangles(c) \/ Dangles(s.Enemy[j])]
        PROVE  Done
    BY <1>1, <2>4, NothingsTyped DEF State
  <2> HIDE DEF Done
  <2> QED BY <2>1, <2>2, <2>3, <2>4, BulletRound DEF t, c
<1> HIDE DEF t, c
<1> QED BY <1>2 DEF t, c

(* Bullet i and enemy j after n bullets have been moved, from s: an enemy  *)
(* that is still alive is where it was, and the bullet, when its turn has  *)
(* come, is eight further up and not near it.                              *)
Meeting(s, i, j, n) ==
  LET b == [s.Bullet[i] EXCEPT !.y = @ - 8]
  IN {t \in Fit :
        /\ t.Enemy[j].alive => t.Enemy[j] = s.Enemy[j]
        /\ n < i => t.Bullet[i] = s.Bullet[i]
        /\ n >= i /\ t.Bullet[i].alive /\ t.Enemy[j].alive
             => t.Bullet[i] = b /\ ~Hits(b, s.Enemy[j])}

LEMMA BulletsMeet ==
  ASSUME NEW s, NEW i \in Bullets, NEW j \in Enemies,
         NEW k \in Bullets, NEW t \in Meeting(s, i, j, k - 1)
  PROVE  MoveBullet(t, k, 8) \in Meeting(s, i, j, k)
<1> DEFINE u == MoveBullet(t, k, 8)
           b == [s.Bullet[i] EXCEPT !.y = @ - 8]
           c == [t.Bullet[k] EXCEPT !.y = @ - 8]
<1>1. /\ t \in Fit /\ t \in State
      /\ t.Enemy[j].alive => t.Enemy[j] = s.Enemy[j]
      /\ k - 1 < i => t.Bullet[i] = s.Bullet[i]
      /\ k - 1 >= i /\ t.Bullet[i].alive /\ t.Enemy[j].alive
           => t.Bullet[i] = b /\ ~Hits(b, s.Enemy[j])
  BY DEF Meeting, Fit
<1>2. i \in Nat /\ k \in Nat
  BY CountsAssumption DEF Bullets
<1>3. u \in Fit
  BY <1>1, BulletFit
<1>4. /\ u.Enemy[j].alive => u.Enemy[j] = t.Enemy[j]
      /\ i # k => u.Bullet[i] = t.Bullet[i]
      /\ u.Bullet[k].alive => u.Bullet[k] = c /\ ~Hits(c, t.Enemy[j])
  BY <1>1, BulletChanges
<1> HIDE DEF u
<1>5. u.Enemy[j].alive => u.Enemy[j] = s.Enemy[j] /\ t.Enemy[j].alive
  BY <1>1, <1>4
<1>6. k < i => u.Bullet[i] = s.Bullet[i]
  BY <1>1, <1>2, <1>4
<1>7. ASSUME k >= i, u.Bullet[i].alive, u.Enemy[j].alive
      PROVE  u.Bullet[i] = b /\ ~Hits(b, s.Enemy[j])
  <2>1. CASE i = k
    <3>1. t.Bullet[i] = s.Bullet[i]
      BY <1>1, <1>2, <2>1
    <3>2. c = b
      BY <2>1, <3>1
    <3> HIDE DEF b, c
    <3> QED BY <1>4, <1>5, <1>7, <2>1, <3>2
  <2>2. CASE i # k
    BY <1>1, <1>2, <1>4, <1>5, <1>7, <2>2
  <2> QED BY <2>1, <2>2
<1>8. u \in Meeting(s, i, j, k)
  BY <1>3, <1>5, <1>6, <1>7 DEF Meeting
<1> QED BY <1>8 DEF u

LEMMA EnemyChanges ==
  ASSUME NEW s \in State, NEW i \in Enemies
  PROVE  LET t == MoveEnemy(s, i)
         IN /\ t.Bullet = s.Bullet
            /\ \A k \in Enemies : k # i => t.Enemy[k] = s.Enemy[k]
            /\ t.Enemy[i].alive => /\ s.Enemy[i].alive
                                   /\ t.Enemy[i].y <= s.Enemy[i].y + 8
<1> DEFINE t == MoveEnemy(s, i)
           e == [s.Enemy[i] EXCEPT !.x = @ + s.Enemy[i].move_x,
                                   !.y = @ + s.Enemy[i].move_y]
           m == s.misused \/ Dangles(e)
           hit == [s EXCEPT !.Enemy[i] = FreedEnemy, !.misused = m]
           Done(u) == /\ u.Bullet = s.Bullet
                      /\ \A k \in Enemies : k # i => u.Enemy[k] = s.Enemy[k]
                      /\ u.Enemy[i].alive => /\ s.Enemy[i].alive
                                             /\ u.Enemy[i].y <= s.Enemy[i].y + 8
<1>1. s.Enemy \in [Enemies -> EnemyType]
  BY DEF State
<1>2. s.Enemy[i].y \in Int /\ s.Enemy[i].move_y \in Int /\ s.Enemy[i].move_y <= 8
  BY <1>1 DEF EnemyType
<1>3. e.y = s.Enemy[i].y + s.Enemy[i].move_y
  BY <1>1 DEF EnemyType
<1>4. e.y <= s.Enemy[i].y + 8
  <2> HIDE DEF e
  <2> QED BY <1>2, <1>3
<1>5. Done(s)
  BY <1>2
<1>6. hit \in State /\ Done(hit)
  <2>1. m \in BOOLEAN
    BY DEF Dangles
  <2> HIDE DEF m
  <2> QED BY <1>1, <2>1, NothingsTyped DEF State
<1>7. Done(LoseLife(hit))
  <2> HIDE DEF hit
  <2> QED BY <1>6, LifeLost
<1>8. s.Enemy[i].alive => Done([s EXCEPT !.Enemy[i] = e, !.misused = m])
  <2> HIDE DEF e, m
  <2> QED BY <1>1, <1>4 DEF State
<1>9. \/ t = s
      \/ /\ s.Enemy[i].alive
         /\ \/ t = hit \/ t = LoseLife(hit)
            \/ t = [s EXCEPT !.Enemy[i] = e, !.misused = m]
  BY EnemyRound
<1>10. Done(t)
  <2> HIDE DEF t, e, m, hit, Done
  <2> QED BY <1>5, <1>6, <1>7, <1>8, <1>9
<1> QED BY <1>10

(* Enemy j after n enemies have been moved, from s.                        *)
Passing(s, j, n) ==
  {t \in Fit : /\ t.Bullet = s.Bullet
               /\ n < j => t.Enemy[j] = s.Enemy[j]
               /\ t.Enemy[j].alive => /\ s.Enemy[j].alive
                                      /\ t.Enemy[j].y <= s.Enemy[j].y + 8}

LEMMA EnemiesPass ==
  ASSUME NEW s, NEW j \in Enemies, NEW k \in Enemies,
         NEW t \in Passing(s, j, k - 1)
  PROVE  MoveEnemy(t, k) \in Passing(s, j, k)
<1> DEFINE u == MoveEnemy(t, k)
<1>1. /\ t \in Fit /\ t \in State /\ t.Bullet = s.Bullet
      /\ k - 1 < j => t.Enemy[j] = s.Enemy[j]
      /\ t.Enemy[j].alive => s.Enemy[j].alive /\ t.Enemy[j].y <= s.Enemy[j].y + 8
  BY DEF Passing, Fit
<1>2. j \in Nat /\ k \in Nat
  BY CountsAssumption DEF Enemies
<1>3. u \in Fit
  BY <1>1, EnemyFit
<1>4. /\ u.Bullet = t.Bullet
      /\ j # k => u.Enemy[j] = t.Enemy[j]
      /\ u.Enemy[k].alive => t.Enemy[k].alive /\ u.Enemy[k].y <= t.Enemy[k].y + 8
  BY <1>1, EnemyChanges
<1> HIDE DEF u
<1>5. k < j => u.Enemy[j] = s.Enemy[j]
  BY <1>1, <1>2, <1>4
<1>6. u.Enemy[j].alive => s.Enemy[j].alive /\ u.Enemy[j].y <= s.Enemy[j].y + 8
  <2>1. CASE j = k
    <3>1. t.Enemy[j] = s.Enemy[j]
      BY <1>1, <1>2, <2>1
    <3> QED BY <1>4, <2>1, <3>1
  <2>2. CASE j # k
    BY <1>1, <1>4, <2>2
  <2> QED BY <2>1, <2>2
<1>7. u \in Passing(s, j, k)
  BY <1>1, <1>3, <1>4, <1>5, <1>6 DEF Passing
<1> QED BY <1>7 DEF u

(* Both after a round.                                                     *)
LEMMA RoundMeets ==
  ASSUME Start \in Fit, NEW i \in Bullets, NEW j \in Enemies,
         Round.Bullet[i].alive, Round.Enemy[j].alive
  PROVE  LET b == [Bullet[i] EXCEPT !.y = @ - 8]
         IN /\ Round.Bullet[i] = b /\ ~Hits(b, Enemy[j])
            /\ Round.Enemy[j].y <= Enemy[j].y + 8
<1> DEFINE b == [Bullet[i] EXCEPT !.y = @ - 8]
           m == Bullet_Move(Start, 8)
           x == Enemy_move(m)
<1>1. i \in Nat \ {0} /\ j \in Nat \ {0} /\ i <= BULLET_COUNT /\ j <= ENEMY_COUNT
  BY CountsAssumption DEF Bullets, Enemies
<1>2. m \in Meeting(Start, i, j, BULLET_COUNT)
  <2> DEFINE G == [n \in 0..BULLET_COUNT |-> Meeting(Start, i, j, n)]
  <2>1. Start \in Meeting(Start, i, j, 0)
    BY <1>1 DEF Meeting
  <2>2. Start \in G[0] /\ G[BULLET_COUNT] = Meeting(Start, i, j, BULLET_COUNT)
    BY <2>1
  <2>3. \A k \in Bullets : /\ G[k - 1] = Meeting(Start, i, j, k - 1)
                           /\ G[k] = Meeting(Start, i, j, k)
    BY DEF Bullets
  <2> HIDE DEF G
  <2>4. \A k \in Bullets : \A t \in G[k - 1] : MoveBullet(t, k, 8) \in G[k]
    BY <2>3, BulletsMeet
  <2> QED BY <2>2, <2>4, BulletMoveReaches
<1> HIDE DEF m
<1>3. m \in Fit /\ m \in State
  BY <1>2 DEF Meeting, Fit
<1>4. x \in Passing(m, j, ENEMY_COUNT)
  <2> DEFINE G == [n \in 0..ENEMY_COUNT |-> Passing(m, j, n)]
  <2>1. m \in Passing(m, j, 0)
    <3>1. m.Enemy[j].y \in Int
      BY <1>3 DEF State, EnemyType
    <3>2. m.Enemy[j].y <= m.Enemy[j].y + 8
      BY <3>1
    <3> QED BY <1>3, <3>2 DEF Passing
  <2>2. m \in G[0] /\ G[ENEMY_COUNT] = Passing(m, j, ENEMY_COUNT)
    BY <2>1
  <2>3. \A k \in Enemies : /\ G[k - 1] = Passing(m, j, k - 1)
                           /\ G[k] = Passing(m, j, k)
    BY DEF Enemies
  <2> HIDE DEF G
  <2>4. \A k \in Enemies : \A t \in G[k - 1] : MoveEnemy(t, k) \in G[k]
    BY <2>3, EnemiesPass
  <2> QED BY <2>2, <2>4, EnemyMoveReaches
<1> HIDE DEF x
<1>5. Round.Bullet = x.Bullet /\ Round.Enemy = x.Enemy
  <2>1. Round = blood_update(x)
    BY RoundIs DEF x, m
  <2>2. x \in State
    BY <1>4 DEF Passing, Fit
  <2> QED BY <2>1, <2>2 DEF blood_update, State
<1>6. /\ x.Bullet = m.Bullet /\ m.Enemy[j].alive
      /\ x.Enemy[j].y <= m.Enemy[j].y + 8
  BY <1>4, <1>5 DEF Passing
<1>7. Start.Bullet = Bullet /\ Start.Enemy = Enemy
  BY DEF Start
<1>8. /\ m.Bullet[i] = b /\ ~Hits(b, Enemy[j]) /\ m.Enemy[j] = Enemy[j]
  BY <1>1, <1>2, <1>5, <1>6, <1>7 DEF Meeting
<1> HIDE DEF b
<1> QED BY <1>5, <1>6, <1>8 DEF b

(* What a bullet eight further up and an enemy at most eight further down, *)
(* not near each other, have between them.                                 *)
LEMMA NotPassed ==
  ASSUME NEW b \in BulletType, NEW e \in EnemyType, e.alive,
         abs(b.x - e.x) < 10, b.y > e.y,
         NEW c, c = [b EXCEPT !.y = @ - 8], ~Hits(c, e)
  PROVE  c.y > e.y + 8
<1>1. b.x \in Int /\ b.y \in Int /\ e.x \in Int /\ e.y \in Int
  BY DEF BulletType, EnemyType
<1>2. c.x = b.x /\ c.y = b.y - 8
  BY DEF BulletType
<1>3. ~(abs(c.y - e.y) < 10)
  BY <1>2 DEF Hits
<1> QED BY <1>1, <1>2, <1>3 DEF abs

(* No bullet passes an enemy that it comes within reach of, for any number *)
(* of both and whatever rand() makes of the enemies' speeds.               *)
THEOREM NothingPasses == Spec => NoTunnelling
<1>1. HInv /\ [Next]_vars =>
        [\A i \in Bullets, j \in Enemies :
           LET b == Bullet[i] e == Enemy[j]
           IN (/\ b.alive /\ Bullet'[i].alive
               /\ e.alive /\ Enemy'[j].alive
               /\ abs(b.x - e.x) < 10 /\ b.y > e.y)
              => Bullet'[i].y > Enemy'[j].y]_vars
  <2> SUFFICES ASSUME HInv, Next, NEW i \in Bullets, NEW j \in Enemies,
                      Bullet[i].alive, Bullet'[i].alive,
                      Enemy[j].alive, Enemy'[j].alive,
                      abs(Bullet[i].x - Enemy[j].x) < 10, Bullet[i].y > Enemy[j].y
               PROVE  Bullet'[i].y > Enemy'[j].y
    OBVIOUS
  <2>0. Bullet \in [Bullets -> BulletType] /\ Enemy \in [Enemies -> EnemyType]
    BY DEF HInv, Slots
  <2>1. CASE Setup
    BY <2>1, NothingsTyped DEF Setup, Bullet_Init
  <2>2. CASE SetupDone
    BY <2>2 DEF SetupDone
  <2>3. CASE Exit
    <3>1. \A z \in BulletType : Freed(z).y = z.y
      BY DEF Freed, BulletType
    <3>2. \A z \in EnemyType : Freed(z).y = z.y
      BY DEF Freed, EnemyType
    <3>3. Bullet'[i] = Freed(Bullet[i]) /\ Enemy'[j] = Freed(Enemy[j])
      BY <2>3 DEF Exit
    <3> QED BY <2>0, <3>1, <3>2, <3>3
  <2>4. CASE Timer1_CallBack
    <3> DEFINE c == [Bullet[i] EXCEPT !.y = @ - 8]
    <3>1. Bullet' = Round.Bullet /\ Enemy' = Round.Enemy
      BY <2>4 DEF Timer1_CallBack
    <3>2. Bullet'[i] = c /\ ~Hits(c, Enemy[j]) /\ Enemy'[j].y <= Enemy[j].y + 8
      BY <3>1, StartFit, RoundMeets
    <3>3. c.y > Enemy[j].y + 8
      BY <2>0, <3>2, NotPassed
    <3>4. c.y \in Int /\ Enemy[j].y \in Int /\ Enemy'[j].y \in Int
      <4>1. Bullet[i].y \in Int /\ Enemy[j].y \in Int
        <5>1. Bullet[i] \in BulletType /\ Enemy[j] \in EnemyType
          BY <2>0
        <5>2. \A z \in BulletType : z.y \in Int
          BY DEF BulletType
        <5>3. \A z \in EnemyType : z.y \in Int
          BY DEF EnemyType
        <5> QED BY <5>1, <5>2, <5>3
      <4>2. Enemy' \in [Enemies -> EnemyType]
        BY <2>4, RoundHInv DEF HInv, Slots
      <4>3. Enemy'[j].y \in Int
        BY <4>2 DEF EnemyType
      <4>4. c.y = Bullet[i].y - 8
        BY <2>0 DEF BulletType
      <4> HIDE DEF c
      <4> QED BY <4>1, <4>3, <4>4
    <3> HIDE DEF c
    <3> QED BY <3>2, <3>3, <3>4
  <2>5. CASE Timer2_CallBack
    <3>1. Bullet'[i] = Bullet[i] /\ Enemy' = Enemy
      BY <2>5, CreatesBullet DEF Timer2_CallBack
    <3> QED BY <3>1
  <2>6. CASE Timer3_CallBack
    <3>1. Enemy'[j] = Enemy[j] /\ Bullet' = Bullet
      BY <2>6, CreatesEnemy DEF Timer3_CallBack
    <3> QED BY <3>1
  <2>7. CASE \E key \in Keys : Event(key)
    BY <2>7 DEF Event
  <2> QED BY <2>1, <2>2, <2>3, <2>4, <2>5, <2>6, <2>7 DEF Next
<1> QED BY <1>1, HInvariant, PTL DEF Spec, NoTunnelling
=============================================================================
