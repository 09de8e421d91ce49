---------------------- MODULE MessageQueueRatioProofs -----------------------
(***************************************************************************)
(* The ratios are kept: a level of a plain queue that is open and not      *)
(* empty is passed over a bounded number of times before it is served, for *)
(* any number of levels and any ratios.                                    *)
(*                                                                         *)
(* The argument counts the messages the levels above l may still give      *)
(* before l has its turn.  A level that gives one uses up as many of them  *)
(* as there are turns between two of its own; a level that starts over     *)
(* adds turns for the levels below, but only behind the Remove under way,  *)
(* which is why what is left is measured from the level it looks at.       *)
(***************************************************************************)
EXTENDS MessageQueueProofs

\* The messages the levels above l may give before l has its turn, for uses u.
LeftOf(u) ==
    LET left[l \in Level] ==
            IF l = 1 THEN 0 ELSE left[l - 1] + (Ratio[l - 1] - u[l - 1]) * Turns[l - 1]
    IN  left

\* A level at its ratio first yields, which costs it another turn of the others.
Budget(u, l) == IF u[l] >= Ratio[l] THEN Turns[l] - 1 ELSE 2 * (Turns[l] - 1)

\* Once a Remove has passed a level the level has all its uses before it, and
\* only the others' turns of one round behind it.
Passed(b, u, l) == b = 0 \/ (b <= Turns[l] - 1 /\ u[l] < Ratio[l])

\* A level waits its turn, in a Remove from the level "at" on, or was passed.
LevelRatio(b, u, at, l) ==
    IF at > l THEN Passed(b, u, l)
    ELSE b + LeftOf(u)[l] - (IF at = 0 THEN 0 ELSE LeftOf(u)[at]) <= Budget(u, l)

RatioInv ==
    \A l \in Level :
        IF kind = "internal" THEN bypassed[l] = 0
        ELSE /\ (items[l] = <<>> \/ ~IsOpen(l)) => bypassed[l] = 0
             /\ LevelRatio(bypassed[l], usage, scan.at, l)

-----------------------------------------------------------------------------
(* Arithmetic, and recursion over the levels *)

LEMMA Products ==
  ASSUME NEW a \in Nat, NEW b \in Nat, NEW c \in Nat, a <= b
  PROVE  /\ a * c \in Nat /\ a * c <= b * c
         /\ (b - a) * c \in Nat
         /\ (b - a) * c = b * c - a * c
         /\ (b + 1) * c = b * c + c
         /\ c * (b + 1) = b * c + c
OBVIOUS

LEMMA Levels ==
  /\ NumLevels \in Nat \ {0} /\ 1 \in Level /\ Level \subseteq Nat
  /\ \A l \in Level : l >= 1 /\ l <= NumLevels
  /\ \A l \in Level : l = 1 \/ l - 1 \in Level
  /\ Ratio \in [Level -> Nat \ {0}]
BY MessageQueueAssumption DEF Level

\* f starts with base at the highest level and takes a step from each to the next.
Descends(f, V, base, step) ==
    /\ f \in [Level -> V]
    /\ f[1] = base
    /\ \A l \in Level : l # 1 => f[l] = step[l - 1][f[l - 1]]

LEMMA LevelRecursion ==
  ASSUME NEW V, NEW base, base \in V, NEW step, step \in [Level -> [V -> V]]
  PROVE  \E f : Descends(f, V, base, step)
<1> DEFINE n == NumLevels - 1
           st == [i \in 1..n |-> step[i]]
<1>1. n \in Nat /\ 1..n \subseteq Level /\ \A l \in Level : l - 1 \in 0..n /\ (l # 1 => l - 1 \in 1..n)
  BY Levels DEF Level
<1>2. st \in [1..n -> [V -> V]]
  BY <1>1
<1> HIDE DEF n, st
<1>3. PICK f : Iterates(f, V, base, n, st)
  BY <1>1, <1>2, Recursion, Zenon
<1> DEFINE g == [l \in Level |-> f[l - 1]]
<1>4. /\ f \in [0..n -> V] /\ f[0] = base
      /\ \A i \in 1..n : f[i] = step[i][f[i - 1]]
  BY <1>3, Zenon DEF Iterates, st
<1>5. g \in [Level -> V] /\ g[1] = base
  BY <1>1, <1>4, Levels
<1>6. ASSUME NEW l \in Level, l # 1
      PROVE  g[l] = step[l - 1][g[l - 1]]
  <2>1. l - 1 \in 1..n /\ l - 1 \in Level /\ l \in Nat
    BY <1>1, <1>6, Levels
  <2>2. g[l] = f[l - 1] /\ g[l - 1] = f[(l - 1) - 1]
    BY <2>1
  <2> QED
    BY <1>4, <2>1, <2>2, Zenon
<1>7. Descends(g, V, base, step)
  BY <1>5, <1>6 DEF Descends
<1> QED
  BY <1>7

LEMMA LevelInduction ==
  ASSUME NEW S \in SUBSET Level, 1 \in S,
         \A l \in Level : l # 1 /\ l - 1 \in S => l \in S
  PROVE  S = Level
<1> DEFINE A == {i \in Nat : i + 1 \in Level => i + 1 \in S}
<1>1. 0 \in A
  OBVIOUS
<1>2. ASSUME NEW i \in A
      PROVE  i + 1 \in A
  <2> SUFFICES ASSUME (i + 1) + 1 \in Level
               PROVE  (i + 1) + 1 \in S
    OBVIOUS
  <2> DEFINE l == (i + 1) + 1
  <2>1. i \in Nat /\ l # 1 /\ l - 1 = i + 1 /\ l \in Level
    OBVIOUS
  <2>2. l - 1 \in Level
    BY <2>1, Levels
  <2> QED
    BY <2>1, <2>2
<1> HIDE DEF A
<1>3. A = Nat
  BY <1>1, <1>2, Induction DEF A
<1>4. ASSUME NEW l \in Level
      PROVE  l \in S
  <2>1. l - 1 \in Nat /\ (l - 1) + 1 = l
    BY Levels
  <2>2. l - 1 \in A
    BY <1>3, <2>1
  <2> QED
    BY <2>1, <2>2 DEF A
<1> QED
  BY <1>4

LEMMA TurnsAre ==
  /\ Turns \in [Level -> Nat \ {0}]
  /\ Turns[1] = 1
  /\ \A l \in Level : l # 1 => Turns[l] = Turns[l - 1] * (Ratio[l - 1] + 1)
<1> DEFINE V == Nat \ {0}
           step == [i \in Level |-> [x \in V |-> x * (Ratio[i] + 1)]]
<1>1. 1 \in V /\ step \in [Level -> [V -> V]]
  <2>1. ASSUME NEW i \in Level, NEW x \in V
        PROVE  x * (Ratio[i] + 1) \in V
    <3>1. Ratio[i] \in Nat
      BY Levels
    <3>2. x * (Ratio[i] + 1) = Ratio[i] * x + x /\ Ratio[i] * x \in Nat
      BY <3>1, Products
    <3> QED
      BY <3>2
  <2> QED
    BY <2>1
<1> HIDE DEF step, V
<1>2. PICK f : /\ f \in [Level -> V] /\ f[1] = 1
               /\ \A l \in Level : l # 1 => f[l] = step[l - 1][f[l - 1]]
  <2>1. PICK f : Descends(f, V, 1, step)
    BY <1>1, LevelRecursion, Zenon
  <2> QED
    BY <2>1, Zenon DEF Descends
<1>3. ASSUME NEW l \in Level
      PROVE  f[l] = IF l = 1 THEN 1 ELSE f[l - 1] * (Ratio[l - 1] + 1)
  <2>1. CASE l = 1
    BY <1>2, <2>1
  <2>2. CASE l # 1
    <3>1. l - 1 \in Level /\ f[l - 1] \in V
      BY <1>2, <2>2, Levels
    <3> QED
      BY <1>2, <2>2, <3>1, Zenon DEF step
  <2> QED
    BY <2>1, <2>2
<1>4. f = [l \in Level |-> IF l = 1 THEN 1 ELSE f[l - 1] * (Ratio[l - 1] + 1)]
  BY <1>2, <1>3, Zenon
<1>5. Turns = [l \in Level |-> IF l = 1 THEN 1 ELSE Turns[l - 1] * (Ratio[l - 1] + 1)]
  BY <1>4, Zenon DEF Turns
<1>6. Turns[1] = 1 /\ \A l \in Level : l # 1 => Turns[l] = Turns[l - 1] * (Ratio[l - 1] + 1)
  BY <1>5, Levels, Zenon
<1> DEFINE S == {l \in Level : Turns[l] = f[l]}
<1>7. 1 \in S
  BY <1>2, <1>6, Levels
<1>8. ASSUME NEW l \in Level, l # 1, l - 1 \in S
      PROVE  l \in S
  BY <1>3, <1>6, <1>8
<1>9. S = Level
  <2> HIDE DEF S
  <2>1. S \in SUBSET Level
    BY DEF S
  <2> QED
    BY <1>7, <1>8, <2>1, LevelInduction, Zenon
<1>10. ASSUME NEW l \in Level
       PROVE  (IF l = 1 THEN 1 ELSE Turns[l - 1] * (Ratio[l - 1] + 1)) \in V
  <2>1. Turns[l] = IF l = 1 THEN 1 ELSE Turns[l - 1] * (Ratio[l - 1] + 1)
    BY <1>5, Zenon
  <2>2. Turns[l] \in V
    BY <1>2, <1>9
  <2> QED
    BY <2>1, <2>2, Zenon
<1>11. Turns \in [Level -> V]
  BY <1>5, <1>10, Zenon
<1> QED
  BY <1>6, <1>11, Zenon DEF V

LEMMA LeftAre ==
  ASSUME NEW u, u \in [Level -> Nat]
  PROVE  /\ LeftOf(u) \in [Level -> Int]
         /\ LeftOf(u)[1] = 0
         /\ \A l \in Level : l # 1 =>
              LeftOf(u)[l] = LeftOf(u)[l - 1] + (Ratio[l - 1] - u[l - 1]) * Turns[l - 1]
<1> DEFINE add == [i \in Level |-> (Ratio[i] - u[i]) * Turns[i]]
           step == [i \in Level |-> [x \in Int |-> x + add[i]]]
           left[l \in Level] == IF l = 1 THEN 0
                                ELSE left[l - 1] + (Ratio[l - 1] - u[l - 1]) * Turns[l - 1]
<1>1. LeftOf(u) = left
  BY Zenon DEF LeftOf
<1>2. add \in [Level -> Int]
  BY Levels, TurnsAre
<1>3. 0 \in Int /\ step \in [Level -> [Int -> Int]]
  <2> HIDE DEF add
  <2> QED
    BY <1>2
<1> HIDE DEF step
<1>4. PICK f : /\ f \in [Level -> Int] /\ f[1] = 0
               /\ \A l \in Level : l # 1 => f[l] = step[l - 1][f[l - 1]]
  <2>1. PICK f : Descends(f, Int, 0, step)
    BY <1>3, LevelRecursion, Zenon
  <2> QED
    BY <2>1, Zenon DEF Descends
<1>5. ASSUME NEW l \in Level
      PROVE  f[l] = IF l = 1 THEN 0 ELSE f[l - 1] + (Ratio[l - 1] - u[l - 1]) * Turns[l - 1]
  <2>1. CASE l = 1
    BY <1>4, <2>1
  <2>2. CASE l # 1
    <3>1. l - 1 \in Level /\ f[l - 1] \in Int
      BY <1>4, <2>2, Levels
    <3>2. f[l] = step[l - 1][f[l - 1]]
      BY <1>4, <2>2
    <3>3. step[l - 1][f[l - 1]] = f[l - 1] + add[l - 1]
      BY <3>1, Zenon DEF step
    <3> QED
      BY <2>2, <3>1, <3>2, <3>3, Zenon
  <2> QED
    BY <2>1, <2>2
<1>6. f = [l \in Level |-> IF l = 1 THEN 0
                           ELSE f[l - 1] + (Ratio[l - 1] - u[l - 1]) * Turns[l - 1]]
  BY <1>4, <1>5, Zenon
<1>7. left = [l \in Level |-> IF l = 1 THEN 0
                              ELSE left[l - 1] + (Ratio[l - 1] - u[l - 1]) * Turns[l - 1]]
  BY <1>6, Zenon DEF left
<1> HIDE DEF left
<1>8. left[1] = 0
      /\ \A l \in Level : l # 1 =>
           left[l] = left[l - 1] + (Ratio[l - 1] - u[l - 1]) * Turns[l - 1]
  BY <1>7, Levels, Zenon
<1> DEFINE S == {l \in Level : left[l] = f[l]}
<1>9. 1 \in S
  BY <1>4, <1>8, Levels
<1>10. ASSUME NEW l \in Level, l # 1, l - 1 \in S
       PROVE  l \in S
  BY <1>5, <1>8, <1>10
<1>11. S = Level
  <2> HIDE DEF S
  <2>1. S \in SUBSET Level
    BY DEF S
  <2> QED
    BY <1>9, <1>10, <2>1, LevelInduction, Zenon
<1> DEFINE val(l) == IF l = 1 THEN 0
                     ELSE left[l - 1] + (Ratio[l - 1] - u[l - 1]) * Turns[l - 1]
<1>12. left = [l \in Level |-> val(l)] /\ \A l \in Level : left[l] \in Int
  BY <1>4, <1>7, <1>11
<1> HIDE DEF val
<1>13. left \in [Level -> Int]
  BY <1>12
<1> QED
  BY <1>1, <1>8, <1>13, Zenon

-----------------------------------------------------------------------------
(* What is left above a level *)

Uses == {u \in [Level -> Nat] : \A l \in Level : u[l] <= Ratio[l]}

\* What the level above adds, and the turns, from one level to the next.
LEMMA NextLevel ==
  ASSUME NEW u \in Uses, NEW l \in Level, l # 1
  PROVE  /\ l - 1 \in Level /\ Turns[l - 1] \in Nat \ {0}
         /\ LeftOf(u)[l] = LeftOf(u)[l - 1] + (Ratio[l - 1] - u[l - 1]) * Turns[l - 1]
         /\ (Ratio[l - 1] - u[l - 1]) * Turns[l - 1] \in Nat
         /\ (Ratio[l - 1] - u[l - 1]) * Turns[l - 1]
              = Ratio[l - 1] * Turns[l - 1] - u[l - 1] * Turns[l - 1]
         /\ Turns[l] = Ratio[l - 1] * Turns[l - 1] + Turns[l - 1]
         /\ u[l - 1] * Turns[l - 1] \in Nat
<1> DEFINE k == l - 1
<1>1. /\ k \in Level /\ Turns[k] \in Nat \ {0} /\ Ratio[k] \in Nat /\ u[k] \in Nat
      /\ u[k] <= Ratio[k]
  BY Levels, TurnsAre DEF Uses
<1>2. Turns[l] = Turns[k] * (Ratio[k] + 1)
      /\ LeftOf(u)[l] = LeftOf(u)[k] + (Ratio[k] - u[k]) * Turns[k]
  BY TurnsAre, LeftAre DEF Uses
<1> HIDE DEF k
<1>3. /\ u[k] * Turns[k] \in Nat /\ (Ratio[k] - u[k]) * Turns[k] \in Nat
      /\ (Ratio[k] - u[k]) * Turns[k] = Ratio[k] * Turns[k] - u[k] * Turns[k]
      /\ Turns[k] * (Ratio[k] + 1) = Ratio[k] * Turns[k] + Turns[k]
  BY <1>1, Products
<1> QED
  BY <1>1, <1>2, <1>3, Zenon DEF k

LEMMA LeftBounds ==
  ASSUME NEW u \in Uses, NEW l \in Level
  PROVE  LeftOf(u)[l] \in Nat /\ LeftOf(u)[l] <= Turns[l] - 1
<1> DEFINE S == {k \in Level : LeftOf(u)[k] \in Nat /\ LeftOf(u)[k] <= Turns[k] - 1}
<1>1. 1 \in S
  BY Levels, TurnsAre, LeftAre DEF Uses
<1>2. ASSUME NEW k \in Level, k # 1, k - 1 \in S
      PROVE  k \in S
  <2> DEFINE p == (Ratio[k - 1] - u[k - 1]) * Turns[k - 1]
             q == Ratio[k - 1] * Turns[k - 1]
             r == u[k - 1] * Turns[k - 1]
  <2>1. /\ LeftOf(u)[k] = LeftOf(u)[k - 1] + p /\ p \in Nat /\ p = q - r /\ r \in Nat
        /\ Turns[k] = q + Turns[k - 1] /\ Turns[k - 1] \in Nat
    BY <1>2, NextLevel
  <2>2. LeftOf(u)[k - 1] \in Nat /\ LeftOf(u)[k - 1] <= Turns[k - 1] - 1
    BY <1>2
  <2>3. q \in Nat
    BY <1>2, Levels, TurnsAre, Products
  <2> HIDE DEF p, q, r
  <2> QED
    BY <2>1, <2>2, <2>3
<1>3. S = Level
  <2> HIDE DEF S
  <2>1. S \in SUBSET Level
    BY DEF S
  <2> QED
    BY <1>1, <1>2, <2>1, LevelInduction, Zenon
<1> QED
  BY <1>3

LEMMA LeftGrows ==
  ASSUME NEW u \in Uses, NEW k \in Level, NEW l \in Level, k <= l
  PROVE  LeftOf(u)[k] <= LeftOf(u)[l]
<1> DEFINE S == {m \in Level : k <= m => LeftOf(u)[k] <= LeftOf(u)[m]}
<1>1. 1 \in S
  BY Levels, LeftBounds
<1>2. ASSUME NEW m \in Level, m # 1, m - 1 \in S
      PROVE  m \in S
  <2> DEFINE p == (Ratio[m - 1] - u[m - 1]) * Turns[m - 1]
  <2>1. LeftOf(u)[m] = LeftOf(u)[m - 1] + p /\ p \in Nat /\ m - 1 \in Level
    BY <1>2, NextLevel
  <2>2. LeftOf(u)[m - 1] \in Nat /\ LeftOf(u)[k] \in Nat /\ LeftOf(u)[m] \in Nat
        /\ m \in Nat /\ k \in Nat
    BY <1>2, <2>1, LeftBounds, Levels
  <2>3. k <= m - 1 => LeftOf(u)[k] <= LeftOf(u)[m - 1]
    BY <1>2
  <2> HIDE DEF p, S
  <2>4. k <= m - 1 => LeftOf(u)[k] <= LeftOf(u)[m]
    BY <2>1, <2>2, <2>3
  <2>5. k = m => LeftOf(u)[k] <= LeftOf(u)[m]
    BY <2>2
  <2>6. k <= m => k <= m - 1 \/ k = m
    BY <2>2
  <2> QED
    BY <2>4, <2>5, <2>6 DEF S
<1>3. S = Level
  <2> HIDE DEF S
  <2>1. S \in SUBSET Level
    BY DEF S
  <2> QED
    BY <1>1, <1>2, <2>1, LevelInduction, Zenon
<1> QED
  BY <1>3

\* A use of level k more or less changes what is left for the levels below.
LEMMA LeftMoves ==
  ASSUME NEW u \in Uses, NEW k \in Level, NEW x \in Nat, x <= Ratio[k], NEW l \in Level
  PROVE  LET v == [u EXCEPT ![k] = x]
         IN  /\ v \in Uses
             /\ l <= k => LeftOf(v)[l] = LeftOf(u)[l]
             /\ l > k => LeftOf(v)[l]
                           = LeftOf(u)[l] + (u[k] * Turns[k] - x * Turns[k])
<1> DEFINE v == [u EXCEPT ![k] = x]
           d == u[k] * Turns[k] - x * Turns[k]
           S == {m \in Level : /\ m <= k => LeftOf(v)[m] = LeftOf(u)[m]
                               /\ m > k => LeftOf(v)[m] = LeftOf(u)[m] + d}
<1>1. v \in Uses /\ v[k] = x /\ \A m \in Level : m # k => v[m] = u[m]
  BY DEF Uses
<1>2. /\ Turns[k] \in Nat /\ u[k] \in Nat /\ u[k] * Turns[k] \in Nat
      /\ x * Turns[k] \in Nat /\ Ratio[k] * Turns[k] \in Nat
  BY Levels, TurnsAre, Products DEF Uses
<1> HIDE DEF v, d
<1>3. 1 \in S
  BY <1>1, Levels, LeftAre DEF Uses
<1>4. ASSUME NEW m \in Level, m # 1, m - 1 \in S
      PROVE  m \in S
  <2> DEFINE j == m - 1
             pu == (Ratio[j] - u[j]) * Turns[j]
             pv == (Ratio[j] - v[j]) * Turns[j]
  <2>1. /\ j \in Level /\ LeftOf(u)[m] = LeftOf(u)[j] + pu /\ pu \in Nat
        /\ pu = Ratio[j] * Turns[j] - u[j] * Turns[j]
    BY <1>4, NextLevel
  <2>2. /\ LeftOf(v)[m] = LeftOf(v)[j] + pv /\ pv \in Nat
        /\ pv = Ratio[j] * Turns[j] - v[j] * Turns[j]
    BY <1>1, <1>4, NextLevel
  <2>3. /\ j \in Nat /\ k \in Nat /\ m \in Nat /\ m = j + 1
        /\ LeftOf(u)[j] \in Nat /\ LeftOf(v)[j] \in Nat
    BY <1>1, <2>1, LeftBounds, Levels
  <2>4. CASE j = k
    <3>1. pu = Ratio[k] * Turns[k] - u[k] * Turns[k] /\ pv = Ratio[k] * Turns[k] - x * Turns[k]
      BY <1>1, <2>1, <2>2, <2>4
    <3>2. pv = pu + d /\ d \in Int
      BY <1>2, <3>1 DEF d
    <3> HIDE DEF j, pu, pv
    <3> QED
      BY <1>4, <2>1, <2>2, <2>3, <2>4, <3>2 DEF j
  <2>5. CASE j # k
    <3>1. pv = pu
      BY <1>1, <2>1, <2>5
    <3>2. d \in Int
      BY <1>2 DEF d
    <3> HIDE DEF j, pu, pv
    <3> QED
      BY <1>4, <2>1, <2>2, <2>3, <2>5, <3>1, <3>2 DEF j
  <2> QED
    BY <2>4, <2>5
<1>5. S = Level
  <2> HIDE DEF S
  <2>1. S \in SUBSET Level
    BY DEF S
  <2> QED
    BY <1>3, <1>4, <2>1, LevelInduction, Zenon
<1> QED
  BY <1>1, <1>5 DEF v, d

-----------------------------------------------------------------------------
(* The steps of a Remove, in numbers *)

LEMMA LevelFacts ==
  ASSUME NEW u \in Uses, NEW l \in Level
  PROVE  /\ Turns[l] \in Nat \ {0} /\ Ratio[l] \in Nat \ {0} /\ l \in Nat \ {0}
         /\ u[l] \in Nat /\ u[l] <= Ratio[l]
         /\ LeftOf(u)[l] \in Nat /\ LeftOf(u)[l] <= Turns[l] - 1
         /\ Budget(u, l) \in Nat /\ Budget(u, l) >= Turns[l] - 1
         /\ Budget(u, l) <= 2 * (Turns[l] - 1)
<1>1. /\ Turns[l] \in Nat \ {0} /\ Ratio[l] \in Nat \ {0} /\ l \in Nat \ {0}
      /\ u[l] \in Nat /\ u[l] <= Ratio[l]
      /\ LeftOf(u)[l] \in Nat /\ LeftOf(u)[l] <= Turns[l] - 1
  BY Levels, TurnsAre, LeftBounds DEF Uses
<1> QED
  BY <1>1 DEF Budget

\* A level that was passed can wait for the next round.
LEMMA PassedWaits ==
  ASSUME NEW u \in Uses, NEW l \in Level, NEW b \in Nat, Passed(b, u, l),
         NEW at, at = 0 \/ at = 1
  PROVE  LevelRatio(b, u, at, l)
<1>1. b + LeftOf(u)[l] <= Budget(u, l)
  BY LevelFacts DEF Passed, Budget
<1>2. LeftOf(u)[1] = 0 /\ ~(at > l)
  BY LeftAre, LevelFacts DEF Uses
<1>3. LeftOf(u)[l] \in Nat /\ Budget(u, l) \in Nat
  BY LevelFacts
<1> QED
  BY <1>1, <1>2, <1>3 DEF LevelRatio

\* A level that the Remove looks at is passed when it is not served.
LEMMA LookedAtIsPassed ==
  ASSUME NEW u \in Uses, NEW l \in Level, NEW b \in Nat, LevelRatio(b, u, l, l),
         b = 0 \/ u[l] >= Ratio[l]
  PROVE  b = 0 \/ b <= Turns[l] - 1
<1>1. LeftOf(u)[l] \in Nat /\ Budget(u, l) \in Nat /\ l # 0 /\ l \in Nat
  BY LevelFacts
<1>2. b <= Budget(u, l)
  BY <1>1 DEF LevelRatio
<1> QED
  BY <1>2 DEF Budget

\* A level below one that gives a message comes nearer to its turn.
LEMMA GivenBelow ==
  ASSUME NEW u \in Uses, NEW k \in Level, u[k] < Ratio[k], NEW l \in Level, l > k,
         NEW b \in Nat, LevelRatio(b, u, k, l), NEW c \in Nat, c <= b + 1
  PROVE  LevelRatio(c, [u EXCEPT ![k] = u[k] + 1], 0, l)
<1> DEFINE v == [u EXCEPT ![k] = u[k] + 1]
<1>1. /\ u[k] \in Nat /\ u[k] + 1 \in Nat /\ u[k] + 1 <= Ratio[k] /\ Turns[k] \in Nat
      /\ LeftOf(u)[k] \in Nat /\ LeftOf(u)[k] <= Turns[k] - 1
      /\ LeftOf(u)[l] \in Nat /\ Budget(u, l) \in Nat /\ k # 0 /\ k \in Nat /\ l \in Nat
  BY LevelFacts
<1>2. /\ v \in Uses
      /\ LeftOf(v)[l] = LeftOf(u)[l] + (u[k] * Turns[k] - (u[k] + 1) * Turns[k])
  BY <1>1, LeftMoves
<1>3. u[k] * Turns[k] \in Nat /\ (u[k] + 1) * Turns[k] = u[k] * Turns[k] + Turns[k]
  BY <1>1, Products
<1>4. v[l] = u[l]
  BY <1>1 DEF Uses
<1>5. Budget(v, l) = Budget(u, l)
  BY <1>4 DEF Budget
<1> DEFINE p == u[k] * Turns[k]
           q == (u[k] + 1) * Turns[k]
<1> HIDE DEF v, p, q
<1>6. LeftOf(v)[l] = LeftOf(u)[l] - Turns[k]
  <2>1. LeftOf(v)[l] = LeftOf(u)[l] + (p - q) /\ p \in Nat /\ q = p + Turns[k]
    BY <1>2, <1>3, Zenon DEF p, q
  <2> QED
    BY <1>1, <2>1
<1>7. b + LeftOf(u)[l] - LeftOf(u)[k] <= Budget(u, l)
  BY <1>1 DEF LevelRatio
<1>8. c + LeftOf(v)[l] - 0 <= Budget(v, l)
  BY <1>1, <1>5, <1>6, <1>7
<1>9. ~(0 > l)
  BY <1>1
<1> QED
  BY <1>8, <1>9, Zenon DEF LevelRatio, v

\* A level that starts over adds no turns in front of the Remove under way.
LEMMA PassedBelow ==
  ASSUME NEW u \in Uses, NEW k \in Level, NEW x \in Nat, x <= u[k], k + 1 \in Level,
         NEW l \in Level, l > k, NEW b \in Nat, LevelRatio(b, u, k, l)
  PROVE  LevelRatio(b, [u EXCEPT ![k] = x], k + 1, l)
<1> DEFINE v == [u EXCEPT ![k] = x]
<1>1. /\ u[k] \in Nat /\ x <= Ratio[k] /\ u[k] <= Ratio[k] /\ Ratio[k] \in Nat /\ Turns[k] \in Nat
      /\ LeftOf(u)[k] \in Nat /\ LeftOf(u)[l] \in Nat /\ Budget(u, l) \in Nat
      /\ k # 0 /\ k \in Nat /\ l \in Nat
  BY LevelFacts
<1>2. /\ v \in Uses /\ LeftOf(v)[k] = LeftOf(u)[k]
      /\ LeftOf(v)[l] = LeftOf(u)[l] + (u[k] * Turns[k] - x * Turns[k])
  BY <1>1, LeftMoves
<1>3. v[l] = u[l] /\ v[k] = x
  BY <1>1 DEF Uses
<1>4. Budget(v, l) = Budget(u, l)
  BY <1>3 DEF Budget
<1>5. (k + 1) - 1 = k /\ k + 1 # 1
  BY <1>1
<1>6. /\ LeftOf(v)[k + 1] = LeftOf(v)[k] + (Ratio[k] - x) * Turns[k]
      /\ (Ratio[k] - x) * Turns[k] = Ratio[k] * Turns[k] - x * Turns[k]
  <2> HIDE DEF v
  <2> QED
    BY <1>2, <1>3, <1>5, NextLevel
<1>7. /\ u[k] * Turns[k] \in Nat /\ u[k] * Turns[k] <= Ratio[k] * Turns[k]
      /\ x * Turns[k] \in Nat /\ Ratio[k] * Turns[k] \in Nat
  BY <1>1, Products
<1> DEFINE p == u[k] * Turns[k]
           q == x * Turns[k]
           r == Ratio[k] * Turns[k]
<1> HIDE DEF v
<1>8. /\ LeftOf(v)[k + 1] = LeftOf(u)[k] + (r - q)
      /\ LeftOf(v)[l] = LeftOf(u)[l] + (p - q)
  BY <1>2, <1>6, Zenon
<1>9. p \in Nat /\ q \in Nat /\ r \in Nat /\ p <= r
  BY <1>7
<1>10. b + LeftOf(u)[l] - LeftOf(u)[k] <= Budget(u, l)
  BY <1>1 DEF LevelRatio
<1> HIDE DEF p, q, r
<1>11. b + LeftOf(v)[l] - LeftOf(v)[k + 1] <= Budget(v, l)
  BY <1>1, <1>4, <1>8, <1>9, <1>10
<1>12. ~(k + 1 > l) /\ k + 1 # 0
  BY <1>1
<1> QED
  BY <1>11, <1>12, Zenon DEF LevelRatio, v

-----------------------------------------------------------------------------
(* The invariant *)

LEMMA UsesOK ==
  ASSUME TypeInv
  PROVE  /\ usage \in Uses /\ usage \in [Level -> Nat]
         /\ bypassed \in [Level -> Nat] /\ items \in [Level -> Seq(Msg)]
         /\ kind \in {"plain", "internal"} /\ scan.at \in 0..NumLevels
         /\ kind = "internal" => ~Locked
         /\ NumLevels \in Nat \ {0}
  BY Levels DEF TypeInv, ItemsOK, RestOK, Uses

LEMMA InitRatio == ASSUME Init PROVE RatioInv
<1> SUFFICES ASSUME NEW l \in Level
             PROVE  /\ bypassed[l] = 0
                    /\ LevelRatio(bypassed[l], usage, scan.at, l)
  BY DEF RatioInv
<1>1. bypassed[l] = 0 /\ scan.at = 0
  BY DEF Init, NoScan
<1>2. usage \in Uses
  BY InitTypes, UsesOK
<1> QED
  BY <1>1, <1>2, PassedWaits DEF Passed

\* A step that changes no use, and resets the count of levels that are empty
\* or closed by it.
LEMMA QuietRatio ==
  ASSUME RatioInv, TypeInv, UNCHANGED <<kind, usage>>, scan'.at = scan.at,
         \A l \in Level : bypassed'[l] \in {bypassed[l], 0},
         kind = "plain" => \A l \in Level :
            items'[l] = <<>> \/ ~IsOpen(l)' => bypassed'[l] = 0
  PROVE  RatioInv'
<1> SUFFICES ASSUME NEW l \in Level
             PROVE  IF kind = "internal" THEN bypassed'[l] = 0
                    ELSE /\ (items'[l] = <<>> \/ ~IsOpen(l)') => bypassed'[l] = 0
                         /\ LevelRatio(bypassed'[l], usage, scan.at, l)
  BY DEF RatioInv
<1>1. CASE kind = "internal"
  BY <1>1 DEF RatioInv
<1>2. CASE kind # "internal"
  <2>1. LevelRatio(bypassed[l], usage, scan.at, l) /\ kind = "plain"
    BY <1>2, UsesOK DEF RatioInv
  <2>2. CASE bypassed'[l] = 0
    <3>1. /\ LeftOf(usage)[l] \in Nat /\ Budget(usage, l) \in Nat /\ bypassed[l] \in Nat
          /\ scan.at # 0 => LeftOf(usage)[scan.at] \in Nat
      <4>1. scan.at # 0 => scan.at \in Level
        BY UsesOK DEF Level
      <4> QED
        BY <4>1, UsesOK, LevelFacts
    <3>2. LevelRatio(0, usage, scan.at, l)
      BY <2>1, <3>1 DEF LevelRatio, Passed
    <3> QED
      BY <1>2, <2>1, <2>2, <3>2
  <2>3. CASE bypassed'[l] = bypassed[l]
    BY <1>2, <2>1, <2>3
  <2> QED
    BY <2>2, <2>3
<1> QED
  BY <1>1, <1>2

\* A level that gives nothing: the Remove goes on below it, or from the top.
LEMMA PassRatio ==
  ASSUME RatioInv, TypeInv, Locked, NEW again, AfterLevel(again),
         UNCHANGED <<kind, items, threshold, bypassed>>,
         NEW x \in Nat, x <= usage[scan.at], usage' = [usage EXCEPT ![scan.at] = x],
         Passed(bypassed[scan.at], usage', scan.at)
  PROVE  RatioInv'
<1> DEFINE k == scan.at
<1>1. /\ k \in Level /\ k \in Nat /\ k # 0 /\ kind = "plain" /\ usage \in Uses
      /\ bypassed \in [Level -> Nat] /\ usage \in [Level -> Nat] /\ NumLevels \in Nat
  BY UsesOK DEF Locked, Level
<1>2. usage' \in Uses
  <2>1. x <= Ratio[k]
    BY <1>1, LevelFacts
  <2> QED
    BY <1>1, <2>1, LeftMoves
<1> SUFFICES ASSUME NEW l \in Level
             PROVE  LevelRatio(bypassed[l], usage', scan'.at, l)
  BY <1>1 DEF RatioInv, IsOpen
<1>3. l \in Nat \ {0} /\ l <= NumLevels
  BY Levels
<1>4. LevelRatio(bypassed[l], usage, k, l)
  BY <1>1 DEF RatioInv
<1>5. ASSUME l <= k PROVE Passed(bypassed[l], usage', l)
  <2>1. CASE l = k
    BY <2>1
  <2>2. CASE l < k
    <3>1. Passed(bypassed[l], usage, l)
      BY <1>1, <1>3, <1>4, <2>2 DEF LevelRatio
    <3>2. usage'[l] = usage[l]
      BY <1>1, <1>3, <2>2
    <3> QED
      BY <3>1, <3>2 DEF Passed
  <2> QED
    BY <1>1, <1>3, <1>5, <2>1, <2>2
<1>6. CASE k < NumLevels /\ scan'.at = k + 1
  <2>1. CASE l <= k
    <3>1. k + 1 > l
      BY <1>1, <1>3, <2>1
    <3> QED
      BY <1>5, <1>6, <2>1, <3>1 DEF LevelRatio
  <2>2. CASE l > k
    <3>1. k + 1 \in Level
      BY <1>1, <1>6 DEF Level
    <3>2. LevelRatio(bypassed[l], [usage EXCEPT ![k] = x], k + 1, l)
      BY <1>1, <1>4, <2>2, <3>1, PassedBelow
    <3> QED
      BY <1>6, <3>2
  <2> QED
    BY <1>1, <1>3, <2>1, <2>2
<1>7. CASE k = NumLevels /\ (scan'.at = 0 \/ scan'.at = 1)
  <2>1. Passed(bypassed[l], usage', l) /\ bypassed[l] \in Nat
    BY <1>1, <1>3, <1>5, <1>7
  <2> QED
    BY <1>2, <1>7, <2>1, PassedWaits
<1> QED
  BY <1>6, <1>7 DEF AfterLevel, NoScan

LEMMA TakeRatio == ASSUME RatioInv, TypeInv, TakeFromLevel PROVE RatioInv'
<1> USE DEF settings, starvation
<1> DEFINE k == scan.at
           u == usage[k]
<1>1. /\ k \in Level /\ k \in Nat /\ k # 0 /\ kind = "plain" /\ usage \in Uses
      /\ bypassed \in [Level -> Nat] /\ usage \in [Level -> Nat]
      /\ items \in [Level -> Seq(Msg)]
  BY UsesOK DEF TakeFromLevel, Locked, Level
<1>2. /\ usage' = [usage EXCEPT ![k] = u + 1] /\ u < Ratio[k] /\ u \in Nat
      /\ bypassed' = BypassedBy(k) /\ scan'.at = 0 /\ kind' = kind
      /\ items' = [items EXCEPT ![k] = Tail(@)] /\ threshold' = threshold
  BY <1>1 DEF TakeFromLevel, NoScan
<1>3. usage' \in Uses
  <2>1. u + 1 \in Nat /\ u + 1 <= Ratio[k]
    BY <1>1, <1>2, LevelFacts
  <2> QED
    BY <1>1, <1>2, <2>1, LeftMoves
<1> SUFFICES ASSUME NEW l \in Level
             PROVE  /\ items'[l] = <<>> \/ ~IsOpen(l) => bypassed'[l] = 0
                    /\ LevelRatio(bypassed'[l], usage', 0, l)
  BY <1>1, <1>2 DEF RatioInv, IsOpen
<1>4. /\ LevelRatio(bypassed[l], usage, k, l) /\ bypassed[l] \in Nat
      /\ l \in Nat \ {0}
  BY <1>1, Levels DEF RatioInv
<1>5. bypassed'[l] = IF l = k \/ items[l] = <<>> \/ ~IsOpen(l) THEN 0
                     ELSE IF l > k /\ bypassed[l] <= BypassBound(l) THEN bypassed[l] + 1
                     ELSE bypassed[l]
  BY <1>2, Zenon DEF BypassedBy
<1>6. items'[l] = <<>> \/ ~IsOpen(l) => bypassed'[l] = 0
  BY <1>1, <1>2, <1>5
<1>7. bypassed'[l] = 0 \/ bypassed'[l] = bypassed[l] \/ (l > k /\ bypassed'[l] = bypassed[l] + 1)
  BY <1>5
<1>8. LevelRatio(bypassed'[l], usage', 0, l)
  <2>1. CASE l > k
    <3>1. bypassed'[l] \in Nat /\ bypassed'[l] <= bypassed[l] + 1
      BY <1>4, <1>7
    <3> QED
      BY <1>1, <1>2, <1>4, <2>1, <3>1, GivenBelow
  <2>2. CASE bypassed'[l] = 0
    BY <1>3, <2>2, PassedWaits DEF Passed
  <2>3. CASE l < k /\ bypassed'[l] = bypassed[l]
    <3>1. Passed(bypassed[l], usage, l)
      BY <1>1, <1>4, <2>3 DEF LevelRatio
    <3>2. usage'[l] = usage[l]
      BY <1>1, <1>2, <1>4, <2>3
    <3>3. Passed(bypassed[l], usage', l)
      BY <3>1, <3>2 DEF Passed
    <3> QED
      BY <1>3, <1>4, <2>3, <3>3, PassedWaits
  <2>4. l = k => bypassed'[l] = 0
    BY <1>5
  <2> QED
    BY <1>1, <1>4, <1>7, <2>1, <2>2, <2>3, <2>4
<1> QED
  BY <1>6, <1>8

\* Steps other than those of the Remove of a plain queue.
LEMMA OtherRatio ==
  ASSUME RatioInv, TypeInv, TypeInv', [Next]_vars,
         ~TakeFromLevel, ~PassLevel, ~PassClosedLevel
  PROVE  RatioInv'
<1> USE DEF settings, starvation
<1>1. /\ kind \in {"plain", "internal"} /\ kind = "internal" => ~Locked
      /\ usage \in [Level -> Nat] /\ bypassed \in [Level -> Nat]
      /\ kind = "internal" => \A l \in Level : bypassed[l] = 0
      /\ kind = "plain" => \A l \in Level :
           items[l] = <<>> \/ ~IsOpen(l) => bypassed[l] = 0
      /\ items \in [Level -> Seq(Msg)]
  BY UsesOK DEF RatioInv
<1>2. ASSUME kind = "internal" PROVE RatioInv'
  <2>1. kind' = kind /\ bypassed' = bypassed
    BY <1>1, <1>2 DEF Next, RemoveStep, vars, Produce, FlushAllPersistedButPB,
       SetQueueStarvation, ClearQueueStarvation, SignalCleared, ClearContentWindow,
       StarveTimeOut, SetInterruptible, Expire, Wake, StartRemove, TakeInternal,
       NothingInternal
  <2> QED
    BY <1>1, <1>2, <2>1 DEF RatioInv
<1>3. ASSUME NEW m \in Msg, Produce(m), kind = "plain" PROVE RatioInv'
  <2>1. TagsFlushedBy(m) = {}
    BY <1>3 DEF TagsFlushedBy
  <2>2. \A k \in Level : Flushed({})[k].usage = usage[k] /\ Flushed({})[k].kept = items[k]
    BY DEF Flushed
  <2>3. /\ usage' = [k \in Level |-> Flushed({})[k].usage]
        /\ items' = [k \in Level |-> IF k = LevelOf[m] THEN Flushed({})[k].kept \o <<m>>
                                     ELSE Flushed({})[k].kept]
    BY <1>3, <2>1, Zenon DEF Produce, Refill
  <2>4. usage' = usage
    BY <1>1, <2>2, <2>3
  <2>5. \A k \in Level : items'[k] = <<>> => items[k] = <<>>
    <3>1. ASSUME NEW k \in Level, items'[k] = <<>>
          PROVE  items[k] = <<>>
      <4>1. items'[k] = items[k] \/ items'[k] = items[k] \o <<m>>
        BY <2>2, <2>3
      <4>2. items[k] \in Seq(Msg) /\ items[k] \o <<m>> # <<>>
        BY <1>1
      <4> QED
        BY <3>1, <4>1, <4>2
    <3> QED
      BY <3>1
  <2>6. UNCHANGED <<kind, bypassed, scan, threshold>>
    BY <1>3 DEF Produce
  <2>7. \A l \in Level : IsOpen(l)' <=> IsOpen(l)
    BY <2>6 DEF IsOpen
  <2> QED
    BY <1>1, <1>3, <2>4, <2>5, <2>6, <2>7, QuietRatio
<1>4. CASE SetQueueStarvation
  <2>1. /\ UNCHANGED <<kind, usage, scan, items>> /\ kind = "plain" /\ threshold' = Closed
        /\ \A l \in Level : bypassed'[l] = IF l > Closed THEN 0 ELSE bypassed[l]
    BY <1>4 DEF SetQueueStarvation
  <2>2. \A l \in Level : ~IsOpen(l)' => l > Closed
    BY <2>1, Levels, MessageQueueAssumption DEF IsOpen
  <2>3. \A l \in Level : items'[l] = <<>> \/ ~IsOpen(l)' => bypassed'[l] = 0
    BY <1>1, <2>1, <2>2
  <2> QED
    BY <2>1, <2>3, QuietRatio
<1>5. CASE ClearQueueStarvation
  <2>1. UNCHANGED <<kind, usage, scan, items, bypassed>> /\ threshold' = Open
    BY <1>5 DEF ClearQueueStarvation
  <2>2. \A l \in Level : IsOpen(l)'
    BY <2>1 DEF IsOpen
  <2> QED
    BY <1>1, <2>1, <2>2, QuietRatio
<1>6. CASE /\ kind = "plain"
           /\ UNCHANGED vars \/ SignalCleared \/ ClearContentWindow \/ StarveTimeOut \/ Wake
  <2>1. UNCHANGED <<kind, usage, scan, items, bypassed, threshold>>
    BY <1>6 DEF vars, SignalCleared, ClearContentWindow, StarveTimeOut, Wake
  <2>2. \A l \in Level : IsOpen(l)' <=> IsOpen(l)
    BY <2>1 DEF IsOpen
  <2> QED
    BY <1>1, <2>1, <2>2, QuietRatio
<1>7. CASE StartRemove
  <2>1. /\ UNCHANGED <<kind, usage, items, bypassed, threshold>> /\ scan'.at = 1
        /\ ~Locked /\ kind = "plain"
    BY <1>7 DEF StartRemove
  <2>2. \A l \in Level : IsOpen(l)' <=> IsOpen(l)
    BY <2>1 DEF IsOpen
  <2>3. ASSUME NEW l \in Level
        PROVE  LevelRatio(bypassed[l], usage, 1, l)
    <3>1. LevelRatio(bypassed[l], usage, 0, l)
      BY <2>1 DEF RatioInv, Locked
    <3>2. LeftOf(usage)[1] = 0 /\ l \in Nat \ {0}
      BY <1>1, LeftAre, Levels
    <3> QED
      BY <3>1, <3>2 DEF LevelRatio
  <2> QED
    BY <1>1, <2>1, <2>2, <2>3 DEF RatioInv
<1>8. kind = "plain" => /\ ~FlushAllPersistedButPB /\ ~TakeInternal /\ ~NothingInternal
                        /\ ~SetInterruptible /\ \A m \in Msg : ~Expire(m)
  BY DEF FlushAllPersistedButPB, TakeInternal, NothingInternal, SetInterruptible, Expire
<1>9. CASE kind = "plain"
  <2>1. \/ \E m \in Msg : Produce(m)
        \/ SetQueueStarvation \/ ClearQueueStarvation \/ StartRemove
        \/ UNCHANGED vars \/ SignalCleared \/ ClearContentWindow \/ StarveTimeOut \/ Wake
    BY <1>8, <1>9, Zenon DEF Next, RemoveStep
  <2> QED
    BY <1>3, <1>4, <1>5, <1>6, <1>7, <1>9, <2>1, Zenon
<1>10. kind = "plain" \/ kind = "internal"
  BY UsesOK
<1> QED
  BY <1>2, <1>9, <1>10, Zenon

LEMMA NextRatio ==
  ASSUME RatioInv, TypeInv, TypeInv', [Next]_vars
  PROVE  RatioInv'
<1> USE DEF settings, starvation
<1> DEFINE k == scan.at
<1>1. ASSUME Locked
      PROVE  /\ k \in Level /\ kind = "plain" /\ usage \in Uses /\ usage \in [Level -> Nat]
             /\ bypassed[k] \in Nat /\ usage[k] \in Nat
             /\ items[k] = <<>> \/ ~IsOpen(k) => bypassed[k] = 0
             /\ LevelRatio(bypassed[k], usage, k, k)
  <2>1. k \in Level /\ kind = "plain"
    BY <1>1, UsesOK DEF Locked, Level
  <2> QED
    BY <2>1, UsesOK DEF RatioInv
<1>2. CASE PassLevel
  <2>1. /\ Locked /\ usage' = [usage EXCEPT ![k] = 0]
        /\ items[k] = <<>> \/ usage[k] >= Ratio[k]
        /\ AfterLevel(scan.again \/ items[k] # <<>>)
        /\ UNCHANGED <<kind, items, threshold, bypassed>>
    BY <1>2 DEF PassLevel
  <2>2. bypassed[k] = 0 \/ bypassed[k] <= Turns[k] - 1
    <3>1. /\ usage \in Uses /\ k \in Level /\ bypassed[k] \in Nat
          /\ LevelRatio(bypassed[k], usage, k, k)
          /\ bypassed[k] = 0 \/ usage[k] >= Ratio[k]
      BY <1>1, <2>1
    <3> HIDE DEF k
    <3> QED
      BY <3>1, LookedAtIsPassed, Zenon
  <2>3. usage'[k] = 0 /\ Ratio[k] > 0 /\ 0 <= usage[k]
    <3>1. k \in Level /\ usage \in [Level -> Nat] /\ usage' = [usage EXCEPT ![k] = 0]
      BY <1>1, <2>1
    <3> HIDE DEF k
    <3>2. Ratio[k] \in Nat \ {0} /\ usage[k] \in Nat
      BY <3>1, Levels
    <3> QED
      BY <3>1, <3>2
  <2>4. Passed(bypassed[k], usage', k)
    BY <2>2, <2>3 DEF Passed
  <2> QED
    BY <2>1, <2>3, <2>4, PassRatio
<1>3. CASE PassClosedLevel
  <2>1. /\ Locked /\ ~IsOpen(k) /\ AfterLevel(scan.again)
        /\ UNCHANGED <<kind, items, threshold, bypassed, usage>>
    BY <1>3 DEF PassClosedLevel
  <2>2. usage' = [usage EXCEPT ![k] = usage[k]] /\ usage[k] <= usage[k]
    BY <1>1, <2>1
  <2>3. Passed(bypassed[k], usage', k)
    BY <1>1, <2>1 DEF Passed
  <2> QED
    BY <1>1, <2>1, <2>2, <2>3, PassRatio
<1> QED
  BY <1>2, <1>3, TakeRatio, OtherRatio

\* RatioInv holds in every reachable state.
THEOREM RatioInvariance == Spec => []RatioInv
BY InitRatio, NextRatio, TypeInvariance, PTL DEF Spec

\* A flood of urgent messages does not starve the others of a plain queue: a
\* level that is open and not empty is passed over a bounded number of times
\* (QueueList.cpp:129-182, SubQueue.cpp:40-61).
THEOREM RatiosAreKept == Spec => []RatioIsKept
<1>1. ASSUME TypeInv, RatioInv PROVE RatioIsKept
  <2> SUFFICES ASSUME NEW l \in Level
               PROVE  bypassed[l] <= 2 * (Turns[l] - 1)
    BY DEF RatioIsKept, BypassBound
  <2>1. /\ usage \in Uses /\ bypassed[l] \in Nat /\ l \in Nat \ {0}
        /\ scan.at # 0 => scan.at \in Level
    BY <1>1, UsesOK, Levels DEF Level
  <2>2. /\ Turns[l] \in Nat \ {0} /\ LeftOf(usage)[l] \in Nat
        /\ Budget(usage, l) \in Nat /\ Budget(usage, l) <= 2 * (Turns[l] - 1)
    BY <2>1, LevelFacts
  <2>3. bypassed[l] = 0 \/ LevelRatio(bypassed[l], usage, scan.at, l)
    BY <1>1 DEF RatioInv
  <2>4. CASE bypassed[l] = 0
    BY <2>2, <2>4
  <2>5. CASE scan.at > l /\ Passed(bypassed[l], usage, l)
    BY <2>1, <2>2, <2>5 DEF Passed
  <2>6. CASE /\ ~(scan.at > l)
             /\ bypassed[l] + LeftOf(usage)[l]
                  - (IF scan.at = 0 THEN 0 ELSE LeftOf(usage)[scan.at]) <= Budget(usage, l)
    <3>1. CASE scan.at = 0
      <4>1. bypassed[l] + LeftOf(usage)[l] - 0 <= Budget(usage, l)
        BY <2>6, <3>1, Zenon
      <4> QED
        BY <2>1, <2>2, <4>1
    <3>2. CASE scan.at # 0
      <4> DEFINE k == scan.at
      <4>3. k \in Level /\ ~(k > l)
        BY <2>1, <2>6, <3>2, Zenon
      <4> HIDE DEF k
      <4>4. k \in Nat
        BY <4>3, Levels
      <4>5. k <= l
        BY <2>1, <4>3, <4>4
      <4>1. scan.at \in Level /\ scan.at \in Nat /\ scan.at <= l
        BY <4>3, <4>4, <4>5, Zenon DEF k
      <4>2. LeftOf(usage)[scan.at] \in Nat /\ LeftOf(usage)[scan.at] <= LeftOf(usage)[l]
        BY <2>1, <4>1, LeftBounds, LeftGrows
      <4> QED
        BY <2>1, <2>2, <2>6, <3>2, <4>2
    <3> QED
      BY <3>1, <3>2
  <2> QED
    BY <2>3, <2>4, <2>5, <2>6 DEF LevelRatio
<1> QED
  BY <1>1, TypeInvariance, RatioInvariance, PTL

=============================================================================
