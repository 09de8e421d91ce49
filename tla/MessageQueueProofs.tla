------------------------ MODULE MessageQueueProofs -------------------------
(***************************************************************************)
(* What a pass over a level returns, and from it, for any number of        *)
(* levels, ratios and messages: the types of the queue, that a flush       *)
(* leaves exactly what it does not cover, and that the Remove of the       *)
(* internal queue skips one message at most.  And, in the last part, that  *)
(* the thread that serves a plain queue never sleeps while it could work.  *)
(*                                                                         *)
(* A pass is a recursive function over the places of a level.  Facts about *)
(* it are proved by induction on the place; the induction is the minimum   *)
(* principle of WellFoundedInduction for sets of numbers, which needs no   *)
(* predicate as a parameter.                                               *)
(***************************************************************************)
EXTENDS MessageQueue, TLAPS, FiniteSetTheorems

-----------------------------------------------------------------------------
(* Induction and recursion over numbers *)

LEMMA LeastNumber ==
  ASSUME NEW S \in SUBSET Nat, S # {}
  PROVE  \E n \in S : \A m \in S : n <= m
<1>1. PICK n \in S : \A m \in S : ~(<<m, n>> \in OpToRel(<, Nat))
  BY NatLessThanWellFounded, WFMin, Zenon
<1>2. \A m \in S : m \in Nat /\ n \in Nat
  OBVIOUS
<1>3. \A m \in S : ~(m < n)
  BY <1>1, <1>2 DEF OpToRel
<1> QED
  BY <1>2, <1>3

LEMMA Induction ==
  ASSUME NEW S \in SUBSET Nat, 0 \in S, \A n \in S : n + 1 \in S
  PROVE  S = Nat
<1> SUFFICES ASSUME Nat \ S # {}
             PROVE  FALSE
  OBVIOUS
<1>1. PICK n \in Nat \ S : \A m \in Nat \ S : n <= m
  BY LeastNumber
<1>2. n - 1 \in Nat /\ n - 1 \notin Nat \ S
  BY <1>1
<1> QED
  BY <1>1, <1>2

\* f starts with base and takes one step of its own at every place up to n.
Iterates(f, V, base, n, step) ==
    /\ f \in [0..n -> V]
    /\ f[0] = base
    /\ \A i \in 1..n : f[i] = step[i][f[i - 1]]

\* A function that is defined from its previous value, step after step, exists.
LEMMA Recursion ==
  ASSUME NEW V, NEW base, base \in V, NEW n, n \in Nat,
         NEW step, step \in [1..n -> [V -> V]]
  PROVE  \E f : Iterates(f, V, base, n, step)
<1> DEFINE S == {k \in Nat : k <= n => \E f : Iterates(f, V, base, k, step)}
<1>1. 0 \in S
  <2>1. Iterates([i \in 0..0 |-> base], V, base, 0, step)
    BY DEF Iterates
  <2> QED
    BY <2>1
<1>2. ASSUME NEW k \in S
      PROVE  k + 1 \in S
  <2> SUFFICES ASSUME k + 1 <= n
               PROVE  \E f : Iterates(f, V, base, k + 1, step)
    OBVIOUS
  <2>1. k \in Nat /\ k + 1 \in 1..n
    OBVIOUS
  <2>2. PICK f : Iterates(f, V, base, k, step)
    BY <2>1
  <2> USE DEF Iterates
  <2> DEFINE g == [i \in 0..(k + 1) |-> IF i <= k THEN f[i] ELSE step[k + 1][f[k]]]
  <2>3. f[k] \in V /\ step[k + 1] \in [V -> V]
    BY <2>1, <2>2
  <2>4. g \in [0..(k + 1) -> V]
    BY <2>1, <2>2, <2>3
  <2>5. g[0] = base
    BY <2>1, <2>2
  <2>6. ASSUME NEW i \in 1..(k + 1)
        PROVE  g[i] = step[i][g[i - 1]]
    <3>1. CASE i <= k
      BY <2>1, <2>2, <3>1
    <3>2. CASE i = k + 1
      BY <2>1, <2>2, <3>2
    <3> QED
      BY <2>1, <3>1, <3>2
  <2> QED
    BY <2>4, <2>5, <2>6
<1> HIDE DEF S
<1>3. S = Nat
  BY <1>1, <1>2, Induction DEF S
<1>4. n \in S /\ n <= n
  BY <1>3
<1> QED
  BY <1>4 DEF S

-----------------------------------------------------------------------------
(* A pass over a level *)

FlushAcc == [kept : Seq(Msg), usage : Nat]
ScanAcc == [kept : Seq(Msg), taken : SUBSET Msg, usage : Nat]

\* The state of a pass after each place of level l.
FlushRun(f, l, tags) ==
    /\ f \in [0..Len(items[l]) -> FlushAcc]
    /\ f[0] = [kept |-> <<>>, usage |-> IF items[l] = <<>> THEN 0 ELSE usage[l]]
    /\ \A i \in 1..Len(items[l]) :
         f[i] = FlushItem(tags, Ratio[l], f[i - 1], items[l][i])
    /\ FlushLevel(l, tags) = f[Len(items[l])]

ScanRun(f, l) ==
    /\ f \in [0..Len(items[l]) -> ScanAcc]
    /\ f[0] = [kept |-> <<>>, taken |-> {}, usage |-> IF items[l] = <<>> THEN 0 ELSE usage[l]]
    /\ \A i \in 1..Len(items[l]) : f[i] = ScanItem(l, f[i - 1], items[l][i])
    /\ ScanLevel(l) = f[Len(items[l])]

LEMMA FlushItemType ==
  ASSUME NEW tags, NEW r \in Nat, NEW acc \in FlushAcc, NEW m \in Msg
  PROVE  FlushItem(tags, r, acc, m) \in FlushAcc
BY DEF FlushItem, FlushAcc

\* What ScanItem returns, case by case, as records.
LEMMA ScanItemCases ==
  ASSUME NEW l \in Level, NEW acc \in ScanAcc, NEW m \in Msg
  PROVE  /\ acc.taken # {} \/ (acc.usage < Ratio[l] /\ m \notin expired /\ ~Eligible(l, m))
            => ScanItem(l, acc, m) = [kept |-> Append(acc.kept, m), taken |-> acc.taken,
                                      usage |-> acc.usage]
         /\ acc.taken = {} /\ acc.usage >= Ratio[l]
            => ScanItem(l, acc, m) = [kept |-> Append(acc.kept, m), taken |-> {}, usage |-> 0]
         /\ acc.taken = {} /\ acc.usage < Ratio[l] /\ m \in expired
            => ScanItem(l, acc, m) = [kept |-> acc.kept, taken |-> {}, usage |-> acc.usage + 1]
         /\ acc.taken = {} /\ acc.usage < Ratio[l] /\ m \notin expired /\ Eligible(l, m)
            => ScanItem(l, acc, m) = [kept |-> acc.kept, taken |-> {m}, usage |-> acc.usage + 1]
<1>1. acc.usage >= Ratio[l] <=> ~(acc.usage < Ratio[l])
  BY MessageQueueAssumption DEF ScanAcc
<1>2. CASE acc.taken # {}
  BY <1>2, Zenon DEF ScanItem
<1>3. CASE acc.taken = {} /\ acc.usage >= Ratio[l]
  BY <1>1, <1>3, Zenon DEF ScanItem
<1>4. CASE acc.taken = {} /\ acc.usage < Ratio[l]
  BY <1>1, <1>4, Zenon DEF ScanItem
<1> QED
  BY <1>1, <1>2, <1>3, <1>4, Zenon

LEMMA ScanItemType ==
  ASSUME NEW l \in Level, NEW acc \in ScanAcc, NEW m \in Msg
  PROVE  ScanItem(l, acc, m) \in ScanAcc
BY MessageQueueAssumption DEF ScanItem, ScanAcc

LEMMA FlushRuns ==
  ASSUME NEW l \in Level, NEW tags, items[l] \in Seq(Msg), usage[l] \in Nat
  PROVE  \E f : FlushRun(f, l, tags)
<1> DEFINE n == Len(items[l])
           base == [kept |-> <<>>, usage |-> IF items[l] = <<>> THEN 0 ELSE usage[l]]
           step == [i \in 1..n |->
                      [acc \in FlushAcc |-> FlushItem(tags, Ratio[l], acc, items[l][i])]]
           upTo[i \in 0..n] == IF i = 0 THEN base
                               ELSE FlushItem(tags, Ratio[l], upTo[i - 1], items[l][i])
<1>1. n \in Nat /\ Ratio[l] \in Nat /\ \A i \in 1..n : items[l][i] \in Msg
  BY MessageQueueAssumption
<1>2. base \in FlushAcc
  BY DEF FlushAcc
<1>3. step \in [1..n -> [FlushAcc -> FlushAcc]]
  BY <1>1, FlushItemType
<1>4. FlushLevel(l, tags) = upTo[n]
  BY Zenon DEF FlushLevel
<1> HIDE DEF base, step
<1>5. PICK f \in [0..n -> FlushAcc] : f[0] = base /\ \A i \in 1..n : f[i] = step[i][f[i - 1]]
  <2>1. PICK f : Iterates(f, FlushAcc, base, n, step)
    BY <1>1, <1>2, <1>3, Recursion, Zenon
  <2> QED
    BY <2>1, Zenon DEF Iterates
<1>6. ASSUME NEW i \in 1..n
      PROVE  f[i] = FlushItem(tags, Ratio[l], f[i - 1], items[l][i])
  <2>1. f[i - 1] \in FlushAcc
    BY <1>1, <1>5
  <2>2. step[i] = [acc \in FlushAcc |-> FlushItem(tags, Ratio[l], acc, items[l][i])]
    BY Zenon DEF step
  <2> QED
    BY <1>5, <2>1, <2>2, Zenon
<1>7. f = [i \in 0..n |-> IF i = 0 THEN base
                          ELSE FlushItem(tags, Ratio[l], f[i - 1], items[l][i])]
  BY <1>1, <1>5, <1>6
<1>8. upTo = [i \in 0..n |-> IF i = 0 THEN base
                             ELSE FlushItem(tags, Ratio[l], upTo[i - 1], items[l][i])]
  BY <1>7, Zenon DEF upTo
<1> HIDE DEF upTo
<1>9. upTo[0] = base
      /\ \A i \in 1..n : upTo[i] = FlushItem(tags, Ratio[l], upTo[i - 1], items[l][i])
  <2>1. 0 \in 0..n /\ \A i \in 1..n : i \in 0..n /\ i # 0
    BY <1>1
  <2> QED
    BY <1>8, <2>1, Zenon
<1>10. upTo \in [0..n -> FlushAcc]
  <2> DEFINE S == {i \in Nat : i <= n => upTo[i] \in FlushAcc}
  <2>1. 0 \in S
    BY <1>2, <1>9
  <2>2. ASSUME NEW i \in S
        PROVE  i + 1 \in S
    BY <1>1, <1>9, FlushItemType
  <2> HIDE DEF S
  <2>3. S = Nat
    BY <2>1, <2>2, Induction DEF S
  <2>4. \A i \in 0..n : upTo[i] \in FlushAcc
    BY <1>1, <2>3 DEF S
  <2> QED
    BY <1>8, <2>4
<1> QED
  BY <1>4, <1>9, <1>10 DEF FlushRun, base

LEMMA ScanRuns ==
  ASSUME NEW l \in Level, items[l] \in Seq(Msg), usage[l] \in Nat
  PROVE  \E f : ScanRun(f, l)
<1> DEFINE n == Len(items[l])
           base == [kept |-> <<>>, taken |-> {},
                    usage |-> IF items[l] = <<>> THEN 0 ELSE usage[l]]
           step == [i \in 1..n |-> [acc \in ScanAcc |-> ScanItem(l, acc, items[l][i])]]
           upTo[i \in 0..n] == IF i = 0 THEN base ELSE ScanItem(l, upTo[i - 1], items[l][i])
<1>1. n \in Nat /\ \A i \in 1..n : items[l][i] \in Msg
  OBVIOUS
<1>2. base \in ScanAcc
  BY DEF ScanAcc
<1>3. step \in [1..n -> [ScanAcc -> ScanAcc]]
  BY <1>1, ScanItemType
<1>4. ScanLevel(l) = upTo[n]
  BY Zenon DEF ScanLevel
<1> HIDE DEF base, step
<1>5. PICK f \in [0..n -> ScanAcc] : f[0] = base /\ \A i \in 1..n : f[i] = step[i][f[i - 1]]
  <2>1. PICK f : Iterates(f, ScanAcc, base, n, step)
    BY <1>1, <1>2, <1>3, Recursion, Zenon
  <2> QED
    BY <2>1, Zenon DEF Iterates
<1>6. ASSUME NEW i \in 1..n
      PROVE  f[i] = ScanItem(l, f[i - 1], items[l][i])
  <2>1. f[i - 1] \in ScanAcc
    BY <1>1, <1>5
  <2>2. step[i] = [acc \in ScanAcc |-> ScanItem(l, acc, items[l][i])]
    BY Zenon DEF step
  <2> QED
    BY <1>5, <2>1, <2>2, Zenon
<1>7. f = [i \in 0..n |-> IF i = 0 THEN base ELSE ScanItem(l, f[i - 1], items[l][i])]
  BY <1>1, <1>5, <1>6
<1>8. upTo = [i \in 0..n |-> IF i = 0 THEN base ELSE ScanItem(l, upTo[i - 1], items[l][i])]
  BY <1>7, Zenon DEF upTo
<1> HIDE DEF upTo
<1>9. upTo[0] = base /\ \A i \in 1..n : upTo[i] = ScanItem(l, upTo[i - 1], items[l][i])
  <2>1. 0 \in 0..n /\ \A i \in 1..n : i \in 0..n /\ i # 0
    BY <1>1
  <2> QED
    BY <1>8, <2>1, Zenon
<1>10. upTo \in [0..n -> ScanAcc]
  <2> DEFINE S == {i \in Nat : i <= n => upTo[i] \in ScanAcc}
  <2>1. 0 \in S
    BY <1>2, <1>9
  <2>2. ASSUME NEW i \in S
        PROVE  i + 1 \in S
    BY <1>1, <1>9, ScanItemType
  <2> HIDE DEF S
  <2>3. S = Nat
    BY <2>1, <2>2, Induction DEF S
  <2>4. \A i \in 0..n : upTo[i] \in ScanAcc
    BY <1>1, <2>3 DEF S
  <2> QED
    BY <1>8, <2>4
<1> QED
  BY <1>4, <1>9, <1>10 DEF ScanRun, base

-----------------------------------------------------------------------------
(* What a pass keeps *)

\* kept is made of messages of the first i places of s, each of them once.
TakenFrom(kept, s, i) ==
    /\ kept \in Seq(Msg)
    /\ \A a \in 1..Len(kept) : \E b \in 1..i : kept[a] = s[b]
    /\ \A a, b \in 1..Len(kept) : kept[a] = kept[b] => a = b

LEMMA TakenFromLonger ==
  ASSUME NEW s \in Seq(Msg), NEW kept, NEW i \in 1..Len(s), TakenFrom(kept, s, i - 1)
  PROVE  TakenFrom(kept, s, i)
BY DEF TakenFrom

\* One more message of s may be kept when its own are all different.
LEMMA TakenFromAppend ==
  ASSUME NEW s \in Seq(Msg), \A a, b \in 1..Len(s) : s[a] = s[b] => a = b,
         NEW kept, NEW i \in 1..Len(s), TakenFrom(kept, s, i - 1)
  PROVE  TakenFrom(Append(kept, s[i]), s, i)
<1> DEFINE more == Append(kept, s[i])
<1>1. /\ kept \in Seq(Msg) /\ Len(kept) \in Nat /\ s[i] \in Msg
      /\ more \in Seq(Msg) /\ Len(more) = Len(kept) + 1
      /\ more[Len(kept) + 1] = s[i]
      /\ \A a \in 1..Len(kept) : more[a] = kept[a]
  BY DEF TakenFrom
<1> HIDE DEF more
<1>2. \A a \in 1..Len(kept) : \E b \in 1..(i - 1) : kept[a] = s[b]
  BY DEF TakenFrom
<1>3. \A a \in 1..Len(more) : a \in 1..Len(kept) \/ a = Len(kept) + 1
  BY <1>1
<1>4. \A a \in 1..Len(kept) : kept[a] # s[i]
  BY <1>2
<1>5. \A a \in 1..Len(more) : \E b \in 1..i : more[a] = s[b]
  BY <1>1, <1>2, <1>3
<1>6. \A a, b \in 1..Len(more) : more[a] = more[b] => a = b
  BY <1>1, <1>3, <1>4 DEF TakenFrom
<1> QED
  BY <1>1, <1>5, <1>6 DEF TakenFrom, more

LEMMA FlushKeeps ==
  ASSUME NEW l \in Level, NEW tags, items[l] \in Seq(Msg), usage[l] \in 0..Ratio[l],
         \A a, b \in 1..Len(items[l]) : items[l][a] = items[l][b] => a = b
  PROVE  /\ TakenFrom(FlushLevel(l, tags).kept, items[l], Len(items[l]))
         /\ FlushLevel(l, tags).usage \in 0..Ratio[l]
<1>1. Ratio[l] \in Nat \ {0}
  BY MessageQueueAssumption
<1>2. PICK f : FlushRun(f, l, tags)
  BY <1>1, FlushRuns
<1> DEFINE n == Len(items[l])
           Good(i) == TakenFrom(f[i].kept, items[l], i) /\ f[i].usage \in 0..Ratio[l]
           S == {i \in Nat : i <= n => Good(i)}
<1>3. 0 \in S
  BY <1>1, <1>2 DEF FlushRun, TakenFrom
<1>4. ASSUME NEW i \in S
      PROVE  i + 1 \in S
  <2> SUFFICES ASSUME i + 1 <= n
               PROVE  Good(i + 1)
    OBVIOUS
  <2>1. i \in Nat /\ i \in 0..n /\ i + 1 \in 1..n /\ (i + 1) - 1 = i /\ Good(i)
    OBVIOUS
  <2>2. f[i + 1] = FlushItem(tags, Ratio[l], f[i], items[l][i + 1]) /\ f[i] \in FlushAcc
    BY <1>2, <2>1 DEF FlushRun
  <2>3. TakenFrom(f[i].kept, items[l], i + 1)
        /\ TakenFrom(Append(f[i].kept, items[l][i + 1]), items[l], i + 1)
    BY <2>1, TakenFromLonger, TakenFromAppend
  <2>4. f[i + 1].kept \in {f[i].kept, Append(f[i].kept, items[l][i + 1])}
        /\ f[i + 1].usage \in 0..Ratio[l]
    BY <1>1, <2>1, <2>2 DEF FlushItem, FlushAcc
  <2> QED
    BY <2>3, <2>4
<1> HIDE DEF S
<1>5. S = Nat
  BY <1>3, <1>4, Induction DEF S
<1>6. n \in S /\ n \in Nat
  BY <1>5
<1>7. Good(n)
  BY <1>6 DEF S
<1> QED
  BY <1>2, <1>7 DEF FlushRun

\* Without is what any function returns that leaves the tags out step by step.
LEMMA WithoutIs ==
  ASSUME NEW s \in Seq(Msg), NEW tags, NEW w,
         w = [i \in 0..Len(s) |-> w[i]],
         w[0] = <<>>,
         \A i \in 1..Len(s) :
           w[i] = IF TagOf[s[i]] \in tags THEN w[i - 1] ELSE Append(w[i - 1], s[i])
  PROVE  Without(s, tags) = w[Len(s)]
<1> DEFINE n == Len(s)
           upTo[i \in 0..n] == IF i = 0 THEN <<>>
                               ELSE IF TagOf[s[i]] \in tags THEN upTo[i - 1]
                               ELSE Append(upTo[i - 1], s[i])
<1>2. n \in Nat
  OBVIOUS
<1>3. Without(s, tags) = upTo[n]
  BY Zenon DEF Without
<1>4. w = [i \in 0..n |-> IF i = 0 THEN <<>>
                          ELSE IF TagOf[s[i]] \in tags THEN w[i - 1]
                          ELSE Append(w[i - 1], s[i])]
  <2>1. \A i \in 0..n : i = 0 \/ i \in 1..n
    BY <1>2
  <2>2. ASSUME NEW i \in 0..n
        PROVE  w[i] = IF i = 0 THEN <<>>
                      ELSE IF TagOf[s[i]] \in tags THEN w[i - 1]
                      ELSE Append(w[i - 1], s[i])
    BY <2>1
  <2> QED
    BY <2>2, Zenon
<1>5. upTo = [i \in 0..n |-> IF i = 0 THEN <<>>
                             ELSE IF TagOf[s[i]] \in tags THEN upTo[i - 1]
                             ELSE Append(upTo[i - 1], s[i])]
  BY <1>4, Zenon DEF upTo
<1> HIDE DEF upTo
<1> DEFINE Add(acc, m) == IF TagOf[m] \in tags THEN acc ELSE Append(acc, m)
<1>6. /\ w[0] = <<>> /\ upTo[0] = <<>>
      /\ \A i \in 1..n : w[i] = Add(w[i - 1], s[i])
      /\ \A i \in 1..n : upTo[i] = Add(upTo[i - 1], s[i])
  <2>1. 0 \in 0..n /\ \A i \in 1..n : i \in 0..n /\ i # 0
    BY <1>2
  <2>2. w[0] = <<>> /\ upTo[0] = <<>>
    BY <1>4, <1>5, <2>1, Zenon
  <2>3. ASSUME NEW i \in 1..n
        PROVE  w[i] = Add(w[i - 1], s[i])
    BY <1>4, <2>1, Zenon
  <2>4. ASSUME NEW i \in 1..n
        PROVE  upTo[i] = Add(upTo[i - 1], s[i])
    BY <1>5, <2>1, Zenon
  <2> HIDE DEF Add
  <2> QED
    BY <2>2, <2>3, <2>4, Zenon
<1> HIDE DEF Add
<1> DEFINE S == {i \in Nat : i <= n => upTo[i] = w[i]}
<1>7. 0 \in S
  BY <1>6
<1>8. ASSUME NEW i \in S
      PROVE  i + 1 \in S
  <2> SUFFICES ASSUME i + 1 <= n
               PROVE  upTo[i + 1] = w[i + 1]
    OBVIOUS
  <2>1. i + 1 \in 1..n /\ (i + 1) - 1 = i /\ upTo[i] = w[i]
    BY <1>2
  <2>2. w[i + 1] = Add(w[(i + 1) - 1], s[i + 1]) /\ upTo[i + 1] = Add(upTo[(i + 1) - 1], s[i + 1])
    BY <1>6, <2>1, Zenon
  <2> QED
    BY <2>1, <2>2, Zenon
<1> HIDE DEF S
<1>9. S = Nat
  BY <1>7, <1>8, Induction DEF S
<1>10. n \in S /\ n <= n
  BY <1>2, <1>9
<1>11. upTo[n] = w[n]
  BY <1>10 DEF S
<1> QED
  BY <1>3, <1>11, Zenon

\* A flush keeps exactly the messages without its tags.
LEMMA FlushIsWithout ==
  ASSUME NEW l \in Level, NEW tags, items[l] \in Seq(Msg), usage[l] \in Nat
  PROVE  FlushLevel(l, tags).kept = Without(items[l], tags)
<1> DEFINE s == items[l]
           n == Len(s)
<1>1. PICK f : FlushRun(f, l, tags)
  BY FlushRuns
<1> DEFINE w == [i \in 0..n |-> f[i].kept]
<1>2. n \in Nat /\ s \in Seq(Msg) /\ \A i \in 1..n : i \in 0..n /\ i - 1 \in 0..n
  OBVIOUS
<1>3. w[0] = <<>> /\ w[n] = f[n].kept
  BY <1>1, <1>2 DEF FlushRun
<1>4. ASSUME NEW i \in 1..n
      PROVE  w[i] = IF TagOf[s[i]] \in tags THEN w[i - 1] ELSE Append(w[i - 1], s[i])
  <2>1. f[i] = FlushItem(tags, Ratio[l], f[i - 1], s[i]) /\ f[i - 1] \in FlushAcc
    BY <1>1, <1>2 DEF FlushRun
  <2>2. f[i].kept = IF TagOf[s[i]] \in tags THEN f[i - 1].kept
                    ELSE Append(f[i - 1].kept, s[i])
    BY <2>1 DEF FlushItem, FlushAcc
  <2> QED
    BY <1>2, <2>2
<1>5. w = [i \in 0..n |-> w[i]]
  OBVIOUS
<1>6. FlushLevel(l, tags) = f[n]
  BY <1>1 DEF FlushRun
<1> HIDE DEF w, s
<1>7. Without(s, tags) = w[n]
  BY <1>2, <1>3, <1>4, <1>5, WithoutIs, Zenon
<1> QED
  BY <1>3, <1>6, <1>7, Zenon DEF s

LEMMA WithoutNone ==
  ASSUME NEW s \in Seq(Msg)
  PROVE  Without(s, {}) = s
<1> DEFINE n == Len(s)
           w == [i \in 0..n |-> SubSeq(s, 1, i)]
<1>1. n \in Nat /\ w[0] = <<>> /\ w[n] = s
  OBVIOUS
<1>2. ASSUME NEW i \in 1..n
      PROVE  w[i] = Append(w[i - 1], s[i])
  <2>1. w[i] = SubSeq(s, 1, i) /\ w[i - 1] = SubSeq(s, 1, i - 1)
    BY <1>1
  <2>2. SubSeq(s, 1, i) = Append(SubSeq(s, 1, i - 1), s[i])
    OBVIOUS
  <2> QED
    BY <2>1, <2>2, Zenon
<1>3. w = [i \in 0..n |-> w[i]]
  OBVIOUS
<1> HIDE DEF w
<1>4. Without(s, {}) = w[n]
  BY <1>1, <1>2, <1>3, WithoutIs
<1> QED
  BY <1>1, <1>4

\* The places a pass of Remove skips because the level is at its ratio, and the
\* places of the expired messages it drops.
Skips(f, l) ==
    {j \in 1..Len(items[l]) : f[j - 1].taken = {} /\ f[j - 1].usage >= Ratio[l]}
Drops(f, l) ==
    {j \in 1..Len(items[l]) :
        f[j - 1].taken = {} /\ f[j - 1].usage < Ratio[l] /\ items[l][j] \in expired}

\* What a Remove has done with the first i messages of level l.
ScanState(f, l, i) ==
    /\ TakenFrom(f[i].kept, items[l], i)
    /\ f[i].usage \in 0..Ratio[l]
    /\ \A m \in f[i].taken : /\ m \notin expired
                             /\ \E j \in 1..i : items[l][j] = m
                             /\ \A a \in 1..Len(f[i].kept) : f[i].kept[a] # m
    /\ \A j \in Drops(f, l), a \in 1..Len(f[i].kept) :
         j <= i => f[i].kept[a] # items[l][j]
    /\ \A j \in 1..i : \/ j \in Drops(f, l)
                       \/ items[l][j] \in f[i].taken
                       \/ \E a \in 1..Len(f[i].kept) : f[i].kept[a] = items[l][j]
    /\ \A j \in 0..i : f[j].taken # {} => f[j].taken = f[i].taken

\* A message is left where it is, skipped or not,
Leaves(f, l, i) ==
    /\ f[i].kept = Append(f[i - 1].kept, items[l][i])
    /\ f[i].taken = f[i - 1].taken
    /\ \/ i \in Skips(f, l) /\ f[i].usage = 0
       \/ i \notin Skips(f, l) /\ f[i].usage = f[i - 1].usage
    /\ i \notin Drops(f, l)
    /\ \/ f[i - 1].taken # {}
       \/ f[i - 1].usage >= Ratio[l]
       \/ items[l][i] \notin expired /\ ~Eligible(l, items[l][i])

\* or it leaves the level, dropped or taken.
Gives(f, l, i) ==
    /\ f[i].kept = f[i - 1].kept
    /\ f[i - 1].taken = {} /\ f[i - 1].usage < Ratio[l]
    /\ f[i].usage = f[i - 1].usage + 1
    /\ i \notin Skips(f, l)
    /\ \/ f[i].taken = {} /\ i \in Drops(f, l)
       \/ /\ f[i].taken = {items[l][i]} /\ items[l][i] \notin expired
          /\ i \notin Drops(f, l)

LEMMA ScanStep ==
  ASSUME NEW l \in Level, items[l] \in Seq(Msg), NEW f, ScanRun(f, l),
         NEW i \in 1..Len(items[l])
  PROVE  Leaves(f, l, i) \/ Gives(f, l, i)
<1> DEFINE a == f[i - 1]
           m == items[l][i]
<1>1. a \in ScanAcc /\ m \in Msg /\ f[i] = ScanItem(l, a, m)
  BY DEF ScanRun
<1>2. Ratio[l] \in Nat /\ a.usage \in Nat
  BY <1>1, MessageQueueAssumption DEF ScanAcc
<1>3. /\ i \in Skips(f, l) <=> a.taken = {} /\ a.usage >= Ratio[l]
      /\ i \in Drops(f, l) <=> a.taken = {} /\ a.usage < Ratio[l] /\ m \in expired
  BY DEF Skips, Drops
<1>4. a.usage >= Ratio[l] <=> ~(a.usage < Ratio[l])
  BY <1>2
<1> HIDE DEF a, m
<1>5. CASE a.taken # {} \/ (a.usage < Ratio[l] /\ m \notin expired /\ ~Eligible(l, m))
  <2>1. f[i] = [kept |-> Append(a.kept, m), taken |-> a.taken, usage |-> a.usage]
    BY <1>1, <1>5, ScanItemCases, Zenon
  <2>2. f[i].kept = Append(a.kept, m) /\ f[i].taken = a.taken /\ f[i].usage = a.usage
    BY <2>1
  <2> QED
    BY <1>3, <1>4, <1>5, <2>2, Zenon DEF a, m, Leaves, Gives
<1>6. CASE a.taken = {} /\ a.usage >= Ratio[l]
  <2>1. f[i] = [kept |-> Append(a.kept, m), taken |-> {}, usage |-> 0]
    BY <1>1, <1>6, ScanItemCases, Zenon
  <2>2. f[i].kept = Append(a.kept, m) /\ f[i].taken = {} /\ f[i].usage = 0
    BY <2>1
  <2> QED
    BY <1>3, <1>4, <1>6, <2>2, Zenon DEF a, m, Leaves, Gives
<1>7. CASE a.taken = {} /\ a.usage < Ratio[l] /\ m \in expired
  <2>1. f[i] = [kept |-> a.kept, taken |-> {}, usage |-> a.usage + 1]
    BY <1>1, <1>7, ScanItemCases, Zenon
  <2>2. f[i].kept = a.kept /\ f[i].taken = {} /\ f[i].usage = a.usage + 1
    BY <2>1
  <2> QED
    BY <1>3, <1>4, <1>7, <2>2, Zenon DEF a, m, Leaves, Gives
<1>8. CASE a.taken = {} /\ a.usage < Ratio[l] /\ m \notin expired /\ Eligible(l, m)
  <2>1. f[i] = [kept |-> a.kept, taken |-> {m}, usage |-> a.usage + 1]
    BY <1>1, <1>8, ScanItemCases, Zenon
  <2>2. f[i].kept = a.kept /\ f[i].taken = {m} /\ f[i].usage = a.usage + 1
    BY <2>1
  <2> QED
    BY <1>3, <1>4, <1>8, <2>2, Zenon DEF a, m, Leaves, Gives
<1> QED
  BY <1>4, <1>5, <1>6, <1>7, <1>8, Zenon

LEMMA ScanStateNext ==
  ASSUME NEW l \in Level, items[l] \in Seq(Msg),
         \A a, b \in 1..Len(items[l]) : items[l][a] = items[l][b] => a = b,
         NEW f, ScanRun(f, l), NEW i \in 1..Len(items[l]), ScanState(f, l, i - 1)
  PROVE  ScanState(f, l, i)
<1> DEFINE s == items[l]
           m == s[i]
           old == f[i - 1]
           new == f[i]
           drops == Drops(f, l)
           Kept(acc, x) == \E a \in 1..Len(acc.kept) : acc.kept[a] = x
<1>1. /\ i \in Nat /\ drops \subseteq 1..Len(s) /\ Ratio[l] \in Nat \ {0} /\ \A j \in 1..i : j \in 1..(i - 1) \/ j = i
      /\ \A j \in 0..i : j \in 0..(i - 1) \/ j = i
      /\ \A j \in 1..(i - 1) : j \in 1..i /\ s[j] # m
      /\ \A j \in drops : j <= i => j <= i - 1 \/ j = i
  <2>1. drops \subseteq 1..Len(s)
    BY DEF Drops
  <2>2. Len(s) \in Nat /\ i \in Nat /\ Ratio[l] \in Nat \ {0}
    BY MessageQueueAssumption
  <2>3. \A j \in 1..(i - 1) : j \in 1..i /\ s[j] # m
    OBVIOUS
  <2> HIDE DEF drops, s, m
  <2> QED
    BY <2>1, <2>2, <2>3
<1>2. /\ TakenFrom(old.kept, s, i - 1)
      /\ old.usage \in 0..Ratio[l]
      /\ \A x \in old.taken : /\ x \notin expired
                              /\ \E j \in 1..(i - 1) : s[j] = x
                              /\ ~Kept(old, x)
      /\ \A j \in drops : j <= i - 1 => ~Kept(old, s[j])
      /\ \A j \in 1..(i - 1) : j \in drops \/ s[j] \in old.taken \/ Kept(old, s[j])
      /\ \A j \in 0..(i - 1) : f[j].taken # {} => f[j].taken = old.taken
  BY DEF ScanState
<1>3. TakenFrom(old.kept, s, i) /\ TakenFrom(Append(old.kept, m), s, i)
  BY <1>2, TakenFromLonger, TakenFromAppend
<1>4. ~Kept(old, m)
  <2>1. \A a \in 1..Len(old.kept) : \E b \in 1..(i - 1) : old.kept[a] = s[b]
    BY <1>2 DEF TakenFrom
  <2> QED
    BY <1>1, <2>1, Zenon
<1>5. \A x : Kept([kept |-> Append(old.kept, m)], x) <=> Kept(old, x) \/ x = m
  <2> DEFINE more == Append(old.kept, m)
  <2>1. /\ old.kept \in Seq(Msg) /\ m \in Msg /\ Len(old.kept) \in Nat
        /\ Len(more) = Len(old.kept) + 1 /\ more[Len(old.kept) + 1] = m
        /\ \A a \in 1..Len(old.kept) : more[a] = old.kept[a]
    BY <1>2 DEF TakenFrom
  <2>2. \A a \in 1..Len(more) : a \in 1..Len(old.kept) \/ a = Len(old.kept) + 1
    BY <2>1
  <2>3. /\ \A a \in 1..Len(old.kept) : a \in 1..Len(more)
        /\ Len(old.kept) + 1 \in 1..Len(more)
    BY <2>1
  <2> HIDE DEF more
  <2>4. [kept |-> more].kept = more
    OBVIOUS
  <2> QED
    BY <2>1, <2>2, <2>3, <2>4, Zenon DEF more
<1> HIDE DEF s, m, old, new, drops, Kept
<1> DEFINE Goal == /\ TakenFrom(new.kept, s, i)
                   /\ new.usage \in 0..Ratio[l]
                   /\ \A x \in new.taken : /\ x \notin expired
                                           /\ \E j \in 1..i : s[j] = x
                                           /\ ~Kept(new, x)
                   /\ \A j \in drops : j <= i => ~Kept(new, s[j])
                   /\ \A j \in 1..i : j \in drops \/ s[j] \in new.taken \/ Kept(new, s[j])
                   /\ \A j \in 0..i : f[j].taken # {} => f[j].taken = new.taken
<1> SUFFICES Goal
  <2>1. \A acc, x : Kept(acc, x) <=> \E a \in 1..Len(acc.kept) : acc.kept[a] = x
    BY Zenon DEF Kept
  <2> QED
    BY <2>1, Zenon DEF ScanState, s, new, drops
<1>6. CASE /\ new.kept = Append(old.kept, m)
           /\ new.taken = old.taken
           /\ new.usage = 0 \/ new.usage = old.usage
           /\ i \notin drops
  <2>1. \A x : Kept(new, x) <=> Kept(old, x) \/ x = m
    BY <1>5, <1>6 DEF Kept
  <2>2. TakenFrom(new.kept, s, i) /\ new.usage \in 0..Ratio[l]
    BY <1>1, <1>2, <1>3, <1>6
  <2>3. \A x \in new.taken : x \notin expired /\ (\E j \in 1..i : s[j] = x) /\ ~Kept(new, x)
    BY <1>1, <1>2, <1>6, <2>1, Zenon
  <2>4. \A j \in drops : j <= i => ~Kept(new, s[j])
    <3>1. \A j \in drops : j <= i => j <= i - 1 /\ j \in 1..(i - 1)
      BY <1>1, <1>6
    <3>2. \A j \in drops : j <= i => s[j] # m /\ ~Kept(old, s[j])
      BY <1>1, <1>2, <3>1, Zenon
    <3> QED
      BY <2>1, <3>2, Zenon
  <2>5. \A j \in 1..i : j \in drops \/ s[j] \in new.taken \/ Kept(new, s[j])
    BY <1>1, <1>2, <1>6, <2>1, Zenon DEF m
  <2>6. \A j \in 0..i : f[j].taken # {} => f[j].taken = new.taken
    BY <1>1, <1>2, <1>6, Zenon DEF new
  <2> QED
    BY <2>2, <2>3, <2>4, <2>5, <2>6
<1>7. CASE /\ new.kept = old.kept
           /\ old.taken = {} /\ old.usage < Ratio[l]
           /\ new.usage = old.usage + 1
           /\ \/ new.taken = {} /\ i \in drops
              \/ new.taken = {m} /\ m \notin expired /\ i \notin drops
  <2>1. \A x : Kept(new, x) <=> Kept(old, x)
    BY <1>7, Zenon DEF Kept
  <2>2. TakenFrom(new.kept, s, i) /\ new.usage \in 0..Ratio[l]
    BY <1>1, <1>2, <1>3, <1>7
  <2>3. \A x \in new.taken : x \notin expired /\ (\E j \in 1..i : s[j] = x) /\ ~Kept(new, x)
    <3>1. i \in 1..i
      BY <1>1
    <3> QED
      BY <1>4, <1>7, <2>1, <3>1, Zenon DEF m
  <2>4. \A j \in drops : j <= i => ~Kept(new, s[j])
    BY <1>1, <1>2, <1>4, <2>1, Zenon DEF m
  <2>5. \A j \in 1..i : j \in drops \/ s[j] \in new.taken \/ Kept(new, s[j])
    <3>1. \A j \in 1..(i - 1) : j \in drops \/ Kept(new, s[j])
      BY <1>2, <1>7, <2>1, Zenon
    <3>2. i \in drops \/ s[i] \in new.taken
      BY <1>7, Zenon DEF m
    <3> QED
      BY <1>1, <3>1, <3>2, Zenon
  <2>6. \A j \in 0..i : f[j].taken # {} => f[j].taken = new.taken
    BY <1>1, <1>2, <1>7, Zenon DEF new
  <2> QED
    BY <2>2, <2>3, <2>4, <2>5, <2>6
<1>8. \/ /\ new.kept = Append(old.kept, m) /\ new.taken = old.taken
         /\ new.usage = 0 \/ new.usage = old.usage
         /\ i \notin drops
      \/ /\ new.kept = old.kept /\ old.taken = {} /\ old.usage < Ratio[l]
         /\ new.usage = old.usage + 1
         /\ \/ new.taken = {} /\ i \in drops
            \/ new.taken = {m} /\ m \notin expired /\ i \notin drops
  <2>1. Leaves(f, l, i) \/ Gives(f, l, i)
    BY ScanStep
  <2> QED
    BY <2>1, Zenon DEF Leaves, Gives, s, m, old, new, drops
<1> HIDE DEF Goal
<1> QED
  BY <1>6, <1>7, <1>8, Zenon

\* What a level holds once, and what each use of it is bounded by.
LevelOK(l) ==
    /\ items[l] \in Seq(Msg)
    /\ \A a, b \in 1..Len(items[l]) : items[l][a] = items[l][b] => a = b
    /\ usage[l] \in 0..Ratio[l]

LEMMA ScanKeeps ==
  ASSUME NEW l \in Level, LevelOK(l), NEW f, ScanRun(f, l),
         NEW i \in 0..Len(items[l])
  PROVE  ScanState(f, l, i)
<1> DEFINE n == Len(items[l])
           S == {j \in Nat : j <= n => ScanState(f, l, j)}
<1>1. n \in Nat /\ Ratio[l] \in Nat
  BY MessageQueueAssumption DEF LevelOK
<1>2. 0 \in S
  <2>1. f[0] = [kept |-> <<>>, taken |-> {}, usage |-> IF items[l] = <<>> THEN 0 ELSE usage[l]]
    BY DEF ScanRun
  <2>2. f[0].kept = <<>> /\ f[0].taken = {} /\ f[0].usage \in 0..Ratio[l]
    BY <1>1, <2>1 DEF LevelOK
  <2>3. TakenFrom(<<>>, items[l], 0)
    BY DEF TakenFrom
  <2>4. 1..Len(<<>>) = {} /\ 1..0 = {} /\ \A j \in 0..0 : j = 0
    OBVIOUS
  <2>5. ScanState(f, l, 0)
    BY <2>2, <2>3, <2>4, Zenon DEF ScanState
  <2> QED
    BY <2>5
<1>3. ASSUME NEW j \in S
      PROVE  j + 1 \in S
  <2> SUFFICES ASSUME j + 1 <= n
               PROVE  ScanState(f, l, j + 1)
    OBVIOUS
  <2>1. j \in Nat /\ j + 1 \in 1..n /\ (j + 1) - 1 = j
    BY <1>1
  <2>2. ScanState(f, l, (j + 1) - 1)
    BY <1>1, <2>1
  <2> QED
    BY <2>1, <2>2, ScanStateNext, Zenon DEF LevelOK
<1> HIDE DEF S
<1>4. S = Nat
  BY <1>2, <1>3, Induction DEF S
<1>5. i \in S /\ i <= n
  BY <1>1, <1>4
<1> QED
  BY <1>5 DEF S

\* One more place is counted when it is one of T.
LEMMA Counting ==
  ASSUME NEW T, NEW i \in Nat \ {0}
  PROVE  /\ Cardinality(T \cap (1..i)) \in Nat /\ Cardinality(T \cap (1..(i - 1))) \in Nat
         /\ i \in T => Cardinality(T \cap (1..i)) = Cardinality(T \cap (1..(i - 1))) + 1
         /\ i \notin T => Cardinality(T \cap (1..i)) = Cardinality(T \cap (1..(i - 1)))
<1> DEFINE old == T \cap (1..(i - 1))
           new == T \cap (1..i)
<1>1. IsFiniteSet(1..i) /\ IsFiniteSet(1..(i - 1))
  BY FS_Interval
<1>2. IsFiniteSet(old) /\ IsFiniteSet(new) /\ i \notin old
  <2>1. i \notin old
    OBVIOUS
  <2> QED
    BY <1>1, <2>1, FS_Intersection, Zenon
<1>3. Cardinality(old) \in Nat /\ Cardinality(new) \in Nat
  BY <1>2, FS_CardinalityType
<1>4. CASE i \in T
  <2>1. new = old \cup {i}
    BY <1>4
  <2> QED
    BY <1>2, <1>3, <1>4, <2>1, FS_AddElement
<1>5. CASE i \notin T
  <2>1. new = old
    BY <1>5
  <2> QED
    BY <1>3, <1>5, <2>1
<1> QED
  BY <1>4, <1>5

\* Between two messages that a level at its ratio skips it gives or drops as
\* many as the ratio says; the first one it may skip at once.
LEMMA ScanSkipsOne ==
  ASSUME NEW l \in Level, LevelOK(l), NEW f, ScanRun(f, l)
  PROVE  Cardinality(Skips(f, l)) <= 1 + Cardinality(Drops(f, l))
<1> DEFINE n == Len(items[l])
           S(i) == Cardinality(Skips(f, l) \cap (1..i))
           D(i) == Cardinality(Drops(f, l) \cap (1..i))
           Good(i) == /\ S(i) \in Nat /\ D(i) \in Nat /\ S(i) <= 1 + D(i)
                      /\ f[i].taken = {} /\ f[i].usage >= Ratio[l] => S(i) <= D(i)
           A == {i \in Nat : i <= n => Good(i)}
<1>1. n \in Nat /\ Ratio[l] \in Nat \ {0} /\ \A i \in 0..n : f[i].usage \in Nat
  <2>1. f \in [0..n -> ScanAcc]
    BY DEF ScanRun
  <2>2. n \in Nat /\ Ratio[l] \in Nat \ {0}
    BY MessageQueueAssumption DEF LevelOK
  <2> HIDE DEF n
  <2> QED
    BY <2>1, <2>2 DEF ScanAcc
<1>2. 0 \in A
  <2>1. Skips(f, l) \cap (1..0) = {} /\ Drops(f, l) \cap (1..0) = {}
    OBVIOUS
  <2> QED
    BY <2>1, FS_EmptySet
<1>3. ASSUME NEW j \in A
      PROVE  j + 1 \in A
  <2> SUFFICES ASSUME j + 1 <= n
               PROVE  Good(j + 1)
    OBVIOUS
  <2> DEFINE i == j + 1
  <2>1. j \in Nat /\ i \in 1..n /\ i - 1 = j /\ i \in Nat \ {0} /\ Good(j) /\ i \in 0..n /\ j \in 0..n
    BY <1>1
  <2>2. /\ S(i) \in Nat
        /\ i \in Skips(f, l) => S(i) = S(j) + 1
        /\ i \notin Skips(f, l) => S(i) = S(j)
    BY <2>1, Counting
  <2>3. /\ D(i) \in Nat
        /\ i \in Drops(f, l) => D(i) = D(j) + 1
        /\ i \notin Drops(f, l) => D(i) = D(j)
    BY <2>1, Counting
  <2>4. items[l] \in Seq(Msg)
    BY DEF LevelOK
  <2>5. i \in Skips(f, l) <=> f[j].taken = {} /\ f[j].usage >= Ratio[l]
    BY <2>1 DEF Skips
  <2>6. \/ /\ f[i].taken = f[j].taken /\ i \notin Drops(f, l)
           /\ \/ i \in Skips(f, l) /\ f[i].usage = 0
              \/ i \notin Skips(f, l) /\ f[i].usage = f[j].usage
        \/ /\ i \notin Skips(f, l)
           /\ \/ f[i].taken = {} /\ i \in Drops(f, l)
              \/ f[i].taken # {} /\ i \notin Drops(f, l)
    <3>1. Leaves(f, l, i) \/ Gives(f, l, i)
      BY <2>1, <2>4, ScanStep
    <3> HIDE DEF i
    <3> QED
      BY <2>1, <3>1, Zenon DEF Leaves, Gives
  <2> HIDE DEF S, D, i
  <2> QED
    BY <1>1, <2>1, <2>2, <2>3, <2>5, <2>6
<1> HIDE DEF A
<1>4. A = Nat
  BY <1>2, <1>3, Induction DEF A
<1>5. n \in A /\ n <= n
  BY <1>1, <1>4
<1>6. Good(n)
  BY <1>5 DEF A
<1>7. Skips(f, l) \cap (1..n) = Skips(f, l) /\ Drops(f, l) \cap (1..n) = Drops(f, l)
  BY DEF Skips, Drops
<1> QED
  BY <1>6, <1>7

LEMMA ScanLevelKeeps ==
  ASSUME NEW l \in Level, LevelOK(l)
  PROVE  /\ TakenFrom(ScanLevel(l).kept, items[l], Len(items[l]))
         /\ ScanLevel(l).usage \in 0..Ratio[l]
         /\ ScanLevel(l).taken \in SUBSET Msg
<1>1. items[l] \in Seq(Msg) /\ usage[l] \in Nat /\ Len(items[l]) \in 0..Len(items[l])
  BY MessageQueueAssumption DEF LevelOK
<1>2. PICK f : ScanRun(f, l)
  BY <1>1, ScanRuns, Zenon
<1>3. ScanState(f, l, Len(items[l]))
  BY <1>1, <1>2, ScanKeeps, Zenon
<1>4. ScanLevel(l) = f[Len(items[l])] /\ f[Len(items[l])] \in ScanAcc
  BY <1>1, <1>2 DEF ScanRun
<1> QED
  BY <1>3, <1>4 DEF ScanState, ScanAcc

-----------------------------------------------------------------------------
(* The types of the queue *)

\* TypeOK, what is queued apart from the rest.
ItemsOK ==
    /\ items \in [Level -> Seq(Msg)]
    /\ usage \in [Level -> Nat]
    /\ \A l \in Level : /\ \A m \in ToSet(items[l]) : LevelOf[m] = l
                        /\ IsInjective(items[l])
                        /\ usage[l] \in 0..Ratio[l]
    /\ expired \subseteq Queued

\* The rest; only the internal queue has messages that expire, and only the
\* Remove of a plain queue takes several steps.
RestOK ==
    /\ kind \in {"plain", "internal"}
    /\ threshold \in {Open, Closed}
    /\ clearing \in BOOLEAN /\ equalInterrupt \in BOOLEAN
    /\ window \in [main : BOOLEAN, inter : BOOLEAN, pri : Level]
    /\ sem \in 0..1
    /\ consumer \in {"waiting", "removing"}
    /\ scan \in [at : 0..NumLevels, again : BOOLEAN]
    /\ bypassed \in [Level -> Nat]
    /\ kind = "plain" => expired = {}
    /\ kind = "internal" => ~Locked

TypeInv == ItemsOK /\ RestOK

LEMMA LevelsOK == ASSUME ItemsOK PROVE \A l \in Level : LevelOK(l)
BY DEF ItemsOK, LevelOK, IsInjective

\* Refilling the queue with messages taken from it keeps the types.
LEMMA RefillTypes ==
  ASSUME ItemsOK, NEW left,
         \A k \in Level : /\ TakenFrom(left[k].kept, items[k], Len(items[k]))
                          /\ left[k].usage \in 0..Ratio[k],
         NEW l \in Level, NEW new,
         new = <<>> \/ \E m \in Msg \ Queued : LevelOf[m] = l /\ new = <<m>>,
         Refill(left, l, new)
  PROVE  ItemsOK'
<1> DEFINE was(k) == left[k].kept
<1>1. \A k \in Level : Ratio[k] \in Nat
  BY MessageQueueAssumption
<1>2. ASSUME NEW k \in Level
      PROVE  /\ was(k) \in Seq(Msg)
             /\ \A a \in 1..Len(was(k)) : was(k)[a] \in Queued /\ LevelOf[was(k)[a]] = k
             /\ \A a, b \in 1..Len(was(k)) : was(k)[a] = was(k)[b] => a = b
  <2>1. TakenFrom(was(k), items[k], Len(items[k])) /\ items[k] \in Seq(Msg)
    BY DEF ItemsOK
  <2>2. \A b \in 1..Len(items[k]) : items[k][b] \in ToSet(items[k])
    BY <2>1 DEF ToSet
  <2>3. \A b \in 1..Len(items[k]) : items[k][b] \in Queued /\ LevelOf[items[k][b]] = k
    BY <2>2, Zenon DEF ItemsOK, Queued
  <2>4. /\ was(k) \in Seq(Msg)
        /\ \A a \in 1..Len(was(k)) : \E b \in 1..Len(items[k]) : was(k)[a] = items[k][b]
        /\ \A a, b \in 1..Len(was(k)) : was(k)[a] = was(k)[b] => a = b
    BY <2>1, Zenon DEF TakenFrom
  <2>5. ASSUME NEW a \in 1..Len(was(k))
        PROVE  was(k)[a] \in Queued /\ LevelOf[was(k)[a]] = k
    <3>1. PICK b \in 1..Len(items[k]) : was(k)[a] = items[k][b]
      BY <2>4
    <3> QED
      BY <2>3, <3>1
  <2> QED
    BY <2>4, <2>5, Zenon
<1>3. ASSUME NEW k \in Level
      PROVE  /\ items'[k] \in Seq(Msg)
             /\ \A m \in ToSet(items'[k]) : LevelOf[m] = k
             /\ IsInjective(items'[k])
             /\ ToSet(was(k)) \subseteq ToSet(items'[k])
  <2> DEFINE old == was(k)
             now == items'[k]
  <2>1. old \in Seq(Msg) /\ Len(old) \in Nat
        /\ DOMAIN old = 1..Len(old)
    BY <1>2
  <2>2. CASE now = old
    BY <1>2, <2>1, <2>2 DEF ToSet, IsInjective
  <2>3. ASSUME NEW m \in Msg \ Queued, LevelOf[m] = k, now = Append(old, m)
        PROVE  /\ now \in Seq(Msg)
               /\ \A x \in ToSet(now) : LevelOf[x] = k
               /\ IsInjective(now)
               /\ ToSet(old) \subseteq ToSet(now)
    <3>1. /\ now \in Seq(Msg) /\ DOMAIN now = 1..(Len(old) + 1)
          /\ now[Len(old) + 1] = m
          /\ \A a \in 1..Len(old) : now[a] = old[a] /\ a \in 1..(Len(old) + 1)
      BY <2>1, <2>3
    <3>2. \A a \in 1..(Len(old) + 1) : a \in 1..Len(old) \/ a = Len(old) + 1
      BY <2>1
    <3>3. /\ \A a \in 1..Len(old) : old[a] # m /\ LevelOf[old[a]] = k
          /\ \A a, b \in 1..Len(old) : old[a] = old[b] => a = b
      <4>1. /\ \A a \in 1..Len(old) : old[a] \in Queued /\ LevelOf[old[a]] = k
            /\ \A a, b \in 1..Len(old) : old[a] = old[b] => a = b
        BY <1>2, Zenon
      <4> HIDE DEF old
      <4> QED
        BY <2>3, <4>1
    <3> HIDE DEF old, now
    <3>4. \A x \in ToSet(now) : LevelOf[x] = k
      <4>1. \A a \in DOMAIN now : LevelOf[now[a]] = k
        BY <2>3, <3>1, <3>2, <3>3
      <4> QED
        BY <4>1, Zenon DEF ToSet
    <3>5. IsInjective(now)
      BY <3>1, <3>2, <3>3, Zenon DEF IsInjective
    <3>6. ToSet(old) \subseteq ToSet(now)
      BY <2>1, <3>1, Zenon DEF ToSet
    <3> QED
      BY <3>1, <3>4, <3>5, <3>6
  <2>4. now = IF k = l THEN old \o new ELSE old
    BY Zenon DEF Refill
  <2>5. CASE k # l \/ new = <<>>
    <3>1. old \o <<>> = old
      BY <2>1
    <3>2. now = old
      BY <2>4, <2>5, <3>1, Zenon
    <3> QED
      BY <2>2, <3>2, Zenon
  <2>6. CASE k = l /\ new # <<>>
    <3>1. PICK m \in Msg \ Queued : LevelOf[m] = l /\ new = <<m>>
      BY <2>6
    <3>2. now = Append(old, m)
      BY <2>1, <2>4, <2>6, <3>1
    <3> QED
      BY <2>3, <2>6, <3>1, <3>2, Zenon
  <2> QED
    BY <2>5, <2>6
<1>4. items' \in [Level -> Seq(Msg)]
  BY <1>3 DEF Refill
<1>5. /\ usage' \in [Level -> Nat]
      /\ \A k \in Level : usage'[k] \in 0..Ratio[k]
  BY <1>1 DEF Refill
<1>6. expired' \subseteq Queued'
  <2>1. expired' = expired \cap UNION {ToSet(was(k)) : k \in Level}
    BY DEF Refill
  <2>2. \A k \in Level : ToSet(was(k)) \subseteq ToSet(items'[k])
    BY <1>3
  <2>3. Queued' = UNION {ToSet(items'[k]) : k \in Level}
    BY DEF Queued
  <2> HIDE DEF was
  <2> SUFFICES ASSUME NEW m \in expired'
               PROVE  \E k \in Level : m \in ToSet(items'[k])
    BY <2>3
  <2> QED
    BY <2>1, <2>2
<1> QED
  BY <1>3, <1>4, <1>5, <1>6, Zenon DEF ItemsOK

LEMMA AllIsTaken ==
  ASSUME NEW l \in Level, LevelOK(l)
  PROVE  TakenFrom(items[l], items[l], Len(items[l]))
BY DEF LevelOK, TakenFrom

LEMMA FlushedKeeps ==
  ASSUME ItemsOK, NEW tags, NEW k \in Level
  PROVE  /\ TakenFrom(Flushed(tags)[k].kept, items[k], Len(items[k]))
         /\ Flushed(tags)[k].usage \in 0..Ratio[k]
         /\ Flushed(tags)[k].kept = IF tags = {} THEN items[k] ELSE Without(items[k], tags)
<1>1. LevelOK(k) /\ items[k] \in Seq(Msg) /\ usage[k] \in Nat /\ usage[k] \in 0..Ratio[k]
  BY LevelsOK, MessageQueueAssumption DEF LevelOK
<1>2. CASE tags = {}
  <2>1. Flushed(tags)[k] = [kept |-> items[k], usage |-> usage[k]]
    BY <1>2 DEF Flushed
  <2> QED
    BY <1>1, <1>2, <2>1, AllIsTaken
<1>3. CASE tags # {}
  <2>1. Flushed(tags)[k] = FlushLevel(k, tags)
    BY <1>3 DEF Flushed
  <2>2. TakenFrom(FlushLevel(k, tags).kept, items[k], Len(items[k]))
        /\ FlushLevel(k, tags).usage \in 0..Ratio[k]
    BY <1>1, FlushKeeps, Zenon DEF LevelOK
  <2>3. FlushLevel(k, tags).kept = Without(items[k], tags)
    BY <1>1, FlushIsWithout, Zenon
  <2> QED
    BY <1>3, <2>1, <2>2, <2>3, Zenon
<1> QED
  BY <1>2, <1>3

\* What the Remove of the internal queue leaves when it looks down to level t.
Scanned(t) ==
    [l \in Level |-> IF l <= t THEN ScanLevel(l)
                     ELSE [kept |-> items[l], usage |-> usage[l]]]

LEMMA ScannedKeeps ==
  ASSUME ItemsOK, NEW t, NEW k \in Level
  PROVE  /\ TakenFrom(Scanned(t)[k].kept, items[k], Len(items[k]))
         /\ Scanned(t)[k].usage \in 0..Ratio[k]
<1>1. LevelOK(k) /\ usage[k] \in 0..Ratio[k]
  BY LevelsOK DEF LevelOK
<1>2. CASE k <= t
  <2>1. Scanned(t)[k] = ScanLevel(k)
    BY <1>2 DEF Scanned
  <2> QED
    BY <1>1, <2>1, ScanLevelKeeps
<1>3. CASE ~(k <= t)
  <2>1. Scanned(t)[k] = [kept |-> items[k], usage |-> usage[k]]
    BY <1>3 DEF Scanned
  <2> QED
    BY <1>1, <2>1, AllIsTaken
<1> QED
  BY <1>2, <1>3

\* The level a Remove of the internal queue takes from is the first that gives.
LEMMA FirstGiver ==
  ASSUME NEW scanned, Givers(scanned) # {}
  PROVE  /\ Min(Givers(scanned)) \in Givers(scanned)
         /\ Min(Givers(scanned)) \in Level
         /\ \A l \in Level : l < Min(Givers(scanned)) => scanned[l].taken = {}
<1> DEFINE G == Givers(scanned)
<1>1. G \subseteq Level /\ Level \subseteq Nat /\ \A l \in Level : l \notin G => scanned[l].taken = {}
  BY MessageQueueAssumption DEF Givers, Level
<1> HIDE DEF G
<1>2. \E x \in G : \A y \in G : x <= y
  BY <1>1, LeastNumber DEF G
<1>3. Min(G) \in G /\ \A y \in G : Min(G) <= y
  BY <1>2, Zenon DEF Min
<1>4. ASSUME NEW l \in Level, l < Min(G)
      PROVE  l \notin G
  <2> DEFINE t == Min(G)
  <2>1. t \in Nat /\ l \in Nat /\ l < t /\ \A y \in G : t <= y
    BY <1>1, <1>3, <1>4, Zenon
  <2> HIDE DEF t
  <2> QED
    BY <2>1
<1> QED
  BY <1>1, <1>3, <1>4 DEF G

\* TakeInternal and NothingInternal, with their local definitions named.
LEMMA TakeInternalFacts ==
  ASSUME TakeInternal
  PROVE  \E t \in Level : \E m :
           /\ m \in ScanLevel(t).taken
           /\ \A l \in Level : l < t => ScanLevel(l).taken = {}
           /\ Refill(Scanned(t), t, <<>>)
           /\ window' = IF IsContent(m) THEN WindowOf(m) ELSE window
<1> DEFINE scanned == [l \in Level |-> ScanLevel(l)]
           t == Min(Givers(scanned))
<1>1. /\ Givers(scanned) # {}
      /\ Refill([l \in Level |->
                   IF l <= t THEN scanned[l]
                   ELSE [kept |-> items[l], usage |-> usage[l]]], t, <<>>)
      /\ \E m \in scanned[t].taken : window' = IF IsContent(m) THEN WindowOf(m) ELSE window
  BY Zenon DEF TakeInternal
<1>2. t \in Level /\ \A l \in Level : l < t => scanned[l].taken = {}
  BY <1>1, FirstGiver, Zenon
<1>3. \A l \in Level : scanned[l] = ScanLevel(l)
  OBVIOUS
<1> HIDE DEF scanned, t
<1>4. Scanned(t) = [l \in Level |-> IF l <= t THEN scanned[l]
                                    ELSE [kept |-> items[l], usage |-> usage[l]]]
  BY <1>3, Zenon DEF Scanned
<1> QED
  BY <1>1, <1>2, <1>3, <1>4, Zenon

LEMMA NothingInternalFacts ==
  ASSUME NothingInternal
  PROVE  /\ Refill(Scanned(NumLevels), 1, <<>>)
         /\ \A l \in Level : ScanLevel(l).taken = {}
<1> DEFINE scanned == [l \in Level |-> ScanLevel(l)]
<1>1. Givers(scanned) = {} /\ Refill(scanned, 1, <<>>)
  BY Zenon DEF NothingInternal
<1>2. \A l \in Level : l <= NumLevels
  BY MessageQueueAssumption DEF Level
<1>3. scanned = Scanned(NumLevels)
  BY <1>2, Zenon DEF Scanned
<1>4. \A l \in Level : ScanLevel(l).taken = {}
  BY <1>1 DEF Givers
<1> QED
  BY <1>1, <1>3, <1>4, Zenon

LEMMA InitTypes == ASSUME Init PROVE TypeInv
<1> USE MessageQueueAssumption
<1>1. ItemsOK
  <2>1. \A l \in Level : items[l] = <<>> /\ usage[l] = 0 /\ ToSet(items[l]) = {}
    BY DEF Init, ToSet
  <2>2. expired = {} /\ items \in [Level -> Seq(Msg)] /\ usage \in [Level -> Nat]
    BY DEF Init
  <2> QED
    BY <2>1, <2>2 DEF ItemsOK, IsInjective
<1>2. RestOK
  <2>1. NumLevels \in Nat \ {0} /\ 1 \in Level
    BY DEF Level
  <2>2. window = [main |-> FALSE, inter |-> FALSE, pri |-> 1]
    BY DEF Init, NoWindow
  <2>3. window \in [main : BOOLEAN, inter : BOOLEAN, pri : Level]
    BY <2>1, <2>2
  <2>4. scan \in [at : 0..NumLevels, again : BOOLEAN] /\ ~Locked
    BY <2>1 DEF Init, NoScan, Locked
  <2>5. equalInterrupt \in BOOLEAN
    BY DEF Init
  <2>6. /\ kind \in {"plain", "internal"} /\ threshold \in {Open, Closed}
        /\ sem \in 0..1 /\ consumer \in {"waiting", "removing"}
        /\ bypassed \in [Level -> Nat]
    BY DEF Init
  <2>7. clearing \in BOOLEAN /\ expired = {}
    BY DEF Init
  <2> QED
    BY <2>3, <2>4, <2>5, <2>6, <2>7, Zenon DEF RestOK
<1> QED
  BY <1>1, <1>2 DEF TypeInv

LEMMA SameItems ==
  ASSUME ItemsOK, UNCHANGED <<items, usage, expired>>
  PROVE  ItemsOK'
BY DEF ItemsOK, Queued

\* A message that is handed out, or a level that starts over, at level l.
LEMMA LevelTypes ==
  ASSUME ItemsOK, expired = {}, expired' = {}, NEW l \in Level,
         items' = items \/ (items[l] # <<>> /\ items' = [items EXCEPT ![l] = Tail(@)]),
         NEW u \in 0..Ratio[l], usage' = [usage EXCEPT ![l] = u]
  PROVE  ItemsOK'
<1>1. \A k \in Level : Ratio[k] \in Nat
  BY MessageQueueAssumption
<1>2. usage' \in [Level -> Nat] /\ \A k \in Level : usage'[k] \in 0..Ratio[k]
  BY <1>1 DEF ItemsOK
<1>3. ASSUME NEW k \in Level
      PROVE  /\ items'[k] \in Seq(Msg)
             /\ \A m \in ToSet(items'[k]) : LevelOf[m] = k
             /\ IsInjective(items'[k])
  <2> DEFINE old == items[k]
  <2>1. /\ old \in Seq(Msg) /\ \A m \in ToSet(old) : LevelOf[m] = k
        /\ IsInjective(old)
    BY DEF ItemsOK
  <2>2. items'[k] = old \/ (old # <<>> /\ items'[k] = Tail(old))
    BY DEF ItemsOK
  <2> HIDE DEF old
  <2>3. CASE old # <<>> /\ items'[k] = Tail(old)
    <3> DEFINE now == Tail(old)
    <3>1. /\ now \in Seq(Msg) /\ DOMAIN old = 1..Len(old) /\ DOMAIN now = 1..(Len(old) - 1)
          /\ \A a \in 1..(Len(old) - 1) : now[a] = old[a + 1] /\ a + 1 \in 1..Len(old)
      BY <2>1, <2>3
    <3>2. \A a \in DOMAIN old : old[a] \in ToSet(old)
      BY DEF ToSet
    <3> HIDE DEF now
    <3>3. \A a \in DOMAIN now : LevelOf[now[a]] = k
      BY <2>1, <3>1, <3>2
    <3>4. IsInjective(now)
      <4> SUFFICES ASSUME NEW a \in DOMAIN now, NEW b \in DOMAIN now, now[a] = now[b]
                   PROVE  a = b
        BY DEF IsInjective
      <4>1. a + 1 = b + 1
        BY <2>1, <3>1 DEF IsInjective
      <4> QED
        BY <3>1, <4>1
    <3>5. \A m \in ToSet(now) : LevelOf[m] = k
      BY <3>3, Zenon DEF ToSet
    <3>6. items'[k] = now
      BY <2>3 DEF now
    <3> QED
      BY <3>1, <3>4, <3>5, <3>6, Zenon
  <2> QED
    BY <2>1, <2>2, <2>3, Zenon
<1>4. items' \in [Level -> Seq(Msg)]
  BY <1>3 DEF ItemsOK
<1> QED
  BY <1>2, <1>3, <1>4 DEF ItemsOK

LEMMA AfterLevelTypes ==
  ASSUME RestOK, Locked, NEW again \in BOOLEAN, AfterLevel(again)
  PROVE  /\ scan' \in [at : 0..NumLevels, again : BOOLEAN]
         /\ consumer' \in {"waiting", "removing"}
<1>1. NumLevels \in Nat \ {0} /\ scan.at \in 0..NumLevels
  BY MessageQueueAssumption DEF RestOK
<1>2. CASE scan.at < NumLevels /\ scan' = [at |-> scan.at + 1, again |-> again] /\ UNCHANGED consumer
  <2>1. scan.at + 1 \in 0..NumLevels
    BY <1>1, <1>2
  <2> QED
    BY <1>2, <2>1 DEF RestOK
<1>3. CASE scan' = [at |-> 1, again |-> FALSE] /\ UNCHANGED consumer
  BY <1>1, <1>3 DEF RestOK
<1>4. CASE scan' = NoScan /\ consumer' = "waiting"
  BY <1>1, <1>4 DEF NoScan
<1> QED
  BY <1>2, <1>3, <1>4 DEF AfterLevel

LEMMA NextTypes == ASSUME TypeInv, [Next]_vars PROVE TypeInv'
<1> USE DEF settings, starvation
<1>1. /\ ItemsOK /\ RestOK
      /\ kind \in {"plain", "internal"}
      /\ \A l \in Level : usage[l] \in 0..Ratio[l] /\ Ratio[l] \in Nat \ {0} /\ usage[l] \in Nat
      /\ usage \in [Level -> Nat]
  BY MessageQueueAssumption DEF TypeInv, ItemsOK, RestOK
<1>2. ASSUME NEW m \in Msg, Produce(m) PROVE TypeInv'
  <2>1. /\ Refill(Flushed(TagsFlushedBy(m)), LevelOf[m], <<m>>) /\ m \notin Queued
        /\ sem' = 1 /\ UNCHANGED <<settings, starvation, consumer, scan, bypassed>>
    BY <1>2 DEF Produce
  <2>2. LevelOf[m] \in Level /\ m \in Msg \ Queued
    BY <2>1, MessageQueueAssumption
  <2>3. ItemsOK'
    BY <1>1, <2>1, <2>2, FlushedKeeps, RefillTypes
  <2>4. kind = "plain" => expired' = {}
    BY <1>1, <2>1 DEF Refill, RestOK
  <2>5. RestOK'
    BY <1>1, <2>1, <2>4 DEF RestOK, Locked
  <2> QED
    BY <2>3, <2>5 DEF TypeInv
<1>3. CASE FlushAllPersistedButPB
  <2>1. /\ Refill(Flushed(ContentTags \ {PBTag}), 1, <<>>) /\ kind = "internal"
        /\ UNCHANGED <<settings, starvation, sem, consumer, scan, bypassed>>
    BY <1>3 DEF FlushAllPersistedButPB
  <2>2. 1 \in Level
    BY MessageQueueAssumption DEF Level
  <2>3. ItemsOK'
    BY <1>1, <2>1, <2>2, FlushedKeeps, RefillTypes
  <2>4. RestOK'
    BY <1>1, <2>1 DEF RestOK, Locked
  <2> QED
    BY <2>3, <2>4 DEF TypeInv
<1>4. CASE SetQueueStarvation
  <2>1. ItemsOK' /\ bypassed' \in [Level -> Nat]
    BY <1>1, <1>4, SameItems DEF SetQueueStarvation, RestOK
  <2> QED
    BY <1>1, <1>4, <2>1 DEF SetQueueStarvation, RestOK, TypeInv, Locked
<1>5. CASE ClearQueueStarvation \/ SignalCleared
  <2>1. ItemsOK'
    BY <1>1, <1>5, SameItems DEF ClearQueueStarvation, SignalCleared
  <2>2. threshold' \in {Open, Closed} /\ sem' \in 0..1
    BY <1>1, <1>5 DEF ClearQueueStarvation, SignalCleared, RestOK
  <2>4. clearing' \in BOOLEAN
    BY <1>5 DEF ClearQueueStarvation, SignalCleared
  <2>3. UNCHANGED <<kind, equalInterrupt, window, expired, consumer, scan, bypassed>>
    BY <1>5 DEF ClearQueueStarvation, SignalCleared
  <2> QED
    BY <1>1, <2>1, <2>2, <2>3, <2>4 DEF RestOK, TypeInv, Locked
<1>6. CASE ClearContentWindow \/ StarveTimeOut
  <2>1. ItemsOK'
    BY <1>1, <1>6, SameItems DEF ClearContentWindow, StarveTimeOut
  <2>2. 1 \in Level
    BY MessageQueueAssumption DEF Level
  <2>3. window' \in [main : BOOLEAN, inter : BOOLEAN, pri : Level]
    <3>1. window \in [main : BOOLEAN, inter : BOOLEAN, pri : Level]
      BY <1>1 DEF RestOK
    <3>2. \/ window' = [main |-> FALSE, inter |-> FALSE, pri |-> 1]
          \/ window' = [window EXCEPT !.inter = FALSE]
          \/ window' = [window EXCEPT !.main = FALSE]
      BY <1>6 DEF ClearContentWindow, StarveTimeOut, NoWindow
    <3>3. [window EXCEPT !.inter = FALSE] \in [main : BOOLEAN, inter : BOOLEAN, pri : Level]
      BY <3>1, Zenon
    <3>4. [window EXCEPT !.main = FALSE] \in [main : BOOLEAN, inter : BOOLEAN, pri : Level]
      BY <3>1, Zenon
    <3>5. [main |-> FALSE, inter |-> FALSE, pri |-> 1]
            \in [main : BOOLEAN, inter : BOOLEAN, pri : Level]
      BY <2>2
    <3> QED
      BY <3>2, <3>3, <3>4, <3>5, Zenon
  <2> QED
    BY <1>1, <1>6, <2>1, <2>3 DEF ClearContentWindow, StarveTimeOut, RestOK, TypeInv, Locked
<1>7. ASSUME NEW m \in Msg, Expire(m) PROVE TypeInv'
  <2>1. ItemsOK'
    BY <1>1, <1>7 DEF Expire, ItemsOK, Queued
  <2> QED
    BY <1>1, <1>7, <2>1 DEF Expire, RestOK, TypeInv, Locked
<1>8. CASE Wake
  BY <1>1, <1>8, SameItems DEF Wake, RestOK, TypeInv, Locked
<1>9. CASE StartRemove
  <2>1. ItemsOK' /\ 1 \in 0..NumLevels
    BY <1>1, <1>9, SameItems, MessageQueueAssumption DEF StartRemove
  <2> QED
    BY <1>1, <1>9, <2>1 DEF StartRemove, RestOK, TypeInv, Locked
<1>10. ASSUME Locked PROVE kind = "plain" /\ expired = {} /\ scan.at \in Level
  BY <1>1, <1>10, MessageQueueAssumption DEF RestOK, Locked, Level
<1>11. CASE TakeFromLevel
  <2>1. Locked /\ usage[scan.at] + 1 \in 0..Ratio[scan.at]
    BY <1>1, <1>10, <1>11 DEF TakeFromLevel
  <2>2. ItemsOK'
    BY <1>1, <1>10, <1>11, <2>1, LevelTypes DEF TakeFromLevel
  <2>3. bypassed' \in [Level -> Nat] /\ scan' \in [at : 0..NumLevels, again : BOOLEAN]
    BY <1>1, <1>11, MessageQueueAssumption DEF TakeFromLevel, BypassedBy, RestOK, NoScan
  <2> QED
    BY <1>1, <1>10, <1>11, <2>1, <2>2, <2>3 DEF TakeFromLevel, RestOK, TypeInv
<1>12. CASE PassLevel
  <2> DEFINE again == scan.again \/ items[scan.at] # <<>>
  <2>1. again \in BOOLEAN /\ Locked /\ AfterLevel(again)
    BY <1>12 DEF PassLevel
  <2>2. /\ scan' \in [at : 0..NumLevels, again : BOOLEAN]
        /\ consumer' \in {"waiting", "removing"}
    BY <1>1, <2>1, AfterLevelTypes
  <2>3. 0 \in 0..Ratio[scan.at]
    BY <1>1, <1>10, <2>1
  <2>4. ItemsOK'
    BY <1>1, <1>10, <1>12, <2>1, <2>3, LevelTypes DEF PassLevel
  <2> QED
    BY <1>1, <1>10, <1>12, <2>1, <2>2, <2>4 DEF PassLevel, RestOK, TypeInv
<1>13. CASE PassClosedLevel
  <2>1. scan.again \in BOOLEAN /\ Locked /\ AfterLevel(scan.again)
    BY <1>1, <1>13 DEF PassClosedLevel, RestOK
  <2>2. /\ scan' \in [at : 0..NumLevels, again : BOOLEAN]
        /\ consumer' \in {"waiting", "removing"}
    BY <1>1, <2>1, AfterLevelTypes
  <2>3. ItemsOK'
    BY <1>1, <1>13, SameItems DEF PassClosedLevel
  <2> QED
    BY <1>1, <1>10, <1>13, <2>1, <2>2, <2>3 DEF PassClosedLevel, RestOK, TypeInv
<1>14. CASE TakeInternal
  <2>1. PICK t \in Level : \E m :
          /\ m \in ScanLevel(t).taken
          /\ Refill(Scanned(t), t, <<>>)
          /\ window' = IF IsContent(m) THEN WindowOf(m) ELSE window
    BY <1>14, TakeInternalFacts
  <2>2. ItemsOK'
    BY <1>1, <2>1, ScannedKeeps, RefillTypes
  <2>3. ScanLevel(t).taken \in SUBSET Msg /\ 1 \in Level
    BY <1>1, <2>1, LevelsOK, ScanLevelKeeps, MessageQueueAssumption DEF Level
  <2>4. window' \in [main : BOOLEAN, inter : BOOLEAN, pri : Level]
    <3>1. PICK m \in Msg : window' = IF IsContent(m) THEN WindowOf(m) ELSE window
      BY <2>1, <2>3
    <3>2. ScreenOf[m] \in Level
      BY MessageQueueAssumption
    <3> QED
      BY <1>1, <2>3, <3>1, <3>2 DEF WindowOf, NoWindow, RestOK
  <2>5. kind = "internal" /\ UNCHANGED <<settings, threshold, clearing, sem, consumer, scan, bypassed>>
    BY <1>14 DEF TakeInternal
  <2> QED
    BY <1>1, <2>2, <2>4, <2>5 DEF RestOK, TypeInv, Locked
<1>15. CASE NothingInternal
  <2>1. Refill(Scanned(NumLevels), 1, <<>>) /\ 1 \in Level
    BY <1>15, NothingInternalFacts, MessageQueueAssumption DEF Level
  <2>2. ItemsOK'
    BY <1>1, <2>1, ScannedKeeps, RefillTypes
  <2>3. kind = "internal" /\ consumer' = "waiting"
        /\ UNCHANGED <<settings, starvation, sem, scan, bypassed>>
    BY <1>15 DEF NothingInternal
  <2> QED
    BY <1>1, <2>2, <2>3 DEF RestOK, TypeInv, Locked
<1>16. CASE UNCHANGED vars
  <2>1. ItemsOK'
    BY <1>1, <1>16, SameItems DEF vars
  <2> QED
    BY <1>1, <1>16, <2>1 DEF vars, RestOK, TypeInv, Locked
<1>17. CASE SetInterruptible
  <2>1. ItemsOK'
    BY <1>1, <1>17, SameItems DEF SetInterruptible
  <2>2. equalInterrupt' \in BOOLEAN /\ kind = "internal"
    BY <1>17 DEF SetInterruptible
  <2> QED
    BY <1>1, <1>17, <2>1, <2>2 DEF SetInterruptible, RestOK, TypeInv, Locked
<1> QED
  BY <1>2, <1>3, <1>4, <1>5, <1>6, <1>7, <1>8, <1>9, <1>11, <1>12, <1>13, <1>14, <1>15,
     <1>16, <1>17 DEF Next, RemoveStep

\* TypeInv holds in every reachable state.
THEOREM TypeInvariance == Spec => []TypeInv
BY InitTypes, NextTypes, PTL DEF Spec

\* Type correctness; a message is queued once, at its own level, and the uses
\* of a level never exceed its ratio (SubQueue.cpp).
THEOREM TypeCorrectness == Spec => []TypeOK
<1>1. TypeInv => TypeOK
  BY DEF TypeInv, ItemsOK, RestOK, TypeOK
<1> QED
  BY <1>1, TypeInvariance, PTL

-----------------------------------------------------------------------------
(* What a flush leaves *)

LEMMA RefillIs ==
  ASSUME ItemsOK, NEW tags, NEW new, NEW l \in Level,
         Refill(Flushed(tags), l, new),
         new = <<>> \/ \E m \in Msg : new = <<m>>
  PROVE  \A k \in Level : \E n \in {<<>>} \cup {<<m>> : m \in Msg} :
           items'[k] = (IF tags = {} THEN items[k] ELSE Without(items[k], tags)) \o n
<1> SUFFICES ASSUME NEW k \in Level
             PROVE  \E n \in {<<>>} \cup {<<m>> : m \in Msg} :
                      items'[k] = (IF tags = {} THEN items[k]
                                   ELSE Without(items[k], tags)) \o n
  OBVIOUS
<1> DEFINE kept == Flushed(tags)[k].kept
<1>1. kept = (IF tags = {} THEN items[k] ELSE Without(items[k], tags)) /\ kept \in Seq(Msg)
  BY FlushedKeeps DEF TakenFrom
<1>2. items'[k] = IF k = l THEN kept \o new ELSE kept
  BY Zenon DEF Refill
<1>3. kept \o <<>> = kept
  BY <1>1
<1>4. items'[k] = kept \o new \/ items'[k] = kept \o <<>>
  BY <1>2, <1>3, Zenon
<1> HIDE DEF kept
<1> QED
  BY <1>1, <1>4, Zenon

LEMMA FlushCovers ==
  ASSUME ItemsOK, NEW tags, NEW new, NEW l \in Level,
         Refill(Flushed(tags), l, new),
         new = <<>> \/ \E m \in Msg : new = <<m>>
  PROVE  Covers(tags)
<1>1. \A k \in Level : items[k] \in Seq(Msg)
  BY DEF ItemsOK
<1>2. \A k \in Level : (IF tags = {} THEN items[k] ELSE Without(items[k], tags))
                          = Without(items[k], tags)
  BY <1>1, WithoutNone
<1> QED
  BY <1>2, RefillIs, Zenon DEF Covers

\* A refill queues nothing but what it adds.
LEMMA RefillAdds ==
  ASSUME ItemsOK, NEW left,
         \A k \in Level : TakenFrom(left[k].kept, items[k], Len(items[k])),
         NEW l \in Level, NEW new, new = <<>> \/ \E m \in Msg : new = <<m>>,
         Refill(left, l, new)
  PROVE  \A m \in Queued' : m \in Queued \/ new = <<m>>
<1> SUFFICES ASSUME NEW m \in Queued', new # <<m>>
             PROVE  m \in Queued
  OBVIOUS
<1>1. PICK k \in Level : m \in ToSet(items'[k])
  BY DEF Queued
<1> DEFINE kept == left[k].kept
<1>2. /\ kept \in Seq(Msg) /\ items[k] \in Seq(Msg)
      /\ \A a \in 1..Len(kept) : \E b \in 1..Len(items[k]) : kept[a] = items[k][b]
  BY DEF TakenFrom, ItemsOK
<1>3. items'[k] = IF k = l THEN kept \o new ELSE kept
  BY Zenon DEF Refill
<1> HIDE DEF kept
<1>4. \E a \in 1..Len(kept) : kept[a] = m
  <2>1. items'[k] = kept \o new \/ items'[k] = kept
    BY <1>3
  <2>2. PICK a \in DOMAIN items'[k] : items'[k][a] = m
    BY <1>1 DEF ToSet
  <2>3. CASE items'[k] = kept \/ new = <<>>
    BY <1>2, <2>1, <2>2, <2>3
  <2>4. ASSUME NEW x \in Msg, new = <<x>>, items'[k] = kept \o new
        PROVE  \E b \in 1..Len(kept) : kept[b] = m
    <3>1. x # m /\ items'[k] = Append(kept, x)
      BY <1>2, <2>4
    <3>2. /\ DOMAIN Append(kept, x) = 1..(Len(kept) + 1)
          /\ Append(kept, x)[Len(kept) + 1] = x
          /\ \A b \in 1..Len(kept) : Append(kept, x)[b] = kept[b]
      BY <1>2
    <3>3. a # Len(kept) + 1 /\ a \in 1..(Len(kept) + 1)
      BY <2>2, <3>1, <3>2
    <3>4. a \in 1..Len(kept)
      BY <1>2, <3>3
    <3> QED
      BY <2>2, <3>1, <3>2, <3>4
  <2> QED
    BY <2>1, <2>3, <2>4
<1>5. m \in ToSet(items[k])
  BY <1>2, <1>4 DEF ToSet
<1> QED
  BY <1>5 DEF Queued

\* Every other step leaves the queue as it is or takes a message out.
LEMMA OthersAddNothing ==
  ASSUME TypeInv, [Next]_vars, \A m \in Msg : ~Produce(m), NEW x \in Queued'
  PROVE  x \in Queued
<1>1. ItemsOK /\ RestOK
  BY DEF TypeInv
<1>2. CASE UNCHANGED items
  BY <1>2 DEF Queued
<1>3. CASE FlushAllPersistedButPB
  <2>1. Refill(Flushed(ContentTags \ {PBTag}), 1, <<>>) /\ 1 \in Level
    BY <1>3, MessageQueueAssumption DEF FlushAllPersistedButPB, Level
  <2>2. <<>> # <<x>>
    OBVIOUS
  <2> QED
    BY <1>1, <2>1, <2>2, FlushedKeeps, RefillAdds
<1>4. CASE TakeInternal
  <2>1. PICK t \in Level : Refill(Scanned(t), t, <<>>)
    BY <1>4, TakeInternalFacts
  <2>2. <<>> # <<x>>
    OBVIOUS
  <2> QED
    BY <1>1, <2>1, <2>2, ScannedKeeps, RefillAdds
<1>5. CASE NothingInternal
  <2>1. Refill(Scanned(NumLevels), 1, <<>>) /\ 1 \in Level
    BY <1>5, NothingInternalFacts, MessageQueueAssumption DEF Level
  <2>2. <<>> # <<x>>
    OBVIOUS
  <2> QED
    BY <1>1, <2>1, <2>2, ScannedKeeps, RefillAdds
<1>6. CASE TakeFromLevel
  <2> DEFINE l == scan.at
  <2>1. l \in Level /\ items \in [Level -> Seq(Msg)] /\ items[l] # <<>>
        /\ items' = [items EXCEPT ![l] = Tail(@)]
    BY <1>1, <1>6, MessageQueueAssumption DEF TakeFromLevel, Locked, RestOK, ItemsOK, Level
  <2> HIDE DEF l
  <2>2. PICK k \in Level : x \in ToSet(items'[k])
    BY DEF Queued
  <2>3. PICK a \in DOMAIN items'[k] : items'[k][a] = x
    BY <2>2 DEF ToSet
  <2>4. \E b \in DOMAIN items[k] : items[k][b] = x
    <3>1. CASE k = l
      <4>1. /\ items'[k] = Tail(items[k]) /\ items[k] \in Seq(Msg) /\ items[k] # <<>>
        BY <2>1, <3>1
      <4>2. a + 1 \in DOMAIN items[k] /\ items[k][a + 1] = x
        BY <2>3, <4>1
      <4> QED
        BY <4>2
    <3>2. CASE k # l
      BY <2>1, <2>3, <3>2
    <3> QED
      BY <3>1, <3>2
  <2> QED
    BY <2>4 DEF ToSet, Queued
<1>7. \/ UNCHANGED items \/ FlushAllPersistedButPB \/ TakeInternal \/ NothingInternal
      \/ TakeFromLevel
  BY DEF Next, RemoveStep, vars, SetQueueStarvation, ClearQueueStarvation, SignalCleared,
     ClearContentWindow, StarveTimeOut, SetInterruptible, Expire, Wake, StartRemove, PassLevel,
     PassClosedLevel
<1> QED
  BY <1>2, <1>3, <1>4, <1>5, <1>6, <1>7

LEMMA StepFlushes ==
  ASSUME TypeInv, [Next]_vars
  PROVE  /\ FlushAllPersistedButPB => Covers(ContentTags \ {PBTag})
         /\ \A m \in Queued' \ Queued : Covers(TagsFlushedBy(m))
<1>1. ItemsOK
  BY DEF TypeInv
<1>2. ASSUME FlushAllPersistedButPB PROVE Covers(ContentTags \ {PBTag})
  <2>1. Refill(Flushed(ContentTags \ {PBTag}), 1, <<>>) /\ 1 \in Level
    BY <1>2, MessageQueueAssumption DEF FlushAllPersistedButPB, Level
  <2> QED
    BY <1>1, <2>1, FlushCovers
<1>3. ASSUME NEW m \in Queued' \ Queued PROVE Covers(TagsFlushedBy(m))
  <2>1. PICK p \in Msg : Produce(p)
    BY OthersAddNothing
  <2>2. Refill(Flushed(TagsFlushedBy(p)), LevelOf[p], <<p>>) /\ LevelOf[p] \in Level
    BY <2>1, MessageQueueAssumption DEF Produce
  <2>3. <<p>> = <<m>>
    BY <1>1, <2>2, FlushedKeeps, RefillAdds
  <2>4. p = m
    BY <2>3
  <2> QED
    BY <1>1, <2>2, <2>4, FlushCovers
<1> QED
  BY <1>2, <1>3

\* After a flush nothing that it covers is queued, not even in a level that is
\* at its ratio, and everything else still is, in the same order
\* (InternalMessageQueueList.cpp:522-612, 418-443).
THEOREM FlushesReachAll == Spec => FlushReachesAll
BY TypeInvariance, StepFlushes, PTL DEF Spec, FlushReachesAll

-----------------------------------------------------------------------------
(* What a Remove of the internal queue skips *)

\* After a Remove that looked at level l, the messages of l that are still
\* queued are those the pass over l kept.
LEMMA StaysIfKept ==
  ASSUME ItemsOK, ItemsOK', NEW t, NEW l \in Level, l <= t, NEW l0,
         Refill(Scanned(t), l0, <<>>), NEW j \in 1..Len(items[l])
  PROVE  items[l][j] \in Queued' <=>
           \E a \in 1..Len(ScanLevel(l).kept) : ScanLevel(l).kept[a] = items[l][j]
<1> DEFINE kept == ScanLevel(l).kept
           m == items[l][j]
<1>1. LevelOK(l)
  BY LevelsOK
<1>2. kept \in Seq(Msg) /\ kept \o <<>> = kept
  BY <1>1, ScanLevelKeeps DEF TakenFrom
<1>3. items'[l] = kept
  <2>1. items'[l] = IF l = l0 THEN Scanned(t)[l].kept \o <<>> ELSE Scanned(t)[l].kept
    BY Zenon DEF Refill
  <2>2. Scanned(t)[l] = ScanLevel(l)
    BY DEF Scanned
  <2> QED
    BY <1>2, <2>1, <2>2
<1>4. m \in ToSet(items[l]) /\ LevelOf[m] = l
  <2>1. m \in ToSet(items[l])
    BY <1>1 DEF LevelOK, ToSet
  <2> QED
    BY <2>1 DEF ItemsOK
<1>5. m \in Queued' => m \in ToSet(items'[l])
  <2> SUFFICES ASSUME m \in Queued'
               PROVE  m \in ToSet(items'[l])
    OBVIOUS
  <2>1. PICK k \in Level : m \in ToSet(items'[k])
    BY DEF Queued
  <2>2. LevelOf[m] = k
    BY <2>1, Zenon DEF ItemsOK
  <2> QED
    BY <1>4, <2>1, <2>2
<1>6. m \in ToSet(items'[l]) => m \in Queued'
  BY DEF Queued
<1> HIDE DEF m, kept
<1>7. m \in ToSet(kept) <=> \E a \in 1..Len(kept) : kept[a] = m
  BY <1>2 DEF ToSet
<1> QED
  BY <1>3, <1>5, <1>6, <1>7 DEF m, kept

LEMMA SkippedOnce ==
  ASSUME ItemsOK, ItemsOK', NEW t, NEW l \in Level, l <= t, NEW l0,
         Refill(Scanned(t), l0, <<>>)
  PROVE  Cardinality(PassedOver(l)) <= 1 + Cardinality(Dropped(l))
<1> DEFINE s == items[l]
           n == Len(s)
<1>1. /\ LevelOK(l) /\ s \in Seq(Msg) /\ usage[l] \in Nat /\ n \in Nat /\ DOMAIN s = 1..n
      /\ \A a, b \in 1..n : s[a] = s[b] => a = b
      /\ Ratio[l] \in Nat
  <2>1. LevelOK(l)
    BY LevelsOK
  <2>2. Ratio[l] \in Nat
    BY MessageQueueAssumption
  <2> QED
    BY <2>1, <2>2 DEF LevelOK
<1>2. PICK f : ScanRun(f, l)
  BY <1>1, ScanRuns, Zenon
<1>3. /\ ScanLevel(l) = f[n] /\ \A i \in 0..n : f[i].usage \in Nat
      /\ \A i \in 0..n : ScanState(f, l, i)
  <2>1. f \in [0..n -> ScanAcc] /\ ScanLevel(l) = f[n]
    BY <1>2 DEF ScanRun
  <2>2. \A i \in 0..n : ScanState(f, l, i)
    BY <1>1, <1>2, ScanKeeps, Zenon
  <2> HIDE DEF n
  <2> QED
    BY <2>1, <2>2 DEF ScanAcc
<1>4. \A j \in 1..n : s[j] \in Queued' <=> \E a \in 1..Len(f[n].kept) : f[n].kept[a] = s[j]
  BY <1>3, StaysIfKept
<1>5. ScanState(f, l, n)
  BY <1>1, <1>3
<1>6. \A j \in 1..n : s[j] \in f[n].taken => s[j] \notin Queued' \cup expired
  BY <1>4, <1>5, Zenon DEF ScanState
<1>7. PassedOver(l) \subseteq Skips(f, l)
  <2> SUFFICES ASSUME NEW i \in PassedOver(l)
               PROVE  i \in Skips(f, l)
    OBVIOUS
  <2>1. /\ i \in 1..n /\ Eligible(l, s[i])
        /\ s[i] \in Queued' \cup expired
        /\ \A j \in 1..n : s[j] \notin Queued' \cup expired => i < j
    BY <1>1 DEF PassedOver
  <2>2. Leaves(f, l, i) \/ Gives(f, l, i)
    BY <1>1, <1>2, <2>1, ScanStep
  <2>3. i \in 0..n /\ i - 1 \in 0..n /\ s[i] \notin expired
    BY <1>1, <2>1 DEF Eligible
  <2>4. f[i - 1].taken = {}
    <3> SUFFICES ASSUME NEW m \in f[i - 1].taken
                 PROVE  FALSE
      OBVIOUS
    <3>1. PICK j \in 1..(i - 1) : s[j] = m
      BY <1>3, <2>3, Zenon DEF ScanState
    <3>2. m \in f[n].taken
      BY <1>5, <2>3, Zenon DEF ScanState
    <3>3. j \in 1..n /\ ~(i < j)
      BY <1>1, <2>1, <3>1
    <3> QED
      BY <1>6, <2>1, <3>1, <3>2, <3>3
  <2>5. ~Gives(f, l, i)
    <3> SUFFICES ASSUME Gives(f, l, i)
                 PROVE  FALSE
      OBVIOUS
    <3>1. i \notin Drops(f, l)
      BY <2>3 DEF Drops
    <3>2. f[i].taken = {s[i]}
      BY <3>1, Zenon DEF Gives
    <3>3. f[n].taken = {s[i]}
      BY <1>5, <2>3, <3>2 DEF ScanState
    <3> QED
      BY <1>6, <2>1, <3>3
  <2>6. f[i - 1].usage >= Ratio[l]
    BY <2>1, <2>2, <2>4, <2>5, Zenon DEF Leaves
  <2> QED
    BY <2>1, <2>4, <2>6 DEF Skips
<1>8. /\ Drops(f, l) \subseteq 1..n
      /\ \A j \in Drops(f, l) : s[j] \in Dropped(l)
  <2>1. Drops(f, l) \subseteq 1..n /\ \A j \in Drops(f, l) : s[j] \in expired
    BY DEF Drops
  <2>2. ASSUME NEW j \in Drops(f, l)
        PROVE  s[j] \notin Queued'
    <3>1. j \in 1..n /\ j <= n
      BY <1>1, <2>1
    <3>2. \A a \in 1..Len(f[n].kept) : f[n].kept[a] # s[j]
      BY <1>5, <3>1, Zenon DEF ScanState
    <3> QED
      BY <1>4, <3>1, <3>2
  <2>3. \A j \in 1..n : s[j] \in ToSet(s)
    BY <1>1 DEF ToSet
  <2> QED
    BY <2>1, <2>2, <2>3 DEF Dropped
<1>9. IsFiniteSet(1..n) /\ Cardinality(1..n) = n
  BY <1>1, FS_Interval
<1>10. IsFiniteSet(Dropped(l))
  <2>1. s \in Surjection(1..n, ToSet(s))
    BY <1>1 DEF ToSet, Surjection
  <2>2. IsFiniteSet(ToSet(s))
    BY <1>9, <2>1, FS_Surjection
  <2>3. Dropped(l) \in SUBSET ToSet(s)
    BY DEF Dropped
  <2> QED
    BY <2>2, <2>3, FS_Subset
<1>11. Cardinality(Drops(f, l)) <= Cardinality(Dropped(l))
  <2> DEFINE g == [j \in Drops(f, l) |-> s[j]]
  <2>1. g \in Injection(Drops(f, l), Dropped(l))
    BY <1>1, <1>8 DEF Injection, IsInjective
  <2> QED
    BY <1>10, <2>1, FS_Injection
<1>12. /\ IsFiniteSet(Skips(f, l))
       /\ Cardinality(PassedOver(l)) <= Cardinality(Skips(f, l))
  <2>1. Skips(f, l) \in SUBSET (1..n)
    BY DEF Skips
  <2>2. IsFiniteSet(Skips(f, l))
    BY <1>9, <2>1, FS_Subset
  <2> QED
    BY <1>7, <2>2, FS_Subset
<1>13. Cardinality(Skips(f, l)) <= 1 + Cardinality(Drops(f, l))
  BY <1>1, <1>2, ScanSkipsOne
<1>14. /\ Cardinality(PassedOver(l)) \in Nat /\ Cardinality(Skips(f, l)) \in Nat
       /\ Cardinality(Drops(f, l)) \in Nat /\ Cardinality(Dropped(l)) \in Nat
  <2>1. IsFiniteSet(PassedOver(l)) /\ IsFiniteSet(Drops(f, l))
    BY <1>7, <1>8, <1>9, <1>12, FS_Subset
  <2> QED
    BY <1>10, <1>12, <2>1, FS_CardinalityType
<1> QED
  BY <1>11, <1>12, <1>13, <1>14

LEMMA StepSkipsOne ==
  ASSUME TypeInv, TypeInv', [Next]_vars, NEW l \in Level, LookedAt(l)
  PROVE  Cardinality(PassedOver(l)) <= 1 + Cardinality(Dropped(l))
<1>1. /\ ItemsOK /\ ItemsOK' /\ RestOK /\ kind = "internal" /\ ~Locked
      /\ NumLevels \in Nat /\ l \in Nat /\ l <= NumLevels
  BY MessageQueueAssumption DEF TypeInv, RestOK, LookedAt, Level
<1>2. CASE consumer = "removing" /\ consumer' = "waiting"
  <2>1. NothingInternal
    BY <1>1, <1>2 DEF Next, RemoveStep, vars, settings, starvation, Produce,
       FlushAllPersistedButPB, SetQueueStarvation, ClearQueueStarvation, SignalCleared,
       ClearContentWindow, StarveTimeOut, SetInterruptible, Expire, Wake, StartRemove,
       TakeFromLevel,
       PassLevel, PassClosedLevel, TakeInternal
  <2>2. Refill(Scanned(NumLevels), 1, <<>>)
    BY <2>1, NothingInternalFacts
  <2> QED
    BY <1>1, <2>2, SkippedOnce
<1>3. CASE \E k \in Level, m \in Queued : /\ k >= l /\ m \in ToSet(items[k]) \ expired
                                          /\ TakeInternal /\ m \notin Queued'
  <2>1. PICK k \in Level, m \in Queued : /\ k >= l /\ m \in ToSet(items[k]) \ expired
                                         /\ TakeInternal /\ m \notin Queued'
    BY <1>3
  <2>2. PICK t \in Level : Refill(Scanned(t), t, <<>>)
    BY <2>1, TakeInternalFacts
  <2>3. k <= t
    <3> SUFFICES ASSUME ~(k <= t)
                 PROVE  FALSE
      OBVIOUS
    <3>1. Scanned(t)[k].kept = items[k]
      BY DEF Scanned
    <3>2. items[k] \in Seq(Msg) /\ k # t
      BY <1>1 DEF ItemsOK, Level
    <3>3. items'[k] = items[k]
      BY <2>2, <3>1, <3>2, Zenon DEF Refill
    <3> QED
      BY <2>1, <3>3 DEF Queued
  <2>4. l <= t
    BY <1>1, <2>1, <2>3 DEF Level
  <2> QED
    BY <1>1, <2>2, <2>4, SkippedOnce
<1> QED
  BY <1>2, <1>3 DEF LookedAt

\* Remove of the internal queue leaves at most one message of a level it looked
\* at behind that it could have handed out before what it took, one more for
\* every expired message it drops (InternalMessageQueueList.cpp:32-180).
THEOREM SkipsAtMostOne == Spec => AtMostOneSkipped
<1>1. TypeInv /\ TypeInv' /\ [Next]_vars =>
        \A l \in Level : LookedAt(l) => Cardinality(PassedOver(l)) <= 1 + Cardinality(Dropped(l))
  BY StepSkipsOne
<1> QED
  BY <1>1, TypeInvariance, PTL DEF Spec, AtMostOneSkipped

-----------------------------------------------------------------------------
(* No sleep on work.  What must be known while a plain Remove is under way *)
(* is what it has seen so far: if no signal is pending and no level        *)
(* yielded, the open levels it has passed are still empty, although the    *)
(* levels may be closed and opened meanwhile by a thread without the lock. *)
(* This survives because closing only takes levels out of the claim, and   *)
(* opening always comes with a signal after it.                            *)

\* Nothing has happened that the consumer will be told of.
Quiet == sem = 0 /\ ~clearing

\* What the argument needs of the types, for a plain queue.
PlainTypes ==
    /\ items \in [Level -> Seq(Msg)]
    /\ scan \in [at : 0..NumLevels, again : BOOLEAN]
    /\ threshold \in {Open, Closed}
    /\ Locked => consumer = "removing"

\* The levels that a Remove under way has passed.
PassedAreEmpty ==
    Locked /\ ~scan.again /\ Quiet =>
        \A l \in Level : l < scan.at /\ IsOpen(l) => items[l] = <<>>

SleepInv ==
    /\ kind \in {"plain", "internal"}
    /\ kind = "plain" => PlainTypes /\ PassedAreEmpty
    /\ NoWorkWhileAsleep

-----------------------------------------------------------------------------
\* Closing levels opens none.
LEMMA ClosingOpensNone ==
  ASSUME threshold \in {Open, Closed}, threshold' = Closed, NEW l \in Level,
         IsOpen(l)'
  PROVE  IsOpen(l)
BY MessageQueueAssumption DEF IsOpen, Level

\* No flush takes part in adding a message to a plain queue.
LEMMA PlainProduce ==
  ASSUME kind = "plain", NEW m \in Msg, Produce(m), PlainTypes
  PROVE  items' \in [Level -> Seq(Msg)]
<1>1. TagsFlushedBy(m) = {}
  BY DEF TagsFlushedBy
<1>2. \A k \in Level : Flushed({})[k].kept = items[k]
  BY DEF Flushed
<1>3. items' = [k \in Level |-> IF k = LevelOf[m] THEN items[k] \o <<m>>
                                ELSE items[k] \o <<>>]
  BY <1>1, <1>2 DEF Produce, Refill
<1> QED
  BY <1>3 DEF PlainTypes

LEMMA InitSleep == ASSUME Init PROVE SleepInv
BY MessageQueueAssumption
   DEF Init, SleepInv, PlainTypes, PassedAreEmpty, NoWorkWhileAsleep, NoScan, Locked, Level

-----------------------------------------------------------------------------
(* Steps of the consumer *)

\* Remove passes a level that is empty or closed, or one that yields.
LEMMA AfterLevelSleep ==
  ASSUME SleepInv, kind = "plain", Locked, NEW again \in BOOLEAN, AfterLevel(again),
         scan.again => again,
         ~again => (IsOpen(scan.at) => items[scan.at] = <<>>),
         UNCHANGED <<kind, items, threshold, clearing, sem>>
  PROVE  SleepInv'
<1> USE MessageQueueAssumption DEF SleepInv
<1>1. NumLevels \in Nat /\ scan.at \in Level /\ PlainTypes /\ consumer = "removing"
  BY DEF PlainTypes, Locked, Level
<1>2. \A l \in Level : IsOpen(l)' <=> IsOpen(l)
  BY DEF IsOpen
<1>3. CASE scan.at < NumLevels /\ scan' = [at |-> scan.at + 1, again |-> again]
           /\ UNCHANGED consumer
  <2>1. PlainTypes'
    <3>1. scan.at + 1 \in 0..NumLevels
      BY <1>1, <1>3 DEF Level
    <3>2. scan' \in [at : 0..NumLevels, again : BOOLEAN]
      BY <1>3, <3>1
    <3> QED
      BY <1>1, <1>3, <3>2 DEF PlainTypes
  <2>2. PassedAreEmpty'
    BY <1>1, <1>2, <1>3 DEF PassedAreEmpty, Quiet, Locked, Level
  <2>3. NoWorkWhileAsleep'
    BY <1>1, <1>3 DEF NoWorkWhileAsleep
  <2> QED
    BY <2>1, <2>2, <2>3
<1>4. CASE again /\ scan' = [at |-> 1, again |-> FALSE] /\ UNCHANGED consumer
  <2>1. PlainTypes'
    BY <1>1, <1>4 DEF PlainTypes, Locked, Level
  <2>2. PassedAreEmpty'
    BY <1>4 DEF PassedAreEmpty, Level
  <2>3. NoWorkWhileAsleep'
    BY <1>1, <1>4 DEF NoWorkWhileAsleep
  <2> QED
    BY <2>1, <2>2, <2>3
<1>5. CASE scan.at = NumLevels /\ ~again /\ scan' = NoScan /\ consumer' = "waiting"
  <2>1. PlainTypes' /\ PassedAreEmpty'
    BY <1>1, <1>5 DEF PlainTypes, PassedAreEmpty, Locked, NoScan, Level
  <2>2. NoWorkWhileAsleep'
    <3> SUFFICES ASSUME sem = 0, ~clearing, NEW l \in Level, IsOpen(l)
                 PROVE  items[l] = <<>>
      BY <1>2 DEF NoWorkWhileAsleep
    <3>1. CASE l = scan.at
      BY <3>1, <1>5
    <3>2. CASE l < scan.at
      BY <3>2, <1>1, <1>5 DEF PassedAreEmpty, Quiet
    <3> QED
      BY <3>1, <3>2, <1>1, <1>5 DEF Level
  <2> QED
    BY <2>1, <2>2
<1> QED
  BY <1>3, <1>4, <1>5 DEF AfterLevel

LEMMA RemoveSleep ==
  ASSUME SleepInv, kind = "plain", RemoveStep
  PROVE  SleepInv'
<1> USE MessageQueueAssumption DEF settings, starvation
<1>1. NumLevels \in Nat \ {0} /\ PlainTypes
  BY DEF SleepInv
<1>2. CASE StartRemove
  BY <1>1, <1>2 DEF StartRemove, SleepInv, PlainTypes, PassedAreEmpty,
     NoWorkWhileAsleep, Locked, Level
<1>3. CASE TakeFromLevel
  <2>1. scan.at \in Level /\ items' \in [Level -> Seq(Msg)]
    BY <1>1, <1>3 DEF TakeFromLevel, PlainTypes, Locked, Level
  <2>2. consumer = "removing"
    BY <1>1, <1>3 DEF TakeFromLevel, PlainTypes
  <2> QED
    BY <1>1, <1>3, <2>1, <2>2 DEF TakeFromLevel, SleepInv, PlainTypes, PassedAreEmpty,
       NoWorkWhileAsleep, Locked, NoScan
<1>4. CASE PassLevel
  <2> DEFINE again == scan.again \/ items[scan.at] # <<>>
  <2>1. again \in BOOLEAN
    OBVIOUS
  <2>2. AfterLevel(again) /\ Locked /\ UNCHANGED <<kind, items, threshold, clearing, sem>>
    BY <1>4 DEF PassLevel
  <2> QED
    BY <2>1, <2>2, AfterLevelSleep
<1>5. CASE PassClosedLevel
  <2>1. scan.again \in BOOLEAN
    BY <1>1 DEF PlainTypes
  <2>2. AfterLevel(scan.again) /\ Locked /\ ~IsOpen(scan.at)
        /\ UNCHANGED <<kind, items, threshold, clearing, sem>>
    BY <1>5 DEF PassClosedLevel
  <2> QED
    BY <2>1, <2>2, AfterLevelSleep
<1>6. ~TakeInternal /\ ~NothingInternal
  BY DEF TakeInternal, NothingInternal
<1> QED
  BY <1>2, <1>3, <1>4, <1>5, <1>6 DEF RemoveStep

-----------------------------------------------------------------------------
(* All steps *)

\* A plain queue stays one, and the internal queue is not claimed anything of.
LEMMA KindStays == ASSUME [Next]_vars PROVE kind' = kind
BY DEF Next, vars, settings, Produce, FlushAllPersistedButPB, SetQueueStarvation,
   ClearQueueStarvation, SignalCleared, ClearContentWindow, StarveTimeOut,
   SetInterruptible, Expire, Wake,
   RemoveStep, StartRemove, TakeFromLevel, PassLevel, PassClosedLevel, TakeInternal,
   NothingInternal

LEMMA NextSleep == ASSUME SleepInv, [Next]_vars PROVE SleepInv'
<1> USE DEF settings, starvation
<1>1. CASE kind = "internal"
  BY <1>1, KindStays DEF SleepInv, NoWorkWhileAsleep
<1>2. CASE kind = "plain"
  <2>1. PlainTypes /\ PassedAreEmpty /\ NoWorkWhileAsleep
    BY <1>2 DEF SleepInv
  <2>2. ASSUME NEW m \in Msg, Produce(m) PROVE SleepInv'
    <3>1. items' \in [Level -> Seq(Msg)]
      BY <1>2, <2>1, <2>2, PlainProduce
    <3> QED
      BY <1>2, <2>1, <2>2, <3>1 DEF Produce, SleepInv, PlainTypes, PassedAreEmpty, Quiet,
         NoWorkWhileAsleep, Locked
  <2>3. CASE SetQueueStarvation
    <3>1. \A l \in Level : IsOpen(l)' => IsOpen(l)
      BY <2>1, <2>3, ClosingOpensNone DEF SetQueueStarvation, PlainTypes
    <3> QED
      BY <1>2, <2>1, <2>3, <3>1 DEF SetQueueStarvation, SleepInv, PlainTypes,
         PassedAreEmpty, Quiet, NoWorkWhileAsleep, Locked
  <2>4. CASE ClearQueueStarvation
    BY <1>2, <2>1, <2>4 DEF ClearQueueStarvation, SleepInv, PlainTypes, PassedAreEmpty,
       Quiet, NoWorkWhileAsleep, Locked
  <2>5. CASE SignalCleared
    BY <1>2, <2>1, <2>5 DEF SignalCleared, SleepInv, PlainTypes, PassedAreEmpty,
       Quiet, NoWorkWhileAsleep, Locked
  <2>6. CASE Wake
    BY <1>2, <2>1, <2>6 DEF Wake, SleepInv, PlainTypes, PassedAreEmpty,
       NoWorkWhileAsleep, Locked
  <2>7. CASE ClearContentWindow \/ StarveTimeOut \/ UNCHANGED vars
    BY <1>2, <2>1, <2>7 DEF ClearContentWindow, StarveTimeOut, vars, SleepInv, PlainTypes,
       PassedAreEmpty, Quiet, NoWorkWhileAsleep, Locked, IsOpen
  <2>8. CASE RemoveStep
    BY <1>2, <2>8, RemoveSleep
  <2>9. ~FlushAllPersistedButPB /\ ~SetInterruptible /\ \A m \in Msg : ~Expire(m)
    BY <1>2 DEF FlushAllPersistedButPB, SetInterruptible, Expire
  <2> QED
    BY <2>2, <2>3, <2>4, <2>5, <2>6, <2>7, <2>8, <2>9 DEF Next
<1> QED
  BY <1>1, <1>2 DEF SleepInv

\* SleepInv holds in every reachable state.
THEOREM SleepInvariance == Spec => []SleepInv
BY InitSleep, NextSleep, PTL DEF Spec

\* The thread that serves a plain queue never sleeps without a signal pending
\* while a message it could take is queued (QueueList.cpp:184-207, 308-311).
THEOREM NeverSleepsOnWork == Spec => []NoWorkWhileAsleep
<1>1. SleepInv => NoWorkWhileAsleep
  BY DEF SleepInv
<1> QED
  BY <1>1, SleepInvariance, PTL

=============================================================================
