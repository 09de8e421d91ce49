-------------------------- MODULE EgmLegacyProofs ---------------------------
(***************************************************************************)
(* Why a machine with legacy bonusing, which is paid by a poll without an  *)
(* id, pays each hit once as long as no notice of expiry is repeated, and  *)
(* why what is reported of its awards is true: for any hits, offers,       *)
(* restarts and messages under way.                                        *)
(*                                                                         *)
(* The manager sends a copy of its award and waits for the answer.  So of  *)
(* an award that may still be sent one copy is under way, and the poll     *)
(* that pays finds the award as it was sent: not paid.  From then on the   *)
(* award is pending, here or with the answer under way, until meters, a    *)
(* game or an attendant tell how it ended.  LegacyInv says this in four    *)
(* parts; three more, about hand pays and meters, hold as long as no award *)
(* was given up.  There is one lemma for each action of the specification. *)
(*                                                                         *)
(* With a repeated notice under way the second may end the next offer of   *)
(* the same hit while a copy of it is out, and TLC finds a second payment. *)
(***************************************************************************)
EXTENDS EgmAwardProofs, FiniteSetTheorems

\* A state of a legacy machine of which everything is known.
Legacy == IInv /\ LegacyInv /\ Orderly

-----------------------------------------------------------------------------
(* Copies under way *)

LEMMA SentCopies ==
  ASSUME QueueTypes, NEW a \in Award, toSas' = Append(toSas, a), UNCHANGED toInternals
  PROVE  /\ UnderWay' \subseteq UnderWay \cup {a}
         /\ \A i \in DOMAIN toSas' : toSas'[i] = a \/ \E j \in DOMAIN toSas : toSas'[i] = toSas[j]
         /\ \A h : NoCopy(h) /\ a.hit # h => NoCopy(h)'
         /\ \A h : NoCopy(h) \/ (OneCopy(h) /\ a.hit # h) => OneCopy(h)'
<1>1. /\ toSas \in Seq(Award) /\ DOMAIN toSas' = 1..(Len(toSas) + 1)
      /\ \A i \in DOMAIN toSas' :
           IF i = Len(toSas) + 1 THEN toSas'[i] = a
           ELSE i \in DOMAIN toSas /\ toSas'[i] = toSas[i]
  BY DEF QueueTypes
<1>2. UnderWay' \subseteq UnderWay \cup {a}
  BY <1>1 DEF UnderWay
<1>3. ASSUME NEW h, NoCopy(h), a.hit # h
      PROVE  NoCopy(h)'
  BY <1>2, <1>3 DEF NoCopy
<1>4. ASSUME NEW h, NoCopy(h) \/ (OneCopy(h) /\ a.hit # h)
      PROVE  OneCopy(h)'
  <2>1. CASE NoCopy(h)
    BY <1>1, <2>1 DEF OneCopy, NoCopy, UnderWay
  <2>2. CASE OneCopy(h) /\ a.hit # h
    BY <1>1, <2>2 DEF OneCopy
  <2> QED
    BY <1>4, <2>1, <2>2
<1> QED
  BY <1>1, <1>2, <1>3, <1>4

LEMMA AnsweredCopies ==
  ASSUME QueueTypes, NEW a \in Award, toSas # <<>>, toSas' = Tail(toSas),
         toInternals' = Append(toInternals, a), a.hit = Head(toSas).hit
  PROVE  /\ UnderWay' \subseteq UnderWay \cup {a}
         /\ \A i \in DOMAIN toSas' : \E j \in DOMAIN toSas : toSas'[i] = toSas[j]
         /\ \A i \in DOMAIN toInternals' : toInternals'[i] = a
              \/ \E j \in DOMAIN toInternals : toInternals'[i] = toInternals[j]
         /\ \A i \in DOMAIN toInternals : \E j \in DOMAIN toInternals' : toInternals'[j] = toInternals[i]
         /\ \E j \in DOMAIN toInternals' : toInternals'[j] = a
         /\ Head(toSas) \in UnderWay
         /\ \A h : NoCopy(h) => NoCopy(h)'
         /\ \A h : OneCopy(h) => OneCopy(h)'
         /\ OneCopy(a.hit) => \A m \in UnderWay' : m.hit = a.hit => m = a
<1>1. /\ toSas \in Seq(Award) /\ Len(toSas) \in Nat /\ Len(toSas) >= 1
      /\ DOMAIN toSas = 1..Len(toSas)
      /\ DOMAIN toSas' = 1..(Len(toSas) - 1)
      /\ \A i \in DOMAIN toSas' : i + 1 \in DOMAIN toSas /\ toSas'[i] = toSas[i + 1] /\ i + 1 # 1
      /\ 1 \in DOMAIN toSas /\ Head(toSas) = toSas[1]
  BY DEF QueueTypes
<1>2. /\ toInternals \in Seq(Award) /\ Len(toInternals) \in Nat
      /\ DOMAIN toInternals = 1..Len(toInternals)
      /\ DOMAIN toInternals' = 1..(Len(toInternals) + 1)
      /\ \A i \in DOMAIN toInternals' :
           IF i = Len(toInternals) + 1 THEN toInternals'[i] = a
           ELSE i \in DOMAIN toInternals /\ toInternals'[i] = toInternals[i]
  BY DEF QueueTypes
<1>3. UnderWay' \subseteq UnderWay \cup {a} /\ Head(toSas) \in UnderWay
  <2>1. \A i \in DOMAIN toSas' : toSas'[i] \in UnderWay
    BY <1>1 DEF UnderWay
  <2>2. \A i \in DOMAIN toInternals' : toInternals'[i] \in UnderWay \cup {a}
    BY <1>2 DEF UnderWay
  <2>3. Head(toSas) \in UnderWay
    BY <1>1 DEF UnderWay
  <2> QED
    BY <2>1, <2>2, <2>3, Zenon DEF UnderWay
<1>4. ASSUME NEW h, NoCopy(h)
      PROVE  NoCopy(h)'
  BY <1>3, <1>4 DEF NoCopy
<1>5. ASSUME NEW h, OneCopy(h)
      PROVE  OneCopy(h)'
  <2>1. \A i, j \in DOMAIN toSas' : toSas'[i].hit = h /\ toSas'[j].hit = h => i = j
    BY <1>1, <1>5 DEF OneCopy
  <2>2. \A i, j \in DOMAIN toInternals' :
          toInternals'[i].hit = h /\ toInternals'[j].hit = h => i = j
    BY <1>1, <1>2, <1>5 DEF OneCopy
  <2>3. \A i \in DOMAIN toSas', j \in DOMAIN toInternals' :
          ~(toSas'[i].hit = h /\ toInternals'[j].hit = h)
    <3> SUFFICES ASSUME NEW i \in DOMAIN toSas', NEW j \in DOMAIN toInternals',
                        toSas'[i].hit = h, toInternals'[j].hit = h
                 PROVE  FALSE
      OBVIOUS
    <3>1. i + 1 \in DOMAIN toSas /\ toSas[i + 1].hit = h /\ i + 1 # 1
      BY <1>1
    <3>2. CASE j = Len(toInternals) + 1
      <4>1. toSas[1].hit = h
        BY <1>1, <1>2, <3>2
      <4> QED
        BY <1>1, <1>5, <3>1, <4>1 DEF OneCopy
    <3>3. CASE j # Len(toInternals) + 1
      BY <1>2, <1>5, <3>1, <3>3 DEF OneCopy
    <3> QED
      BY <3>2, <3>3
  <2> QED
    BY <2>1, <2>2, <2>3 DEF OneCopy
<1>6. ASSUME OneCopy(a.hit), NEW m \in UnderWay', m.hit = a.hit
      PROVE  m = a
  <2>1. CASE \E i \in DOMAIN toSas' : m = toSas'[i]
    BY <1>1, <1>6, <2>1 DEF OneCopy
  <2>2. CASE \E i \in DOMAIN toInternals' : m = toInternals'[i]
    BY <1>1, <1>2, <1>6, <2>2 DEF OneCopy
  <2> QED
    BY <2>1, <2>2 DEF UnderWay
<1>7. /\ \A i \in DOMAIN toSas' : \E j \in DOMAIN toSas : toSas'[i] = toSas[j]
      /\ \A i \in DOMAIN toInternals' : toInternals'[i] = a
              \/ \E j \in DOMAIN toInternals : toInternals'[i] = toInternals[j]
  BY <1>1, <1>2
<1>8. /\ \A i \in DOMAIN toInternals : \E j \in DOMAIN toInternals' : toInternals'[j] = toInternals[i]
      /\ \E j \in DOMAIN toInternals' : toInternals'[j] = a
  <2>1. ASSUME NEW i \in DOMAIN toInternals
        PROVE  i \in DOMAIN toInternals' /\ toInternals'[i] = toInternals[i]
    BY <1>2
  <2>2. Len(toInternals) + 1 \in DOMAIN toInternals' /\ toInternals'[Len(toInternals) + 1] = a
    BY <1>2
  <2> QED
    BY <2>1, <2>2
<1> QED
  BY <1>3, <1>4, <1>5, <1>6, <1>7, <1>8

LEMMA TakenCopies ==
  ASSUME QueueTypes, toInternals # <<>>, toInternals' = Tail(toInternals), UNCHANGED toSas
  PROVE  /\ UnderWay' \subseteq UnderWay
         /\ \A i \in DOMAIN toInternals' :
              \E j \in DOMAIN toInternals : toInternals'[i] = toInternals[j]
         /\ \A i \in DOMAIN toInternals : toInternals[i] # Head(toInternals) =>
              \E j \in DOMAIN toInternals' : toInternals'[j] = toInternals[i]
         /\ Head(toInternals) \in UnderWay
         /\ \E j \in DOMAIN toInternals : toInternals[j] = Head(toInternals)
         /\ \A h : NoCopy(h) => NoCopy(h)'
         /\ \A h : OneCopy(h) => OneCopy(h)'
         /\ \A h : OneCopy(h) /\ Head(toInternals).hit = h => NoCopy(h)'
         /\ \A h : OneCopy(h) /\ Head(toInternals).hit = h =>
              \A m \in UnderWay : m.hit = h => m = Head(toInternals)
<1>1. /\ toInternals \in Seq(Award) /\ Len(toInternals) \in Nat /\ Len(toInternals) >= 1
      /\ DOMAIN toInternals = 1..Len(toInternals)
      /\ DOMAIN toInternals' = 1..(Len(toInternals) - 1)
      /\ \A i \in DOMAIN toInternals' : i + 1 \in DOMAIN toInternals
            /\ toInternals'[i] = toInternals[i + 1] /\ i + 1 # 1
      /\ 1 \in DOMAIN toInternals /\ Head(toInternals) = toInternals[1]
  BY DEF QueueTypes
<1>2. UnderWay' \subseteq UnderWay /\ Head(toInternals) \in UnderWay
  BY <1>1 DEF UnderWay
<1>3. ASSUME NEW h, NoCopy(h)
      PROVE  NoCopy(h)'
  BY <1>2, <1>3 DEF NoCopy
<1>4. ASSUME NEW h, OneCopy(h)
      PROVE  OneCopy(h)'
  BY <1>1, <1>4 DEF OneCopy
<1>5. ASSUME NEW h, OneCopy(h), Head(toInternals).hit = h
      PROVE  NoCopy(h)'
  BY <1>1, <1>5 DEF OneCopy, NoCopy, UnderWay
<1>6. ASSUME NEW h, OneCopy(h), Head(toInternals).hit = h, NEW m \in UnderWay, m.hit = h
      PROVE  m = Head(toInternals)
  <2>1. CASE \E i \in DOMAIN toSas : m = toSas[i]
    BY <1>1, <1>6, <2>1 DEF OneCopy
  <2>2. CASE \E i \in DOMAIN toInternals : m = toInternals[i]
    BY <1>1, <1>6, <2>2 DEF OneCopy
  <2> QED
    BY <2>1, <2>2 DEF UnderWay
<1>7. ASSUME NEW i \in DOMAIN toInternals, toInternals[i] # Head(toInternals)
      PROVE  \E j \in DOMAIN toInternals' : toInternals'[j] = toInternals[i]
  <2>1. i # 1 /\ i \in 1..Len(toInternals)
    BY <1>1, <1>7
  <2>2. i - 1 \in DOMAIN toInternals' /\ (i - 1) + 1 = i
    BY <1>1, <2>1
  <2> QED
    BY <1>1, <2>2
<1> QED
  BY <1>1, <1>2, <1>3, <1>4, <1>5, <1>6, <1>7

LEMMA SameCopies ==
  ASSUME UNCHANGED <<toSas, toInternals>>
  PROVE  /\ UnderWay' = UnderWay
         /\ \A h : (NoCopy(h)' <=> NoCopy(h)) /\ (OneCopy(h)' <=> OneCopy(h))
BY DEF UnderWay, NoCopy, OneCopy

-----------------------------------------------------------------------------
(* What the invariant says of a legacy machine *)

LEMMA LegacyFacts ==
  ASSUME Legacy
  PROVE  /\ Lockless /\ ToldOfLast /\ CopiesOfLast /\ PaidAndTold
         /\ NoneGivenUp => SuccessTold /\ HandpayOfAward /\ MetersOfAward
         /\ QueueTypes /\ TypeOK /\ bonusing = "legacy"
         /\ award \in Award /\ award.state \in State /\ paid \in [Hit -> Nat]
         /\ told \in [Hit -> SUBSET Final] /\ bonus \in Nat
         /\ award.meter \in Nat \cup {Unread}
         /\ award.state \in Sent \cup Pending => award.meter \in Nat
         /\ handpay \in Hit \cup {NoHit} /\ age \in 0..2
BY Fields DEF Legacy, LegacyInv, Orderly, IInv, TypeOK, AwardTypes, PaymentTypes, CountTypes, WaitTypes

\* An award in progress is offered until it is told how it ended.
LEMMA InProgressIsOffered ==
  ASSUME Legacy, award.state \in InProgress
  PROVE  award.hit \in Hit /\ told[award.hit] = {} /\ Offered(award.hit)
BY LegacyFacts DEF ToldOfLast, Offered, InProgress, Sent, Pending

\* What cannot have been paid has not been, and no hand pay is due.
LEMMA NotPaid ==
  ASSUME Legacy, ~MayBePaid(award.hit)
  PROVE  /\ NoneGivenUp => handpay = NoHit /\ ~shown
         /\ award.state \in InProgress => paid[award.hit] = 0
         /\ \A h \in Hit : Offered(h) => paid[h] = 0
<1>1. \A h : ~MayBePaid(h)
  BY DEF MayBePaid
<1>2. NoneGivenUp => handpay = NoHit /\ ~shown
  BY <1>1, LegacyFacts DEF HandpayOfAward
<1>3. ASSUME NEW h \in Hit, Offered(h)
      PROVE  paid[h] = 0
  <2>1. ~(paid[h] > 0) /\ paid[h] \in Nat
    BY <1>1, <1>3, LegacyFacts DEF PaidAndTold
  <2> QED
    BY <2>1
<1> QED
  BY <1>2, <1>3, InProgressIsOffered

\* Only an award of these states may have been paid.
LEMMA MayBePaidStates ==
  ASSUME Legacy, NEW h, MayBePaid(h)
  PROVE  /\ h = award.hit
         /\ award.state \in {"SentToGame"} \cup Pending
         /\ award.state = "SentToGame" =>
              /\ \A m \in UnderWay : m.hit = h => m.state = "Signaled"
              /\ \A i \in DOMAIN toSas : toSas[i].hit # h
<1>1. h = award.hit /\ award.state \in {"SentToGame"} \cup Pending
  BY DEF MayBePaid
<1>2. ASSUME award.state = "SentToGame"
      PROVE  /\ \A m \in UnderWay : m.hit = h => m.state = "Signaled"
             /\ \A i \in DOMAIN toSas : toSas[i].hit # h
  <2>1. PICK i \in DOMAIN toInternals :
          toInternals[i].hit = h /\ toInternals[i].state = "Signaled"
    BY <1>2 DEF MayBePaid, Pending
  <2>2. OneCopy(h)
    BY <1>1, <1>2, LegacyFacts DEF CopiesOfLast, Unsettled
  <2>3. \A j \in DOMAIN toSas : toSas[j].hit # h
    BY <2>1, <2>2 DEF OneCopy
  <2>4. \A j \in DOMAIN toInternals : toInternals[j].hit = h => j = i
    BY <2>1, <2>2 DEF OneCopy
  <2> QED
    BY <2>1, <2>3, <2>4 DEF UnderWay
<1> QED
  BY <1>1, <1>2

\* Enough for a step to keep the invariant.
LEMMA LegacyPreserved ==
  ASSUME Legacy, UNCHANGED bonusing,
         Lockless' \/ UNCHANGED <<transfer, lock, lockPending, pc, award, queues>>,
         ToldOfLast' \/ UNCHANGED <<award, told>>,
         CopiesOfLast' \/ UNCHANGED <<award, told, waiting, age, queues>>,
         PaidAndTold' \/ UNCHANGED <<award, told, paid, handpay, toInternals>>,
         UNCHANGED told \/ (NoneGivenUp' => NoneGivenUp),
         (NoneGivenUp' => SuccessTold') \/ UNCHANGED <<told, paid>>,
         (NoneGivenUp' => HandpayOfAward') \/ UNCHANGED <<award, handpay, shown, queues>>,
         (NoneGivenUp' => MetersOfAward') \/ UNCHANGED <<award, bonus, paid, handpay, toInternals>>
  PROVE  LegacyInv'
<1>1. Lockless'
  BY LegacyFacts DEF Lockless, UnderWay, queues
<1>2. ToldOfLast'
  BY LegacyFacts DEF ToldOfLast
<1>3. CopiesOfLast'
  <2>1. CASE UNCHANGED <<award, told, waiting, age, queues>>
    <3>1. /\ UnderWay' = UnderWay
          /\ \A h : (NoCopy(h)' <=> NoCopy(h)) /\ (OneCopy(h)' <=> OneCopy(h))
      BY <2>1, SameCopies DEF queues
    <3>2. \A h : Offered(h)' <=> Offered(h)
      BY <2>1 DEF Offered
    <3>3. Unsettled' <=> Unsettled
      BY <2>1 DEF Unsettled
    <3> QED
      BY <2>1, <3>1, <3>2, <3>3, LegacyFacts DEF CopiesOfLast, queues
  <2> QED
    BY <2>1
<1>4. PaidAndTold'
  <2>1. CASE UNCHANGED <<award, told, paid, handpay, toInternals>>
    BY <2>1, LegacyFacts DEF PaidAndTold, MayBePaid, Offered
  <2> QED
    BY <2>1
<1>5. ASSUME NoneGivenUp'
      PROVE  SuccessTold' /\ HandpayOfAward' /\ MetersOfAward'
  <2>1. NoneGivenUp
    <3>1. UNCHANGED told => (NoneGivenUp' => NoneGivenUp)
      BY DEF NoneGivenUp
    <3> QED
      BY <1>5, <3>1
  <2>2. SuccessTold /\ HandpayOfAward /\ MetersOfAward
    BY <2>1, LegacyFacts
  <2>3. SuccessTold'
    <3>1. CASE UNCHANGED <<told, paid>>
      BY <2>2, <3>1 DEF SuccessTold
    <3> QED
      BY <1>5, <3>1
  <2>4. HandpayOfAward'
    <3>1. CASE UNCHANGED <<award, handpay, shown, queues>>
      BY <2>2, <3>1 DEF HandpayOfAward, MayBePaid, queues
    <3> QED
      BY <1>5, <3>1
  <2>5. MetersOfAward'
    <3>1. CASE UNCHANGED <<award, bonus, paid, handpay, toInternals>>
      BY <2>2, <3>1 DEF MetersOfAward
    <3> QED
      BY <1>5, <3>1
  <2> QED
    BY <2>3, <2>4, <2>5
<1> QED
  BY <1>1, <1>2, <1>3, <1>4, <1>5 DEF LegacyInv

-----------------------------------------------------------------------------
(* Steps of the manager *)

LEMMA LegacyInit == ASSUME Init PROVE LegacyInv
<1>1. UnderWay = {}
  BY DEF Init, UnderWay
<1>2. award.state = "NoAward" /\ NoHit \notin Hit
  BY EgmAwardAssumption DEF Init, NoAward
<1>3. Lockless /\ ToldOfLast /\ SuccessTold /\ HandpayOfAward /\ MetersOfAward
  BY <1>1, <1>2 DEF Init, Lockless, ToldOfLast, SuccessTold, HandpayOfAward, MetersOfAward,
     InProgress, Sent, Pending, Final
<1>4. CopiesOfLast
  BY <1>1, <1>2 DEF Init, CopiesOfLast, Unsettled, NoCopy
<1>5. PaidAndTold
  BY <1>2 DEF Init, PaidAndTold
<1> QED
  BY <1>3, <1>4, <1>5 DEF LegacyInv

LEMMA LegacyAccept == ASSUME Legacy, NEW h \in Hit, Accept(h) PROVE LegacyInv'
<1>1. /\ Offered(h) /\ award.state \notin InProgress
      /\ award' = [hit |-> h, state |-> "WaitForMetersInitial",
                   xfer |-> "none", meter |-> Unread]
      /\ told' = [told EXCEPT ![h] = {}] /\ waiting' = online
      /\ toSas' = IF online THEN Append(toSas, award') ELSE toSas
      /\ UNCHANGED <<bonusing, toInternals, transfer, lock, lockPending, pc, paid,
                     handpay, shown, bonus>>
  BY DEF Accept, machine, sasState, payment
<1>2. award' \in Award /\ award'.hit = h /\ award'.state = "WaitForMetersInitial"
  BY <1>1 DEF Award, State
<1>3. ~MayBePaid(award.hit)
  BY <1>1 DEF MayBePaid, InProgress, Sent
<1>4. /\ NoneGivenUp => handpay = NoHit /\ ~shown
      /\ \A g \in Hit : Offered(g) => paid[g] = 0
  BY <1>3, NotPaid
<1>5. \A g \in Hit : Offered(g) => NoCopy(g)
  BY <1>1, LegacyFacts DEF CopiesOfLast
<1>6. \A i \in DOMAIN toSas : toSas[i].state # "SentToGame"
  BY <1>1, LegacyFacts DEF CopiesOfLast, InProgress, Sent
<1>7. /\ UnderWay' \subseteq UnderWay \cup {award'}
      /\ \A i \in DOMAIN toSas' : toSas'[i].state # "SentToGame"
      /\ \A g : NoCopy(g) /\ g # h => NoCopy(g)'
      /\ OneCopy(h)'
      /\ ~waiting' => NoCopy(h)'
  <2>1. CASE online
    <3>1. toSas' = Append(toSas, award') /\ UNCHANGED toInternals /\ QueueTypes /\ waiting'
      BY <1>1, <2>1, LegacyFacts
    <3>2. /\ UnderWay' \subseteq UnderWay \cup {award'}
          /\ \A i \in DOMAIN toSas' : toSas'[i] = award'
                \/ \E j \in DOMAIN toSas : toSas'[i] = toSas[j]
          /\ \A g : NoCopy(g) /\ award'.hit # g => NoCopy(g)'
          /\ \A g : NoCopy(g) => OneCopy(g)'
      BY <1>2, <3>1, SentCopies
    <3> QED
      BY <1>1, <1>2, <1>5, <1>6, <3>1, <3>2
  <2>2. CASE ~online
    <3>1. UNCHANGED <<toSas, toInternals>>
      BY <1>1, <2>2
    <3>2. /\ UnderWay' = UnderWay
          /\ \A g : (NoCopy(g)' <=> NoCopy(g)) /\ (OneCopy(g)' <=> OneCopy(g))
      BY <3>1, SameCopies
    <3>3. OneCopy(h)
      BY <1>1, <1>5 DEF NoCopy, OneCopy, UnderWay
    <3> QED
      BY <1>1, <1>5, <1>6, <3>1, <3>2, <3>3
  <2> QED
    BY <2>1, <2>2
<1>8. \A g \in Hit : /\ g # h => told'[g] = told[g]
                     /\ told'[h] = {}
                     /\ Offered(g)' => Offered(g)
  BY <1>1, LegacyFacts DEF Offered
<1>9. Lockless'
  BY <1>1, <1>2, <1>7, LegacyFacts DEF Lockless
<1>10. ToldOfLast'
  BY <1>2, <1>8 DEF ToldOfLast, Final
<1>11. CopiesOfLast'
  <2>1. \A g \in Hit : Offered(g)' /\ ~(g = award'.hit /\ award'.state \in InProgress)
                         => NoCopy(g)'
    BY <1>2, <1>5, <1>7, <1>8 DEF InProgress
  <2>2. ~waiting' => \A m \in UnderWay' : m.hit # award'.hit
    BY <1>2, <1>7 DEF NoCopy
  <2> QED
    BY <1>2, <1>7, <2>1, <2>2 DEF CopiesOfLast
<1>12. PaidAndTold'
  BY <1>1, <1>2, <1>4, <1>8, LegacyFacts DEF PaidAndTold
<1>13. (NoneGivenUp' => NoneGivenUp) /\ (NoneGivenUp' => SuccessTold')
  <2>1. NoneGivenUp' => NoneGivenUp
    BY <1>1, <1>8 DEF NoneGivenUp, Offered
  <2> QED
    BY <1>1, <1>8, <2>1, LegacyFacts DEF SuccessTold
<1>14. NoneGivenUp' => HandpayOfAward'
  BY <1>1, <1>2, <1>4, <1>13 DEF HandpayOfAward, Pending
<1>15. MetersOfAward'
  <2>1. \A i \in DOMAIN toInternals : toInternals[i].hit # h
    BY <1>1, <1>5 DEF NoCopy, UnderWay
  <2>2. UNCHANGED toInternals /\ award'.state \notin Sent \cup Pending
    BY <1>1, <1>2 DEF Sent, Pending
  <2> QED
    BY <1>2, <2>1, <2>2 DEF MetersOfAward
<1> QED
  BY <1>1, <1>9, <1>10, <1>11, <1>12, <1>13, <1>14, <1>15, LegacyPreserved

LEMMA LegacyDecline == ASSUME Legacy, NEW h \in Hit, Decline(h) PROVE LegacyInv'
<1>1. /\ Offered(h) /\ (award.hit # h \/ award.state = "AwardToGameIneligible")
      /\ told' = [told EXCEPT ![h] = @ \cup {"AwardToGameIneligible"}]
      /\ UNCHANGED <<bonusing, award, waiting, age, toSas, toInternals, transfer, lock,
                     lockPending, pc, paid, handpay, shown, bonus>>
      /\ UNCHANGED queues
  BY DEF Decline, machine, sasState, payment, queues, SameHit
<1>2. \A g \in Hit : /\ g # h => told'[g] = told[g]
                     /\ told'[h] = told[h] \cup {"AwardToGameIneligible"}
                     /\ Offered(g)' <=> Offered(g)
  BY <1>1, LegacyFacts DEF Offered
<1>3. ToldOfLast'
  BY <1>1, <1>2, LegacyFacts DEF ToldOfLast, InProgress, Sent, Pending
<1>4. CopiesOfLast'
  <2>1. /\ UnderWay' = UnderWay
        /\ \A g : (NoCopy(g)' <=> NoCopy(g)) /\ (OneCopy(g)' <=> OneCopy(g))
    BY <1>1, SameCopies
  <2> QED
    BY <1>1, <1>2, <2>1, LegacyFacts DEF CopiesOfLast, Unsettled
<1>5. PaidAndTold'
  <2>1. paid[h] = 0
    <3>1. ~MayBePaid(h)
      BY <1>1 DEF MayBePaid, Pending
    <3> QED
      BY <1>1, <3>1, LegacyFacts DEF PaidAndTold
  <2> QED
    BY <1>1, <1>2, <2>1, LegacyFacts DEF PaidAndTold, MayBePaid
<1>6. UNCHANGED <<transfer, lock, lockPending, pc, award, queues>>
      /\ UNCHANGED <<award, handpay, shown, queues>>
      /\ UNCHANGED <<award, bonus, paid, handpay, toInternals>>
  BY <1>1
<1>7. (NoneGivenUp' => NoneGivenUp) /\ (NoneGivenUp' => SuccessTold')
  <2>1. NoneGivenUp' => NoneGivenUp
    BY <1>2 DEF NoneGivenUp
  <2> QED
    BY <1>1, <1>2, <2>1, LegacyFacts DEF SuccessTold
<1> QED
  BY <1>1, <1>3, <1>4, <1>5, <1>6, <1>7, LegacyPreserved

LEMMA LegacyRequest == ASSUME Legacy, Request PROVE LegacyInv'
<1>1. /\ ~waiting /\ award.state \in Timed /\ ~Expired /\ waiting'
      /\ award' = IF award.state = "GameBusy"
                  THEN [award EXCEPT !.state = "SentToGame", !.xfer = bonusing] ELSE award
      /\ toSas' = Append(toSas, award')
      /\ UNCHANGED <<bonusing, toInternals, transfer, lock, lockPending, pc, paid,
                     handpay, shown, bonus, age, told>>
  BY Zenon DEF Request, Await, machine, sasState, payment
<1>2. award.state \in {"WaitForMetersInitial", "SentToGame", "GameBusy", "Signaled"}
  BY <1>1, LegacyFacts DEF Lockless, Timed, InProgress, Sent, Pending
<1>3. /\ award' \in Award /\ award'.hit = award.hit /\ award'.meter = award.meter
      /\ award'.state = (IF award.state = "GameBusy" THEN "SentToGame" ELSE award.state)
      /\ award'.state = "SentToGame" => award'.xfer = bonusing
  <2>1. CASE award.state = "GameBusy"
    <3>1. award' = [award EXCEPT !.state = "SentToGame", !.xfer = bonusing]
      BY <1>1, <2>1
    <3>2. award \in Award /\ bonusing \in Bonusing /\ "SentToGame" \in State
      BY LegacyFacts, StateNames DEF TypeOK
    <3> QED
      BY <2>1, <3>1, <3>2 DEF Award
  <2>2. CASE award.state # "GameBusy"
    BY <1>1, <2>2, LegacyFacts DEF Lockless
  <2> QED
    BY <2>1, <2>2
<1>4. Unsettled => NoCopy(award.hit) /\ age = 0
  <2>1. Unsettled => age < 1 /\ age \in Nat
    BY <1>1, LegacyFacts DEF Expired, Unsettled
  <2> QED
    BY <1>1, <2>1, LegacyFacts DEF CopiesOfLast, NoCopy
<1>5. /\ UnderWay' \subseteq UnderWay \cup {award'}
      /\ \A i \in DOMAIN toSas' : toSas'[i] = award' \/ \E j \in DOMAIN toSas : toSas'[i] = toSas[j]
      /\ \A h : NoCopy(h) /\ award.hit # h => NoCopy(h)'
      /\ NoCopy(award.hit) => OneCopy(award.hit)'
  BY <1>1, <1>3, LegacyFacts, SentCopies
<1>6. \A h : MayBePaid(h) <=> MayBePaid(h)'
  <2>1. CASE award.state = "GameBusy"
    <3>1. Unsettled
      BY <2>1 DEF Unsettled
    <3>2. \A i \in DOMAIN toInternals : toInternals[i].hit # award.hit
      BY <1>4, <3>1 DEF NoCopy, UnderWay
    <3> QED
      BY <1>1, <1>3, <2>1, <3>2 DEF MayBePaid, Pending
  <2>2. CASE award.state # "GameBusy"
    BY <1>1, <1>3, <2>2 DEF MayBePaid
  <2> QED
    BY <2>1, <2>2
<1>7. Lockless'
  <2>1. UNCHANGED <<bonusing, transfer, lock, lockPending, pc>>
    BY <1>1
  <2>2. award'.state \in {"WaitForMetersInitial", "SentToGame", "Signaled"}
    BY <1>2, <1>3
  <2>3. award'.state = "SentToGame" => award'.xfer = bonusing'
    BY <1>3, <2>1
  <2>4. ASSUME NEW m \in UnderWay'
        PROVE  m.state \in {"WaitForMetersInitial", "SentToGame", "GameBusy",
                            "Signaled", "AwardToGameError", "AwardToGameIneligible"}
    BY <1>5, <2>2, <2>4, LegacyFacts DEF Lockless
  <2> QED
    BY <2>1, <2>2, <2>3, <2>4, LegacyFacts DEF Lockless
<1>8. ToldOfLast'
  BY <1>1, <1>2, <1>3, LegacyFacts DEF ToldOfLast, InProgress, Sent, Pending, Final
<1>9. CopiesOfLast'
  <2>1. \A h \in Hit : Offered(h)' /\ ~(h = award'.hit /\ award'.state \in InProgress)
                         => NoCopy(h)'
    <3>1. award.state \in InProgress /\ award'.state \in InProgress
      BY <1>2, <1>3 DEF InProgress, Sent, Pending
    <3>2. \A h : Offered(h)' <=> Offered(h)
      BY <1>1 DEF Offered
    <3> QED
      BY <1>3, <1>5, <3>1, <3>2, LegacyFacts DEF CopiesOfLast
  <2>2. (Unsettled => OneCopy(award.hit))'
    BY <1>2, <1>3, <1>4, <1>5 DEF Unsettled
  <2>3. ASSUME NEW i \in DOMAIN toSas', toSas'[i].state = "SentToGame"
        PROVE  award'.hit = toSas'[i].hit /\ award'.state = "SentToGame"
    <3>1. CASE toSas'[i] = award'
      BY <2>3, <3>1
    <3>2. CASE \E j \in DOMAIN toSas : toSas'[i] = toSas[j]
      BY <1>1, <1>3, <2>3, <3>2, LegacyFacts DEF CopiesOfLast
    <3> QED
      BY <1>5, <3>1, <3>2
  <2> QED
    BY <1>1, <2>1, <2>2, <2>3 DEF CopiesOfLast
<1>10. PaidAndTold'
  BY <1>1, <1>2, <1>3, <1>6, LegacyFacts DEF PaidAndTold, Offered
<1>11. NoneGivenUp => HandpayOfAward'
  BY <1>1, <1>2, <1>3, <1>6, LegacyFacts DEF HandpayOfAward
<1>12. NoneGivenUp => MetersOfAward'
  BY <1>1, <1>2, <1>3, LegacyFacts DEF MetersOfAward, Sent, Pending
<1>13. UNCHANGED told /\ UNCHANGED <<told, paid>> /\ (NoneGivenUp' => NoneGivenUp)
  BY <1>1 DEF NoneGivenUp
<1> QED
  BY <1>1, <1>7, <1>8, <1>9, <1>10, <1>11, <1>12, <1>13, LegacyPreserved

\* A notice that is not repeated: no other copy that ends an award is under way.
LEMMA NoNotices ==
  ASSUME QueueTypes, ~(Notices > 0)
  PROVE  \A m \in UnderWay : m.state \notin Final
<1> DEFINE S == {i \in DOMAIN toSas : toSas[i].state \in Final}
           T == {i \in DOMAIN toInternals : toInternals[i].state \in Final}
<1>1. IsFiniteSet(S) /\ IsFiniteSet(T)
  <2>1. DOMAIN toSas = 1..Len(toSas) /\ DOMAIN toInternals = 1..Len(toInternals)
        /\ Len(toSas) \in Int /\ Len(toInternals) \in Int
    BY DEF QueueTypes
  <2>2. IsFiniteSet(DOMAIN toSas) /\ IsFiniteSet(DOMAIN toInternals)
    BY <2>1, FS_Interval
  <2>3. S \subseteq DOMAIN toSas /\ T \subseteq DOMAIN toInternals
    OBVIOUS
  <2> QED
    BY <2>2, <2>3, FS_Subset
<1>2. ~(Cardinality(S) + Cardinality(T) > 0)
  BY DEF Notices
<1> HIDE DEF S, T
<1>3. Cardinality(S) \in Nat /\ Cardinality(T) \in Nat
  BY <1>1, FS_CardinalityType
<1>4. Cardinality(S) = 0 /\ Cardinality(T) = 0
  BY <1>2, <1>3
<1>5. S = {} /\ T = {}
  BY <1>1, <1>4, FS_EmptySet
<1> QED
  BY <1>5 DEF S, T, UnderWay

LEMMA LegacyExpireAward ==
  ASSUME Legacy, ExpireAward, Orderly' PROVE LegacyInv'
<1> DEFINE s == IF award.state = "Signaled" THEN "AwardToGameError" ELSE "AwardToGameIneligible"
           notice == [award EXCEPT !.state = s]
<1>1. /\ ~waiting /\ award.state \in Timed /\ Expired
      /\ toSas' = Append(toSas, notice) /\ UNCHANGED toInternals
      /\ UNCHANGED <<bonusing, award, waiting, age, told, transfer, lock, lockPending, pc,
                     paid, handpay, shown, bonus>>
  BY DEF ExpireAward, machine, sasState, payment
<1>2. /\ notice \in Award /\ notice.hit = award.hit /\ notice.state = s
      /\ s \in {"AwardToGameError", "AwardToGameIneligible"}
  BY LegacyFacts, StateNames, WithState
<1>3. \A m \in UnderWay : m.state \notin Final
  <2>1. ~(Notices > 0)
    BY Zenon DEF ExpireAward, Orderly
  <2> QED
    BY <2>1, LegacyFacts, NoNotices
<1>4. /\ Unsettled => age >= 1
      /\ award.state \in {"WaitForMetersInitial", "SentToGame", "GameBusy", "Signaled"}
  BY <1>1, LegacyFacts DEF Expired, Unsettled, Lockless, Timed, InProgress, Sent, Pending
<1>5. Unsettled => NoCopy(award.hit)
  BY <1>1, <1>3, LegacyFacts DEF CopiesOfLast, NoCopy
<1> HIDE DEF notice, s
<1>6. /\ UnderWay' \subseteq UnderWay \cup {notice}
      /\ \A i \in DOMAIN toSas' : toSas'[i] = notice \/ \E j \in DOMAIN toSas : toSas'[i] = toSas[j]
      /\ \A h : NoCopy(h) /\ award.hit # h => NoCopy(h)'
      /\ NoCopy(award.hit) => OneCopy(award.hit)'
  BY <1>1, <1>2, LegacyFacts, SentCopies
<1>7. Lockless'
  BY <1>1, <1>2, <1>6, LegacyFacts DEF Lockless
<1>8. CopiesOfLast'
  <2>1. \A h \in Hit : Offered(h)' /\ ~(h = award'.hit /\ award'.state \in InProgress)
                         => NoCopy(h)'
    <3>1. award.state \in InProgress
      BY <1>4 DEF InProgress, Sent, Pending
    <3>2. \A h : Offered(h)' <=> Offered(h)
      BY <1>1 DEF Offered
    <3> QED
      BY <1>1, <1>6, <3>1, <3>2, LegacyFacts DEF CopiesOfLast
  <2>2. (Unsettled => OneCopy(award.hit))'
    BY <1>1, <1>5, <1>6 DEF Unsettled
  <2>3. Unsettled' => \A m \in UnderWay' : m.hit = award'.hit => m.state \in Final /\ age' >= 1
    <3>1. Unsettled' => Unsettled
      BY <1>1 DEF Unsettled
    <3> QED
      BY <1>1, <1>2, <1>4, <1>5, <1>6, <3>1 DEF NoCopy, Final
  <2>4. \A i \in DOMAIN toSas' : toSas'[i].state = "SentToGame" =>
          award'.hit = toSas'[i].hit /\ award'.state = "SentToGame"
    BY <1>1, <1>2, <1>6, LegacyFacts DEF CopiesOfLast
  <2> QED
    BY <2>1, <2>2, <2>3, <2>4 DEF CopiesOfLast
<1>9. NoneGivenUp => HandpayOfAward'
  <2>1. \A h : MayBePaid(h)' <=> MayBePaid(h)
    BY <1>1 DEF MayBePaid
  <2> QED
    BY <1>1, <2>1, LegacyFacts DEF HandpayOfAward
<1>10. /\ UNCHANGED <<award, told>> /\ UNCHANGED <<award, told, paid, handpay, toInternals>>
       /\ UNCHANGED <<award, bonus, paid, handpay, toInternals>>
       /\ UNCHANGED told /\ UNCHANGED <<told, paid>> /\ (NoneGivenUp' => NoneGivenUp)
  BY <1>1 DEF NoneGivenUp
<1> QED
  BY <1>1, <1>7, <1>8, <1>9, <1>10, LegacyPreserved

\* An award ends: it is told how, and no copy of it is left if it may be offered again.
LEMMA LegacyEnd ==
  ASSUME Legacy, award.state \in InProgress,
         NEW s \in Final, award' = [award EXCEPT !.state = s],
         told' = [told EXCEPT ![award.hit] = @ \cup {s}],
         UNCHANGED <<bonusing, age, toSas, transfer, lock, lockPending, pc, paid,
                     handpay, shown, bonus>>,
         UnderWay' \subseteq UnderWay, \A h : NoCopy(h) => NoCopy(h)',
         \A i \in DOMAIN toSas : toSas[i].state # "SentToGame",
         s = "AwardToGameIneligible" => NoCopy(award.hit)' /\ paid[award.hit] = 0,
         NoneGivenUp /\ s # "AwardToGameError" => handpay = NoHit /\ ~shown,
         NoneGivenUp /\ s = "AwardToGameSuccess" => paid[award.hit] > 0
  PROVE  LegacyInv'
<1>1. /\ award' \in Award /\ award'.hit = award.hit /\ award'.state = s /\ s \in State
      /\ award.hit \in Hit /\ told[award.hit] = {}
  BY LegacyFacts, StateNames, WithState, InProgressIsOffered DEF Final
<1>2. s \in {"AwardToGameSuccess", "AwardToGameError", "AwardToGameIneligible"}
  BY DEF Final
<1>3. \A h \in Hit : /\ h # award.hit => told'[h] = told[h] /\ (Offered(h)' <=> Offered(h))
                     /\ told'[award.hit] = {s}
                     /\ Offered(award.hit)' => s = "AwardToGameIneligible"
  BY <1>1, <1>2, LegacyFacts DEF Offered
<1>4. Lockless'
  BY <1>1, <1>2, LegacyFacts DEF Lockless
<1>5. ToldOfLast'
  BY <1>1, <1>2, <1>3 DEF ToldOfLast, InProgress, Sent, Pending
<1>6. CopiesOfLast'
  <2>1. \A h \in Hit : Offered(h)' => NoCopy(h)'
    BY <1>1, <1>3, LegacyFacts DEF CopiesOfLast
  <2>2. ~Unsettled'
    BY <1>1, <1>2 DEF Unsettled
  <2> QED
    BY <2>1, <2>2 DEF CopiesOfLast
<1>7. PaidAndTold'
  <2>1. ASSUME NEW h \in Hit
        PROVE  /\ paid'[h] <= 1
               /\ Offered(h)' => paid'[h] = 0
               /\ "AwardToGameIneligible" \in told'[h] => paid'[h] = 0
    <3>1. CASE h = award.hit
      BY <1>1, <1>2, <1>3, <3>1, LegacyFacts DEF PaidAndTold
    <3>2. CASE h # award.hit
      <4>1. ~MayBePaid(h) /\ paid[h] \in Nat
        BY <3>2, LegacyFacts DEF MayBePaid
      <4> QED
        BY <1>3, <3>2, <4>1, LegacyFacts DEF PaidAndTold
    <3> QED
      BY <3>1, <3>2
  <2> QED
    BY <1>1, <1>2, <2>1, LegacyFacts DEF PaidAndTold
<1>8. NoneGivenUp' => NoneGivenUp /\ s # "AwardToGameError"
  BY <1>1, <1>3 DEF NoneGivenUp
<1>9. NoneGivenUp' => SuccessTold'
  BY <1>1, <1>3, <1>8, LegacyFacts DEF SuccessTold
<1>10. NoneGivenUp' => HandpayOfAward'
  BY <1>1, <1>2, <1>8 DEF HandpayOfAward, Pending
<1>11. MetersOfAward'
  BY <1>1, <1>2 DEF MetersOfAward, Sent, Pending
<1>12. (NoneGivenUp' => NoneGivenUp) /\ UNCHANGED bonusing
  BY <1>8
<1> QED
  BY <1>4, <1>5, <1>6, <1>7, <1>9, <1>10, <1>11, <1>12, LegacyPreserved

\* What an update does to the award, when the next transfer is of type x.
AppliedAs(u, x) ==
  LET s == NextState(u, x)
  IN  /\ s \in State /\ ~waiting'
      /\ award' \in Award /\ award'.hit = award.hit /\ award'.state = s
      /\ s = award.state => award' = award /\ told' = told
      /\ s # award.state /\ s \in Final =>
           /\ award' = [award EXCEPT !.state = s]
           /\ told' = [told EXCEPT ![award.hit] = @ \cup {s}]
      /\ s \notin Final => told' = told
      /\ award.state # "WaitForMetersInitial" => award'.meter = award.meter
      /\ award.state = "WaitForMetersInitial" /\ s = "SentToGame" =>
           award'.meter = u.meter /\ award'.xfer = bonusing

LEMMA Applied ==
  ASSUME award \in Award, NEW u \in Award, Apply(u), u.state # "AftLockPending",
         bonusing \in Bonusing
  PROVE  \E x \in {bonusing, "none"} : AppliedAs(u, x)
<1>1. PICK x \in {bonusing, "none"} :
        LET s == NextState(u, x) IN
        /\ waiting' = (waiting /\ u.state = "AftLockPending")
        /\ award' = IF s = award.state THEN award
                    ELSE IF award.state = "WaitForMetersInitial" /\ s = "SentToGame"
                    THEN [award EXCEPT !.state = s, !.xfer = x, !.meter = u.meter]
                    ELSE IF s \in {"GameBusy", "AftLockPending"}
                    THEN [award EXCEPT !.state = s, !.xfer = "none"]
                    ELSE [award EXCEPT !.state = s]
        /\ told' = IF s # award.state /\ s \in Final
                   THEN [told EXCEPT ![award.hit] = @ \cup {s}] ELSE told
  BY Zenon DEF Apply, NextTransferTypes
<1> DEFINE s == NextState(u, x)
<1>2. s \in State /\ u.meter \in Nat \cup {Unread}
  BY NextStateType, Fields
<1>3. ~waiting'
  BY <1>1
<1>4. told' = IF s # award.state /\ s \in Final
              THEN [told EXCEPT ![award.hit] = @ \cup {s}] ELSE told
  BY <1>1
<1>5. award' = IF s = award.state THEN award
                ELSE IF award.state = "WaitForMetersInitial" /\ s = "SentToGame"
                THEN [award EXCEPT !.state = s, !.xfer = x, !.meter = u.meter]
                ELSE IF s \in {"GameBusy", "AftLockPending"}
                THEN [award EXCEPT !.state = s, !.xfer = "none"]
                ELSE [award EXCEPT !.state = s]
  BY <1>1
<1>6. award.state = "WaitForMetersInitial" /\ s = "SentToGame" => x = bonusing
  BY DEF NextState, Unsent, Final, Sent, Pending
<1> SUFFICES AppliedAs(u, x)
  OBVIOUS
<1> HIDE DEF s
<1>7. CASE s = award.state
  BY <1>2, <1>3, <1>4, <1>5, <1>7, Fields DEF s, AppliedAs
<1>8. CASE s # award.state /\ award.state = "WaitForMetersInitial" /\ s = "SentToGame"
  <2>1. award' = [award EXCEPT !.state = s, !.xfer = x, !.meter = u.meter]
    BY <1>5, <1>8
  <2>2. /\ award' \in Award /\ award'.hit = award.hit /\ award'.state = s
        /\ award'.xfer = bonusing /\ award'.meter = u.meter
    BY <1>2, <1>6, <1>8, <2>1 DEF Award
  <2>3. s \notin Final
    BY <1>8 DEF Final
  <2> QED
    BY <1>2, <1>3, <1>4, <1>8, <2>2, <2>3 DEF s, AppliedAs
<1>9. CASE s # award.state /\ ~(award.state = "WaitForMetersInitial" /\ s = "SentToGame")
  <2>1. \/ award' = [award EXCEPT !.state = s, !.xfer = "none"] /\ s \notin Final
        \/ award' = [award EXCEPT !.state = s]
    BY <1>5, <1>9 DEF Final
  <2>2. /\ award' \in Award /\ award'.hit = award.hit /\ award'.state = s
        /\ award'.meter = award.meter
    BY <1>2, <2>1 DEF Award
  <2> QED
    BY <1>2, <1>3, <1>4, <1>9, <2>1, <2>2 DEF s, AppliedAs
<1> QED
  BY <1>7, <1>8, <1>9

\* What a copy of the award may do to it.
LEMMA CopyMoves ==
  ASSUME Legacy, NEW u \in UnderWay, u \in Award, NEW x, NextState(u, x) # award.state
  PROVE  LET s == NextState(u, x) IN
         \/ /\ award.state = "WaitForMetersInitial" /\ s = "SentToGame"
            /\ u.state = "WaitForMetersInitial" /\ u.meter # Unread
         \/ /\ Unsettled /\ u.state \in Final /\ s = "AwardToGameIneligible"
         \/ /\ award.state = "SentToGame" /\ u.state = "GameBusy" /\ s = "GameBusy"
         \/ /\ award.state \in {"SentToGame", "GameBusy"} /\ u.state = "Signaled"
            /\ s = "Signaled"
         \/ /\ award.state \in Pending /\ u.state \in Final /\ s = "AwardToGameError"
BY LegacyFacts DEF Lockless, NextState, Unsent, Undecided, MetersRead, Sent, Pending, Final,
   Unsettled

\* An update that changes nothing, of this award or of another.
LEMMA LegacyFewerCopies ==
  ASSUME Legacy, UNCHANGED <<award, told>>,
         UNCHANGED <<bonusing, age, toSas, transfer, lock, lockPending, pc, paid,
                     handpay, shown, bonus>>,
         UnderWay' \subseteq UnderWay,
         \A h : (NoCopy(h) => NoCopy(h)') /\ (OneCopy(h) => OneCopy(h)'),
         \A i \in DOMAIN toInternals' :
              \E j \in DOMAIN toInternals : toInternals'[i] = toInternals[j],
         waiting' = waiting \/ (Unsettled => NoCopy(award.hit)'),
         \A h : MayBePaid(h) => MayBePaid(h)'
  PROVE  LegacyInv'
<1>1. Lockless'
  BY LegacyFacts DEF Lockless
<1>2. CopiesOfLast'
  <2>1. /\ \A h \in Hit : Offered(h)' <=> Offered(h)
        /\ Unsettled' <=> Unsettled
    BY DEF Offered, Unsettled
  <2>2. Unsettled' /\ ~waiting' =>
          \A m \in UnderWay' : m.hit = award'.hit => m.state \in Final /\ age' >= 1
    <3>1. CASE waiting' = waiting
      BY <2>1, <3>1, LegacyFacts DEF CopiesOfLast
    <3>2. CASE Unsettled => NoCopy(award.hit)'
      BY <2>1, <3>2 DEF NoCopy
    <3> QED
      BY <3>1, <3>2
  <2> QED
    BY <2>1, <2>2, LegacyFacts DEF CopiesOfLast
<1>3. PaidAndTold'
  BY LegacyFacts DEF PaidAndTold, Offered
<1>4. NoneGivenUp => HandpayOfAward'
  BY LegacyFacts DEF HandpayOfAward
<1>5. NoneGivenUp => MetersOfAward'
  BY LegacyFacts DEF MetersOfAward
<1>6. /\ UNCHANGED <<award, told>> /\ UNCHANGED told /\ UNCHANGED <<told, paid>>
      /\ (NoneGivenUp' => NoneGivenUp)
  BY DEF NoneGivenUp
<1> QED
  BY <1>1, <1>2, <1>3, <1>4, <1>5, <1>6, LegacyPreserved

\* An award goes on, after the only copy of it was taken.
LEMMA LegacyGoesOn ==
  ASSUME Legacy, Unsettled, NEW s \in {"SentToGame", "GameBusy", "Signaled"},
         award'.hit = award.hit, award'.state = s, UNCHANGED told,
         s = "SentToGame" => award'.xfer = bonusing,
         UNCHANGED <<bonusing, age, toSas, transfer, lock, lockPending, pc, paid,
                     handpay, shown, bonus>>,
         UnderWay' \subseteq UnderWay,
         \A h : (NoCopy(h) => NoCopy(h)'),
         NoCopy(award.hit)',
         \A i \in DOMAIN toInternals' :
              \E j \in DOMAIN toInternals : toInternals'[i] = toInternals[j],
         \A i \in DOMAIN toSas : toSas[i].state # "SentToGame",
         s = "Signaled" \/ ~MayBePaid(award.hit),
         NoneGivenUp /\ award.state = "WaitForMetersInitial" => award'.meter = bonus,
         award.state # "WaitForMetersInitial" => award'.meter = award.meter
  PROVE  LegacyInv'
<1>1. award.state \in InProgress /\ award'.state \in InProgress /\ award.hit \in Hit
      /\ award.state \notin Pending
  BY InProgressIsOffered DEF Unsettled, InProgress, Sent, Pending
<1>2. \A h : MayBePaid(h) => MayBePaid(h)'
  BY DEF MayBePaid, Pending
<1>4. Lockless'
  BY LegacyFacts DEF Lockless
<1>5. ToldOfLast'
  BY <1>1, LegacyFacts DEF ToldOfLast, Final
<1>6. CopiesOfLast'
  <2>1. \A h \in Hit : Offered(h)' /\ ~(h = award'.hit /\ award'.state \in InProgress)
                         => NoCopy(h)'
    BY <1>1, LegacyFacts DEF CopiesOfLast, Offered
  <2>2. (Unsettled => OneCopy(award.hit))'
    BY DEF NoCopy, OneCopy, UnderWay
  <2>3. \A m \in UnderWay' : m.hit # award'.hit
    BY DEF NoCopy
  <2> QED
    BY <2>1, <2>2, <2>3 DEF CopiesOfLast
<1>7. PaidAndTold'
  BY <1>2, LegacyFacts DEF PaidAndTold, Offered
<1>8. NoneGivenUp => HandpayOfAward'
  <2>1. NoneGivenUp => ~shown
    BY LegacyFacts DEF HandpayOfAward, Unsettled
  <2>2. NoneGivenUp /\ handpay # NoHit => MayBePaid(handpay)'
    BY <1>2, LegacyFacts DEF HandpayOfAward
  <2> QED
    BY <2>1, <2>2 DEF HandpayOfAward
<1>9. NoneGivenUp => MetersOfAward'
  <2>1. CASE award.state = "WaitForMetersInitial"
    <3>1. paid[award.hit] = 0
      <4>1. ~MayBePaid(award.hit)
        BY <2>1 DEF MayBePaid, Pending
      <4> QED
        BY <1>1, <4>1, NotPaid
    <3> QED
      BY <2>1, <3>1, LegacyFacts DEF MetersOfAward
  <2>2. CASE award.state # "WaitForMetersInitial"
    <3>1. award.state \in Sent \cup Pending
      BY <2>2 DEF Unsettled, Sent
    <3> QED
      BY <2>2, <3>1, LegacyFacts DEF MetersOfAward
  <2> QED
    BY <2>1, <2>2
<1>10. UNCHANGED told /\ UNCHANGED <<told, paid>> /\ (NoneGivenUp' => NoneGivenUp)
  BY DEF NoneGivenUp
<1> QED
  BY <1>4, <1>5, <1>6, <1>7, <1>8, <1>9, <1>10, LegacyPreserved

LEMMA LegacyFromGCF == ASSUME Legacy, FromGCF PROVE LegacyInv'
<1> DEFINE u == Head(toInternals)
<1>1. /\ toInternals # <<>> /\ toInternals' = Tail(toInternals) /\ UNCHANGED toSas
      /\ UNCHANGED <<bonusing, age, toSas, transfer, lock, lockPending, pc, paid,
                     handpay, shown, bonus>>
      /\ IF u.hit = award.hit THEN Apply(u) ELSE UNCHANGED <<award, waiting, delayed, told>>
  BY DEF FromGCF, machine, sasState, payment
<1>2. /\ UnderWay' \subseteq UnderWay
      /\ \A i \in DOMAIN toInternals' :
            \E j \in DOMAIN toInternals : toInternals'[i] = toInternals[j]
      /\ \A i \in DOMAIN toInternals : toInternals[i] # u =>
            \E j \in DOMAIN toInternals' : toInternals'[j] = toInternals[i]
      /\ u \in UnderWay /\ \E j \in DOMAIN toInternals : toInternals[j] = u
      /\ \A h : (NoCopy(h) => NoCopy(h)') /\ (OneCopy(h) => OneCopy(h)')
      /\ \A h : OneCopy(h) /\ u.hit = h => NoCopy(h)'
  BY <1>1, LegacyFacts, TakenCopies
<1>3. u \in Award
  BY <1>1, LegacyFacts DEF QueueTypes
<1> HIDE DEF u
<1>4. CASE u.hit # award.hit
  <2>1. UNCHANGED <<award, waiting, told>>
    BY <1>1, <1>4
  <2>2. \A h : MayBePaid(h) => MayBePaid(h)'
    BY <1>2, <1>4, <2>1 DEF MayBePaid
  <2> QED
    BY <1>1, <1>2, <2>1, <2>2, LegacyFewerCopies
<1>5. CASE u.hit = award.hit
  <2>x. PICK x \in {bonusing, "none"} : AppliedAs(u, x)
    <3>1. Apply(u) /\ u.state # "AftLockPending" /\ bonusing \in Bonusing /\ award \in Award
      BY <1>1, <1>2, <1>5, LegacyFacts DEF Lockless, TypeOK
    <3> QED
      BY <1>3, <3>1, Applied
  <2> DEFINE s == NextState(u, x)
  <2>1. /\ s \in State /\ ~waiting'
        /\ award' \in Award /\ award'.hit = award.hit /\ award'.state = s
        /\ s = award.state => award' = award /\ told' = told
        /\ s # award.state /\ s \in Final =>
                  /\ award' = [award EXCEPT !.state = s]
                  /\ told' = [told EXCEPT ![award.hit] = @ \cup {s}]
        /\ s \notin Final => told' = told
        /\ award.state # "WaitForMetersInitial" => award'.meter = award.meter
        /\ award.state = "WaitForMetersInitial" /\ s = "SentToGame" =>
                  award'.meter = u.meter /\ award'.xfer = bonusing
    BY <2>x DEF AppliedAs
  <2>2. Unsettled => /\ NoCopy(award.hit)'
                     /\ \A i \in DOMAIN toSas : toSas[i].state # "SentToGame"
                     /\ \A i \in DOMAIN toInternals : toInternals[i].hit = award.hit
                           => toInternals[i] = u
    <3>1. Unsettled => OneCopy(award.hit)
      BY LegacyFacts DEF CopiesOfLast
    <3>2. ASSUME Unsettled, NEW i \in DOMAIN toSas
          PROVE  toSas[i].state # "SentToGame"
      <4>1. toSas[i].hit # award.hit
        BY <1>2, <1>5, <3>1, <3>2 DEF OneCopy
      <4> QED
        BY <4>1, LegacyFacts DEF CopiesOfLast
    <3>3. ASSUME Unsettled, NEW i \in DOMAIN toInternals, toInternals[i].hit = award.hit
          PROVE  toInternals[i] = u
      BY <1>2, <1>5, <3>1, <3>3 DEF OneCopy
    <3>4. ASSUME Unsettled
          PROVE  NoCopy(award.hit)'
      <4>1. PICK h : h = award.hit
        OBVIOUS
      <4>2. NoCopy(h)'
        BY <1>2, <1>5, <3>1, <3>4, <4>1
      <4> QED
        BY <2>1, <4>1, <4>2 DEF NoCopy
    <3> QED
      BY <3>2, <3>3, <3>4
  <2>3. MayBePaid(award.hit) /\ award.state = "SentToGame" => u.state = "Signaled"
    BY <1>2, <1>5, MayBePaidStates
  <2> HIDE DEF s
  <2>4. CASE s = award.state
    <3>1. UNCHANGED <<award, told>>
      BY <2>1, <2>4
    <3>2. ASSUME award.state = "SentToGame", u.state = "Signaled"
          PROVE  FALSE
      <4>1. NextState(u, x) = "Signaled"
        BY <3>2 DEF NextState, Sent, Pending, Final
      <4> QED
        BY <2>4, <3>2, <4>1 DEF s
    <3>3. \A h : MayBePaid(h) => MayBePaid(h)'
      BY <2>3, <3>1, <3>2 DEF MayBePaid
    <3> QED
      BY <1>1, <1>2, <2>2, <3>1, <3>3, LegacyFewerCopies
  <2>5. CASE s # award.state
    <3>1. \/ /\ award.state = "WaitForMetersInitial" /\ s = "SentToGame"
             /\ u.state = "WaitForMetersInitial" /\ u.meter # Unread
          \/ /\ Unsettled /\ u.state \in Final /\ s = "AwardToGameIneligible"
          \/ /\ award.state = "SentToGame" /\ u.state = "GameBusy" /\ s = "GameBusy"
          \/ /\ award.state \in {"SentToGame", "GameBusy"} /\ u.state = "Signaled"
             /\ s = "Signaled"
          \/ /\ award.state \in Pending /\ u.state \in Final /\ s = "AwardToGameError"
      BY <1>2, <1>3, <2>5, CopyMoves DEF s
    <3>2. CASE /\ award.state = "WaitForMetersInitial" /\ s = "SentToGame"
               /\ u.state = "WaitForMetersInitial" /\ u.meter # Unread
      <4>1. Unsettled /\ ~MayBePaid(award.hit)
        BY <3>2 DEF Unsettled, MayBePaid, Pending
      <4>2. NoneGivenUp => u.meter = bonus
        BY <1>2, <1>5, <3>2, LegacyFacts DEF MetersOfAward
      <4>3. told' = told
        BY <2>1, <3>2 DEF Final
      <4> QED
        BY <1>1, <1>2, <2>1, <2>2, <3>2, <4>1, <4>2, <4>3, LegacyGoesOn
    <3>3. CASE /\ award.state \in {"SentToGame", "GameBusy"}
               /\ (s = "GameBusy" /\ u.state = "GameBusy") \/ s = "Signaled"
      <4>1. Unsettled /\ told' = told
        BY <2>1, <3>3 DEF Unsettled, Final
      <4>2. s = "Signaled" \/ ~MayBePaid(award.hit)
        BY <2>3, <3>3 DEF MayBePaid, Pending
      <4> QED
        BY <1>1, <1>2, <2>1, <2>2, <3>3, <4>1, <4>2, LegacyGoesOn
    <3>4. CASE Unsettled /\ u.state \in Final /\ s = "AwardToGameIneligible"
      <4>1. award.state \in InProgress /\ s \in Final
        BY <3>4 DEF Unsettled, InProgress, Sent, Final
      <4>2. ~MayBePaid(award.hit)
        BY <2>3, <3>4 DEF MayBePaid, Pending, Final, Unsettled
      <4>3. paid[award.hit] = 0 /\ (NoneGivenUp => handpay = NoHit /\ ~shown)
        BY <4>1, <4>2, NotPaid
      <4> QED
        BY <1>1, <1>2, <2>1, <2>2, <2>5, <3>4, <4>1, <4>3, LegacyEnd
    <3>5. CASE award.state \in Pending /\ u.state \in Final /\ s = "AwardToGameError"
      <4>1. award.state \in InProgress /\ s \in Final
        BY <3>5 DEF InProgress, Final
      <4>2. \A i \in DOMAIN toSas : toSas[i].state # "SentToGame"
        BY <3>5, LegacyFacts DEF CopiesOfLast, Pending
      <4> QED
        BY <1>1, <1>2, <2>1, <2>5, <3>5, <4>1, <4>2, LegacyEnd
    <3> QED
      BY <3>1, <3>2, <3>3, <3>4, <3>5
  <2> QED
    BY <2>4, <2>5
<1> QED
  BY <1>4, <1>5

\* Meters, games and hand pays are noted.
LEMMA LegacyNoted ==
  ASSUME Legacy, award.state \in Pending,
         NoneGivenUp => paid[award.hit] > 0 /\ handpay = NoHit,
         Apply([award EXCEPT !.state = "AwardToGameSuccess"]),
         UNCHANGED <<bonusing, age, toSas, toInternals, transfer, lock, lockPending, pc, paid,
                     handpay, shown, bonus>>
  PROVE  LegacyInv'
<1> DEFINE u == [award EXCEPT !.state = "AwardToGameSuccess"]
<1>1. u \in Award /\ u.state = "AwardToGameSuccess"
  BY LegacyFacts, StateNames, WithState
<1>2. \A x : NextState(u, x) = "AwardToGameSuccess"
  BY <1>1 DEF NextState, Undecided, Sent, Pending, Final
<1>3. /\ award' = [award EXCEPT !.state = "AwardToGameSuccess"]
      /\ told' = [told EXCEPT ![award.hit] = @ \cup {"AwardToGameSuccess"}]
  <2>1. "AwardToGameSuccess" # award.state /\ "AwardToGameSuccess" \in Final
    BY DEF Pending, Final
  <2> HIDE DEF u
  <2>2. Apply(u)
    BY DEF u
  <2>3. PICK x \in {bonusing, "none"} : AppliedAs(u, x)
    BY <1>1, <2>2, LegacyFacts, Applied DEF TypeOK
  <2>4. NextState(u, x) = "AwardToGameSuccess"
    BY <1>2
  <2> QED
    BY <2>1, <2>3, <2>4 DEF AppliedAs
<1>4. /\ NoneGivenUp => ~shown
      /\ award.state \in InProgress /\ "AwardToGameSuccess" \in Final
  BY LegacyFacts DEF HandpayOfAward, InProgress, Final
<1>5. \A i \in DOMAIN toSas : toSas[i].state # "SentToGame"
  BY LegacyFacts DEF CopiesOfLast, Pending
<1>6. UnderWay' = UnderWay /\ \A h : NoCopy(h) => NoCopy(h)'
  BY SameCopies
<1> HIDE DEF u
<1> QED
  BY <1>3, <1>4, <1>5, <1>6, LegacyEnd

LEMMA LegacySetMeters == ASSUME Legacy, SetMeters PROVE LegacyInv'
<1>1. /\ award.state \in Pending /\ bonus > award.meter
      /\ Apply([award EXCEPT !.state = "AwardToGameSuccess"])
      /\ UNCHANGED <<bonusing, age, toSas, toInternals, transfer, lock, lockPending, pc, paid,
                     handpay, shown, bonus>>
  BY DEF SetMeters, machine, payment, sasState, queues
<1>2. NoneGivenUp => paid[award.hit] > 0 /\ handpay = NoHit
  BY <1>1, LegacyFacts DEF MetersOfAward
<1> QED
  BY <1>1, <1>2, LegacyNoted

LEMMA LegacyGameStart == ASSUME Legacy, GameStart PROVE LegacyInv'
<1>1. /\ award.state = "HandpayPending" /\ handpay = NoHit
      /\ Apply([award EXCEPT !.state = "AwardToGameSuccess"])
      /\ UNCHANGED <<bonusing, age, toSas, toInternals, transfer, lock, lockPending, pc, paid,
                     handpay, shown, bonus>>
  BY DEF GameStart, machine, payment, sasState, queues
<1>2. paid[award.hit] > 0 /\ award.state \in Pending
  BY <1>1, LegacyFacts DEF PaidAndTold, Pending
<1> QED
  BY <1>1, <1>2, LegacyNoted

LEMMA LegacyJackpotInfo == ASSUME Legacy, JackpotInfo PROVE LegacyInv'
<1> DEFINE u == [award EXCEPT !.state = "HandpayPending"]
<1>1. /\ handpay # NoHit /\ ~shown /\ shown'
      /\ (handpay = award.hit /\ award.state \in {"SentToGame", "AftLockPending"} \cup Pending)
           => Apply(u)
      /\ UNCHANGED <<bonusing, age, toSas, toInternals, transfer, lock, lockPending, pc, paid,
                     handpay, bonus>>
  BY Zenon DEF JackpotInfo, payment, sasState, queues
<1>2. CASE ~(/\ handpay = award.hit
             /\ award.state \in {"SentToGame", "AftLockPending"} \cup Pending)
  <2>1. /\ UNCHANGED <<award, waiting, delayed, told>>
        /\ NoneGivenUp => FALSE
    <3>1. NoneGivenUp => MayBePaid(handpay)
      BY <1>1, LegacyFacts DEF HandpayOfAward
    <3>2. MayBePaid(handpay) => FALSE
      BY <1>2 DEF MayBePaid
    <3> QED
      BY <1>2, <3>1, <3>2 DEF JackpotInfo
  <2>2. /\ UNCHANGED <<transfer, lock, lockPending, pc, award, queues>>
        /\ UNCHANGED <<award, told>> /\ UNCHANGED <<award, told, paid, handpay, toInternals>>
        /\ UNCHANGED <<award, bonus, paid, handpay, toInternals>>
        /\ UNCHANGED <<award, told, waiting, age, queues>>
        /\ UNCHANGED told /\ UNCHANGED <<told, paid>> /\ UNCHANGED bonusing
    BY <1>1, <2>1 DEF queues
  <2>3. NoneGivenUp' => HandpayOfAward'
    BY <2>1, <2>2 DEF NoneGivenUp
  <2> QED
    BY <2>2, <2>3, LegacyPreserved
<1>3. CASE /\ handpay = award.hit
           /\ award.state \in {"SentToGame", "AftLockPending"} \cup Pending
  <2>1. /\ paid[award.hit] > 0 /\ award.hit \in Hit
        /\ award.state \in {"SentToGame"} \cup Pending
    BY <1>1, <1>3, LegacyFacts, InProgressIsOffered
       DEF PaidAndTold, Lockless, InProgress, Sent, Pending
  <2>2. MayBePaid(award.hit)
    <3>1. Offered(award.hit)
      BY <2>1, InProgressIsOffered DEF InProgress, Sent
    <3> QED
      BY <2>1, <3>1, LegacyFacts DEF PaidAndTold
  <2>3. u \in Award /\ u.state = "HandpayPending"
    BY LegacyFacts, StateNames, WithState
  <2>4. \A x : NextState(u, x) = "HandpayPending"
    BY <2>1, <2>3 DEF NextState, Sent, Pending, Final
  <2> HIDE DEF u
  <2>5. /\ award' \in Award /\ award'.hit = award.hit /\ award'.state = "HandpayPending"
        /\ award'.meter = award.meter /\ told' = told
    <3>1. Apply(u)
      BY <1>1, <1>3
    <3>2. award.state # "WaitForMetersInitial" /\ "HandpayPending" \notin Final
      BY <2>1 DEF Pending, Final
    <3>3. PICK x \in {bonusing, "none"} : AppliedAs(u, x)
      BY <2>3, <3>1, LegacyFacts, Applied DEF TypeOK
    <3>4. NextState(u, x) = "HandpayPending"
      BY <2>4
    <3> QED
      BY <3>2, <3>3, <3>4 DEF AppliedAs
  <2>7. /\ UnderWay' = UnderWay
        /\ \A h : NoCopy(h)' <=> NoCopy(h)
    BY <1>1, SameCopies
  <2>8. \A i \in DOMAIN toSas : toSas[i].state # "SentToGame"
    <3>1. award.state = "SentToGame" => \A i \in DOMAIN toSas : toSas[i].hit # award.hit
      BY <2>2, MayBePaidStates
    <3> QED
      BY <3>1, LegacyFacts DEF CopiesOfLast
  <2>9. Lockless'
    BY <1>1, <2>5, <2>7, LegacyFacts DEF Lockless
  <2>10. ToldOfLast'
    BY <2>1, <2>5, LegacyFacts DEF ToldOfLast, InProgress, Sent, Pending, Final
  <2>11. CopiesOfLast'
    <3>1. award.state \in InProgress /\ award'.state \in InProgress /\ ~Unsettled'
      BY <2>1, <2>5 DEF InProgress, Sent, Pending, Unsettled
    <3> QED
      BY <1>1, <2>5, <2>7, <2>8, <3>1, LegacyFacts DEF CopiesOfLast, Offered
  <2>12. PaidAndTold'
    BY <1>1, <2>1, <2>5, LegacyFacts DEF PaidAndTold, MayBePaid, Offered, Pending
  <2>13. HandpayOfAward'
    BY <1>1, <1>3, <2>5 DEF HandpayOfAward, MayBePaid, Pending
  <2>14. NoneGivenUp => MetersOfAward'
    <3>1. award.state \in Sent \cup Pending
      BY <2>1 DEF Sent
    <3> QED
      BY <1>1, <2>5, <3>1, LegacyFacts DEF MetersOfAward
  <2>15. /\ UNCHANGED told /\ UNCHANGED <<told, paid>> /\ UNCHANGED bonusing
         /\ (NoneGivenUp' => NoneGivenUp)
    BY <1>1, <2>5 DEF NoneGivenUp
  <2> QED
    BY <2>9, <2>10, <2>11, <2>12, <2>13, <2>14, <2>15, LegacyPreserved
<1> QED
  BY <1>2, <1>3

-----------------------------------------------------------------------------
(* Steps of the SAS protocol *)

\* An answer to a copy is another copy of the same award.
LEMMA AnsweredParts ==
  ASSUME Legacy, toSas # <<>>, NEW new \in Award, Answer(new), new.hit = Head(toSas).hit,
         new.state \in {"WaitForMetersInitial", "SentToGame", "GameBusy", "Signaled",
                        "AwardToGameError", "AwardToGameIneligible"},
         Head(toSas).state \in Final => new.state \in Final,
         UNCHANGED <<transfer, lock, lockPending>>
  PROVE  /\ Lockless' /\ CopiesOfLast'
         /\ \A h : MayBePaid(h) => MayBePaid(h)'
         /\ UnderWay' \subseteq UnderWay \cup {new}
         /\ Head(toSas) \in UnderWay
         /\ OneCopy(new.hit) => \A m \in UnderWay' : m.hit = new.hit => m = new
         /\ \A i \in DOMAIN toInternals' : toInternals'[i] = new
              \/ \E j \in DOMAIN toInternals : toInternals'[i] = toInternals[j]
         /\ \E j \in DOMAIN toInternals' : toInternals'[j] = new
         /\ UNCHANGED <<bonusing, award, told, waiting, age, shown, pc>>
<1>1. /\ toSas' = Tail(toSas) /\ toInternals' = Append(toInternals, new)
      /\ UNCHANGED <<bonusing, award, told, waiting, age, shown, pc>>
  BY DEF Answer, manager
<1>2. /\ UnderWay' \subseteq UnderWay \cup {new}
      /\ \A i \in DOMAIN toSas' : \E j \in DOMAIN toSas : toSas'[i] = toSas[j]
      /\ \A i \in DOMAIN toInternals' : toInternals'[i] = new
           \/ \E j \in DOMAIN toInternals : toInternals'[i] = toInternals[j]
      /\ \A i \in DOMAIN toInternals :
           \E j \in DOMAIN toInternals' : toInternals'[j] = toInternals[i]
      /\ \E j \in DOMAIN toInternals' : toInternals'[j] = new
      /\ Head(toSas) \in UnderWay
      /\ \A h : (NoCopy(h) => NoCopy(h)') /\ (OneCopy(h) => OneCopy(h)')
      /\ OneCopy(new.hit) => \A m \in UnderWay' : m.hit = new.hit => m = new
  BY <1>1, LegacyFacts, AnsweredCopies
<1>3. \A h : MayBePaid(h) => MayBePaid(h)'
  BY <1>1, <1>2 DEF MayBePaid
<1>4. Lockless'
  BY <1>1, <1>2, LegacyFacts DEF Lockless
<1>5. CopiesOfLast'
  <2>1. \A h \in Hit : Offered(h)' /\ ~(h = award'.hit /\ award'.state \in InProgress)
                         => NoCopy(h)'
    BY <1>1, <1>2, LegacyFacts DEF CopiesOfLast, Offered
  <2>2. (Unsettled => OneCopy(award.hit))'
    <3>1. PICK h : h = award.hit
      OBVIOUS
    <3>2. Unsettled' => OneCopy(h)'
      BY <1>1, <1>2, <3>1, LegacyFacts DEF CopiesOfLast, Unsettled
    <3> QED
      BY <1>1, <3>1, <3>2 DEF OneCopy
  <2>3. ASSUME Unsettled', ~waiting', NEW m \in UnderWay', m.hit = award'.hit
        PROVE  m.state \in Final /\ age' >= 1
    <3>1. Unsettled /\ ~waiting
      BY <1>1, <2>3 DEF Unsettled
    <3> QED
      BY <1>1, <1>2, <2>3, <3>1, LegacyFacts DEF CopiesOfLast
  <2> QED
    BY <1>1, <1>2, <2>1, <2>2, <2>3, LegacyFacts DEF CopiesOfLast
<1> QED
  BY <1>1, <1>2, <1>3, <1>4, <1>5

\* Nothing was paid.
LEMMA LegacyUnpaidAnswer ==
  ASSUME Legacy, toSas # <<>>, NEW new \in Award, Answer(new), new.hit = Head(toSas).hit,
         new.state \in {"WaitForMetersInitial", "SentToGame", "GameBusy", "Signaled",
                        "AwardToGameError", "AwardToGameIneligible"},
         Head(toSas).state \in Final => new.state \in Final,
         new.state = "WaitForMetersInitial" => new.meter \in {bonus, Unread},
         UNCHANGED <<lock, lockPending>>, UNCHANGED payment
  PROVE  LegacyInv'
<1>1. UNCHANGED <<transfer, paid, handpay, bonus>>
  BY DEF payment
<1>2. /\ Lockless' /\ CopiesOfLast'
      /\ \A h : MayBePaid(h) => MayBePaid(h)'
      /\ UnderWay' \subseteq UnderWay \cup {new}
      /\ Head(toSas) \in UnderWay
      /\ \A i \in DOMAIN toInternals' : toInternals'[i] = new
           \/ \E j \in DOMAIN toInternals : toInternals'[i] = toInternals[j]
      /\ UNCHANGED <<bonusing, award, told, waiting, age, shown, pc>>
  BY <1>1, AnsweredParts
<1>3. PaidAndTold'
  BY <1>1, <1>2, LegacyFacts DEF PaidAndTold, Offered
<1>4. NoneGivenUp => HandpayOfAward'
  BY <1>1, <1>2, LegacyFacts DEF HandpayOfAward
<1>5. NoneGivenUp => MetersOfAward'
  BY <1>1, <1>2, LegacyFacts DEF MetersOfAward
<1>6. /\ UNCHANGED <<award, told>> /\ UNCHANGED told /\ UNCHANGED <<told, paid>>
      /\ (NoneGivenUp' => NoneGivenUp) /\ UNCHANGED bonusing
  BY <1>1, <1>2 DEF NoneGivenUp
<1> QED
  BY <1>2, <1>3, <1>4, <1>5, <1>6, LegacyPreserved

LEMMA LegacyCopyState ==
  ASSUME Legacy, toSas # <<>>
  PROVE  /\ Head(toSas) \in Award
         /\ Head(toSas).state \in {"WaitForMetersInitial", "SentToGame", "GameBusy",
                            "Signaled", "AwardToGameError", "AwardToGameIneligible"}
<1>1. Head(toSas) \in UnderWay /\ Head(toSas) \in Award
  BY LegacyFacts DEF QueueTypes, UnderWay
<1> QED
  BY <1>1, LegacyFacts DEF Lockless

LEMMA LegacyBounce == ASSUME Legacy, Bounce \/ ReadMeters \/ Refuse PROVE LegacyInv'
<1> DEFINE m == Head(toSas)
<1>1. /\ toSas # <<>> /\ UNCHANGED payment /\ UNCHANGED <<lock, lockPending>>
  BY DEF Bounce, ReadMeters, Refuse, NoPolls
<1>2. /\ m \in Award
      /\ m.state \in {"WaitForMetersInitial", "SentToGame", "GameBusy",
                      "Signaled", "AwardToGameError", "AwardToGameIneligible"}
  BY <1>1, LegacyCopyState
<1>3. CASE m.state \notin {"WaitForMetersInitial", "SentToGame"} /\ Answer(m)
  BY <1>1, <1>2, <1>3, LegacyUnpaidAnswer
<1>4. CASE m.state \notin Final /\ Answer([m EXCEPT !.state = "GameBusy"])
  <2>1. /\ [m EXCEPT !.state = "GameBusy"] \in Award
        /\ [m EXCEPT !.state = "GameBusy"].hit = m.hit
        /\ [m EXCEPT !.state = "GameBusy"].state = "GameBusy" /\ "GameBusy" \notin Final
    BY <1>2, StateNames, WithState DEF Final
  <2> QED
    BY <1>1, <1>4, <2>1, LegacyUnpaidAnswer
<1>5. CASE /\ m.state = "WaitForMetersInitial"
           /\ \E v \in {bonus, Unread} : Answer([m EXCEPT !.meter = v])
  <2>1. PICK v \in {bonus, Unread} : Answer([m EXCEPT !.meter = v])
    BY <1>5
  <2>2. /\ [m EXCEPT !.meter = v] \in Award
        /\ [m EXCEPT !.meter = v].hit = m.hit /\ [m EXCEPT !.meter = v].meter = v
        /\ [m EXCEPT !.meter = v].state = "WaitForMetersInitial"
    BY <1>2, <1>5, LegacyFacts DEF Award
  <2>3. "WaitForMetersInitial" \notin Final
    BY DEF Final
  <2> QED
    BY <1>1, <1>5, <2>1, <2>2, <2>3, LegacyUnpaidAnswer
<1>6. CASE Answer([m EXCEPT !.state = "AwardToGameIneligible"])
  <2>1. /\ [m EXCEPT !.state = "AwardToGameIneligible"] \in Award
        /\ [m EXCEPT !.state = "AwardToGameIneligible"].hit = m.hit
        /\ [m EXCEPT !.state = "AwardToGameIneligible"].state = "AwardToGameIneligible"
        /\ "AwardToGameIneligible" \in Final
    BY <1>2, StateNames, WithState DEF Final
  <2> QED
    BY <1>1, <1>6, <2>1, LegacyUnpaidAnswer
<1> QED
  BY <1>3, <1>4, <1>5, <1>6 DEF Bounce, ReadMeters, Refuse

\* The poll that pays: it is the only copy, and no earlier one has paid.
LEMMA PayingPoll ==
  ASSUME Legacy, toSas # <<>>, Head(toSas).state = "SentToGame"
  PROVE  /\ award.hit = Head(toSas).hit /\ award.hit \in Hit /\ award.state = "SentToGame"
         /\ OneCopy(award.hit) /\ Unsettled /\ told[award.hit] = {}
         /\ paid[award.hit] = 0 /\ (NoneGivenUp => handpay = NoHit /\ ~shown)
<1>1. Head(toSas) = toSas[1] /\ 1 \in DOMAIN toSas
  BY LegacyFacts DEF QueueTypes
<1>2. award.hit = Head(toSas).hit /\ award.state = "SentToGame"
  BY <1>1, LegacyFacts DEF CopiesOfLast
<1>3. Unsettled /\ award.state \in InProgress
  BY <1>2 DEF Unsettled, InProgress, Sent
<1>4. ~MayBePaid(award.hit)
  BY <1>1, <1>2, MayBePaidStates
<1> QED
  BY <1>2, <1>3, <1>4, LegacyFacts, NotPaid, InProgressIsOffered DEF CopiesOfLast

LEMMA LegacyPay == ASSUME Legacy, AwardLegacyBonus PROVE LegacyInv'
<1> DEFINE m == Head(toSas)
<1>1. PICK r \in PollAnswers \ {"lost"} :
        /\ Answer([m EXCEPT !.state = IF r = "unsent" THEN "AwardToGameIneligible"
                                                     ELSE "Signaled"])
        /\ IF r = "answered" THEN Pay(m.hit) /\ UNCHANGED transfer
                             ELSE UNCHANGED payment
  BY DEF AwardLegacyBonus
<1>2. toSas # <<>> /\ m.state = "SentToGame" /\ UNCHANGED <<lock, lockPending>>
  BY DEF AwardLegacyBonus
<1>3. m \in Award
  BY <1>2, LegacyCopyState
<1> DEFINE s == IF r = "unsent" THEN "AwardToGameIneligible" ELSE "Signaled"
           new == [m EXCEPT !.state = s]
<1>4. /\ new \in Award /\ new.hit = m.hit /\ new.state = s
      /\ s \in {"AwardToGameIneligible", "Signaled"}
  BY <1>3, StateNames, WithState
<1>5. Answer(new)
  BY <1>1
<1>6. m.state \notin Final
  BY <1>2 DEF Final
<1>7. CASE r # "answered"
  <2>1. UNCHANGED payment
    BY <1>1, <1>7
  <2> HIDE DEF new, s
  <2> QED
    BY <1>2, <1>4, <1>5, <1>6, <2>1, LegacyUnpaidAnswer
<1>8. CASE r = "answered"
  <2>1. s = "Signaled" /\ Pay(m.hit) /\ UNCHANGED transfer
    BY <1>1, <1>8
  <2> DEFINE h == award.hit
  <2>2. /\ h = m.hit /\ h \in Hit /\ award.state = "SentToGame"
        /\ OneCopy(h) /\ told[h] = {} /\ paid[h] = 0
        /\ NoneGivenUp => handpay = NoHit /\ ~shown
    BY <1>2, PayingPoll
  <2> HIDE DEF new, s, m
  <2>3. /\ Lockless' /\ CopiesOfLast'
        /\ \A m1 \in UnderWay' : m1.hit = h => m1 = new
        /\ \E j \in DOMAIN toInternals' : toInternals'[j] = new
        /\ UNCHANGED <<bonusing, award, told, waiting, age, shown, pc>>
    <3>1. Head(toSas).state \notin Final /\ new.hit = Head(toSas).hit
      BY <1>4, <1>6 DEF m
    <3>2. new.state \in {"WaitForMetersInitial", "SentToGame", "GameBusy", "Signaled",
                        "AwardToGameError", "AwardToGameIneligible"}
      BY <1>4
    <3> QED
      BY <1>2, <1>4, <1>5, <2>1, <2>2, <3>1, <3>2, AnsweredParts
  <2>4. /\ paid' \in [Hit -> Nat]
        /\ \A g \in Hit : paid'[g] = IF g = h THEN paid[g] + 1 ELSE paid[g]
    BY <2>1, <2>2, LegacyFacts, PayTypes DEF TypeOK
  <2>5. \/ bonus' = bonus + 1 /\ handpay' = handpay
        \/ handpay' = h /\ bonus' = bonus
    BY <2>1, <2>2 DEF Pay
  <2>6. paid'[h] = 1 /\ \A g \in Hit : g # h => paid'[g] = paid[g]
    BY <2>2, <2>4
  <2>7. (MayBePaid(award.hit))'
    BY <1>4, <2>1, <2>2, <2>3 DEF MayBePaid
  <2>8. PaidAndTold'
    <3>1. ASSUME NEW g \in Hit
          PROVE  /\ paid'[g] <= 1
                 /\ Offered(g)' /\ paid'[g] > 0 => MayBePaid(g)'
                 /\ "AwardToGameIneligible" \in told'[g] => paid'[g] = 0
      <4>1. CASE g = h
        <5>1. MayBePaid(g)'
          BY <2>3, <2>7, <4>1 DEF MayBePaid
        <5> QED
          BY <2>2, <2>3, <2>6, <4>1, <5>1
      <4>2. CASE g # h
        <5>1. ~MayBePaid(g)
          BY <4>2 DEF MayBePaid
        <5> QED
          BY <2>3, <2>6, <4>2, <5>1, LegacyFacts DEF PaidAndTold, Offered
      <4> QED
        BY <4>1, <4>2
    <3>2. award'.state # "HandpayPending"
      BY <2>2, <2>3
    <3>3. handpay' # NoHit => paid'[handpay'] > 0
      <4>1. handpay # NoHit => handpay \in Hit /\ paid[handpay] > 0 /\ handpay # h
        BY <2>2, LegacyFacts DEF PaidAndTold
      <4> QED
        BY <2>5, <2>6, <4>1
    <3> QED
      BY <3>1, <3>2, <3>3 DEF PaidAndTold
  <2>9. NoneGivenUp => HandpayOfAward'
    <3>1. NoneGivenUp => ~shown' /\ award'.state \notin Pending
      BY <2>2, <2>3 DEF Pending
    <3>2. NoneGivenUp /\ handpay' # NoHit => MayBePaid(handpay)'
      BY <2>2, <2>3, <2>5, <2>7 DEF MayBePaid
    <3> QED
      BY <3>1, <3>2 DEF HandpayOfAward
  <2>10. NoneGivenUp => MetersOfAward'
    <3> SUFFICES ASSUME NoneGivenUp
                 PROVE  MetersOfAward'
      OBVIOUS
    <3>1. bonus = award.meter
      BY <2>2, LegacyFacts DEF MetersOfAward, Sent
    <3>2. h # NoHit
      BY <2>2, EgmAwardAssumption
    <3>3. bonus' = award'.meter + (IF paid'[award'.hit] > 0 /\ handpay' = NoHit THEN 1 ELSE 0)
      BY <2>2, <2>3, <2>5, <2>6, <3>1, <3>2, LegacyFacts
    <3> QED
      BY <2>2, <2>3, <3>3 DEF MetersOfAward
  <2>11. NoneGivenUp => SuccessTold'
    BY <2>3, <2>4, LegacyFacts DEF SuccessTold
  <2>12. /\ UNCHANGED <<award, told>> /\ UNCHANGED told /\ UNCHANGED bonusing
         /\ (NoneGivenUp' => NoneGivenUp)
    BY <2>3 DEF NoneGivenUp
  <2> QED
    BY <2>3, <2>8, <2>9, <2>10, <2>11, <2>12, LegacyPreserved
<1> QED
  BY <1>7, <1>8

\* A legacy machine is not locked, and so none of these steps is taken.
LEMMA LegacyNeverLocks ==
  ASSUME Legacy
  PROVE  /\ ~AwardAFTBonus /\ ~ScheduleStep /\ ~CheckLock /\ ~ProcessGeneralPollGameLocked
         /\ ~ProcessAFTBonusXferComplete /\ ~CompleteTransfer
<1>1. transfer = NoTransfer /\ ~lock /\ ~lockPending /\ pc = "idle"
  BY LegacyFacts DEF Lockless
<1>2. ~AwardAFTBonus
  BY LegacyFacts, TakenAward DEF Legacy, AwardAFTBonus
<1>3. pc \notin LockAnswers
  BY <1>1, EgmAwardAssumption
<1>4. ~ScheduleStep
  BY <1>1, <1>3 DEF ScheduleStep, ResendAwardLockRequest, ExecuteTransfer, SendBack,
     ReturnAwardIneligible, ProcessAFTBonusGameLocked
<1>5. ~CheckLock /\ ~ProcessGeneralPollGameLocked
  BY <1>1, Zenon DEF CheckLock, ProcessGeneralPollGameLocked
<1>6. ~ProcessAFTBonusXferComplete /\ ~CompleteTransfer
  BY <1>1 DEF ProcessAFTBonusXferComplete, CompleteTransfer, NoTransfer
<1> QED
  BY <1>2, <1>4, <1>5, <1>6

-----------------------------------------------------------------------------
(* Steps of the machine, time and restarts *)

LEMMA LegacyAttendantPays == ASSUME Legacy, AttendantPays PROVE LegacyInv'
<1>1. /\ handpay # NoHit /\ shown /\ bonus' = bonus + 1 /\ handpay' = NoHit /\ ~shown'
      /\ UNCHANGED <<bonusing, award, told, waiting, age, lock, transfer, paid, lockPending, pc>>
      /\ UNCHANGED queues /\ UNCHANGED toInternals /\ UNCHANGED toSas
  BY Zenon DEF AttendantPays, manager, sasState, queues
<1>2. NoneGivenUp => handpay = award.hit /\ award.state = "HandpayPending"
  BY <1>1, LegacyFacts DEF HandpayOfAward, MayBePaid
<1>3. HandpayOfAward'
  BY <1>1 DEF HandpayOfAward
<1>4. NoneGivenUp => MetersOfAward'
  BY <1>1, <1>2, LegacyFacts DEF MetersOfAward, PaidAndTold, Pending
<1>5. PaidAndTold'
  BY <1>1, LegacyFacts DEF PaidAndTold, MayBePaid, Offered
<1>6. /\ UNCHANGED <<transfer, lock, lockPending, pc, award, queues>>
      /\ UNCHANGED <<award, told>> /\ UNCHANGED <<award, told, waiting, age, queues>>
      /\ UNCHANGED told /\ UNCHANGED <<told, paid>> /\ (NoneGivenUp' => NoneGivenUp)
  BY <1>1 DEF NoneGivenUp
<1> QED
  BY <1>1, <1>3, <1>4, <1>5, <1>6, LegacyPreserved

LEMMA LegacyTick == ASSUME Legacy, Tick PROVE LegacyInv'
<1>1. /\ age' = age + 1
      /\ UNCHANGED <<bonusing, award, told, waiting, lock, transfer, paid, handpay, bonus, shown,
                     lockPending, pc, toSas, toInternals>>
      /\ UNCHANGED queues
  BY DEF Tick, machine, payment, sasState, queues
<1>2. /\ UnderWay' = UnderWay
      /\ \A h : (NoCopy(h)' <=> NoCopy(h)) /\ (OneCopy(h)' <=> OneCopy(h))
  BY <1>1, SameCopies
<1>3. CopiesOfLast'
  <2>1. Unsettled' <=> Unsettled
    BY <1>1 DEF Unsettled
  <2> QED
    BY <1>1, <1>2, <2>1, LegacyFacts DEF CopiesOfLast, Offered
<1>4. /\ UNCHANGED <<transfer, lock, lockPending, pc, award, queues>>
      /\ UNCHANGED <<award, told>> /\ UNCHANGED <<award, told, paid, handpay, toInternals>>
      /\ UNCHANGED <<award, handpay, shown, queues>>
      /\ UNCHANGED <<award, bonus, paid, handpay, toInternals>>
      /\ UNCHANGED told /\ UNCHANGED <<told, paid>>
  BY <1>1
<1> QED
  BY <1>1, <1>3, <1>4, LegacyPreserved

LEMMA LegacyTime == ASSUME Legacy, RetryDelay \/ Online \/ UNCHANGED vars PROVE LegacyInv'
<1>1. /\ UNCHANGED <<transfer, lock, lockPending, pc, award, queues>>
      /\ UNCHANGED <<award, told>> /\ UNCHANGED <<award, told, paid, handpay, toInternals>>
      /\ UNCHANGED <<award, bonus, paid, handpay, toInternals>>
      /\ UNCHANGED <<award, told, waiting, age, queues>>
      /\ UNCHANGED <<award, handpay, shown, queues>> /\ UNCHANGED bonusing
      /\ UNCHANGED told /\ UNCHANGED <<told, paid>>
  BY DEF RetryDelay, Online, vars, manager, machine, payment, sasState, queues
<1> QED
  BY <1>1, LegacyPreserved

LEMMA LegacyRestart == ASSUME Legacy, Restart PROVE LegacyInv'
<1>1. /\ award' = Start /\ ~waiting' /\ age' = 0 /\ toSas' = <<>> /\ toInternals' = <<>>
      /\ ~lockPending' /\ pc' = "idle"
      /\ UNCHANGED <<bonusing, told, transfer, lock, paid, handpay, bonus, shown>>
  BY Zenon DEF Restart, machine, payment
<1>2. UnderWay' = {} /\ \A h : NoCopy(h)' /\ OneCopy(h)'
  BY <1>1 DEF UnderWay, NoCopy, OneCopy
<1>3. /\ award'.hit = award.hit /\ award'.meter = award.meter
      /\ award'.state = IF award.state = "SentToGame" THEN "Signaled" ELSE award.state
  <2>1. CASE award.state = "SentToGame"
    <3>1. award' = [award EXCEPT !.state = "Signaled"]
      BY <1>1, <2>1, LegacyFacts DEF Start, Lockless, Legacy
    <3> QED
      BY <2>1, <3>1, LegacyFacts, StateNames, WithState
  <2>2. CASE award.state # "SentToGame"
    <3>1. award.state # "AftLockPending"
      BY LegacyFacts DEF Lockless
    <3>2. award' = award
      BY <1>1, <2>2, <3>1 DEF Start
    <3> QED
      BY <2>2, <3>2
  <2> QED
    BY <2>1, <2>2
<1>4. \A h : MayBePaid(h) => MayBePaid(h)'
  BY <1>3 DEF MayBePaid, Pending
<1>5. Lockless'
  BY <1>1, <1>2, <1>3, LegacyFacts DEF Lockless
<1>6. ToldOfLast'
  BY <1>1, <1>3, LegacyFacts DEF ToldOfLast, InProgress, Sent, Pending, Final
<1>7. CopiesOfLast'
  BY <1>1, <1>2 DEF CopiesOfLast
<1>8. PaidAndTold'
  BY <1>1, <1>3, <1>4, LegacyFacts DEF PaidAndTold, Offered
<1>9. NoneGivenUp => HandpayOfAward'
  BY <1>1, <1>3, <1>4, LegacyFacts DEF HandpayOfAward
<1>10. NoneGivenUp => MetersOfAward'
  BY <1>1, <1>3, LegacyFacts DEF MetersOfAward, Sent, Pending
<1>11. /\ UNCHANGED told /\ UNCHANGED <<told, paid>> /\ UNCHANGED bonusing
       /\ (NoneGivenUp' => NoneGivenUp)
  BY <1>1 DEF NoneGivenUp
<1> QED
  BY <1>5, <1>6, <1>7, <1>8, <1>9, <1>10, <1>11, LegacyPreserved

-----------------------------------------------------------------------------

\* The kind of the machine is fixed, and a repeated notice is not forgotten.
LEMMA OrderlyBefore ==
  ASSUME IInv, Orderly', [Next]_vars
  PROVE  Orderly
<1>1. UNCHANGED bonusing
  BY DEF Next, ManagerStep, BaseStep, ScheduleStep, Accept, Decline, Request, ExpireAward,
     FromGCF, SetMeters, JackpotInfo, GameStart, Bounce, ReadMeters, Refuse,
     AwardLegacyBonus, AwardAFTBonus, Answer, ResendAwardLockRequest, ExecuteTransfer,
     SendBack, ReturnAwardIneligible, ProcessAFTBonusGameLocked, CheckLock,
     ProcessGeneralPollGameLocked, ProcessAFTBonusXferComplete, CompleteTransfer,
     AttendantPays, RetryDelay, Tick, Online, Restart, vars
<1>2. UNCHANGED renoticed \/ ExpireAward
  BY DEF Next, ManagerStep, BaseStep, ScheduleStep, Accept, Decline, Request,
     FromGCF, SetMeters, JackpotInfo, GameStart, Bounce, ReadMeters, Refuse,
     AwardLegacyBonus, AwardAFTBonus, Answer, ResendAwardLockRequest, ExecuteTransfer,
     SendBack, ReturnAwardIneligible, ProcessAFTBonusGameLocked, CheckLock,
     ProcessGeneralPollGameLocked, ProcessAFTBonusXferComplete, CompleteTransfer,
     AttendantPays, RetryDelay, Tick, Online, Restart, vars, past
<1>3. renoticed => renoticed'
  BY <1>2, Zenon DEF ExpireAward
<1> QED
  BY <1>1, <1>3, Zenon DEF Orderly

LEMMA LegacyStep == ASSUME IInv, LegacyInv, [Next]_vars PROVE LegacyInv'
<1> SUFFICES ASSUME Orderly'
             PROVE  LegacyInv'
  BY DEF LegacyInv
<1>1. Legacy
  BY OrderlyBefore DEF Legacy
<1>2. CASE \E h \in Hit : Accept(h) \/ Decline(h)
  BY <1>1, <1>2, LegacyAccept, LegacyDecline
<1>3. CASE ManagerStep
  BY <1>1, <1>3, LegacyRequest, LegacyExpireAward, LegacyFromGCF DEF ManagerStep
<1>4. CASE SetMeters \/ JackpotInfo \/ GameStart
  BY <1>1, <1>4, LegacySetMeters, LegacyJackpotInfo, LegacyGameStart
<1>5. CASE BaseStep
  BY <1>1, <1>5, LegacyBounce, LegacyPay, LegacyNeverLocks DEF BaseStep
<1>6. CASE AttendantPays \/ RetryDelay \/ Tick \/ Online \/ Restart \/ UNCHANGED vars
  BY <1>1, <1>6, LegacyAttendantPays, LegacyTime, LegacyTick, LegacyRestart
<1> QED
  BY <1>1, <1>2, <1>3, <1>4, <1>5, <1>6, LegacyNeverLocks DEF Next

\* The invariant of a legacy machine, up to the first notice of expiry that is repeated.
THEOREM LegacyInvariance == Spec => []LegacyInv
<1>1. Init => LegacyInv
  BY LegacyInit
<1>2. IInv /\ LegacyInv /\ [Next]_vars => LegacyInv'
  BY LegacyStep
<1> QED
  BY <1>1, <1>2, Invariance, PTL DEF Spec

\* No machine pays a hit twice, a legacy machine unless a notice of expiry is repeated:
\* it has no ids, but one copy of an award that may still be sent is under way
\* (Request, ExpireAward, FromGCF, Start).
THEOREM EachPaysOnce == Spec => []PaidOnceUnlessRenoticed
<1>1. IInv /\ LegacyInv => PaidOnceUnlessRenoticed
  BY DEF IInv, CarriedOutOnce, LegacyInv, PaidAndTold, PaidOnceUnlessRenoticed, PaidOnce
<1> QED
  BY <1>1, Invariance, LegacyInvariance, PTL

\* A legacy machine's award is reported successful only when it was paid, unless an
\* award was given up or a notice repeated (SetMeters, GameStart).
THEOREM LegacySuccessWasPaid == Spec => []SuccessWasPaid
<1>1. LegacyInv => SuccessWasPaid
  BY DEF LegacyInv, SuccessTold, SuccessWasPaid
<1> QED
  BY <1>1, LegacyInvariance, PTL

\* A legacy award that may be offered again has not been paid, unless a notice was
\* repeated (Start, NextState).
THEOREM IneligibleIsUnpaid == Spec => []LegacyIneligibleIsUnpaid
<1>1. LegacyInv => LegacyIneligibleIsUnpaid
  BY DEF LegacyInv, PaidAndTold, LegacyIneligibleIsUnpaid
<1> QED
  BY <1>1, LegacyInvariance, PTL

\* A legacy machine pays the hit that the manager has in hand, unless a notice was
\* repeated (AwardLegacyBonus).
THEOREM LegacyPaysCurrentAward == Spec => PaysCurrentAward
<1>1. ASSUME IInv, LegacyInv, [Next]_vars
      PROVE  [Orderly' => \A h \in Hit : paid'[h] # paid[h] => award.hit = h]_vars
  <2> SUFFICES ASSUME Orderly'
               PROVE  \A h \in Hit : paid'[h] # paid[h] => award.hit = h
    OBVIOUS
  <2>1. Legacy
    BY <1>1, OrderlyBefore DEF Legacy
  <2>2. CASE UNCHANGED paid
    BY <2>2
  <2>3. CASE AwardLegacyBonus
    <3>1. toSas # <<>> /\ Head(toSas).state = "SentToGame"
      BY <2>3 DEF AwardLegacyBonus
    <3>2. award.hit = Head(toSas).hit
      BY <2>1, <3>1, PayingPoll
    <3>3. paid' = paid \/ paid' = [paid EXCEPT ![award.hit] = @ + 1]
      BY <2>3, <3>2 DEF AwardLegacyBonus, Pay, payment
    <3> QED
      BY <2>1, <3>3, LegacyFacts
  <2>4. UNCHANGED paid \/ AwardLegacyBonus
    BY <1>1, <2>1, LegacyNeverLocks DEF Next, ManagerStep, BaseStep, Accept, Decline, Request,
       ExpireAward, FromGCF, SetMeters, JackpotInfo, GameStart, Bounce, ReadMeters, Refuse,
       NoPolls, AttendantPays, RetryDelay, Tick, Online, Restart, vars, machine, payment
  <2> QED
    BY <2>2, <2>3, <2>4
<1> QED
  BY <1>1, Invariance, LegacyInvariance, PTL DEF Spec, PaysCurrentAward

=============================================================================
