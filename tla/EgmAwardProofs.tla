--------------------------- MODULE EgmAwardProofs ---------------------------
(***************************************************************************)
(* The types of the award, its copies and the payments, and that a machine *)
(* with AFT pays a hit once, for any number of hits, offers, restarts and  *)
(* messages under way.                                                     *)
(*                                                                         *)
(* Copies of an award are not taken back: an old one may ask for a payment *)
(* again.  The machine rules it out, because the transfer bears the id of  *)
(* the hit, provided that it is never asked by a legacy poll, which bears  *)
(* none: the kind of transfer travels with the award, so the invariant     *)
(* follows it through the queue.                                           *)
(***************************************************************************)
EXTENDS EgmAward, TLAPS

-----------------------------------------------------------------------------
(* Awards and queues of them *)

LEMMA StateNames ==
  /\ {"NoAward", "WaitForMetersInitial", "SentToGame", "GameBusy", "AftLockPending",
      "Signaled", "HandpayPending", "AwardToGameSuccess", "AwardToGameError",
      "AwardToGameIneligible"} = State
  /\ Final \subseteq State
BY DEF State, Sent, Pending, Final

LEMMA FreshAward == NoAward \in Award /\ NoAward.xfer = "none" /\ NoAward.state = "NoAward"
BY DEF NoAward, Award, State, Unread

\* Noting another state keeps the rest of an award.
LEMMA WithState ==
  ASSUME NEW a \in Award, NEW s \in State
  PROVE  /\ [a EXCEPT !.state = s] \in Award
         /\ [a EXCEPT !.state = s].state = s
         /\ [a EXCEPT !.state = s].xfer = a.xfer
         /\ [a EXCEPT !.state = s].hit = a.hit
         /\ [a EXCEPT !.state = s].meter = a.meter
BY DEF Award

LEMMA Fields ==
  ASSUME NEW a \in Award
  PROVE  /\ a.hit \in Hit \cup {NoHit}
         /\ a.state \in State
         /\ a.xfer \in Bonusing \cup {"none"}
         /\ a.meter \in Nat \cup {Unread}
BY DEF Award

LEMMA Queued ==
  ASSUME NEW q \in Seq(Award), NEW a \in Award
  PROVE  /\ Append(q, a) \in Seq(Award)
         /\ \A i \in DOMAIN Append(q, a) :
              Append(q, a)[i] = a \/ \E j \in DOMAIN q : Append(q, a)[i] = q[j]
OBVIOUS

LEMMA Unqueued ==
  ASSUME NEW q \in Seq(Award), q # <<>>
  PROVE  /\ Head(q) \in Award
         /\ Tail(q) \in Seq(Award)
         /\ Head(q) = q[1] /\ 1 \in DOMAIN q
         /\ \A i \in DOMAIN Tail(q) : \E j \in DOMAIN q : Tail(q)[i] = q[j]
<1>1. Head(q) \in Award /\ Tail(q) \in Seq(Award) /\ Head(q) = q[1] /\ 1 \in DOMAIN q
  OBVIOUS
<1>2. ASSUME NEW i \in DOMAIN Tail(q)
      PROVE  \E j \in DOMAIN q : Tail(q)[i] = q[j]
  <2>1. i + 1 \in DOMAIN q /\ Tail(q)[i] = q[i + 1]
    BY <1>2
  <2> QED
    BY <2>1
<1> QED
  BY <1>1, <1>2

-----------------------------------------------------------------------------
(* The operations of the manager and the machine *)

LEMMA NextStateType ==
  ASSUME NEW u \in Award, NEW x, award \in Award
  PROVE  NextState(u, x) \in State
<1>1. award.state \in State /\ u.state \in State
  BY Fields
<1>2. Unsent(u.state) \in State /\ Undecided(u.state) \in State
  BY <1>1, StateNames DEF Unsent, Undecided
<1> QED
  BY <1>1, <1>2, StateNames DEF NextState

\* An award that is sent or pending was so before the update, or its meters are known.
LEMMA NextStateMeters ==
  ASSUME NEW u \in Award, NEW x, award \in Award, NextState(u, x) # award.state,
         NextState(u, x) \in Sent \cup Pending
  PROVE  \/ award.state \in Sent \cup Pending
         \/ /\ award.state = "WaitForMetersInitial" /\ NextState(u, x) = "SentToGame"
            /\ u.meter # Unread
BY DEF NextState, Unsent, Undecided, MetersRead, Sent, Pending, Final

\* What an update does to the award, the waiting and the reports.
LEMMA ApplyTypes ==
  ASSUME TypeOK, NEW u \in Award, Apply(u), UNCHANGED bonusing
  PROVE  /\ AwardTypes'
         /\ waiting' \in BOOLEAN /\ delayed' \in BOOLEAN
         /\ told' \in [Hit -> SUBSET Final]
         /\ award.xfer \in {bonusing, "none"} => award'.xfer \in {bonusing, "none"}
<1>x. PICK x \in {bonusing, "none"} :
        LET s == NextState(u, x) IN
        /\ waiting' = (waiting /\ u.state = "AftLockPending")
        /\ delayed' = (s \in {award.state, "GameBusy", "AftLockPending"})
        /\ award' = IF s = award.state THEN award
                    ELSE IF award.state = "WaitForMetersInitial" /\ s = "SentToGame"
                    THEN [award EXCEPT !.state = s, !.xfer = x, !.meter = u.meter]
                    ELSE IF s \in {"GameBusy", "AftLockPending"}
                    THEN [award EXCEPT !.state = s, !.xfer = "none"]
                    ELSE [award EXCEPT !.state = s]
        /\ told' = IF s # award.state /\ s \in Final
                   THEN [told EXCEPT ![award.hit] = @ \cup {s}] ELSE told
  BY Zenon DEF Apply, NextTransferTypes
<1> DEFINE s == NextState(u, x)
<1>1. award \in Award /\ bonusing \in Bonusing /\ s \in State
  BY NextStateType DEF TypeOK, AwardTypes
<1>2. award.state \in Sent \cup Pending => award.meter # Unread
  BY DEF TypeOK, AwardTypes
<1>3. u.meter \in Nat \cup {Unread}
  BY Fields
<1>4. /\ AwardTypes'
      /\ award.xfer \in {bonusing, "none"} => award'.xfer \in {bonusing, "none"}
  <2>1. CASE s = award.state
    <3>1. award' = award
      BY <1>x, <2>1
    <3> QED
      BY <3>1 DEF TypeOK, AwardTypes
  <2>2. CASE s # award.state /\ award.state = "WaitForMetersInitial" /\ s = "SentToGame"
    <3>1. award' = [award EXCEPT !.state = s, !.xfer = x, !.meter = u.meter]
      BY <1>x, <2>2
    <3>2. u.meter # Unread
      BY <2>2, <1>1, NextStateMeters DEF Sent, Pending
    <3>3. award' \in Award /\ award'.xfer = x /\ award'.meter = u.meter
      BY <1>1, <1>3, <3>1 DEF Award
    <3> QED
      BY <3>2, <3>3 DEF AwardTypes
  <2>3. CASE /\ s # award.state
             /\ ~(award.state = "WaitForMetersInitial" /\ s = "SentToGame")
    <3>1. \/ award' = [award EXCEPT !.state = s, !.xfer = "none"]
          \/ award' = [award EXCEPT !.state = s]
      BY <1>x, <2>3
    <3>2. /\ award' \in Award /\ award'.state = s /\ award'.meter = award.meter
          /\ award'.xfer \in {award.xfer, "none"}
      BY <1>1, <3>1 DEF Award
    <3>3. s \in Sent \cup Pending => award.meter # Unread
      BY <1>1, <1>2, <2>3, NextStateMeters
    <3> QED
      BY <3>2, <3>3 DEF AwardTypes
  <2> QED
    BY <2>1, <2>2, <2>3
<1>5. waiting' \in BOOLEAN /\ delayed' \in BOOLEAN
  <2>1. \/ waiting' = FALSE
        \/ waiting' = waiting
    BY <1>x
  <2>2. waiting' \in BOOLEAN
    BY <2>1, Zenon DEF TypeOK, WaitTypes
  <2>3. delayed' = (s \in {award.state, "GameBusy", "AftLockPending"})
    BY <1>x, Zenon
  <2>4. delayed' \in BOOLEAN
    <3> HIDE DEF s
    <3>1. CASE s \in {award.state, "GameBusy", "AftLockPending"}
      BY <2>3, <3>1
    <3>2. CASE s \notin {award.state, "GameBusy", "AftLockPending"}
      BY <2>3, <3>2
    <3> QED
      BY <3>1, <3>2
  <2> QED
    BY <2>2, <2>4, Zenon
<1>6. told' \in [Hit -> SUBSET Final]
  <2>1. told \in [Hit -> SUBSET Final]
    BY DEF TypeOK, CountTypes
  <2> QED
    BY <1>x, <2>1
<1> QED
  BY <1>4, <1>5, <1>6

\* The machine pays, and nothing else that is counted changes.
LEMMA PayTypes ==
  ASSUME PaymentTypes, NEW h \in Hit \cup {NoHit}, Pay(h)
  PROVE  /\ paid' \in [Hit -> Nat] /\ handpay' \in Hit \cup {NoHit} /\ bonus' \in Nat
         /\ \A g \in Hit : paid'[g] = IF g = h THEN paid[g] + 1 ELSE paid[g]
<1>1. paid \in [Hit -> Nat] /\ handpay \in Hit \cup {NoHit} /\ bonus \in Nat
  BY DEF PaymentTypes
<1>2. paid' = [paid EXCEPT ![h] = @ + 1]
  BY DEF Pay
<1>3. /\ paid' \in [Hit -> Nat]
      /\ \A g \in Hit : paid'[g] = IF g = h THEN paid[g] + 1 ELSE paid[g]
  <2>1. paid' = [g \in Hit |-> IF g = h THEN paid[g] + 1 ELSE paid[g]]
    BY <1>1, <1>2, Zenon
  <2>2. \A g \in Hit : (IF g = h THEN paid[g] + 1 ELSE paid[g]) \in Nat
    BY <1>1
  <2> QED
    BY <2>1, <2>2, Zenon
<1>4. handpay' \in Hit \cup {NoHit} /\ bonus' \in Nat
  BY <1>1 DEF Pay
<1> QED
  BY <1>3, <1>4

LEMMA TakeTypes ==
  ASSUME PaymentTypes, NEW h \in Hit \cup {NoHit}, Take(h), UNCHANGED bonusing
  PROVE  /\ PaymentTypes'
         /\ CarriedOutOnce /\ ~Known(h) => CarriedOutOnce'
<1>1. CASE transfer' = [hit |-> h, status |-> "pending"] /\ UNCHANGED <<paid, handpay, bonus>>
  BY <1>1 DEF PaymentTypes, Transfer, CarriedOutOnce, Known
<1>2. CASE transfer' = [hit |-> h, status |-> "done"] /\ Pay(h)
  <2>1. PaymentTypes'
    BY <1>2, PayTypes DEF PaymentTypes, Transfer
  <2>2. ASSUME CarriedOutOnce, ~Known(h)
        PROVE  CarriedOutOnce'
    BY <1>2, <2>2, PayTypes DEF PaymentTypes, CarriedOutOnce, Known
  <2> QED
    BY <2>1, <2>2
<1> QED
  BY <1>1, <1>2 DEF Take

\* A transfer is carried out only when the machine does not know it.
LEMMA SendTransferTypes ==
  ASSUME PaymentTypes, NEW h \in Hit \cup {NoHit}, NEW new, SendTransfer(h, new),
         UNCHANGED bonusing
  PROVE  /\ PaymentTypes'
         /\ CarriedOutOnce => CarriedOutOnce'
<1>1. CASE UNCHANGED payment
  BY <1>1 DEF payment, PaymentTypes, CarriedOutOnce
<1>2. CASE ~Known(h) /\ Take(h)
  BY <1>2, TakeTypes
<1> QED
  BY <1>1, <1>2 DEF SendTransfer

LEMMA TransferTypes ==
  ASSUME PaymentTypes, NEW a \in Award, NEW new, ExecuteAFTBonusAward(a, new),
         UNCHANGED bonusing
  PROVE  /\ PaymentTypes'
         /\ CarriedOutOnce => CarriedOutOnce'
<1>1. CASE UNCHANGED payment
  BY <1>1 DEF payment, PaymentTypes, CarriedOutOnce
<1>2. CASE SendTransfer(a.hit, new)
  BY <1>2, SendTransferTypes, Fields
<1> QED
  BY <1>1, <1>2 DEF ExecuteAFTBonusAward

-----------------------------------------------------------------------------
(* What a step leaves alone, and what it does to the queues *)

LEMMA Framed ==
  ASSUME IInv, UNCHANGED bonusing
  PROVE  /\ bonusing' \in Bonusing
         /\ UNCHANGED award => AwardTypes'
         /\ UNCHANGED <<waiting, delayed, age, online>> => WaitTypes'
         /\ UNCHANGED queues => QueueTypes'
         /\ UNCHANGED sasState => SasTypes'
         /\ UNCHANGED payment => PaymentTypes' /\ CarriedOutOnce'
         /\ UNCHANGED lock => lock' \in BOOLEAN
         /\ UNCHANGED shown => shown' \in BOOLEAN
         /\ UNCHANGED past => renoticed' \in BOOLEAN
         /\ UNCHANGED <<offers, told, restarts>> => CountTypes'
         /\ UNCHANGED <<award, toSas>> => OwnBonusing'
<1>1. UNCHANGED award => AwardTypes'
  BY DEF IInv, TypeOK, AwardTypes
<1>2. UNCHANGED <<waiting, delayed, age, online>> => WaitTypes'
  BY Zenon DEF IInv, TypeOK, WaitTypes
<1>3. UNCHANGED queues => QueueTypes'
  BY DEF IInv, TypeOK, QueueTypes, queues
<1>4. UNCHANGED sasState => SasTypes'
  BY Zenon DEF IInv, TypeOK, SasTypes, sasState
<1>5. UNCHANGED payment => PaymentTypes' /\ CarriedOutOnce'
  BY DEF IInv, TypeOK, PaymentTypes, CarriedOutOnce, payment
<1>6. /\ bonusing' \in Bonusing
      /\ UNCHANGED lock => lock' \in BOOLEAN
      /\ UNCHANGED shown => shown' \in BOOLEAN
      /\ UNCHANGED past => renoticed' \in BOOLEAN
  BY Zenon DEF IInv, TypeOK, past
<1>7. UNCHANGED <<offers, told, restarts>> => CountTypes'
  BY DEF IInv, TypeOK, CountTypes
<1>8. UNCHANGED <<award, toSas>> => OwnBonusing'
  BY DEF IInv, OwnBonusing
<1> QED
  BY <1>1, <1>2, <1>3, <1>4, <1>5, <1>6, <1>7, <1>8

\* A copy for the SAS protocol carries the kind of transfer of the machine ...
LEMMA SentToSas ==
  ASSUME IInv, NEW a \in Award, toSas' = Append(toSas, a), UNCHANGED bonusing,
         a.xfer \in {bonusing, "none"}, award'.xfer \in {bonusing, "none"}
  PROVE  toSas' \in Seq(Award) /\ OwnBonusing'
<1>1. toSas \in Seq(Award)
  BY DEF IInv, TypeOK, QueueTypes
<1>2. toSas' \in Seq(Award)
  BY <1>1, Queued
<1>3. ASSUME NEW i \in DOMAIN toSas'
      PROVE  toSas'[i].xfer \in {bonusing, "none"}
  BY <1>1, <1>3, Queued DEF IInv, OwnBonusing
<1> QED
  BY <1>2, <1>3 DEF OwnBonusing

\* ... and so does what is left when one is taken.
LEMMA TakenBySas ==
  ASSUME IInv, toSas # <<>>, toSas' = Tail(toSas), UNCHANGED <<bonusing, award>>
  PROVE  /\ Head(toSas) \in Award /\ Head(toSas).xfer \in {bonusing, "none"}
         /\ toSas' \in Seq(Award) /\ OwnBonusing'
<1>1. toSas \in Seq(Award)
  BY DEF IInv, TypeOK, QueueTypes
<1>2. toSas' \in Seq(Award) /\ Head(toSas) \in Award
  BY <1>1, Unqueued
<1>3. Head(toSas).xfer \in {bonusing, "none"}
  BY <1>1, Unqueued DEF IInv, OwnBonusing
<1>4. ASSUME NEW i \in DOMAIN toSas'
      PROVE  toSas'[i].xfer \in {bonusing, "none"}
  BY <1>1, <1>4, Unqueued DEF IInv, OwnBonusing
<1> QED
  BY <1>2, <1>3, <1>4 DEF OwnBonusing, IInv

\* An answer keeps the types if the copy it leaves has them.
LEMMA AnswerInv ==
  ASSUME IInv, NEW new \in Award, Answer(new), PaymentTypes', CarriedOutOnce',
         lock' \in BOOLEAN, lockPending' \in BOOLEAN
  PROVE  IInv'
<1>1. QueueTypes' /\ OwnBonusing'
  <2>1. toInternals' \in Seq(Award)
    BY Queued DEF IInv, TypeOK, QueueTypes, Answer
  <2> QED
    BY <2>1, TakenBySas DEF Answer, manager, QueueTypes
<1>2. SasTypes'
  BY Zenon DEF IInv, TypeOK, SasTypes, Answer
<1>3. /\ UNCHANGED bonusing /\ UNCHANGED award /\ UNCHANGED shown
      /\ UNCHANGED <<waiting, delayed, age, online>> /\ UNCHANGED <<offers, told, restarts>>
      /\ UNCHANGED past
  BY DEF Answer, manager, past
<1>4. /\ bonusing' \in Bonusing /\ AwardTypes' /\ WaitTypes' /\ CountTypes'
      /\ shown' \in BOOLEAN /\ renoticed' \in BOOLEAN
  BY <1>3, Framed, Zenon
<1> QED
  BY <1>1, <1>2, <1>4, Zenon DEF IInv, TypeOK

\* The copy that the SAS protocol took has the types that the answer needs.
LEMMA TakenAward ==
  ASSUME IInv, toSas # <<>>
  PROVE  Head(toSas) \in Award /\ Head(toSas).xfer \in {bonusing, "none"}
<1>1. toSas \in Seq(Award)
  BY DEF IInv, TypeOK, QueueTypes
<1> QED
  BY <1>1, Unqueued DEF IInv, OwnBonusing

\* An update of the manager by an award u that is no different in kind.
LEMMA UpdateInv ==
  ASSUME IInv, NEW u \in Award, Apply(u), toInternals' \in Seq(Award), shown' \in BOOLEAN,
         UNCHANGED <<bonusing, age, online, offers, lock, payment, sasState, toSas, past>>
  PROVE  IInv'
<1>1. /\ AwardTypes' /\ waiting' \in BOOLEAN /\ delayed' \in BOOLEAN
      /\ told' \in [Hit -> SUBSET Final]
      /\ award.xfer \in {bonusing, "none"} => award'.xfer \in {bonusing, "none"}
  BY ApplyTypes DEF IInv
<1>2. WaitTypes'
  BY <1>1, Zenon DEF IInv, TypeOK, WaitTypes
<1>3. QueueTypes' /\ OwnBonusing'
  BY <1>1 DEF IInv, TypeOK, QueueTypes, OwnBonusing
<1>4. CountTypes'
  BY <1>1 DEF IInv, TypeOK, CountTypes, past
<1>5. /\ bonusing' \in Bonusing /\ SasTypes' /\ PaymentTypes' /\ CarriedOutOnce'
      /\ lock' \in BOOLEAN /\ renoticed' \in BOOLEAN
  <2>1. /\ UNCHANGED bonusing /\ UNCHANGED sasState /\ UNCHANGED payment /\ UNCHANGED lock
        /\ UNCHANGED past
    OBVIOUS
  <2> QED
    BY <2>1, Framed, Zenon
<1> QED
  BY <1>1, <1>2, <1>3, <1>4, <1>5, Zenon DEF IInv, TypeOK

\* Enough for a step to keep the invariant: a part holds again or is left alone.
LEMMA Preserved ==
  ASSUME IInv, UNCHANGED bonusing,
         AwardTypes' \/ UNCHANGED award,
         WaitTypes' \/ UNCHANGED <<waiting, delayed, age, online>>,
         QueueTypes' \/ UNCHANGED queues,
         SasTypes' \/ UNCHANGED sasState,
         (PaymentTypes' /\ CarriedOutOnce') \/ UNCHANGED payment,
         lock' \in BOOLEAN \/ UNCHANGED lock,
         shown' \in BOOLEAN \/ UNCHANGED shown,
         CountTypes' \/ UNCHANGED <<offers, told, restarts>>,
         renoticed' \in BOOLEAN \/ UNCHANGED past,
         OwnBonusing' \/ UNCHANGED <<award, toSas>>
  PROVE  IInv'
BY Framed, Zenon DEF IInv, TypeOK

-----------------------------------------------------------------------------
(* Steps of the manager *)

LEMMA AcceptInv == ASSUME IInv, NEW h \in Hit, Accept(h) PROVE IInv'
<1>1. AwardTypes' /\ award' \in Award /\ award'.xfer = "none"
  <2>1. award' = [hit |-> h, state |-> "WaitForMetersInitial",
                  xfer |-> "none", meter |-> Unread]
    BY DEF Accept
  <2> QED
    BY <2>1 DEF AwardTypes, Award, State, Sent, Pending
<1>2. WaitTypes'
  <2>1. online \in BOOLEAN
    BY Zenon DEF IInv, TypeOK, WaitTypes
  <2>2. age' \in 0..2
    BY DEF Accept
  <2> QED
    BY <2>1, <2>2, Zenon DEF Accept, WaitTypes
<1>3. QueueTypes' /\ OwnBonusing'
  <2>1. CASE toSas' = Append(toSas, award')
    BY <2>1, <1>1, SentToSas DEF Accept, IInv, TypeOK, QueueTypes
  <2>2. CASE toSas' = toSas
    BY <2>2, <1>1 DEF Accept, IInv, TypeOK, QueueTypes, OwnBonusing
  <2> QED
    BY <2>1, <2>2 DEF Accept
<1>4. CountTypes'
  <2>1. MaxEvents[bonusing] \in Nat
    BY EgmAwardAssumption DEF IInv, TypeOK
  <2>2. told' \in [Hit -> SUBSET Final]
    BY DEF Accept, IInv, TypeOK, CountTypes
  <2>3. offers' \in Nat /\ restarts' \in Nat /\ offers' + restarts' <= MaxEvents[bonusing]
    BY <2>1 DEF Accept, IInv, TypeOK, CountTypes, past
  <2> QED
    BY <2>2, <2>3 DEF Accept, CountTypes
<1>5. /\ UNCHANGED bonusing /\ UNCHANGED sasState /\ UNCHANGED payment /\ UNCHANGED lock
      /\ UNCHANGED shown /\ UNCHANGED past
  BY DEF Accept, machine
<1> QED
  BY <1>1, <1>2, <1>3, <1>4, <1>5, Preserved, Zenon

LEMMA DeclineInv == ASSUME IInv, NEW h \in Hit, Decline(h) PROVE IInv'
<1>1. CountTypes'
  <2>1. told' \in [Hit -> SUBSET Final]
    BY DEF Decline, IInv, TypeOK, CountTypes, Final
  <2> QED
    BY <2>1 DEF Decline, IInv, TypeOK, CountTypes, past
<1>2. /\ UNCHANGED past /\ UNCHANGED bonusing /\ UNCHANGED award /\ UNCHANGED sasState /\ UNCHANGED payment
      /\ UNCHANGED lock /\ UNCHANGED shown /\ UNCHANGED queues
      /\ UNCHANGED <<waiting, delayed, age, online>> /\ UNCHANGED <<award, toSas>>
  BY DEF Decline, machine, queues
<1> QED
  BY <1>1, <1>2, Preserved, Zenon

LEMMA RequestInv == ASSUME IInv, Request PROVE IInv'
<1>1. award \in Award /\ bonusing \in Bonusing /\ award.xfer \in {bonusing, "none"}
  BY DEF IInv, TypeOK, AwardTypes, OwnBonusing
<1>2. /\ award' \in Award /\ award'.xfer \in {bonusing, "none"}
      /\ AwardTypes'
  <2>1. CASE award.state = "GameBusy"
    <3>1. award' = [award EXCEPT !.state = "SentToGame", !.xfer = bonusing]
      BY <2>1 DEF Request
    <3>2. /\ award' \in Award /\ award'.xfer = bonusing /\ award'.meter = award.meter
      BY <1>1, <3>1 DEF Award, State, Sent
    <3> QED
      BY <2>1, <3>2 DEF IInv, TypeOK, AwardTypes, Sent
  <2>2. CASE award' = award
    BY <1>1, <2>2 DEF IInv, TypeOK, AwardTypes
  <2> QED
    BY <2>1, <2>2 DEF Request
<1>3. WaitTypes'
  BY Zenon DEF Request, Await, IInv, TypeOK, WaitTypes
<1>4. QueueTypes' /\ OwnBonusing'
  BY <1>2, SentToSas DEF Request, IInv, TypeOK, QueueTypes
<1>5. /\ UNCHANGED bonusing /\ UNCHANGED sasState /\ UNCHANGED payment /\ UNCHANGED lock
      /\ UNCHANGED shown /\ UNCHANGED <<offers, told, restarts>> /\ UNCHANGED past
  BY DEF Request, machine, past
<1> QED
  BY <1>2, <1>3, <1>4, <1>5, Preserved, Zenon

LEMMA ExpireAwardInv == ASSUME IInv, ExpireAward PROVE IInv'
<1>1. QueueTypes' /\ OwnBonusing'
  <2> DEFINE s == IF award.state = "Signaled" THEN "AwardToGameError"
                                              ELSE "AwardToGameIneligible"
             notice == [award EXCEPT !.state = s]
  <2>1. toSas' = Append(toSas, notice) /\ UNCHANGED <<bonusing, award, toInternals>>
    BY DEF ExpireAward
  <2>2. award \in Award /\ award.xfer \in {bonusing, "none"}
    BY DEF IInv, TypeOK, AwardTypes, OwnBonusing
  <2>3. s \in State
    BY StateNames
  <2>4. notice \in Award /\ notice.xfer = award.xfer
    BY <2>2, <2>3, WithState
  <2> HIDE DEF s, notice
  <2> QED
    BY <2>1, <2>2, <2>4, SentToSas DEF IInv, TypeOK, QueueTypes
<1>2. /\ UNCHANGED bonusing /\ UNCHANGED award /\ UNCHANGED sasState /\ UNCHANGED payment
      /\ UNCHANGED lock /\ UNCHANGED shown /\ UNCHANGED <<waiting, delayed, age, online>>
      /\ UNCHANGED <<offers, told, restarts>>
  BY DEF ExpireAward, machine
<1>3. renoticed' \in BOOLEAN
  BY Zenon DEF ExpireAward, IInv, TypeOK
<1> QED
  BY <1>1, <1>2, <1>3, Preserved, Zenon

LEMMA FromGCFInv == ASSUME IInv, FromGCF PROVE IInv'
<1>1. toInternals \in Seq(Award) /\ toSas \in Seq(Award)
  BY DEF IInv, TypeOK, QueueTypes
<1>2. Head(toInternals) \in Award /\ toInternals' \in Seq(Award)
  BY <1>1, Unqueued DEF FromGCF
<1>3. shown' \in BOOLEAN
  BY Zenon DEF FromGCF, machine, IInv, TypeOK
<1>4. /\ UNCHANGED <<bonusing, age, online, offers, lock, payment, sasState, toSas, past>>
      /\ UNCHANGED bonusing /\ UNCHANGED sasState /\ UNCHANGED payment /\ UNCHANGED lock
  BY DEF FromGCF, machine
<1>5. CASE Head(toInternals).hit = award.hit
  BY <1>2, <1>3, <1>4, <1>5, UpdateInv DEF FromGCF
<1>6. CASE Head(toInternals).hit # award.hit
  <2>1. /\ UNCHANGED award /\ UNCHANGED <<waiting, delayed, age, online>>
        /\ UNCHANGED <<offers, told, restarts>> /\ UNCHANGED <<award, toSas>>
        /\ UNCHANGED past
    BY <1>6 DEF FromGCF, past
  <2>2. QueueTypes'
    BY <1>1, <1>2, <1>4 DEF QueueTypes
  <2> QED
    BY <1>3, <1>4, <2>1, <2>2, Preserved, Zenon
<1> QED
  BY <1>5, <1>6

LEMMA NotedInv ==
  ASSUME IInv, NEW s \in State, Apply([award EXCEPT !.state = s]),
         UNCHANGED <<bonusing, age, online, offers, lock, payment, sasState, queues, past>>,
         shown' \in BOOLEAN
  PROVE  IInv'
<1>1. [award EXCEPT !.state = s] \in Award
  BY WithState DEF IInv, TypeOK, AwardTypes
<1>2. toInternals' \in Seq(Award)
  BY DEF IInv, TypeOK, QueueTypes, queues
<1>3. UNCHANGED <<bonusing, age, online, offers, lock, payment, sasState, toSas, past>>
  BY DEF queues
<1> QED
  BY <1>1, <1>2, <1>3, UpdateInv

LEMMA SetMetersInv == ASSUME IInv, SetMeters PROVE IInv'
<1>1. shown' \in BOOLEAN
  BY Zenon DEF SetMeters, machine, IInv, TypeOK
<1>2. UNCHANGED <<bonusing, age, online, offers, lock, payment, sasState, queues, past>>
  BY DEF SetMeters, machine
<1> QED
  BY <1>1, <1>2, NotedInv, StateNames DEF SetMeters

LEMMA GameStartInv == ASSUME IInv, GameStart PROVE IInv'
<1>1. shown' \in BOOLEAN
  BY Zenon DEF GameStart, machine, IInv, TypeOK
<1>2. UNCHANGED <<bonusing, age, online, offers, lock, payment, sasState, queues, past>>
  BY DEF GameStart, machine
<1> QED
  BY <1>1, <1>2, NotedInv, StateNames DEF GameStart

LEMMA JackpotInfoInv == ASSUME IInv, JackpotInfo PROVE IInv'
<1>1. shown' \in BOOLEAN
  BY Zenon DEF JackpotInfo
<1>2. UNCHANGED <<bonusing, age, online, offers, lock, payment, sasState, queues, past>>
  BY DEF JackpotInfo
<1>3. CASE Apply([award EXCEPT !.state = "HandpayPending"])
  BY <1>1, <1>2, <1>3, NotedInv, StateNames
<1>4. CASE UNCHANGED <<award, waiting, delayed, told>>
  <2>1. /\ UNCHANGED bonusing /\ UNCHANGED award /\ UNCHANGED <<waiting, delayed, age, online>>
        /\ UNCHANGED queues /\ UNCHANGED sasState /\ UNCHANGED payment /\ UNCHANGED lock
        /\ UNCHANGED <<offers, told, restarts>> /\ UNCHANGED <<award, toSas>>
        /\ UNCHANGED past
    BY <1>2, <1>4 DEF queues, past
  <2> QED
    BY <1>1, <2>1, Preserved, Zenon
<1> QED
  BY <1>3, <1>4 DEF JackpotInfo

-----------------------------------------------------------------------------
(* Steps of the SAS protocol that answer a message *)

LEMMA UnpaidAnswer ==
  ASSUME IInv, NEW new \in Award, Answer(new), UNCHANGED payment,
         lock' \in BOOLEAN, lockPending' \in BOOLEAN
  PROVE  IInv'
<1>1. PaymentTypes' /\ CarriedOutOnce'
  BY Framed DEF Answer
<1> QED
  BY <1>1, AnswerInv

LEMMA NoPollsAnswer ==
  ASSUME IInv, NEW new \in Award, Answer(new), NoPolls
  PROVE  IInv'
<1>1. lock' \in BOOLEAN /\ lockPending' \in BOOLEAN
  BY Zenon DEF NoPolls, IInv, TypeOK, SasTypes
<1> QED
  BY <1>1, UnpaidAnswer DEF NoPolls

LEMMA BounceInv == ASSUME IInv, Bounce PROVE IInv'
<1> DEFINE m == Head(toSas)
<1>1. m \in Award
  BY TakenAward DEF Bounce
<1>2. [m EXCEPT !.state = "GameBusy"] \in Award
  BY <1>1, WithState, StateNames
<1> QED
  BY <1>1, <1>2, NoPollsAnswer DEF Bounce

LEMMA ReadMetersInv == ASSUME IInv, ReadMeters PROVE IInv'
<1>1. Head(toSas) \in Award /\ bonus \in Nat
  BY TakenAward DEF ReadMeters, IInv, TypeOK, PaymentTypes
<1>2. ASSUME NEW v \in {bonus, Unread}
      PROVE  [Head(toSas) EXCEPT !.meter = v] \in Award
  BY <1>1, <1>2 DEF Award
<1> QED
  BY <1>2, NoPollsAnswer DEF ReadMeters

LEMMA RefuseInv == ASSUME IInv, Refuse PROVE IInv'
<1>1. Head(toSas) \in Award
  BY TakenAward DEF Refuse
<1>2. [Head(toSas) EXCEPT !.state = "AwardToGameIneligible"] \in Award
  BY <1>1, WithState, StateNames
<1> QED
  BY <1>2, NoPollsAnswer DEF Refuse

\* This poll pays whatever was paid before, but an AFT machine never gets it.
LEMMA AwardLegacyBonusInv == ASSUME IInv, AwardLegacyBonus PROVE IInv'
<1> DEFINE m == Head(toSas)
<1>1. m \in Award /\ m.xfer \in {bonusing, "none"} /\ m.xfer = "legacy"
  BY TakenAward DEF AwardLegacyBonus
<1>2. PICK r \in PollAnswers \ {"lost"} :
        /\ Answer([m EXCEPT !.state = IF r = "unsent" THEN "AwardToGameIneligible"
                                                     ELSE "Signaled"])
        /\ IF r = "answered" THEN Pay(m.hit) /\ UNCHANGED transfer
                             ELSE UNCHANGED payment
  BY DEF AwardLegacyBonus
<1> DEFINE s == IF r = "unsent" THEN "AwardToGameIneligible" ELSE "Signaled"
<1>3. [m EXCEPT !.state = s] \in Award
  <2>1. s \in State
    BY StateNames
  <2> QED
    BY <1>1, <2>1, WithState
<1>4. lock' \in BOOLEAN /\ lockPending' \in BOOLEAN
  BY Zenon DEF AwardLegacyBonus, IInv, TypeOK, SasTypes
<1>5. bonusing # "aft" /\ bonusing' = bonusing
  BY <1>1, <1>2 DEF Answer
<1>6. PaymentTypes'
  <2>1. CASE Pay(m.hit) /\ UNCHANGED transfer
    BY <2>1, <1>1, PayTypes, Fields DEF IInv, TypeOK, PaymentTypes
  <2>2. CASE UNCHANGED payment
    BY <2>2, <1>5, Framed
  <2> QED
    BY <1>2, <2>1, <2>2
<1>7. CarriedOutOnce'
  BY <1>5 DEF CarriedOutOnce
<1> QED
  BY <1>2, <1>3, <1>4, <1>6, <1>7, AnswerInv

LEMMA RequestLockTypes ==
  ASSUME NEW r, RequestLock(r)
  PROVE  lock' \in BOOLEAN /\ lockPending' \in BOOLEAN
<1>1. lock' \in BOOLEAN
  BY Zenon DEF RequestLock
<1>2. lockPending' \in BOOLEAN
  <2>1. CASE r \in {"pending", "failed"}
    BY <2>1 DEF RequestLock
  <2>2. CASE r \notin {"pending", "failed"}
    BY <2>2 DEF RequestLock
  <2> QED
    BY <2>1, <2>2
<1> QED
  BY <1>1, <1>2

LEMMA LockNotedType ==
  ASSUME NEW a \in Award, NEW r
  PROVE  LockNoted(a, r) \in Award
BY WithState, StateNames DEF LockNoted

LEMMA AwardAFTBonusInv == ASSUME IInv, AwardAFTBonus PROVE IInv'
<1> DEFINE m == Head(toSas)
<1>1. m \in Award
  BY TakenAward DEF AwardAFTBonus
<1>2. PICK r \in LockAnswers :
        /\ RequestLock(r)
        /\ IF r = "granted"
           THEN \E new \in State : /\ ExecuteAFTBonusAward(m, new)
                                   /\ Answer([m EXCEPT !.state = new])
           ELSE Answer(LockNoted(m, r)) /\ UNCHANGED payment
  BY DEF AwardAFTBonus
<1>3. lock' \in BOOLEAN /\ lockPending' \in BOOLEAN
  BY <1>2, RequestLockTypes
<1>4. CASE r = "granted"
  <2>1. PICK new \in State : /\ ExecuteAFTBonusAward(m, new)
                             /\ Answer([m EXCEPT !.state = new])
    BY <1>2, <1>4
  <2>2. [m EXCEPT !.state = new] \in Award
    BY <1>1, WithState
  <2>3. PaymentTypes' /\ CarriedOutOnce'
    BY <1>1, <2>1, TransferTypes DEF Answer, IInv, TypeOK
  <2> QED
    BY <1>3, <2>1, <2>2, <2>3, AnswerInv
<1>5. CASE r # "granted"
  BY <1>1, <1>2, <1>3, <1>5, LockNotedType, UnpaidAnswer
<1> QED
  BY <1>4, <1>5

-----------------------------------------------------------------------------
(* Steps of the SAS protocol that the general polls make *)

\* A copy of the award that the SAS protocol has goes back.
LEMMA SentBack ==
  ASSUME IInv, NEW a \in Award, UNCHANGED <<bonusing, award, toSas>>,
         toInternals' \in {toInternals, Append(toInternals, a)}
  PROVE  QueueTypes' /\ OwnBonusing'
<1>1. toInternals' \in Seq(Award)
  BY Queued DEF IInv, TypeOK, QueueTypes
<1> QED
  BY <1>1 DEF IInv, TypeOK, QueueTypes, OwnBonusing

LEMMA CheckLockInv == ASSUME IInv, CheckLock PROVE IInv'
<1>1. /\ UNCHANGED bonusing /\ UNCHANGED award /\ UNCHANGED <<waiting, delayed, age, online>>
      /\ UNCHANGED queues /\ UNCHANGED payment /\ UNCHANGED shown /\ UNCHANGED sas
      /\ UNCHANGED <<offers, told, restarts>> /\ UNCHANGED <<award, toSas>> /\ UNCHANGED past
  BY DEF CheckLock, manager, queues, past
<1>2. /\ lock' \in BOOLEAN /\ lockPending' \in BOOLEAN
      /\ pc' \in {"cancel"} \cup LockAnswers
  <2>1. CASE \E r \in LockAnswers : RequestLock(r) /\ pc' = r
    BY <2>1, RequestLockTypes
  <2>2. CASE pc' = "cancel" /\ lockPending' = FALSE /\ lock' = FALSE
    BY <2>2
  <2> QED
    BY <2>1, <2>2 DEF CheckLock
<1>3. sas' \in Award /\ jackpotID' \in Hit \cup {NoHit}
  BY <1>1 DEF CheckLock, IInv, TypeOK, SasTypes
<1>4. SasTypes'
  BY <1>2, <1>3 DEF SasTypes
<1> QED
  BY <1>1, <1>2, <1>4, Preserved, Zenon

LEMMA ResendAwardLockRequestInv == ASSUME IInv, ResendAwardLockRequest PROVE IInv'
<1>1. /\ UNCHANGED bonusing /\ UNCHANGED award /\ UNCHANGED <<waiting, delayed, age, online>>
      /\ UNCHANGED queues /\ UNCHANGED shown /\ UNCHANGED lock /\ UNCHANGED lockPending
      /\ UNCHANGED <<offers, told, restarts>> /\ UNCHANGED <<award, toSas>>
      /\ UNCHANGED payment /\ UNCHANGED past
  BY DEF ResendAwardLockRequest, manager, queues, payment, past
<1>2. sas \in Award /\ sas.hit \in Hit \cup {NoHit} /\ jackpotID \in Hit \cup {NoHit}
  BY Fields DEF IInv, TypeOK, SasTypes
<1>3. sas' \in Award
  BY <1>2, WithState, StateNames, LockNotedType DEF ResendAwardLockRequest
<1>4. jackpotID' \in Hit \cup {NoHit} /\ pc' \in {"transfer", "answer"}
  BY <1>2 DEF ResendAwardLockRequest
<1>5. SasTypes'
  <2>1. lockPending' \in BOOLEAN
    BY <1>1, Zenon DEF IInv, TypeOK, SasTypes
  <2> QED
    BY <1>3, <1>4, <2>1, Zenon DEF SasTypes
<1> QED
  BY <1>1, <1>5, Preserved, Zenon

LEMMA ExecuteTransferInv == ASSUME IInv, ExecuteTransfer PROVE IInv'
<1>1. /\ UNCHANGED bonusing /\ UNCHANGED award /\ UNCHANGED <<waiting, delayed, age, online>>
      /\ UNCHANGED queues /\ UNCHANGED shown /\ UNCHANGED lock /\ UNCHANGED lockPending
      /\ UNCHANGED <<offers, told, restarts>> /\ UNCHANGED <<award, toSas>>
      /\ UNCHANGED past
  BY DEF ExecuteTransfer, manager, queues, past
<1>2. sas \in Award /\ jackpotID \in Hit \cup {NoHit} /\ PaymentTypes /\ CarriedOutOnce
  BY DEF IInv, TypeOK, SasTypes
<1>3. PICK new \in State : SendTransfer(jackpotID, new) /\ sas' = [sas EXCEPT !.state = new]
  BY DEF ExecuteTransfer
<1>4. PaymentTypes' /\ CarriedOutOnce'
  BY <1>1, <1>2, <1>3, SendTransferTypes
<1>5. SasTypes'
  <2>1. sas' \in Award
    BY <1>2, <1>3, WithState
  <2>2. jackpotID' \in Hit \cup {NoHit} /\ pc' = "answer"
    BY DEF ExecuteTransfer
  <2>3. lockPending' \in BOOLEAN
    BY <1>1, Zenon DEF IInv, TypeOK, SasTypes
  <2> QED
    BY <2>1, <2>2, <2>3, Zenon DEF SasTypes
<1> QED
  BY <1>1, <1>4, <1>5, Preserved, Zenon

LEMMA SendBackInv == ASSUME IInv, SendBack PROVE IInv'
<1>1. /\ UNCHANGED bonusing /\ UNCHANGED award /\ UNCHANGED <<waiting, delayed, age, online>>
      /\ UNCHANGED payment /\ UNCHANGED shown /\ UNCHANGED lock
      /\ UNCHANGED <<offers, told, restarts>> /\ UNCHANGED <<bonusing, award, toSas>> /\ UNCHANGED past
  BY DEF SendBack, manager, machine, past
<1>2. sas \in Award
  BY DEF IInv, TypeOK, SasTypes
<1>3. toInternals' \in {toInternals, Append(toInternals, sas)}
  BY DEF SendBack
<1>4. QueueTypes' /\ OwnBonusing'
  BY <1>1, <1>2, <1>3, SentBack
<1>5. SasTypes'
  BY Zenon DEF SendBack, IInv, TypeOK, SasTypes
<1> QED
  BY <1>1, <1>4, <1>5, Preserved, Zenon

LEMMA ReturnAwardIneligibleInv == ASSUME IInv, ReturnAwardIneligible PROVE IInv'
<1>1. /\ UNCHANGED bonusing /\ UNCHANGED award /\ UNCHANGED <<waiting, delayed, age, online>>
      /\ UNCHANGED payment /\ UNCHANGED shown /\ UNCHANGED lock
      /\ UNCHANGED <<offers, told, restarts>> /\ UNCHANGED <<bonusing, award, toSas>> /\ UNCHANGED past
  BY DEF ReturnAwardIneligible, manager, machine, past
<1>2. sas' \in Award
  BY WithState, StateNames DEF ReturnAwardIneligible, IInv, TypeOK, SasTypes
<1>3. QueueTypes' /\ OwnBonusing'
  BY <1>1, <1>2, SentBack DEF ReturnAwardIneligible
<1>4. SasTypes'
  BY <1>2, Zenon DEF ReturnAwardIneligible, IInv, TypeOK, SasTypes
<1> QED
  BY <1>1, <1>3, <1>4, Preserved, Zenon

LEMMA ProcessGeneralPollGameLockedInv ==
  ASSUME IInv, ProcessGeneralPollGameLocked PROVE IInv'
<1>1. /\ UNCHANGED bonusing /\ UNCHANGED award /\ UNCHANGED <<waiting, delayed, age, online>>
      /\ UNCHANGED payment /\ UNCHANGED shown /\ UNCHANGED queues
      /\ UNCHANGED <<offers, told, restarts>> /\ UNCHANGED <<award, toSas>> /\ UNCHANGED past
  BY DEF ProcessGeneralPollGameLocked, manager, queues, past
<1>2. lock' \in BOOLEAN
  BY Zenon DEF ProcessGeneralPollGameLocked
<1>3. SasTypes'
  <2> jackpotID' = jackpotID
    BY DEF ProcessGeneralPollGameLocked
  <2>1. CASE pc' = "locked" /\ lockPending' = FALSE /\ UNCHANGED sas
    BY <2>1, Zenon DEF IInv, TypeOK, SasTypes
  <2>2. CASE UNCHANGED pc /\ UNCHANGED lockPending /\ UNCHANGED sas
    BY <2>2, Zenon DEF IInv, TypeOK, SasTypes
  <2> QED
    BY <2>1, <2>2 DEF ProcessGeneralPollGameLocked
<1> QED
  BY <1>1, <1>2, <1>3, Preserved, Zenon

LEMMA ProcessAFTBonusGameLockedInv ==
  ASSUME IInv, ProcessAFTBonusGameLocked PROVE IInv'
<1>1. /\ UNCHANGED bonusing /\ UNCHANGED award /\ UNCHANGED <<waiting, delayed, age, online>>
      /\ UNCHANGED shown /\ UNCHANGED lock /\ UNCHANGED lockPending
      /\ UNCHANGED <<offers, told, restarts>> /\ UNCHANGED <<bonusing, award, toSas>> /\ UNCHANGED past
  BY DEF ProcessAFTBonusGameLocked, manager, past
<1>2. PICK q \in QueryAnswers, new \in State :
        /\ IF q = "locked" THEN ExecuteAFTBonusAward(sas, new)
           ELSE new = "GameBusy" /\ UNCHANGED payment
        /\ sas' = [sas EXCEPT !.state = new]
        /\ toInternals' = IF q = "failed" THEN toInternals
                                          ELSE Append(toInternals, sas')
  BY DEF ProcessAFTBonusGameLocked
<1>3. sas \in Award /\ PaymentTypes
  BY DEF IInv, TypeOK, SasTypes
<1>4. sas' \in Award
  BY <1>2, <1>3, WithState
<1>5. (PaymentTypes' /\ CarriedOutOnce') \/ UNCHANGED payment
  <2>1. CASE q = "locked"
    BY <1>1, <1>2, <1>3, <2>1, TransferTypes DEF IInv
  <2> QED
    BY <1>2, <2>1
<1>6. QueueTypes' /\ OwnBonusing'
  BY <1>1, <1>2, <1>4, SentBack
<1>7. SasTypes'
  <2>1. pc' = "idle" /\ lockPending' \in BOOLEAN /\ jackpotID' \in Hit \cup {NoHit}
    BY <1>1, Zenon DEF ProcessAFTBonusGameLocked, IInv, TypeOK, SasTypes
  <2> QED
    BY <1>4, <2>1, Zenon DEF SasTypes
<1> QED
  BY <1>1, <1>5, <1>6, <1>7, Preserved, Zenon

LEMMA ProcessAFTBonusXferCompleteInv ==
  ASSUME IInv, ProcessAFTBonusXferComplete PROVE IInv'
<1>1. /\ UNCHANGED bonusing /\ UNCHANGED award /\ UNCHANGED <<waiting, delayed, age, online>>
      /\ UNCHANGED shown /\ UNCHANGED lock /\ UNCHANGED lockPending /\ UNCHANGED pc
      /\ UNCHANGED jackpotID
      /\ UNCHANGED <<offers, told, restarts>> /\ UNCHANGED <<bonusing, award, toSas>> /\ UNCHANGED past
  BY DEF ProcessAFTBonusXferComplete, manager, past
<1>2. PaymentTypes' /\ CarriedOutOnce'
  <2>1. transfer' = NoTransfer /\ UNCHANGED <<paid, handpay, bonus>>
    BY DEF ProcessAFTBonusXferComplete
  <2>2. NoTransfer \in Transfer /\ NoTransfer.status = "none"
    BY DEF NoTransfer, Transfer
  <2> QED
    BY <1>1, <2>1, <2>2 DEF IInv, TypeOK, PaymentTypes, CarriedOutOnce
<1>3. sas' \in Award
  BY WithState, StateNames DEF ProcessAFTBonusXferComplete, IInv, TypeOK, SasTypes
<1>4. QueueTypes' /\ OwnBonusing'
  BY <1>1, <1>3, SentBack DEF ProcessAFTBonusXferComplete
<1>5. SasTypes'
  BY <1>1, <1>3, Zenon DEF IInv, TypeOK, SasTypes
<1> QED
  BY <1>1, <1>2, <1>4, <1>5, Preserved, Zenon

-----------------------------------------------------------------------------
(* Steps of the machine, time and restarts *)

\* The transfer that completes was not paid before.
LEMMA CompleteTransferInv == ASSUME IInv, CompleteTransfer PROVE IInv'
<1>1. /\ UNCHANGED bonusing /\ UNCHANGED award /\ UNCHANGED <<waiting, delayed, age, online>>
      /\ UNCHANGED queues /\ UNCHANGED sasState /\ UNCHANGED lock /\ UNCHANGED shown
      /\ UNCHANGED <<offers, told, restarts>> /\ UNCHANGED <<award, toSas>> /\ UNCHANGED past
  BY DEF CompleteTransfer, manager, queues, past
<1>2. /\ transfer \in Transfer /\ transfer.hit \in Hit \cup {NoHit}
      /\ transfer.status = "pending" /\ PaymentTypes /\ bonusing' = bonusing
  BY DEF CompleteTransfer, IInv, TypeOK, PaymentTypes, Transfer
<1>3. CASE transfer' = [transfer EXCEPT !.status = "done"] /\ Pay(transfer.hit)
  <2>1. transfer' \in Transfer /\ transfer'.status = "done"
    BY <1>2, <1>3 DEF Transfer
  <2>2. PaymentTypes'
    BY <1>2, <1>3, <2>1, PayTypes DEF PaymentTypes
  <2>3. CarriedOutOnce'
    <3> SUFFICES ASSUME bonusing = "aft", NEW g \in Hit
                 PROVE  /\ paid'[g] <= 1
                        /\ transfer' # [hit |-> g, status |-> "pending"]
      BY <1>2 DEF CarriedOutOnce
    <3>1. paid[g] <= 1 /\ paid[g] \in Nat
      BY DEF IInv, TypeOK, PaymentTypes, CarriedOutOnce
    <3>2. g = transfer.hit => paid[g] = 0
      <4>1. transfer = [hit |-> transfer.hit, status |-> "pending"]
        BY <1>2 DEF Transfer
      <4> QED
        BY <4>1 DEF IInv, CarriedOutOnce
    <3>3. paid'[g] = IF g = transfer.hit THEN paid[g] + 1 ELSE paid[g]
      BY <1>2, <1>3, PayTypes
    <3> QED
      BY <2>1, <3>1, <3>2, <3>3
  <2> QED
    BY <1>1, <2>2, <2>3, Preserved, Zenon
<1>4. CASE transfer' = [transfer EXCEPT !.status = "failed"] /\ UNCHANGED <<paid, handpay, bonus>>
  <2>1. transfer' \in Transfer /\ transfer'.status = "failed"
    BY <1>2, <1>4 DEF Transfer
  <2>2. PaymentTypes' /\ CarriedOutOnce'
    BY <1>2, <1>4, <2>1 DEF IInv, PaymentTypes, CarriedOutOnce
  <2> QED
    BY <1>1, <2>2, Preserved, Zenon
<1> QED
  BY <1>3, <1>4 DEF CompleteTransfer

LEMMA AttendantPaysInv == ASSUME IInv, AttendantPays PROVE IInv'
<1>1. /\ UNCHANGED bonusing /\ UNCHANGED award /\ UNCHANGED <<waiting, delayed, age, online>>
      /\ UNCHANGED queues /\ UNCHANGED sasState /\ UNCHANGED lock
      /\ UNCHANGED <<offers, told, restarts>> /\ UNCHANGED <<award, toSas>> /\ UNCHANGED past
  BY DEF AttendantPays, manager, queues, past
<1>2. PaymentTypes' /\ CarriedOutOnce'
  BY DEF AttendantPays, IInv, TypeOK, PaymentTypes, CarriedOutOnce
<1>3. shown' \in BOOLEAN
  BY Zenon DEF AttendantPays
<1> QED
  BY <1>1, <1>2, <1>3, Preserved, Zenon

LEMMA TimeInv == ASSUME IInv, RetryDelay \/ Tick \/ Online PROVE IInv'
<1>1. /\ UNCHANGED bonusing /\ UNCHANGED award /\ UNCHANGED queues /\ UNCHANGED sasState
      /\ UNCHANGED payment /\ UNCHANGED lock /\ UNCHANGED shown
      /\ UNCHANGED <<offers, told, restarts>> /\ UNCHANGED <<award, toSas>> /\ UNCHANGED past
  BY DEF RetryDelay, Tick, Online, machine, queues, past
<1>2. WaitTypes'
  <2>1. CASE RetryDelay
    BY <2>1, Zenon DEF RetryDelay, IInv, TypeOK, WaitTypes
  <2>2. CASE Tick
    <3>1. age' \in 0..2
      BY <2>2 DEF Tick, IInv, TypeOK, WaitTypes
    <3> QED
      BY <2>2, <3>1, Zenon DEF Tick, IInv, TypeOK, WaitTypes
  <2>3. CASE Online
    BY <2>3, Zenon DEF Online, IInv, TypeOK, WaitTypes
  <2> QED
    BY <2>1, <2>2, <2>3
<1> QED
  BY <1>1, <1>2, Preserved, Zenon

LEMMA RestartInv == ASSUME IInv, Restart PROVE IInv'
<1>1. /\ UNCHANGED bonusing /\ UNCHANGED payment /\ UNCHANGED lock /\ UNCHANGED shown
  BY DEF Restart, machine
<1>2. AwardTypes' /\ award'.xfer = award.xfer
  <2>1. award \in Award /\ award' = Start
    BY DEF Restart, IInv, TypeOK, AwardTypes
  <2>2. award' = award \/ \E s \in State : award' = [award EXCEPT !.state = s]
    BY <2>1, StateNames DEF Start
  <2>3. award' \in Award /\ award'.xfer = award.xfer /\ award'.meter = award.meter
    <3>1. CASE award' = award
      BY <2>1, <3>1
    <3>2. ASSUME NEW s \in State, award' = [award EXCEPT !.state = s]
          PROVE  award' \in Award /\ award'.xfer = award.xfer /\ award'.meter = award.meter
      BY <2>1, <3>2 DEF Award
    <3> QED
      BY <2>2, <3>1, <3>2
  <2>4. award' # award => award.state \in Sent
    BY <2>1 DEF Start, Sent
  <2> QED
    BY <2>3, <2>4 DEF IInv, TypeOK, AwardTypes
<1>3. WaitTypes'
  <2>1. age' \in 0..2
    BY DEF Restart
  <2> QED
    BY <2>1, Zenon DEF Restart, WaitTypes
<1>4. QueueTypes' /\ OwnBonusing'
  BY <1>1, <1>2 DEF Restart, QueueTypes, IInv, OwnBonusing
<1>5. SasTypes'
  BY FreshAward, Zenon DEF Restart, SasTypes
<1>6. CountTypes'
  <2>1. MaxEvents[bonusing] \in Nat
    BY EgmAwardAssumption DEF IInv, TypeOK
  <2> QED
    BY <2>1 DEF Restart, IInv, TypeOK, CountTypes
<1>7. renoticed' \in BOOLEAN
  BY Zenon DEF Restart, IInv, TypeOK
<1> QED
  BY <1>1, <1>2, <1>3, <1>4, <1>5, <1>6, <1>7, Preserved, Zenon

-----------------------------------------------------------------------------
LEMMA InitInv == ASSUME Init PROVE IInv
<1>1. bonusing \in Bonusing /\ AwardTypes /\ QueueTypes
  BY FreshAward DEF Init, AwardTypes, QueueTypes, Sent, Pending
<1>2. WaitTypes /\ lock \in BOOLEAN /\ shown \in BOOLEAN /\ renoticed \in BOOLEAN
  <2>1. age \in 0..2
    BY DEF Init
  <2> QED
    BY <2>1, Zenon DEF Init, WaitTypes
<1>3. SasTypes
  BY FreshAward, Zenon DEF Init, SasTypes
<1>4. PaymentTypes /\ CarriedOutOnce
  BY DEF Init, PaymentTypes, CarriedOutOnce, NoTransfer, Transfer
<1>5. CountTypes
  BY EgmAwardAssumption DEF Init, CountTypes
<1>6. OwnBonusing
  BY FreshAward DEF Init, OwnBonusing
<1> QED
  BY <1>1, <1>2, <1>3, <1>4, <1>5, <1>6, Zenon DEF IInv, TypeOK

LEMMA StepInv == ASSUME IInv, [Next]_vars PROVE IInv'
<1>1. CASE \E h \in Hit : Accept(h) \/ Decline(h)
  BY <1>1, AcceptInv, DeclineInv
<1>2. CASE ManagerStep
  BY <1>2, RequestInv, ExpireAwardInv, FromGCFInv DEF ManagerStep
<1>3. CASE SetMeters \/ JackpotInfo \/ GameStart
  BY <1>3, SetMetersInv, JackpotInfoInv, GameStartInv
<1>4. CASE BaseStep
  BY <1>4, BounceInv, ReadMetersInv, RefuseInv, AwardLegacyBonusInv, AwardAFTBonusInv
     DEF BaseStep
<1>5. CASE ScheduleStep
  BY <1>5, ResendAwardLockRequestInv, ExecuteTransferInv, SendBackInv, ReturnAwardIneligibleInv,
     ProcessAFTBonusGameLockedInv DEF ScheduleStep
<1>6. CASE CheckLock \/ ProcessGeneralPollGameLocked \/ ProcessAFTBonusXferComplete
  BY <1>6, CheckLockInv, ProcessGeneralPollGameLockedInv, ProcessAFTBonusXferCompleteInv
<1>7. CASE CompleteTransfer \/ AttendantPays
  BY <1>7, CompleteTransferInv, AttendantPaysInv
<1>8. CASE RetryDelay \/ Tick \/ Online
  BY <1>8, TimeInv
<1>9. CASE Restart
  BY <1>9, RestartInv
<1>10. CASE UNCHANGED vars
  <2>1. /\ UNCHANGED bonusing /\ UNCHANGED award /\ UNCHANGED queues /\ UNCHANGED sasState
        /\ UNCHANGED payment /\ UNCHANGED lock /\ UNCHANGED shown
        /\ UNCHANGED <<waiting, delayed, age, online>>
        /\ UNCHANGED <<offers, told, restarts>> /\ UNCHANGED <<award, toSas>>
        /\ UNCHANGED past
    BY <1>10 DEF vars, manager, machine, queues, past
  <2> QED
    BY <2>1, Preserved, Zenon
<1> QED
  BY <1>1, <1>2, <1>3, <1>4, <1>5, <1>6, <1>7, <1>8, <1>9, <1>10 DEF Next

\* The invariant of the manager, the SAS protocol and the machine.
THEOREM Invariance == Spec => []IInv
<1>1. Init => IInv
  BY InitInv
<1>2. IInv /\ [Next]_vars => IInv'
  BY StepInv
<1> QED
  BY <1>1, <1>2, PTL DEF Spec

\* The types of the award, its copies and what the machine has done; an award that
\* is sent has meters to compare with (ProcessEGMAwardFromGCF).
THEOREM TypeCorrect == Spec => []TypeOK
<1>1. IInv => TypeOK
  BY DEF IInv
<1> QED
  BY <1>1, Invariance, PTL

\* A machine that is paid by AFT transfers never pays a hit twice, whatever old
\* copies of an award ask for, over all retries, lock requests and restarts.
THEOREM AftPaysOnce == Spec => [](bonusing = "aft" => PaidOnce)
<1>1. IInv => (bonusing = "aft" => PaidOnce)
  BY DEF IInv, CarriedOutOnce, PaidOnce
<1> QED
  BY <1>1, Invariance, PTL

=============================================================================
