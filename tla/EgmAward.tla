------------------------------ MODULE EgmAward ------------------------------
(***************************************************************************)
(* A jackpot won at One Link is paid to the gaming machine.  The award     *)
(* manager of the internals (ProgressiveProtocol/EGMAwardManager.cpp)      *)
(* keeps one award in NVRAM and takes it from the offer of One Link to a   *)
(* final state, which it reports; the SAS protocol (SASProtocol.cpp,       *)
(* SASPersonalBanker.cpp) keeps a copy of it and carries it out, by a      *)
(* legacy bonus poll or by an AFT transfer for which the machine must      *)
(* first be locked.  They exchange copies of the award through two queues. *)
(* An award reported ineligible may be offered again.                      *)
(*                                                                         *)
(* Two threads of the SAS protocol work on its copy.  The one that reads   *)
(* the messages of the internals ("base") holds the critical section of    *)
(* the award from the copy to the answer, so that a message is one step;   *)
(* the one that makes the general polls ("schedule") holds it only while   *)
(* it reads, carries out or changes the copy.  A handler of the manager    *)
(* runs under one lock and is one step.  The machine and One Link are      *)
(* external; a machine has one kind of transfer, which is available or not *)
(* from one moment to the next, as the last poll for it went.              *)
(***************************************************************************)
EXTENDS Integers, Sequences, FiniteSets

CONSTANTS
    Hit, NoHit,     \* the jackpots of One Link
    Bonusing,       \* the kinds of transfer that machines support
    PollAnswers,    \* what may become of the poll that pays
    LockAnswers,    \* what may become of a lock request
    QueryAnswers,   \* what may become of a lock query
    MaxEvents,      \* bound, by kind: the offers accepted and the restarts
    MaxNotices      \* bound, by kind: copies in a final state on their way at a time

ASSUME EgmAwardAssumption ==
    /\ NoHit \notin Hit
    /\ Bonusing \subseteq {"aft", "legacy"}
    /\ PollAnswers \subseteq {"answered", "unsent", "timedout", "lost"}
    /\ LockAnswers \subseteq {"pending", "rejected", "granted", "failed"}
    /\ QueryAnswers \subseteq {"locked", "unlocked", "failed"}
    /\ MaxEvents \in [Bonusing -> Nat]
    /\ MaxNotices \in [Bonusing -> Nat]

VARIABLES
    bonusing,       \* the kind of transfer of this machine
    award,          \* m_egmAward of the manager, which is stored at each change
    waiting,        \* m_waitingForGCF
    delayed,        \* not m_gcfDelayExpired: the last request was just sent
    age,            \* since the start: 0, 1 (20 seconds) or 2 (10 minutes)
    online,         \* the start-up queue of the SAS protocol is empty
    toSas,          \* copies of the award for the SAS protocol
    toInternals,    \* copies of the award for the manager
    sas,            \* m_egmAward of the SAS protocol
    lockPending,    \* SAS state: a lock was requested and is awaited
    pc,             \* what the schedule thread does
    jackpotID,      \* the hit that thread is about to pay by a transfer
    lock,           \* the machine is going to grant a lock
    transfer,       \* the AFT transfer under way, or completed and not yet reported
    paid,           \* how often the machine has been made to pay a hit
    handpay,        \* the hit the machine waits for an attendant to pay
    shown,          \* the jackpot information of that hand pay was sent
    bonus,          \* the bonus meter: how many awards it has counted
    offers,         \* how many offers were accepted
    told,           \* history: the final states reported of a hit's last offer
    restarts,
    renoticed       \* history: a notice of expiry was sent again before it was answered

manager == <<award, waiting, delayed, age, online, offers, told>>
payment == <<transfer, paid, handpay, bonus>>
machine == <<lock, payment, shown>>
sasState == <<sas, lockPending, pc, jackpotID>>
past == <<restarts, renoticed>>
queues == <<toSas, toInternals>>
vars == <<bonusing, manager, machine, sasState, queues, past>>

-----------------------------------------------------------------------------
Sent == {"SentToGame", "GameBusy", "AftLockPending"}
Pending == {"Signaled", "HandpayPending"}
Final == {"AwardToGameSuccess", "AwardToGameError", "AwardToGameIneligible"}
State == {"NoAward", "WaitForMetersInitial"} \cup Sent \cup Pending \cup Final
InProgress == {"WaitForMetersInitial"} \cup Sent \cup Pending
\* A pending hand pay has no time limit.
Timed == InProgress \ {"HandpayPending"}

Unread == -1

Award == [hit : Hit \cup {NoHit}, state : State,
          xfer : Bonusing \cup {"none"}, meter : Nat \cup {Unread}]

NoAward == [hit |-> NoHit, state |-> "NoAward", xfer |-> "none", meter |-> Unread]

Transfer == [hit : Hit \cup {NoHit}, status : {"none", "pending", "done", "failed"}]

NoTransfer == [hit |-> NoHit, status |-> "none"]

Init ==
    /\ bonusing \in Bonusing
    /\ award = NoAward
    /\ waiting = FALSE
    /\ delayed = FALSE
    /\ age = 0
    /\ online = FALSE
    /\ toSas = <<>>
    /\ toInternals = <<>>
    /\ sas = NoAward
    /\ lockPending = FALSE
    /\ pc = "idle"
    /\ jackpotID = NoHit
    /\ lock = FALSE
    /\ transfer = NoTransfer
    /\ paid = [h \in Hit |-> 0]
    /\ handpay = NoHit
    /\ shown = FALSE
    /\ bonus = 0
    /\ offers = 0
    /\ told = [h \in Hit |-> {}]
    /\ restarts = 0
    /\ renoticed = FALSE

-----------------------------------------------------------------------------
(* The award manager *)

\* m_awardExpired, as every message updates it: it is set at the limit of the state,
\* and taken back when the award becomes pending, which has another limit.
Expired == age >= (IF award.state = "Signaled" THEN 2 ELSE 1)

\* One Link offers a hit until it is told how it ended.  A report reaches it.
Offered(h) == told[h] \cap {"AwardToGameSuccess", "AwardToGameError"} = {}

SameHit(h) == award.hit = h /\ award.state # "AwardToGameIneligible"

\* A new hit, or one that was ineligible: it is stored, and the SAS protocol is
\* asked for the meters at once when the machine is there.
Accept(h) ==
    /\ Offered(h)
    /\ offers + restarts < MaxEvents[bonusing]
    /\ ~SameHit(h)
    /\ award.state \notin InProgress
    /\ award' = [hit |-> h, state |-> "WaitForMetersInitial",
                 xfer |-> "none", meter |-> Unread]
    /\ offers' = offers + 1
    /\ told' = [told EXCEPT ![h] = {}]
    /\ age' = 0
    /\ waiting' = online
    /\ delayed' = online
    /\ toSas' = IF online THEN Append(toSas, award') ELSE toSas
    /\ UNCHANGED <<bonusing, online, machine, sasState, toInternals, past>>

\* The progressive is down, or another award is in progress.
Decline(h) ==
    /\ Offered(h)
    /\ offers + restarts < MaxEvents[bonusing]
    /\ ~SameHit(h)
    /\ told' = [told EXCEPT ![h] = @ \cup {"AwardToGameIneligible"}]
    /\ UNCHANGED <<bonusing, award, waiting, delayed, age, online, offers,
                   machine, sasState, queues, past>>

\* Mutant of Await: only the delay is noted.
AwaitDelayOnly == waiting' = FALSE /\ delayed' = TRUE

Await == waiting' = TRUE /\ delayed' = TRUE

\* A timed event with the retry delay over: the award goes to the SAS protocol,
\* after GameBusy as a new attempt (when the machine has a transfer to attempt).
Request ==
    /\ ~waiting
    /\ ~delayed
    /\ award.state \in Timed
    /\ ~Expired
    /\ online
    /\ award' = IF award.state = "GameBusy"
                THEN [award EXCEPT !.state = "SentToGame", !.xfer = bonusing]
                ELSE award
    /\ award'.state # "AftLockPending"
    /\ Await
    /\ toSas' = Append(toSas, award')
    /\ UNCHANGED <<bonusing, age, online, offers, told, machine, sasState,
                   toInternals, past>>

Notices == Cardinality({i \in DOMAIN toSas : toSas[i].state \in Final})
           + Cardinality({i \in DOMAIN toInternals : toInternals[i].state \in Final})

\* A timed event of an expired award: the SAS protocol is to clear it first.
\* The manager does not note that it waits for the answer, and repeats the notice
\* with each event until the answer is there.
ExpireAward ==
    /\ ~waiting
    /\ award.state \in Timed
    /\ Expired
    /\ Notices < MaxNotices[bonusing]
    /\ toSas' = Append(toSas, [award EXCEPT !.state =
                    IF award.state = "Signaled" THEN "AwardToGameError"
                                                ELSE "AwardToGameIneligible"])
    /\ renoticed' = (renoticed \/ Notices > 0)
    /\ UNCHANGED <<bonusing, award, waiting, delayed, age, online, offers, told, machine,
                   sasState, toInternals, restarts>>

\* Before the award has reached the machine an error is as good as ineligible;
\* once it has, ineligible is an error.
Unsent(u) == IF u = "AwardToGameError" THEN "AwardToGameIneligible" ELSE u
Undecided(u) == IF u = "AwardToGameIneligible" THEN "AwardToGameError" ELSE u

\* Mutant of MetersRead: an award is sent whether its meters are known or not.
MetersReadOrNot(u) == TRUE

MetersRead(u) == u.meter # Unread

\* GetNextTransferType: the kind of the machine, if it is available now.
NextTransferTypes == {bonusing, "none"}

\* The state of the award after an update u, when the next transfer is of type x.
NextState(u, x) ==
    LET s == award.state IN
    CASE s = "WaitForMetersInitial" /\ u.state = s /\ MetersRead(u) /\ x # "none" ->
           "SentToGame"
      [] s = "WaitForMetersInitial" /\ u.state \in Final -> Unsent(u.state)
      [] s \in Sent /\ u.state \in Pending \cup {"GameBusy", "AftLockPending"} -> u.state
      [] s \in Sent /\ u.state \in Final -> Unsent(u.state)
      [] s = "Signaled" /\ u.state = "HandpayPending" -> u.state
      [] s \in Pending /\ u.state \in Final -> Undecided(u.state)
      [] OTHER -> s

\* ProcessEGMAwardFromGCF: what an update does, whatever message it came by.  The
\* delay begins anew, unless the award comes nearer to its end; an award that becomes
\* pending has its time again; what changes is reported.
Apply(u) ==
    \E x \in NextTransferTypes :
      LET s == NextState(u, x) IN
      /\ waiting' = (waiting /\ u.state = "AftLockPending")
      /\ delayed' = (s \in {award.state, "GameBusy", "AftLockPending"})
      /\ award' = IF s = award.state THEN award
                  ELSE IF award.state = "WaitForMetersInitial" /\ s = "SentToGame"
                  THEN [award EXCEPT !.state = s, !.xfer = x, !.meter = u.meter]
                  ELSE IF s \in {"GameBusy", "AftLockPending"}
                  THEN [award EXCEPT !.state = s, !.xfer = "none"]
                  ELSE [award EXCEPT !.state = s]
      /\ told' = IF s # award.state /\ s \in Final
                 THEN [told EXCEPT ![award.hit] = @ \cup {s}] ELSE told

\* An update from the SAS protocol; that of a different hit is ignored.
FromGCF ==
    /\ toInternals # <<>>
    /\ toInternals' = Tail(toInternals)
    /\ IF Head(toInternals).hit = award.hit
       THEN Apply(Head(toInternals))
       ELSE UNCHANGED <<award, waiting, delayed, told>>
    /\ UNCHANGED <<bonusing, age, online, offers, machine, sasState, toSas, past>>

\* Meters from the machine: a pending award has been paid if the bonus meters
\* have grown since it was accepted.
SetMeters ==
    /\ award.state \in Pending
    /\ bonus > award.meter
    /\ Apply([award EXCEPT !.state = "AwardToGameSuccess"])
    /\ UNCHANGED <<bonusing, age, online, offers, machine, sasState, queues, past>>

\* The machine has a hand pay of the amount of the award: it is this award.
JackpotInfo ==
    /\ handpay # NoHit
    /\ ~shown
    /\ shown' = TRUE
    /\ IF /\ handpay = award.hit
          /\ award.state \in {"SentToGame", "AftLockPending"} \cup Pending
       THEN Apply([award EXCEPT !.state = "HandpayPending"])
       ELSE UNCHANGED <<award, waiting, delayed, told>>
    /\ UNCHANGED <<bonusing, age, online, offers, lock, payment,
                   sasState, queues, past>>

\* A game starts, which it cannot while a hand pay is due: it has been paid.
GameStart ==
    /\ award.state = "HandpayPending"
    /\ handpay = NoHit
    /\ Apply([award EXCEPT !.state = "AwardToGameSuccess"])
    /\ UNCHANGED <<bonusing, age, online, offers, machine, sasState, queues, past>>

-----------------------------------------------------------------------------
(* The SAS protocol: the thread that reads the messages of the internals *)

\* The common part of the actions of AwardBonus: the message is copied, and a
\* copy with the outcome goes back.
Answer(new) ==
    /\ toSas # <<>>
    /\ toSas' = Tail(toSas)
    /\ sas' = new
    /\ toInternals' = Append(toInternals, new)
    /\ UNCHANGED <<bonusing, manager, shown, pc, jackpotID, past>>

NoPolls == UNCHANGED <<payment, lock, lockPending>>

\* Neither meters nor a payment are asked for, and the award goes back as it is;
\* while a transfer of the personal banker is under way, as busy.
Bounce ==
    /\ toSas # <<>>
    /\ LET m == Head(toSas) IN
       \/ m.state \notin {"WaitForMetersInitial", "SentToGame"} /\ Answer(m)
       \/ m.state \notin Final /\ Answer([m EXCEPT !.state = "GameBusy"])
    /\ NoPolls

\* Mutant of ReadMeters: the meters are taken to be zero.
ReadNoMeters ==
    /\ toSas # <<>>
    /\ Head(toSas).state = "WaitForMetersInitial"
    /\ \E v \in {0, Unread} : Answer([Head(toSas) EXCEPT !.meter = v])
    /\ NoPolls

\* GetOriginalBonusingMeters; the machine may not answer.
ReadMeters ==
    /\ toSas # <<>>
    /\ Head(toSas).state = "WaitForMetersInitial"
    /\ \E v \in {bonus, Unread} : Answer([Head(toSas) EXCEPT !.meter = v])
    /\ NoPolls

\* No bonusing is available just now, so that no award is looked at; or, of an award
\* to be paid, the denomination has changed or cannot be read, the amount is out of
\* range, or the machine has not the bonusing that was stored with the award.
Refuse ==
    /\ toSas # <<>>
    /\ Head(toSas).state \notin {"AwardToGameError", "AwardToGameIneligible"}
    /\ Answer([Head(toSas) EXCEPT !.state = "AwardToGameIneligible"])
    /\ NoPolls

\* The machine pays a hit itself, or calls an attendant.
Pay(h) ==
    /\ paid' = [paid EXCEPT ![h] = @ + 1]
    /\ \/ bonus' = bonus + 1 /\ UNCHANGED handpay
       \/ handpay = NoHit /\ handpay' = h /\ UNCHANGED bonus

\* AwardLegacyBonus: no answer is expected that could be lost, and a poll that was
\* not sent in time counts as sent.
AwardLegacyBonus ==
    /\ toSas # <<>>
    /\ LET m == Head(toSas) IN
       /\ m.state = "SentToGame"
       /\ m.xfer = "legacy"
       /\ \E r \in PollAnswers \ {"lost"} :
            /\ Answer([m EXCEPT !.state = IF r = "unsent" THEN "AwardToGameIneligible"
                                                         ELSE "Signaled"])
            /\ IF r = "answered" THEN Pay(m.hit) /\ UNCHANGED transfer
                                 ELSE UNCHANGED payment
    /\ UNCHANGED <<lock, lockPending>>

\* The machine takes a transfer: it pays at once, or later if it can.  It has one
\* transfer in progress at most.
Take(h) ==
    \/ transfer' = [hit |-> h, status |-> "pending"] /\ UNCHANGED <<paid, handpay, bonus>>
    \/ transfer' = [hit |-> h, status |-> "done"] /\ Pay(h)

\* The machine knows the transaction from an earlier poll.
Known(h) == paid[h] > 0 \/ transfer = [hit |-> h, status |-> "pending"]

\* Not yet sent to the machine, whatever the first of the states is called.
ToBeSent(a) == a.state \in {"SentToGame", "AftLockPending"}

\* The poll that makes the transfer bears the id of the hit, which the machine carries
\* out once.  "new" is the state that the award is given by its answer.
SendTransfer(h, new) ==
    \E r \in PollAnswers :
      /\ IF r # "answered" THEN new = "AwardToGameIneligible"
         ELSE IF Known(h) THEN new = "Signaled"
         ELSE IF transfer.status = "pending" THEN new = "AwardToGameIneligible"
         ELSE new \in {"Signaled", "GameBusy", "AwardToGameIneligible"}
      /\ IF ~Known(h) /\ transfer.status # "pending" /\ (new = "Signaled" \/ r = "lost")
         THEN Take(h) ELSE UNCHANGED payment

\* ExecuteAFTBonusAward, called with the award a locked.
ExecuteAFTBonusAward(a, new) ==
    IF ToBeSent(a) THEN SendTransfer(a.hit, new)
                   ELSE new = a.state /\ UNCHANGED payment

\* The answer r to the polls that cancel a lock and request one: m_bLockPending
\* stays set when there is none.
RequestLock(r) ==
    /\ lockPending' = (r \in {"pending", "failed"})
    /\ lock' = (r = "pending")

\* What the answer r other than "granted" makes of the award, unless it has ended.
LockNoted(a, r) ==
    IF a.state \notin InProgress \/ r = "failed" THEN a
    ELSE [a EXCEPT !.state = IF r = "pending" THEN "AftLockPending" ELSE "GameBusy"]

\* AwardAFTBonus in the base thread: a machine that is locked at once is paid.
AwardAFTBonus ==
    /\ toSas # <<>>
    /\ LET m == Head(toSas) IN
       /\ m.state = "SentToGame"
       /\ m.xfer = "aft"
       /\ \E r \in LockAnswers :
            /\ RequestLock(r)
            /\ IF r = "granted"
               THEN \E new \in State : /\ ExecuteAFTBonusAward(m, new)
                                       /\ Answer([m EXCEPT !.state = new])
               ELSE Answer(LockNoted(m, r)) /\ UNCHANGED payment

-----------------------------------------------------------------------------
(* The SAS protocol: the thread that makes the general polls *)

\* The award of the SAS protocol was certainly offered less than 20 seconds ago: it is
\* the only offer so far, and not much time has passed in this run.
SurelyYoung == offers = 1 /\ restarts = 0 /\ age = 0 /\ award.state \in Timed

\* A lock that is awaited for 5 seconds is requested again as long as the award of the
\* SAS protocol was offered less than 20 seconds ago, and is cancelled later.  That time
\* is stored with an award: what the manager has in hand tells its age only in part.
CheckLock ==
    /\ pc = "idle"
    /\ lockPending
    /\ sas.state \in InProgress
    /\ \/ /\ age = 0
          /\ \E r \in LockAnswers : RequestLock(r) /\ pc' = r
       \/ /\ ~SurelyYoung
          /\ pc' = "cancel"
          /\ lockPending' = FALSE
          /\ lock' = FALSE
    /\ UNCHANGED <<bonusing, manager, payment, shown, sas, jackpotID, queues, past>>

\* ResendAwardLockRequest, in AwardAFTBonus: the answer is noted, whichever award is
\* there by now.  A machine that is locked at once is to be paid: in a first section of
\* ExecuteAFTBonusAward the id and the amount are read, if the award is to be sent and
\* the amount in range ...
ResendAwardLockRequest ==
    /\ pc \in LockAnswers
    /\ IF pc = "granted" /\ ToBeSent(sas)
       THEN \/ pc' = "transfer" /\ jackpotID' = sas.hit /\ UNCHANGED sas
            \/ /\ pc' = "answer"
               /\ sas' = [sas EXCEPT !.state = "AwardToGameIneligible"]
               /\ UNCHANGED jackpotID
       ELSE /\ pc' = "answer"
            /\ sas' = IF pc = "granted" THEN sas ELSE LockNoted(sas, pc)
            /\ UNCHANGED jackpotID
    /\ UNCHANGED <<bonusing, manager, lock, payment, shown, lockPending, queues, past>>

\* ... and in a second one the transfer is made with that id, and its result given to
\* the award, whichever is there by now ...
ExecuteTransfer ==
    /\ pc = "transfer"
    /\ pc' = "answer"
    /\ jackpotID' = NoHit
    /\ \E new \in State : /\ SendTransfer(jackpotID, new)
                          /\ sas' = [sas EXCEPT !.state = new]
    /\ UNCHANGED <<bonusing, manager, lock, shown, lockPending, queues, past>>

\* ... and a copy is sent if the lock is no longer awaited.
SendBack ==
    /\ pc = "answer"
    /\ pc' = "idle"
    /\ toInternals' = IF lockPending THEN toInternals ELSE Append(toInternals, sas)
    /\ UNCHANGED <<bonusing, manager, machine, sas, lockPending, jackpotID, toSas, past>>

\* After the poll that cancels the lock, the award is marked whatever it is by now.
ReturnAwardIneligible ==
    /\ pc = "cancel"
    /\ pc' = "idle"
    /\ sas' = [sas EXCEPT !.state = "AwardToGameIneligible"]
    /\ toInternals' = Append(toInternals, sas')
    /\ UNCHANGED <<bonusing, manager, machine, lockPending, jackpotID, toSas, past>>

\* The machine reports that it is locked.
ProcessGeneralPollGameLocked ==
    /\ pc = "idle"
    /\ lock
    /\ lock' = FALSE
    /\ IF sas.state = "AftLockPending"
       THEN pc' = "locked" /\ lockPending' = FALSE
       ELSE UNCHANGED <<pc, lockPending>>
    /\ UNCHANGED <<bonusing, manager, payment, shown, sas, jackpotID, queues, past>>

\* The lock is queried, and the award carried out if it is confirmed, else (or if
\* a transfer of the personal banker came first) delayed.  If the query fails
\* nothing is sent.
ProcessAFTBonusGameLocked ==
    /\ pc = "locked"
    /\ pc' = "idle"
    /\ \E q \in QueryAnswers, new \in State :
         /\ IF q = "locked" THEN ExecuteAFTBonusAward(sas, new)
            ELSE new = "GameBusy" /\ UNCHANGED payment
         /\ sas' = [sas EXCEPT !.state = new]
         /\ toInternals' = IF q = "failed" THEN toInternals
                                           ELSE Append(toInternals, sas')
    /\ UNCHANGED <<bonusing, manager, lock, shown, lockPending, jackpotID, toSas, past>>

\* The machine reports that a transfer is complete; a copy of the award goes to the
\* manager even when it is a different one.
ProcessAFTBonusXferComplete ==
    /\ pc = "idle"
    /\ transfer.status \in {"done", "failed"}
    /\ transfer' = NoTransfer
    /\ sas' = IF sas.hit # transfer.hit THEN sas
              ELSE [sas EXCEPT !.state = IF transfer.status = "done" THEN "Signaled"
                                         ELSE "AwardToGameIneligible"]
    /\ toInternals' = IF sas = NoAward THEN toInternals ELSE Append(toInternals, sas')
    /\ UNCHANGED <<bonusing, manager, lock, paid, handpay, bonus, shown, lockPending,
                   pc, jackpotID, toSas, past>>

-----------------------------------------------------------------------------
(* The machine, time and restarts *)

CompleteTransfer ==
    /\ transfer.status = "pending"
    /\ \/ transfer' = [transfer EXCEPT !.status = "done"] /\ Pay(transfer.hit)
       \/ transfer' = [transfer EXCEPT !.status = "failed"]
          /\ UNCHANGED <<paid, handpay, bonus>>
    /\ UNCHANGED <<bonusing, manager, lock, shown, sasState, queues, past>>

\* An attendant pays what the machine has locked up with.
AttendantPays ==
    /\ handpay # NoHit
    /\ shown
    /\ bonus' = bonus + 1
    /\ handpay' = NoHit
    /\ shown' = FALSE
    /\ UNCHANGED <<bonusing, manager, lock, transfer, paid, sasState, queues, past>>

\* The 3 seconds between two requests have passed (which is of no account as long as
\* an answer is awaited, and begins anew with it) ...
RetryDelay ==
    /\ ~waiting
    /\ delayed
    /\ delayed' = FALSE
    /\ UNCHANGED <<bonusing, award, waiting, age, online, offers, told, machine,
                   sasState, queues, past>>

\* ... and 20 seconds since the award came, or ten minutes.
Tick ==
    /\ award.state \in Timed
    /\ age < 2
    /\ age' = age + 1
    /\ UNCHANGED <<bonusing, award, waiting, delayed, online, offers, told,
                   machine, sasState, queues, past>>

Online ==
    /\ ~online
    /\ online' = TRUE
    /\ UNCHANGED <<bonusing, award, waiting, delayed, age, offers, told,
                   machine, sasState, queues, past>>

\* Mutant of Start: a legacy transfer that may have been sent is sent again.
StartResends ==
    IF award.state = "AftLockPending" THEN [award EXCEPT !.state = "SentToGame"] ELSE award

\* Start: of a legacy transfer it is unknown whether it was sent, and the meters
\* are waited for; a lock is requested anew.
Start ==
    CASE award.state = "SentToGame" /\ award.xfer = "legacy" ->
           [award EXCEPT !.state = "Signaled"]
      [] award.state = "AftLockPending" -> [award EXCEPT !.state = "SentToGame"]
      [] OTHER -> award

\* The process starts again with what NVRAM holds; the machine goes on, and has
\* completed its transfer when the process is back.
Restart ==
    /\ offers + restarts < MaxEvents[bonusing]
    /\ transfer.status # "pending"
    /\ restarts' = restarts + 1
    /\ award' = Start
    /\ waiting' = FALSE
    /\ delayed' = FALSE
    /\ age' = 0
    /\ online' = FALSE
    /\ toSas' = <<>>
    /\ toInternals' = <<>>
    /\ sas' = NoAward
    /\ lockPending' = FALSE
    /\ pc' = "idle"
    /\ jackpotID' = NoHit
    /\ UNCHANGED <<bonusing, offers, told, machine, renoticed>>

BaseStep ==
    Bounce \/ ReadMeters \/ Refuse \/ AwardLegacyBonus \/ AwardAFTBonus

ScheduleStep ==
    \/ ResendAwardLockRequest \/ ExecuteTransfer \/ SendBack
    \/ ReturnAwardIneligible \/ ProcessAFTBonusGameLocked

ManagerStep == Request \/ ExpireAward \/ FromGCF

Next ==
    \/ \E h \in Hit : Accept(h) \/ Decline(h)
    \/ ManagerStep \/ SetMeters \/ JackpotInfo \/ GameStart
    \/ BaseStep
    \/ ScheduleStep \/ CheckLock \/ ProcessGeneralPollGameLocked
    \/ ProcessAFTBonusXferComplete
    \/ CompleteTransfer \/ AttendantPays \/ RetryDelay \/ Tick \/ Online \/ Restart

\* The threads run, One Link is connected (without it there are no timed events),
\* the machine completes and reports what it has begun, and time passes.  Nobody
\* promises an attendant, a lock, a meter change or a repeated offer.
Fairness ==
    /\ WF_vars(ManagerStep)
    /\ WF_vars(JackpotInfo)
    /\ WF_vars(BaseStep)
    /\ WF_vars(ScheduleStep)
    /\ WF_vars(CheckLock)
    /\ WF_vars(ProcessGeneralPollGameLocked)
    /\ WF_vars(ProcessAFTBonusXferComplete)
    /\ WF_vars(CompleteTransfer)
    /\ WF_vars(Online)
    /\ WF_vars(RetryDelay)
    /\ WF_vars(Tick)

Spec == Init /\ [][Next]_vars /\ Fairness

-----------------------------------------------------------------------------
(* Properties *)

AwardTypes ==
    /\ award \in Award
    /\ award.state \in Sent \cup Pending => award.meter # Unread

WaitTypes ==
    /\ waiting \in BOOLEAN /\ delayed \in BOOLEAN /\ online \in BOOLEAN
    /\ age \in 0..2

QueueTypes == toSas \in Seq(Award) /\ toInternals \in Seq(Award)

SasTypes ==
    /\ sas \in Award
    /\ lockPending \in BOOLEAN
    /\ pc \in {"idle", "transfer", "answer", "cancel", "locked"} \cup LockAnswers
    /\ jackpotID \in Hit \cup {NoHit}

PaymentTypes ==
    /\ transfer \in Transfer
    /\ paid \in [Hit -> Nat]
    /\ handpay \in Hit \cup {NoHit}
    /\ bonus \in Nat

CountTypes ==
    /\ offers \in Nat /\ restarts \in Nat
    /\ offers + restarts <= MaxEvents[bonusing]
    /\ told \in [Hit -> SUBSET Final]

\* Type invariant of the manager, the SAS protocol and the machine; an award that is
\* sent has meters to compare with.
TypeOK ==
    /\ bonusing \in Bonusing
    /\ AwardTypes
    /\ WaitTypes
    /\ QueueTypes
    /\ SasTypes
    /\ PaymentTypes
    /\ lock \in BOOLEAN /\ shown \in BOOLEAN /\ renoticed \in BOOLEAN
    /\ CountTypes

\* No hit makes the machine pay twice, over all its offers, retries of the manager,
\* repeated lock requests and restarts in the middle of a transfer.  It is what "Do not
\* allow more than one outstanding request at a time" (EGMAwardManagerState.h) is for,
\* and a legacy machine, to which a repeated notice opens a way to two requests, is
\* made to pay twice.
PaidOnce == \A h \in Hit : paid[h] <= 1

\* A legacy machine, as long as no notice of expiry was repeated before its answer.
Orderly == bonusing = "legacy" /\ ~renoticed

\* An AFT machine never pays a hit twice, whatever is lost, repeated or out of order;
\* a legacy machine does not unless a notice of expiry was repeated.
PaidOnceUnlessRenoticed == bonusing = "aft" \/ Orderly => PaidOnce

\* No award was reported as an error: its payment is not known, and may show later.
NoneGivenUp == \A h \in Hit : "AwardToGameError" \notin told[h]

\* An award of a legacy machine is reported as successful only when the machine was
\* made to pay it: no meter or game start that belongs to something else counts for
\* it, unless an award before it was given up while it was pending.
SuccessWasPaid ==
    Orderly /\ NoneGivenUp =>
        \A h \in Hit : "AwardToGameSuccess" \in told[h] => paid[h] > 0

\* A legacy award reported ineligible has not been paid, since it may be offered
\* and sent again and the machine could not tell (EGMAwardManager.cpp, Start).
LegacyIneligibleIsUnpaid ==
    Orderly => \A h \in Hit : "AwardToGameIneligible" \in told[h] => paid[h] = 0

\* The SAS protocol makes a legacy machine pay only the hit that the manager has in
\* hand, so that the outcome can be reported: no copy outlives its award, though a
\* hand pay or a game start may free the manager, and a notice end the award, while
\* a copy is under way.
PaysCurrentAward ==
    [][Orderly' => \A h \in Hit : paid'[h] # paid[h] => award.hit = h]_vars

\* The manager gets an answer to what it sends, without which it makes no further
\* attempt and expires nothing: "GCF retries will occur 3 seconds apart"
\* (EGMAwardManagerState.h), those of an award whose lock is pending after the SAS
\* protocol has reported the result (EGMAwardManagerState.cpp).
WaitEnds == waiting ~> ~waiting

-----------------------------------------------------------------------------
(* Why an AFT machine pays once *)

\* An award that is sent carries the kind of transfer of the machine.
OwnBonusing ==
    /\ award.xfer \in {bonusing, "none"}
    /\ \A i \in DOMAIN toSas : toSas[i].xfer \in {bonusing, "none"}

\* A transfer that is still pending has not been paid, by whichever poll it came.
CarriedOutOnce ==
    bonusing = "aft" =>
        \A h \in Hit : /\ paid[h] <= 1
                       /\ transfer = [hit |-> h, status |-> "pending"] => paid[h] = 0

IInv == TypeOK /\ OwnBonusing /\ CarriedOutOnce

-----------------------------------------------------------------------------
(* Why a legacy machine pays once *)

\* The copies of awards that are under way; none, or at most one, of the hit h.
UnderWay == {toSas[i] : i \in DOMAIN toSas} \cup {toInternals[i] : i \in DOMAIN toInternals}

NoCopy(h) == \A m \in UnderWay : m.hit # h

OneCopy(h) ==
    /\ \A i, j \in DOMAIN toSas : toSas[i].hit = h /\ toSas[j].hit = h => i = j
    /\ \A i, j \in DOMAIN toInternals :
          toInternals[i].hit = h /\ toInternals[j].hit = h => i = j
    /\ \A i \in DOMAIN toSas, j \in DOMAIN toInternals :
          ~(toSas[i].hit = h /\ toInternals[j].hit = h)

\* The award has not reached the machine as far as the manager knows.
Unsettled == award.state \in {"WaitForMetersInitial", "SentToGame", "GameBusy"}

\* Nothing locks a legacy machine, and none of its answers says that a payment has
\* come to its end: that is found out by meters and games.
Lockless ==
    /\ transfer = NoTransfer /\ ~lock /\ ~lockPending /\ pc = "idle"
    /\ award.state # "AftLockPending"
    /\ award.state = "SentToGame" => award.xfer = bonusing
    /\ \A m \in UnderWay : m.state \in {"WaitForMetersInitial", "SentToGame", "GameBusy",
                              "Signaled", "AwardToGameError", "AwardToGameIneligible"}

\* What is told of a hit is about its last offer.
ToldOfLast ==
    /\ award.state # "NoAward" => award.hit \in Hit
    /\ award.state \in InProgress => told[award.hit] = {}
    /\ award.state \in Final => award.state \in told[award.hit]

\* Of an award that may still be sent one copy is under way, which the manager waits
\* for unless it is the notice of expiry.  Copies of earlier offers are gone unless
\* the hit is not offered again.
CopiesOfLast ==
    /\ \A h \in Hit : Offered(h) /\ ~(h = award.hit /\ award.state \in InProgress)
                        => NoCopy(h)
    /\ Unsettled => OneCopy(award.hit)
    /\ Unsettled /\ ~waiting =>
         \A m \in UnderWay : m.hit = award.hit => m.state \in Final /\ age >= 1
    /\ \A i \in DOMAIN toSas : toSas[i].state = "SentToGame" =>
         award.hit = toSas[i].hit /\ award.state = "SentToGame"

\* The award may have been paid: it is pending, or will be with the answer under way.
MayBePaid(h) ==
    /\ h = award.hit
    /\ \/ award.state \in Pending
       \/ /\ award.state = "SentToGame"
          /\ \E i \in DOMAIN toInternals :
                toInternals[i].hit = h /\ toInternals[i].state = "Signaled"

PaidAndTold ==
    /\ \A h \in Hit :
         /\ paid[h] <= 1
         /\ Offered(h) /\ paid[h] > 0 => MayBePaid(h)
         /\ "AwardToGameIneligible" \in told[h] => paid[h] = 0
    /\ award.state = "HandpayPending" => paid[award.hit] > 0
    /\ handpay # NoHit => paid[handpay] > 0

\* Success was paid, unless an award was given up.
SuccessTold == \A h \in Hit : "AwardToGameSuccess" \in told[h] => paid[h] > 0

\* A hand pay belongs to the award, and is shown when the award waits for it.
HandpayOfAward ==
    /\ handpay # NoHit => MayBePaid(handpay)
    /\ shown => handpay # NoHit /\ award.state = "HandpayPending"

\* The meters have grown since they were read by what the machine paid itself, or an
\* attendant, of this award.
MetersOfAward ==
    /\ award.state \in Sent \cup Pending =>
         bonus = award.meter + (IF paid[award.hit] > 0 /\ handpay = NoHit THEN 1 ELSE 0)
    /\ award.state = "WaitForMetersInitial" =>
         \A i \in DOMAIN toInternals :
           LET m == toInternals[i] IN
           m.hit = award.hit /\ m.state = award.state => m.meter \in {bonus, Unread}

LegacyInv ==
    Orderly =>
        /\ Lockless /\ ToldOfLast /\ CopiesOfLast /\ PaidAndTold
        /\ NoneGivenUp => SuccessTold /\ HandpayOfAward /\ MetersOfAward

=============================================================================
