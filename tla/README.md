# A TLA+ model of the Sentinel (nCompass)

The Sentinel is the C++ program of a small computer inside a slot machine. It
talks to the game (SAS, a serial protocol), to the player (card reader,
screens), to a progressive controller, and to the casino host, which the code
calls the *poller*. Transactions that move money - printed tickets, redeemed
tickets, vends, hand pays, session ends - must reach the host whatever happens
to the power and to the network. That promise is the core of the program and
the first thing this project models:

* `ResendList` - the list of unanswered transactions with its copy in
  battery-backed memory, every NVRAM write being a step of its own, and power
  failing between any two of them;
* `TransactionStore` - what that list promises its users; `ResendList` is shown
  to implement it, by TLC and by proof;
* `PollerResend` - the three threads of the poller protocol that put
  transactions in the list, send them, send them again, and remove them as the
  host answers;
* `ResendListProofs`, `PollerResendProofs`, `PollerAnswerProofs` - theorems about
  the two for any number of blocks, transactions, faults and restarts, checked by
  TLAPS.

The second subject is the way to the machine: the queues through which every
thread reaches every other, the polls of the SAS protocol, and the money that a
jackpot award sends down that way:

* `MessageQueue` - the prioritised queues between the threads, plain and internal;
* `SasPoll` - the life of one poll between the thread that needs its answer and
  the thread that talks to the machine, with the two-phase transfer of credits;
* `EgmAward` - a jackpot of One Link from its offer to its final report: the
  persistent state machine of the award manager together with the SAS protocol;
* `MessageQueueProofs`, `MessageQueueRatioProofs`, `SasPollProofs`,
  `EgmAwardProofs`, `EgmLegacyProofs` - theorems about them, for any number of
  levels, ratios, messages, threads, hits and restarts.

All paths below are relative to `src/Sentinel/` unless they say otherwise.
`PROJECT.json` gives, for every definition that models code, the lines it
models, and lists the components, runs, hazards, findings and theorems.

## 1. Inventory

`InternalsFramework` is the hub: it owns the other parts and hands messages from
one to another. Nearly every arrow below is a `CInternalMessageQueueList`,
emptied by a thread of the receiving part.

| Component (sources) | State | Operations | Interacts with | Hard behaviour | Correct when |
|---|---|---|---|---|---|
| **Transaction resend list** (`PollerProtocol/TransactionResendList*`, `ResendItems*`) | ordered map unique id -> item, free list of NVRAM blocks, blocks, count of printed tickets | rebuild, add, remove (by id, slot master id, null validation number), first/next item, last-sent times | NVRAM; three threads of the poller protocol | size tested outside the lock; several NVRAM writes for one add; power failure anywhere | nothing confirmed is lost, nothing half-written comes back, no block leaks |
| **Poller protocol, transactions** (`PollerProtocol/PollerProtocol.cpp`) | unique id, set of ids not to send again, bad-packet counts, PMT flag, notification flag, count of buffered tickets | one handler per message of the internals and of the host | list, queue, communicator, internals | three threads; acks and responses late, twice or never; reconnects; restarts | nothing leaves the list before the host has it; everything leaves some day; whoever waits for an empty list is told |
| **Poller communicator** (`PollerProtocol/PollerCommunicator.cpp`) | socket, connected flag | connect, send, read, close | poller protocol | a failed send closes the connection for the reading thread too | framing is reversible; a dead link is noticed |
| **NVRAM and EEPROM** (`Hardware/NVRAMinator.cpp`, `MemoryStorage.cpp`) | a flat map of offsets, its version | read, write (the hardware makes up to 256 bytes power-fail safe), upgrade of the layout | resend list, configuration, awards, transfers | power failing between two writes of one value, or during an upgrade | a write happens as a whole or not at all |
| **Internal message queues** (`InternalMessageQueueList.cpp`, `QueueList.cpp`, `SubQueue.cpp`, `MessagePersist.cpp`) | one FIFO per priority, usage counts, starvation threshold, content on the screen, binary semaphore | add, flush, remove, set and clear starvation, wait | every thread | several producers on a binary semaphore; priorities that yield by ratio; a threshold changed without the lock | no priority starves, no wake-up is lost, a flush reaches all, everything leaves |
| **Watchdog** (`Hardware/WatchDog.cpp`, `WatchdogThreadInfo.cpp`) | per thread: last check-in, time-out, active | register, check in, remove, monitor, shut down | every thread; hardware watchdog | time-outs changed by other threads while the monitor reads them | a stuck thread leads to a reset, a live one never does |
| **Restart manager** (`RestartManager.cpp`) | pending reboot, who must agree | ask for a reboot, wait for an empty list | internals, poller protocol | waits for the answer to *resend list empty* | a reboot is neither lost nor early |
| **Progressive connection** (`ProgressiveProtocol/ProgressiveConnection.cpp`, `ProgressiveTransactionResendList.cpp`) | socket, level broadcasts, stored messages | store, send, acknowledge, resend | progressive controller, award manager | ids are *highest stored + 1* | hits are reported once each, in order |
| **EGM awards** (`ProgressiveProtocol/EGMAwardManager*.cpp`, award part of `SASProtocol/`) | one persistent award; the copy of the SAS protocol, its lock request | accept, decline, request, update, expire; read meters, lock, transfer, report | One Link, machine, three threads | two copies exchanged by queues; restart in each state; retries; lost polls | an award is paid once and reported as it went |
| **Personal banker** (`PersonalBanker*.cpp`) | transfer in progress, pin, balances | request, authorise, transfer, complete, cancel | poller protocol, SAS (AFT), screens | cancel or card-out racing an authorisation; restart between AFT steps | money is on the game or on the account, never on both |
| **Tickets** (`Tickets.cpp`, `Ticket.cpp`) | redemption in progress, validation numbers | print, redeem, answer | SAS, poller protocol | host answers after the game has timed out | one answer per ticket |
| **Internals framework** (`InternalsFramework*.cpp`) | owner of the parts | dispatch | all | callbacks from several threads | every request is answered |
| **SAS protocol** (`SASProtocol/`) | poll queue, polls in flight, scheduler, AFT and EFT transfers | request a poll, wait, time out, send, read the answer, shut down | game; every thread of the protocol | a wait that ends while its poll is being sent; objects used again for a second phase | a poll is not freed in use; an answer belongs to its poll |
| **Players, cards, sessions** (`Player*.cpp`, ...) | card, session, points | card in/out, points | poller, screens | host answers after the card has left | points go to the right session |
| **Jackpots, meters** | pending jackpot, last meters | hit, reset, read | SAS, poller | reset racing the report | hits and resets match |
| **Configuration, screens, content delivery, logging, card reader, mobile connect** | - | - | - | data, pure I/O or rendering | - |

The tests (`src/SentinelUnitTests`, `src/SentinelNativeUnitTests`) call these
classes from one thread each, with no crash: what the hazards list of
`PROJECT.json` names is out of their reach.

## 2. The modules and the code

### TransactionStore

The promise, in twenty lines: a set `held` that survives a crash, and a set
`confirmed` of those whose sender was told "stored". `Accept`, `Confirm`,
`Release` and `Wipe` each concern one transaction; a change of phase changes
nothing else.

### ResendList

| Model | Code |
|---|---|
| `list` | `m_resendList`, a `std::map` from unique id to `CTransactionItem` |
| `freeNv` | `m_freeNvList` |
| `nvram[b]` | the block at the b-th offset: used mark and length (set by one `Write`), the transaction (in pieces of 256 bytes), and behind it the ticket-out flag |
| `initialOut` | `m_initialTicketOutCount` |
| `add` | the locals of the `AddTransaction` in progress, and where it is |
| `confirmed` | history: the transactions whose `AddTransaction` returned true |
| `BuildFromNvram`, `BeginClearing`, `ClearBlock`, `EndClearing` | `BuildYourself` with valid and with invalid NVRAM |
| `AddCheckSize` ... `AddInsertItem` | `AddTransaction`, one step per NVRAM write |
| `RemoveTransaction` | `RemoveTransaction`: one NVRAM write, then list and free list under the lock |
| `Crash` | power failure or reset |

What decides the granularity: the object's mutex makes everything from taking a
block to inserting the item one critical section for the *other threads*, but
not for the *power*, so each NVRAM write is a step after which `Crash` may come.
The size is tested before the lock, so `RemoveTransaction` may come between
`AddCheckSize` and `AddTakeBlock`. There is one adding thread (the one that
reads the queue of the internals), hence one `add`.

The guard `IdOf[t] \notin DOMAIN list` of `AddCheckSize` says that the caller
brings an unused id. It is an assumption of `ResendList`; `PollerResend` carries
the invariant that discharges it, `UniqueIdIsFresh`. Distinct transactions may
have the same id as long as they are not listed together, as in the code after
a restart.

Data: a transaction is an atom. A piece of a block holds the name of the
transaction it belongs to, so a block with pieces of two transactions is
visible as such. Before a block was written it holds `NoTx`.

### PollerResend

| Model | Code |
|---|---|
| `log` | history: transactions handed over, with kind and unique id |
| `list` | the list as `TransactionStore` promises it, with the time since the last send reduced to *older than 30 s or not* (`due`) |
| `uniqueId` | `m_uniqueId` |
| `queue` | `m_pollerMsgQueue` |
| `notToResend`, `badCount` | `m_listOfUniqueIdsNotToResend`, `m_BadTxResendCountMap` |
| `connected`, `pmtUp` | `pc->Connected()`, `m_pmtTransactionsUp` |
| `send`, `online` | where `SendToPollerThread` is, the item it holds, `previousOnlineState` |
| `after[t]` | what thread t has still to do after an entry has left the list |
| `notify`, `waiting` | `m_notifyResendEmpty`; the internals wait for the message |
| `outCount` | `m_ticketsBufferedCount` |
| `answering` | ticket responses the internals are working on |
| `fromHost` | what the host has sent and the read thread has not yet read |
| `received`, `tries` | history, for the properties only |

Threads. *queue*: `Submit` (the `Send...ToPoller` handlers and `QueueToPoller`),
`CountUp`, `RequestNotify`/`AnswerIfEmpty` (`SendEmptyResendToInternals`),
`TicketResponseReceived`. *send*: `CheckForConnect`, `CheckOnline`, `FetchItem`
and what can be done with the item (`SkipItem`, `DropBadItem`,
`DropItemNotToResend`, `ResendItem`), `DrainQueue`. *read*: one action per kind
of answer. Removals by any of the threads go on with `CheckEmpty`, `TellEmpty`,
`ResetNotify`, `CountDown`, each a step of its own, since nothing protects
`m_notifyResendEmpty` and `m_ticketsBufferedCount` between them.

`GetFirstItem` and `GetNextItem` return a pointer to the buffer of an item and
release the lock; an acknowledgement read in between frees that buffer. The use
of a freed buffer is modelled by the outcomes it has: nothing is sent
(`SkipItem`), the old message is sent (`ResendItem`), or what is found does not
encode (`ResendFreedItem`).

The host is external. It receives a packet and appends its answers to
`fromHost`, or the packet is lost and with it the connection (`Transmit`), which
is what a TCP connection can do. Tickets get an acknowledgement and a response,
a change of the slot master id likewise, everything else an acknowledgement. The
response to a change bears the slot master id, and
`RemoveChangeSlotMastIDTransaction` takes out the *first* listed change to that id,
whichever change was answered; so the kind of such a transaction is the id it is to
(`SlotMastId`), and two changes to one id are told apart by nothing.

`CrashAndRestart` keeps the list, because `ResendList` does, and sets
`uniqueId` and `outCount` as `SetNvramStatus` does; all else is lost.

Where the model joins or leaves out steps:

* One call on the list is one step: that is what `ResendList` => `TransactionStore` shows.
* Removing an entry and its bad-packet count is one step, and so are testing one
  item (PMT, age, count, mark) and sending it. The mark and the count of an item
  are only ever changed by the thread that reads them or by the removal of that
  item, which `Freed` accounts for.
* Heartbeat requests are left out, their answers are `HostReportsPmt`. A new
  address or load balancing is a `LinkDown` and a new connect.
* The `(false)` answer to a remote reboot request, the fill level
  (`CheckResendUse`), the suspicious-transaction mark and a Sentinel without
  NVRAM are not in this model, nor is the time before `SetNvramStatus`.
* Unique ids do not wrap (they would after 2^32 transactions).

### MessageQueue

| Model | Code |
|---|---|
| `kind` | the class: `CQueueList` (*plain*) or `CInternalMessageQueueList` (*internal*) |
| `items[l]`, `usage[l]` | `m_queueList` and `m_usageCount` of the sub queue of priority l |
| `threshold` | `m_starveThresholdPriority` |
| `window`, `equalInterrupt` | the `CMessagePersist` on the screen, `m_equalPriorityInterrupt` |
| `expired` | queued messages for which `IsTTLExpired` |
| `sem`, `consumer` | the binary semaphore and the thread that takes from the queue |
| `scan` | the `CQueueList::Remove` in progress: its level, and `bCycleAgain` |
| `clearing` | `ClearQueueStarvation` between opening the levels and its signal |
| `bypassed` | history |

`CQueueList::Remove` holds the lock, but `SetQueueStarvation` and
`ClearQueueStarvation` do not take it, so the threshold may change between two
levels: one action per level. `CInternalMessageQueueList::Remove` reads only
what the lock guards and is one action (`TakeInternal`, `NothingInternal`),
written as a recursive pass over each level (`ScanItem`). The internal queue skips content
that may not replace what is on the screen (`Frozen`), drops what has expired,
and at its ratio skips a message instead of yielding. There its `bCycleAgain` is
never acted upon: the loop over the sub queues has come to its end by then. A
message is an atom with a level, a flush tag and two times; flushing by type, by
type and id, and everything but one type are one operator with a set of tags.

`StarveTimeOut` ends the two times of what is on the screen in any order and at
any moment. Of the operations around them, `RegisterActivity` and
`ResetQueueStarvation`, which start the times again, and `SetQueueStarvation` with a
`CMessagePersist` have no caller in the program, only in unit tests, and are no
actions; `SetMainStarveTicks` is called before the content is queued.
`FlushLowerPriorityItemsUponAdd` is called once, with `false` (`UIProtocol.cpp:92`),
so `m_bFlushLowerOnAdd` is never set and `Produce` flushes no lower level on its
account. `SetInterruptible`, which changes of the configuration make without the
lock, is an action; a change in the middle of a `Remove` is taken as one before or
after it. `ClearType` and `ClearAll` are left out.

### SasPoll

| Model | Code |
|---|---|
| `pc[r]` | where a thread that needs a poll is: `WaitForResponse`, reading, `ResetResponse`, the destructor |
| `poll[r]` | its `CSASPollMessage`: queued, `m_responseReceived`, `m_hResponseSem`, `m_nReturnValue`, and what the derived class copied |
| `phase[r]` | `EFTACKPHASE1`, `EFTACKPHASE2` |
| `send` | the thread `SendToEGM` and the poll it holds |
| `starve` | the poll queue is closed to less urgent polls |
| `closing` | how far `Shutdown` is |
| `late`, `acked`, `outcome` | history: a wait has timed out; the machine has carried the transfer out; what internals was told |

`Copy`, `Flag` and `Unlock` are three steps because nothing guards the poll
while its answer is stored, marked and signalled. Between the last two a
requester that has timed out may free it (`send.gone`); the signal then reaches
nothing, or the next poll at the same place. The machine answers, refuses, or no
good answer comes back after the retries of `SendToSAS`, whether or not the poll
arrived. A status that was never copied reads as anything (`LooksGood`,
`LooksBad`).

The queue of polls is the plain queue of `MessageQueue`, of which `SasPoll` uses
that every message is given at last. Polls of a requester that reads several
are one after the other; the scheduler's many kinds of poll are one kind.

### EgmAward

| Model | Code |
|---|---|
| `award` | `m_egmAward` of `CEGMAwardManager`, stored in NVRAM at each change |
| `waiting`, `delayed` | `m_waitingForGCF`, not `m_gcfDelayExpired` |
| `age` | time since `m_awardTickCountStart`: young, over 20 s, over 10 min |
| `toSas`, `toInternals` | the two queues of `CEGMAward` copies |
| `sas`, `lockPending` | `m_egmAward` and `m_bLockPending` of the SAS protocol |
| `pc`, `jackpotID` | what the thread of the general polls does, and the local of `ExecuteAFTBonusAward`; the thread that reads messages needs none |
| `lock`, `transfer`, `paid`, `handpay`, `shown`, `bonus` | the machine (external) |
| `told`, `renoticed` | history: what One Link was told of a hit's last offer; a notice of expiry was sent again before its answer |
| `offers`, `restarts` | counted against the bound `MaxEvents` |

Manager: `Accept`, `Decline`, `Request`, `ExpireAward`, `FromGCF`, `SetMeters`,
`JackpotInfo`, `GameStart`, `RetryDelay`; all updates go through `Apply`
(`ProcessEGMAwardFromGCF`) with the table of states `NextState`. An expired award is
sent to the SAS protocol to be cleared at every timed event until the answer is back;
`MaxNotices` bounds how many such copies are under way. SAS: a message
of the manager is one step, because its thread holds `m_egmAwardCritSection` up
to the answer; the thread of the general polls is several (`CheckLock`,
`ResendAwardLockRequest`, `ExecuteTransfer`, `SendBack`, `ReturnAwardIneligible`,
`ProcessGeneralPollGameLocked`, `ProcessAFTBonusGameLocked`,
`ProcessAFTBonusXferComplete`), because it polls with the section released.
`ExecuteAFTBonusAward` releases it too, between reading the id and the amount and
making the transfer with them, so after a repeated lock request these are two steps,
and the copy may be replaced between them; where the caller holds the section around
the call (`AwardAFTBonus` in the other thread, `ProcessAFTBonusGameLocked`) they are
one. `Restart` keeps what is in NVRAM and what the machine does.

Nothing is assumed of the time a message is on its way, nor of how long a poll
takes: an award may expire, be offered again and expire again while a copy of it is
in a queue. A machine has one kind of transfer, and whether it is available follows
the last poll for it (`SASProtocolFunctions.cpp:399-406`) and may change from one
moment to the next: `GetNextTransferType` then answers *none*, and the SAS protocol
refuses what it is sent in any state but the two it only passes back (`Refuse`).
Where the code compares ages, `CheckLock` has both outcomes unless only one is
possible (`SurelyYoung`), since the copy of the SAS protocol has its own time; this
adds behaviours and takes none away. The retry delay runs out only when no answer is
awaited: until then nothing looks at it, and each answer starts it again or ends it.

Assumed of the surroundings: a restart outlasts a transfer in progress; the machine
has one transfer at a time and carries out an id once; a report reaches One Link,
which offers a hit until it was told success or error. Duplicates of a hit in
progress only resend its state and are left out, as are prizes, promotional and
standard progressives, transfers of the personal banker (which share the lock state;
that one is under way shows as *GameBusy*), and a machine that has both kinds of
bonusing and goes over from AFT to legacy in the middle of an award. A hand pay is
recognised by its amount; two hits of equal amount are not told apart by the code,
and have different amounts here.


## 3. Runs

| Run | Shows | Bounds |
|---|---|---|
| `resend_list` | With NVRAM that does what it is told: no torn block, every block accounted for, confirmed means durable, the boot count is exact, refinement of `TransactionStore` | 2 blocks; 4 transactions, two with the same id, two of two pieces, printed tickets among each length; crashes unbounded. 105,302 states |
| `resend_list_write_fails` | *violation*: one failed write, and `AddTransaction` still answers true | as above, `WriteResults = {TRUE, FALSE}` |
| `poller_resend` | Nothing is forgotten, ids stay fresh, printed tickets are counted, an authorisation is never sent from the list; and the inductive invariant these are proved from | all kinds but redeemed tickets, a bad packet, voucher separation, changes to two slot master ids; 2 transactions, list of 2, 2 answers under way, 1 fault, 1 restart. 5.8 million states |
| `poller_resend_live` | After the last fault everything leaves the list, and who waits for an empty list is told | plain, printed ticket and bad packet; 2 transactions, list of 1 (so it is full and also skips storing), 1 fault, 1 request. 383,136 states |
| `ticket_response_twice` | *violation*: a second response to one ticket removes another | printed and redeemed tickets, 2 transactions, 1 fault |
| `slotmast_leaves_unseen` | *violation*: a slot master change leaves last and nobody is told | plain and slot master, 2 transactions, no fault |
| `message_queue` | Both kinds of queue against one consumer: no level starves, no wake-up is lost, a flush reaches everything, everything leaves | 3 levels with ratios 1, 2, 1; 5 messages that come and go without end: a flusher, content it flushes, content and other messages, with and without time to live and starve time. 76,991 states |
| `sas_poll` | A poll in use is not freed, queued again or mistaken for another; all waits end; shutdown completes | two requesters, one making transfers for ever; each exchange answered, refused or lost; each wait may time out at any moment. 25,936 states |
| `sas_poll_ack` | *violation*: a timed-out acknowledgement is reported as a completed transfer | as above |
| `egm_award` | An AFT machine pays a hit once; a legacy machine pays a hit once, pays the award the manager has in hand, and its reports are true, up to a notice of expiry that is repeated before its answer | two hits on machines of both kinds; 2 (AFT) or 5 (legacy) offers and restarts in total; 1 (AFT) or 2 (legacy) notices of expiry under way; the poll that pays may be answered, unsent, timed out, or carried out and its answer lost. 5,880,695 states (with symmetry) |
| `egm_award_paid_twice` | *violation*: a repeated notice of expiry, and a legacy machine pays one hit twice | one hit, a legacy machine, otherwise as above. The trace has 21 states |
| `egm_award_stuck` | *violation*: the manager waits for an answer nobody will send | one hit, one offer. The trace has 13 states |

Deadlock is checked in the runs of `ResendList`, `PollerResend` and
`MessageQueue`: their threads always have a step to take. `SasPoll` ends with
the shutdown, `EgmAward` when One Link has nothing more to offer; their cfgs say
so.

Why these bounds. In `ResendList` an interaction needs a block that is being
filled, one that is given back and one that is reused; two blocks and four
transactions give all three, also for a long transaction over a short one and
the reverse, and the same id twice. In `PollerResend` two transactions are
needed for anything to overtake, replace or be mistaken for anything else; one
fault and one restart, at any moment, with answers under way, are what the
hazards are about. A transaction can be sent twice without a second fault (queue
and list). Redeemed tickets are left out of the large run because there they
differ from printed ones by fewer steps only. In `MessageQueue` three levels are
the least at which a level is passed over because of two others, and ratios 1
and 2 the least that differ; the producers are not bounded. In `SasPoll` a
second requester is enough to hold up the sender for as long as one likes, and
nothing is counted. In `EgmAward` two hits are the least at which an award can
be mistaken for another.

On AFT machines `egm_award` has two offers and restarts, because each more multiplies
the states, and leaves out lock requests that get no answer (`"failed"` in
`LockAnswers`), which `egm_award_stuck` has. The theorem `AftPaysOnce`
holds for any number of events and all answers.

**What is not claimed of awards, because it is not so.** The properties of `EgmAward`
state their conditions, and none of them is a bound of the run:

* *A repeated notice of expiry* (`Orderly` excludes it, `renoticed` records it). The
  notice is sent at each timed event until its answer is back, and
  `m_waitingForGCF` is not set. The first answer ends the offer as ineligible; the hit
  is offered again; the second notice ends that offer while a copy of it is on the
  way. The third offer then has two copies under way, the answer to one frees the
  wait for the other, and both reach the machine as polls that pay. A legacy poll
  bears no id. This is `egm_award_paid_twice`.
* *An award given up as an error while pending* (`NoneGivenUp` excludes it). The
  machine may have been paid later, when the next award has read its meters or has
  a hand pay of its own to wait for; `SuccessWasPaid` is not claimed from then on.
* *Reports about AFT machines.* An award whose paying poll was not answered is
  reported ineligible though it may have been paid; an award sent again after a
  restart may be refused though a hand pay or a completed transfer of the first
  attempt is still to come, and the next award takes the meters of the first; with a
  lock request that gets no answer `m_bLockPending` stays set, a second copy goes
  out, and a payment for an earlier award becomes possible. So
  `SuccessWasPaid`, `LegacyIneligibleIsUnpaid` and `PaysCurrentAward` speak of legacy
  machines. The comment at `EGMAwardManager.cpp:977` knows of the unknown state. What
  is claimed of AFT machines, whatever goes wrong, is that no hit is paid twice.

### Properties

* `UsedBlocksWhole`, `BlockAccounting`, `ConfirmedIsDurable`,
  `TicketOutCountAtBoot`, `StoreSpec` - of `ResendList`.
* `NothingForgotten` - a stored transaction that is in the list no more was
  received by the host, or its packet failed to encode in the first try and
  `MaxBadResend` retries. Tickets are exempt here: see the findings. A change of the
  slot master id is removed by the id it is to, so a late or repeated response to one
  change may remove another to the same id that the host never got; what holds, and
  is claimed, is that the host then has *a* change to that id.
* `UniqueIdIsFresh` - no id in use, in the list, in the queue, in a set of marks
  or in an answer under way, is above `uniqueId`; the next one is new.
* `PrintedTicketsCounted` - between two messages of the queue thread, the count
  of printed tickets is not below what is listed. (It may be above: a ticket
  given up as bad is not counted down, and a restart corrects that.)
* `NotToResendIsNotResent` - up to a restart a vend authorisation leaves the
  Sentinel through the queue only. The set of marks is not persistent, hence
  *up to a restart*.
* `AnswerOnItsWay`, `RequestIsAnswered`, `EverythingLeaves` - of the waiting
  internals and of the list.
* `RatioIsKept` - an open level of a plain queue that has messages is passed over
  at most `BypassBound` times: what the ratios of the levels above multiply to,
  twice, since `Remove` may come by in the middle of a round.
* `NoWorkWhileAsleep` - the thread of a plain queue does not sleep on an unsignalled
  semaphore while an open level has a message, although messages are added between
  its last look and its sleep and the threshold moves without the lock.
* `AtMostOneSkipped` - what the internal queue does at its ratio instead of
  yielding: one message of a level, and one more per expired message dropped, is
  passed over, never two.
* `FlushReachesAll` - a flush takes exactly what it covers, also from a level at
  its ratio. `QueueDrains` - all leave, unless producers never stop or the lower
  levels are closed again for ever.
* `SendsOnlyLive`, `AnswerInTime` - a poll that is being sent exists and is neither
  marked nor queued; a requester whose waits were answered in time reads the answer
  to this phase of this poll.
* `ReportedInTime`, `StarvationIsLifted` - of transfers of credits. `WaitsEnd`,
  `ShutdownCompletes` - every wait, reset and destructor comes to an end; the
  shutdown drops no poll that is waited for.
* `PaidOnceUnlessRenoticed` - no hit is paid twice over all its offers, repeated
  requests, locks, lost answers and restarts: on an AFT machine without condition, on
  a legacy machine up to a repeated notice. `PaidOnce`, the same without the
  condition, is violated.
* `SuccessWasPaid`, `LegacyIneligibleIsUnpaid`, `PaysCurrentAward` - of legacy
  machines, under the same condition: success was paid, ineligible was not, and no
  copy of an award is carried out when the manager has another in hand.

### Fairness

`FairSpec` assumes weak fairness of: the queue thread going on with a message
it has begun and receiving the internals' answers to ticket responses; the send
thread; the read thread; the host reporting PMT up while connected; time. The
three threads are endless loops with bounded waits, which the watchdog guards;
the internals answer each ticket response they take over; ticks count up. That
the host reports PMT up again is an assumption about the host, not the
Sentinel: without it nothing but tickets may ever be sent. Nothing makes the
internals hand over transactions or ask for a notification, and faults are
bounded (`MaxFaults`): the liveness properties speak of a network that stays up
from some moment on.

`MessageQueue`: the consumer wakes at the latest when its wait runs out and goes
on with `Remove`; starve times run out; the thread that lifts the starvation
goes on to signal. `SasPoll`: requesters, the sender and the shutdown go on; a
poll that is again and again in a queue that may give it is taken at last
(strong fairness of `Take`, which is what `QueueDrains` says of the queue).
`EgmAward`: the three threads go on, One Link is connected (there are no timed
events without it), the machine completes and reports transfers it has begun,
and time passes. No attendant, lock, meter change or further offer is
promised.

## 4. Findings

Six disagreements between the code and what its comments, or the meaning of a
return value, say. Each has its run and is quoted with its lines in
`PROJECT.json`.

1. `AddTransaction` ignores the result of each NVRAM write and answers true.
2. `IsVALNumNULL` is true of nearly every ticket (the result of `memcmp` is not
   compared with 0), so a second response to a ticket removes another one.
3. `ProcessChangeSlotMastRespFromPoller` removes its entry by a way of its own
   and does not look at `m_notifyResendEmpty`.
4. A wait for the acknowledgement of an EFT transfer that times out leaves return
   value and status of the first phase, which `PerformEFT` reports as complete.
5. When the query of the lock fails, `ProcessAFTBonusGameLocked` sends nothing
   back, and the award manager waits for ever.
6. The notice of an expired award is repeated before its answer without
   `m_waitingForGCF`, two requests come to be outstanding, which
   `EGMAwardManagerState.h:28` says is not allowed, and a legacy machine pays twice.

Read in the code and not checked by a run: the pass over the list that a reconnect
makes *so that transactions do not get out of order* (`PollerProtocol.cpp:3931`)
comes right after `ConnectToPoller` has cleared the PMT flag, and skips what needs PMT.

## 5. Proofs

`ResendListProofs` proves, for every value of the constants that
`ResendListAssumption` allows and under the one assumption that NVRAM writes
succeed (`WriteResults = {TRUE}`; finding 1 shows that the claims are false
without it):

| Theorem | Statement |
|---|---|
| `Invariance` | `Spec => []IInv` |
| `TypeCorrect` | `Spec => []TypeOK` |
| `NoTornTransaction` | `Spec => []UsedBlocksWhole` |
| `NoBlockLost` | `Spec => []BlockAccounting` |
| `StoredIsStored` | `Spec => []ConfirmedIsDurable` |
| `BootCountIsExact` | `Spec => TicketOutCountAtBoot` |
| `ImplementsStore` | `Spec => StoreSpec` |

The inductive invariant `IInv` is the four state properties and three
strengthenings:

* `AddProgress` - how much of the block the call in progress has written. Without
  it the step that sets the used mark could not be shown to leave a whole block.
* `OneBlockPerId` - no two used blocks have the same id. Without it a restart,
  which builds a map by id, could drop an entry, whose block would be neither
  listed nor free.
* `NotYetUp` - before the list is in use it is empty, and the scan of invalid
  NVRAM has freed exactly the blocks before `scan`.

`AddProgress` also keeps, for the moment between the test of the size and the
lock, that the list is smaller than the NVRAM. With `BlockAccounting` that
gives `RoomMeansFreeBlock`: there is a free block when `AddTakeBlock` looks for
one, although the test was made without the lock - because others only remove.
This lemma is where cardinalities come in (an injection from the list into the
blocks); everything else is first-order. It excludes the path on which
`AddTransaction` answers true with nothing stored, and `StoredIsStored` rests on
it.

`ImplementsStore` shows that the only steps that change `Held` are
`AddCommitBlock` (`Accept`), `RemoveTransaction` (`Release`) and `ClearBlock`
(`Wipe`), each for one transaction.

`PollerResendProofs` proves, for any offers, capacity, limit of retries and
bounds, that `IInv` of `PollerResend` is an invariant of its three threads, the
network and restarts (`Invariance`), and from it

| Theorem | Statement |
|---|---|
| `TypeCorrect` | `Spec => []TypeOK` |
| `IdsStayFresh` | `Spec => []UniqueIdIsFresh` |
| `NothingIsForgotten` | `Spec => []NothingForgotten` |
| `TicketsCounted` | `Spec => []PrintedTicketsCounted` |
| `AuthorizationsNotResent` | `Spec => NotToResendIsNotResent` |

What `IInv` adds, and what it is needed for:

* `OwnEntries` - an entry has the id of its transaction, and a transaction under
  way finds no other entry under its id. Ids are given again after a restart, so
  this rests on `UniqueIdIsFresh`; `NothingForgotten` rests on it, since an answer
  removes what it finds under the id. (The response to a change of the slot master id
  removes the first change to the id it bears; that the answered change was received
  settles every change to that id, `Reached`.)
* `HeldItem` - the same of the item the send thread holds while the others remove
  entries; when its entry is gone so is its count of failures. Without it the
  removal of a bad transaction could not be shown to be of that transaction.
* `AnswersTrue`, `ListedMarks` - answers are about what was received, counts are
  below the number of tries, and marks are of authorizations.
* `Authorizations` - up to a restart the mark leaves with the entry.
* `CountCovers` - an entry and its count change in different steps, often with
  steps of other threads between them: the count, with what every thread has still
  to count, is not less than what is listed. `ToDo` says what a thread can still
  have to do. The cardinality of the listed tickets comes in here, and that no
  two transactions share an entry, for the count made after a restart.

The proof has a lemma per part of the invariant, and in it a case per action; the
actions that leave a part alone are one case. It takes the unique id unbounded,
and the list as `TransactionStore` promises it, which is what `ImplementsStore`
proves of `ResendList`. TLC checks `IInv` as an invariant of `poller_resend`.

`PollerAnswerProofs` goes on from there and proves `AnswerComes`: with at most one
request (`MaxRequests <= 1`) and no change of the slot master id on offer,
`Spec => []AnswerOnItsWay`. Both conditions are needed: without the second it is
finding 3, and a second request may be set aside by the reset of the first (see the
hazards). The invariant, `AnswerInv`, says that the flag stays set while the
internals wait, that no thread is about to take it back, and that with an empty list
some thread's *first* step will look at it; what a thread has left besides, from
`ToDo` of `IInv`, never ends without that look.

`SasPollProofs` proves, for any set of requesting threads, that `IInv` of
`SasPoll` is an invariant (`Invariance`), and from it `TypeCorrect`,
`SendingIsSafe` (`SendsOnlyLive`), `AnswersMatch` (`AnswerInTime`),
`ReportsAreTrue` (`ReportedInTime`) and `QueueReopens` (`StarvationIsLifted`).
The strengthening says what each side knows of the other without a lock:
`Sending` - the further the sender is, the more is settled about its poll, and
up to the flag its requester is in its first wait or late; `Waiting` - a queued
poll is unprocessed, and one signalled in time is processed; `Carried` - a good
status of the second phase means that the machine has acted. TLC checks `IInv` as
an invariant of `sas_poll`.

`MessageQueueProofs` and `MessageQueueRatioProofs` prove, for any number of levels,
messages and ratios:

| Theorem | Statement |
|---|---|
| `TypeCorrectness` | `Spec => []TypeOK` |
| `FlushesReachAll` | `Spec => FlushReachesAll` |
| `SkipsAtMostOne` | `Spec => AtMostOneSkipped` |
| `NeverSleepsOnWork` | `Spec => []NoWorkWhileAsleep` |
| `RatiosAreKept` | `Spec => []RatioIsKept` |

A pass of the code over one level is a recursive function of the place reached, so
these theorems need what it computes for a level of any length. That is an induction
over numbers, and the prover cannot instantiate an induction theorem. It is avoided
by the minimum principle: the set of places at which a claim fails has a least member
(`LeastNumber`, from `NatLessThanWellFounded`), and the step leads to one below it.
`Induction` and `Recursion` state this for sets and for functions, `Iterates` says
that a function is such a pass, and from there on `FlushRuns` and `ScanRuns` give
each pass as a function with a base and a step. What follows is three arguments.

* *Flush* (`FlushIsWithout`): whatever the count of a level is when the pass begins
  and wherever it starts over, the pass keeps what the tags do not cover, in its
  order. `Without`, in which the property is stated, knows no counts.
* *Skipping* (`ScanKeeps`): the pass of the internal queue takes one message or none,
  keeps all others, and the messages it looked at and left open to be taken before
  were skipped because the level was at its ratio. That happens once, since the skip
  resets the count (`Counting`); messages dropped because they expired raise it again,
  which is why the bound is one, and one per dropped message. `TypeInv` carries what
  this needs of the levels: each message is in the level of its priority, once, and no
  count is above its ratio.
* *Ratios* (`RatioInv`): how often level l may be passed over is bounded by what the
  levels above may give before l has its turn (`LeftOf`: the uses each has left,
  times what one of its uses is worth, `Turns`), counted from the level at which the
  `Remove` under way looks. When level k gives a message this shrinks by
  `Turns[k]`, while the next `Remove` counts from the top again, which adds less
  than `Turns[k]` (`GivenBelow`). When level k is at its ratio it starts over, but
  behind the `Remove`, which goes on below it; that is why the count from the level
  looked at is inductive and a count from the top is not. A level that is at its
  ratio itself yields once more, hence twice the product (`Budget`).

`SleepInv` of `NeverSleepsOnWork` adds that without a pending signal every open level
the scan has passed is empty, or the scan will begin again (`PassedAreEmpty`), and
the types of the few variables that matter (`PlainTypes`): a level that yields at its
ratio is the one case in which a non-empty level is left behind, and that sets
`again`.

`EgmAwardProofs` proves, for any set of hits and any bounds, that `IInv` of
`EgmAward` is an invariant (`Invariance`), and from it `TypeCorrect` and
`AftPaysOnce`, `Spec => [](bonusing = "aft" => PaidOnce)`. Copies of an award are
not taken back, so an old one may be carried out when the award has long been
offered again. What rules out the second payment is the id that a transfer bears:
the machine, which is external, carries out an id once, and this is assumed
(`Known`). The rest is the program's: `OwnBonusing` says that an award, and
every copy of it on the way to the SAS protocol, has the kind of transfer of the
machine or none yet, so that an AFT machine is never made to pay by a legacy poll,
which bears no id; `CarriedOutOnce` adds that the transfer a machine has under way
was not paid by an earlier poll. The proof covers every answer, failed lock requests
included, which the run leaves out, and a transfer made in the second section of
`ExecuteAFTBonusAward` for a copy that has been replaced. It has one lemma
per action; `Preserved` says what a step must show of each part.

`EgmLegacyProofs` goes on with machines that are paid by a legacy poll, which bears no
id. Nothing is assumed of the bounds; that a notice of expiry was not repeated is a
condition in the properties (`Orderly`), over the history variable `renoticed`:

| Theorem | Statement |
|---|---|
| `LegacyInvariance` | `Spec => []LegacyInv` |
| `EachPaysOnce` | `Spec => []PaidOnceUnlessRenoticed`, for both kinds of machine |
| `LegacySuccessWasPaid` | `Spec => []SuccessWasPaid` |
| `IneligibleIsUnpaid` | `Spec => []LegacyIneligibleIsUnpaid` |
| `LegacyPaysCurrentAward` | `Spec => PaysCurrentAward` |

Nothing but the order of messages keeps such a machine from paying twice, so the
invariant, `LegacyInv`, is about the copies of awards in the two queues. Four parts
hold while `Orderly` does:

* `Lockless` - a legacy machine is never locked, and no copy says that a payment has
  ended; so only meters, games, an attendant or time end an award that was sent.
* `ToldOfLast` - what One Link was told of a hit is about its last offer. Without it
  a new offer could not be shown to follow an award that was not paid.
* `CopiesOfLast` - of an award that may still be sent, one copy is under way, and the
  manager waits for it unless it is the notice of expiry; a hit that may be offered
  again has none. This is what a second notice breaks, and what a restart, which
  empties the queues, restores.
* `PaidAndTold` - a hit is paid at most once; a paid hit that may be offered again is
  the manager's award, pending, or about to be with the answer under way
  (`MayBePaid`); ineligible was not.

and three more as long as no award was given up as an error (`NoneGivenUp`):

* `SuccessTold` - success was paid.
* `HandpayOfAward` - a hand pay belongs to the award, and is shown to the manager only
  when the award waits for it. Without it a hand pay could be counted for another.
* `MetersOfAward` - the meters have grown since they were read exactly by what the
  machine paid itself of this award, so that growth means payment.

The proof has a lemma per action; `OrderlyBefore` says that a step leads to an orderly
state only from one, so that every lemma may assume it; `LegacyPreserved` says what a
step must show, `SentCopies`, `AnsweredCopies` and `TakenCopies` what a queue operation
does to the copies, `PayingPoll` that the poll that pays carries the only copy of an
unpaid award. TLC checked `LegacyInv` and `RatioInv` within the bounds of `egm_award` and
`message_queue` before they were proved.

Model-checked only: the violations, and liveness and `ENABLED`, which are out of the
prover's reach.

## 6. Plan

1. **AFT machines in `EgmAward`**: which condition on refusals and lost answers makes
   the reports about them true, as `Orderly` does for legacy machines.
2. **One pending answer per request**: `PollerAnswerProofs` for several requests, with
   the condition on their timing that the reset of the flag needs.
3. **The banker's own transfer** (`PersonalBanker`, AFT): where the money is at each
   restart, with `SasPoll` as its transport, and the lock it shares with awards.
4. **The order of what the host receives** after a reconnect.

### Not modelled

* *Watchdog, restart manager*: their decisions are about real time and a hardware
  timer. What they are for, that threads go on, is the fairness of the modules.
* *NVRAM*: what one write does is taken from the comment in `NVRAMinator.cpp:53`
  (up to 256 bytes are power-fail safe) and from its result; a call that is
  not aligned to words may take two hardware writes, which `ResendList` tolerates:
  the mark that makes a block valid is written last, with the length, and those
  two words go out in one hardware write. The upgrade of its
  layout is a sequence of conversions.
* *Progressive connection, tickets, players, jackpots, mobile connect*: protocols
  of their own that the properties above do not depend on.
* *Configuration, screens, content delivery, logging, device access*: data
  conversions and I/O.
