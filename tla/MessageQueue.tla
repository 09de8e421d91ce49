---------------------------- MODULE MessageQueue ----------------------------
(***************************************************************************)
(* The queues between the protocol threads: CQueueList ("plain") and       *)
(* CInternalMessageQueueList ("internal", the queue to the user interface).*)
(* A queue has one sub queue per priority level, each with a ratio: after  *)
(* so many messages it yields once to the levels below.  One thread takes  *)
(* messages; it sleeps on a binary semaphore with a time limit and then    *)
(* calls Remove until that returns nothing.                                *)
(*                                                                         *)
(* A plain queue can be closed below a priority level by a thread that     *)
(* does not take the lock, so its Remove is one action per level.  The     *)
(* Remove of the internal queue is one action: what it reads is guarded by *)
(* the lock.  It may leave a message for later (content whose place on the *)
(* screen is frozen) and drops the messages whose time to live has passed. *)
(*                                                                         *)
(* Three operations of the queues have no caller in the program, only in   *)
(* unit tests, and are no actions: RegisterActivity and                    *)
(* ResetQueueStarvation (which start the times of what is on the screen    *)
(* again), and SetQueueStarvation with a CMessagePersist.                  *)
(* FlushLowerPriorityItemsUponAdd is only called with false, when a queue  *)
(* is set up (UIProtocol.cpp), so that m_bFlushLowerOnAdd is never set.    *)
(***************************************************************************)
EXTENDS Integers, Sequences, FiniteSets, SequencesExt

CONSTANTS
    NumLevels,     \* the priority levels 1 (highest) .. NumLevels
    Ratio,         \* messages a level gives before it yields
    Msg,           \* the messages that may be queued
    LevelOf,       \* the priority a message is queued with
    TagOf,         \* flush type and id of a content message, NoTag, NotContent
    NoTag, NotContent,
    PBTag,         \* PBFlushType
    Flusher,       \* the messages that flush others when they are added
    Expiring,      \* the messages with a time to live
    ScreenOf,      \* persist priority of a content message
    Starving,      \* the content messages with a starve time (queueStarve # 0)
    InteractiveLevel, \* the priority of interactive content
    Open,          \* threshold that closes no level (NO_QUEUE_STARVATION)
    Closed         \* the threshold the SAS protocol sets (..._HIGHEST)

Level == 1..NumLevels

ASSUME MessageQueueAssumption ==
    /\ NumLevels \in Nat \ {0}
    /\ Ratio \in [Level -> Nat \ {0}]
    /\ LevelOf \in [Msg -> Level]
    /\ ScreenOf \in [Msg -> Level]
    /\ InteractiveLevel \in Level
    /\ Flusher \subseteq Msg /\ Expiring \subseteq Msg /\ Starving \subseteq Msg
    /\ \A m \in Flusher : TagOf[m] # NotContent
    /\ Closed \in Level
    /\ Open \notin Level

VARIABLES
    kind,          \* the class of the queue: "plain" or "internal"
    items,         \* the sub queues (m_queueList)
    usage,         \* m_usageCount of each
    threshold,     \* m_starveThresholdPriority
    clearing,      \* ClearQueueStarvation has yet to signal
    window,        \* m_messagePersist[PERSIST_CONTENT_WINDOW]
    equalInterrupt,\* m_equalPriorityInterrupt
    expired,       \* the queued messages whose time to live has passed
    sem,           \* the binary semaphore
    consumer,      \* the thread that takes messages
    scan,          \* the Remove of a plain queue in progress
    bypassed       \* takes above a level since it was served, empty or closed

vars == <<kind, items, usage, threshold, clearing, window, equalInterrupt,
          expired, sem, consumer, scan, bypassed>>

settings == <<kind, equalInterrupt>>
starvation == <<threshold, clearing, window>>

-----------------------------------------------------------------------------
NoScan == [at |-> 0, again |-> FALSE]
NoWindow == [main |-> FALSE, inter |-> FALSE, pri |-> 1]

\* A plain Remove holds the lock from the first level to its return.
Locked == scan.at # 0

Queued == UNION {ToSet(items[l]) : l \in Level}

IsOpen(l) == threshold = Open \/ l <= threshold

IsContent(m) == TagOf[m] # NotContent

\* Content of level l may not replace what is on the screen yet.
Frozen(l) ==
    \/ window.inter /\ l >= InteractiveLevel
    \/ window.main /\ (IF equalInterrupt THEN l > window.pri ELSE l >= window.pri)

\* Remove may hand out message m of level l now.
Eligible(l, m) ==
    /\ m \notin expired
    /\ IF IsContent(m) THEN ~Frozen(l) ELSE IsOpen(l)

\* How often higher levels may be served while level l waits.
Turns[l \in Level] ==
    IF l = 1 THEN 1 ELSE Turns[l - 1] * (Ratio[l - 1] + 1)

BypassBound(l) == 2 * (Turns[l] - 1)

-----------------------------------------------------------------------------
Init ==
    /\ kind \in {"plain", "internal"}
    /\ equalInterrupt \in (IF kind = "plain" THEN {FALSE} ELSE BOOLEAN)
    /\ items = [l \in Level |-> <<>>]
    /\ usage = [l \in Level |-> 0]
    /\ threshold = Open
    /\ clearing = FALSE
    /\ window = NoWindow
    /\ expired = {}
    /\ sem = 0
    /\ consumer = "waiting"
    /\ scan = NoScan
    /\ bypassed = [l \in Level |-> 0]

-----------------------------------------------------------------------------
(* Adding *)

\* Mutant of FlushItem: skips a message at the ratio, as Remove does.
FlushItemSkips(tags, r, acc, m) ==
    IF TagOf[m] \in tags /\ acc.usage < r
    THEN [acc EXCEPT !.usage = @ + 1]
    ELSE [kept |-> Append(acc.kept, m),
          usage |-> IF acc.usage >= r THEN 0 ELSE acc.usage]

\* A flush starts a level that is at its ratio over, and counts every message
\* it flushes as one given.
FlushItem(tags, r, acc, m) ==
    LET used == IF acc.usage >= r THEN 0 ELSE acc.usage
    IN  IF TagOf[m] \in tags
        THEN [acc EXCEPT !.usage = used + 1]
        ELSE [kept |-> Append(acc.kept, m), usage |-> used]

\* What a flush of the messages with one of the tags leaves of level l.
FlushLevel(l, tags) ==
    LET upTo[i \in 0..Len(items[l])] ==
            IF i = 0
            THEN [kept |-> <<>>, usage |-> IF items[l] = <<>> THEN 0 ELSE usage[l]]
            ELSE FlushItem(tags, Ratio[l], upTo[i - 1], items[l][i])
    IN  upTo[Len(items[l])]

ContentTags == {TagOf[m] : m \in Msg} \ {NotContent}

\* The content a message flushes when it is added: all, or all with its tag.
TagsFlushedBy(m) ==
    CASE kind = "plain" \/ m \notin Flusher -> {}
      [] kind = "internal" /\ m \in Flusher ->
             IF TagOf[m] = NoTag THEN ContentTags ELSE {TagOf[m]}

Flushed(tags) ==
    [l \in Level |-> IF tags = {} THEN [kept |-> items[l], usage |-> usage[l]]
                     ELSE FlushLevel(l, tags)]

\* The queue is what is left of it, and the messages "new" at level l.
Refill(left, l, new) ==
    /\ items' = [k \in Level |-> IF k = l THEN left[k].kept \o new ELSE left[k].kept]
    /\ usage' = [k \in Level |-> left[k].usage]
    /\ expired' = expired \cap UNION {ToSet(left[k].kept) : k \in Level}

\* A producer queues m and signals the consumer.
Produce(m) ==
    /\ ~Locked
    /\ m \notin Queued
    /\ Refill(Flushed(TagsFlushedBy(m)), LevelOf[m], <<m>>)
    /\ sem' = 1
    /\ UNCHANGED <<settings, starvation, consumer, scan, bypassed>>

\* A new player: internals flushes all content but that of the personal banker.
FlushAllPersistedButPB ==
    /\ kind = "internal"
    /\ Refill(Flushed(ContentTags \ {PBTag}), 1, <<>>)
    /\ UNCHANGED <<settings, starvation, sem, consumer, scan, bypassed>>

-----------------------------------------------------------------------------
(* Starvation: closing the lower levels, freezing the content window *)

SetQueueStarvation ==
    /\ kind = "plain"
    /\ threshold' = Closed
    /\ bypassed' = [l \in Level |-> IF l > Closed THEN 0 ELSE bypassed[l]]
    /\ UNCHANGED <<settings, clearing, window, items, usage, expired, sem,
                   consumer, scan>>

\* ClearQueueStarvation opens the levels and then signals, without the lock.
ClearQueueStarvation ==
    /\ kind = "plain"
    /\ threshold' = Open
    /\ clearing' = TRUE
    /\ UNCHANGED <<settings, window, items, usage, expired, sem, consumer, scan,
                   bypassed>>

\* Mutant of SignalCleared: "just in case there are items stuck" left out.
SignalClearedNot ==
    /\ clearing
    /\ clearing' = FALSE
    /\ UNCHANGED <<settings, threshold, window, items, usage, expired, sem,
                   consumer, scan, bypassed>>

SignalCleared ==
    /\ clearing
    /\ clearing' = FALSE
    /\ sem' = 1
    /\ UNCHANGED <<settings, threshold, window, items, usage, expired, consumer,
                   scan, bypassed>>

\* The interface or internals gives up what is on the screen.
ClearContentWindow ==
    /\ window # NoWindow
    /\ window' = NoWindow
    /\ UNCHANGED <<settings, threshold, clearing, items, usage, expired, sem,
                   consumer, scan, bypassed>>

\* The interactive or the main starve time of what is on the screen runs out.  It may
\* do so at any moment, since the times are any (SetMainStarveTicks, before the content
\* is queued) and nothing starts them again while the content is shown.
StarveTimeOut ==
    /\ \/ window.inter /\ window' = [window EXCEPT !.inter = FALSE]
       \/ window.main /\ window' = [window EXCEPT !.main = FALSE]
    /\ UNCHANGED <<settings, threshold, clearing, items, usage, expired, sem,
                   consumer, scan, bypassed>>

\* A new configuration says whether content may replace other of the same priority.
SetInterruptible ==
    /\ kind = "internal"
    /\ equalInterrupt' = ~equalInterrupt
    /\ UNCHANGED <<kind, starvation, items, usage, expired, sem, consumer, scan,
                   bypassed>>

Expire(m) ==
    /\ kind = "internal"
    /\ m \in (Expiring \cap Queued) \ expired
    /\ expired' = expired \cup {m}
    /\ UNCHANGED <<settings, starvation, items, usage, sem, consumer, scan,
                   bypassed>>

-----------------------------------------------------------------------------
(* The consumer *)

\* The wait ends with the signal or with its time limit.
Wake ==
    /\ consumer = "waiting"
    /\ consumer' = "removing"
    /\ sem' = 0
    /\ UNCHANGED <<settings, starvation, items, usage, expired, scan, bypassed>>

\* Remove of a plain queue takes the lock and starts at the highest level.
StartRemove ==
    /\ kind = "plain"
    /\ consumer = "removing"
    /\ ~Locked
    /\ scan' = [at |-> 1, again |-> FALSE]
    /\ UNCHANGED <<settings, starvation, items, usage, expired, sem, consumer,
                   bypassed>>

\* How often other levels went before level l, once level t is served.
BypassedBy(t) ==
    [l \in Level |->
        IF l = t \/ items[l] = <<>> \/ ~IsOpen(l) THEN 0
        ELSE IF l > t /\ bypassed[l] <= BypassBound(l) THEN bypassed[l] + 1
        ELSE bypassed[l]]

\* Mutant of TakeFromLevel: one message more than the ratio.
TakeOneMore ==
    LET l == scan.at IN
    /\ Locked
    /\ IsOpen(l)
    /\ items[l] # <<>>
    /\ usage[l] <= Ratio[l]
    /\ items' = [items EXCEPT ![l] = Tail(@)]
    /\ usage' = [usage EXCEPT ![l] = @ + 1]
    /\ bypassed' = BypassedBy(l)
    /\ scan' = NoScan
    /\ UNCHANGED <<settings, starvation, expired, sem, consumer>>

\* Mutant of TakeFromLevel: the message is not counted.
TakeUncounted ==
    LET l == scan.at IN
    /\ Locked
    /\ IsOpen(l)
    /\ items[l] # <<>>
    /\ usage[l] < Ratio[l]
    /\ items' = [items EXCEPT ![l] = Tail(@)]
    /\ bypassed' = BypassedBy(l)
    /\ scan' = NoScan
    /\ UNCHANGED <<settings, starvation, usage, expired, sem, consumer>>

\* The level Remove looks at is open and gives its first message.
TakeFromLevel ==
    LET l == scan.at IN
    /\ Locked
    /\ IsOpen(l)
    /\ items[l] # <<>>
    /\ usage[l] < Ratio[l]
    /\ items' = [items EXCEPT ![l] = Tail(@)]
    /\ usage' = [usage EXCEPT ![l] = @ + 1]
    /\ bypassed' = BypassedBy(l)
    /\ scan' = NoScan
    /\ UNCHANGED <<settings, starvation, expired, sem, consumer>>

\* After a level that gives nothing come the lower ones, then once more all if
\* an open level yielded; then Remove returns nothing and the thread sleeps.
AfterLevel(again) ==
    \/ /\ scan.at < NumLevels
       /\ scan' = [at |-> scan.at + 1, again |-> again]
       /\ UNCHANGED consumer
    \/ /\ scan.at = NumLevels /\ again
       /\ scan' = [at |-> 1, again |-> FALSE]
       /\ UNCHANGED consumer
    \/ /\ scan.at = NumLevels /\ ~again
       /\ scan' = NoScan
       /\ consumer' = "waiting"

\* The level is at its ratio or empty: it starts over and yields.
PassLevel ==
    LET l == scan.at IN
    /\ Locked
    /\ IsOpen(l)
    /\ items[l] = <<>> \/ usage[l] >= Ratio[l]
    /\ usage' = [usage EXCEPT ![l] = 0]
    /\ AfterLevel(scan.again \/ items[l] # <<>>)
    /\ UNCHANGED <<settings, starvation, items, expired, sem, bypassed>>

PassClosedLevel ==
    /\ Locked
    /\ ~IsOpen(scan.at)
    /\ AfterLevel(scan.again)
    /\ UNCHANGED <<settings, starvation, items, usage, expired, sem, bypassed>>

\* Mutant of ScanItem: the level at its ratio does not start over.
ScanItemStuck(l, acc, m) ==
    LET keep == [acc EXCEPT !.kept = Append(@, m)] IN
    IF acc.taken # {} \/ acc.usage >= Ratio[l] THEN keep
    ELSE IF m \in expired THEN [acc EXCEPT !.usage = @ + 1]
    ELSE IF Eligible(l, m) THEN [acc EXCEPT !.usage = @ + 1, !.taken = {m}]
    ELSE keep

\* One message as the Remove of the internal queue sees it.  At its ratio the
\* level skips the message and starts over, but does not yield.
ScanItem(l, acc, m) ==
    LET leave(used) == [kept |-> Append(acc.kept, m), taken |-> acc.taken, usage |-> used]
        remove(taken) == [kept |-> acc.kept, taken |-> taken, usage |-> acc.usage + 1]
    IN  CASE acc.taken # {} -> leave(acc.usage)
          [] acc.taken = {} /\ acc.usage >= Ratio[l] -> leave(0)
          [] acc.taken = {} /\ acc.usage < Ratio[l] ->
                 IF m \in expired THEN remove({})
                 ELSE IF Eligible(l, m) THEN remove({m})
                 ELSE leave(acc.usage)

ScanLevel(l) ==
    LET upTo[i \in 0..Len(items[l])] ==
            IF i = 0
            THEN [kept |-> <<>>, taken |-> {},
                  usage |-> IF items[l] = <<>> THEN 0 ELSE usage[l]]
            ELSE ScanItem(l, upTo[i - 1], items[l][i])
    IN  upTo[Len(items[l])]

\* The levels that would give a message.
Givers(scanned) == {l \in Level : scanned[l].taken # {}}

\* What the screen shows from now on is frozen for the message's starve times.
WindowOf(m) ==
    IF m \in Starving THEN [main |-> TRUE, inter |-> TRUE, pri |-> ScreenOf[m]]
    ELSE NoWindow

\* Remove hands out a message of the first level that gives one; the levels
\* below are not looked at.
TakeInternal ==
    LET scanned == [l \in Level |-> ScanLevel(l)]
        t == Min(Givers(scanned))
    IN  /\ kind = "internal"
        /\ consumer = "removing"
        /\ Givers(scanned) # {}
        /\ Refill([l \in Level |->
                      IF l <= t THEN scanned[l]
                      ELSE [kept |-> items[l], usage |-> usage[l]]], t, <<>>)
        /\ \E m \in scanned[t].taken :
               window' = IF IsContent(m) THEN WindowOf(m) ELSE window
        /\ UNCHANGED <<settings, threshold, clearing, sem, consumer, scan,
                       bypassed>>

\* Remove finds nothing to hand out: the thread sleeps.
NothingInternal ==
    LET scanned == [l \in Level |-> ScanLevel(l)]
    IN  /\ kind = "internal"
        /\ consumer = "removing"
        /\ Givers(scanned) = {}
        /\ Refill(scanned, 1, <<>>)
        /\ consumer' = "waiting"
        /\ UNCHANGED <<settings, starvation, sem, scan, bypassed>>

-----------------------------------------------------------------------------
RemoveStep ==
    \/ StartRemove
    \/ TakeFromLevel
    \/ PassLevel
    \/ PassClosedLevel
    \/ TakeInternal
    \/ NothingInternal

Next ==
    \/ \E m \in Msg : Produce(m)
    \/ FlushAllPersistedButPB
    \/ SetQueueStarvation
    \/ ClearQueueStarvation
    \/ SignalCleared
    \/ ClearContentWindow
    \/ StarveTimeOut
    \/ SetInterruptible
    \/ \E m \in Msg : Expire(m)
    \/ Wake
    \/ RemoveStep

\* The thread waits with a time limit and never blocks elsewhere; time passes;
\* a thread that has opened the levels goes on to signal.
Fairness ==
    /\ WF_vars(Wake)
    /\ WF_vars(RemoveStep)
    /\ WF_vars(StarveTimeOut)
    /\ WF_vars(SignalCleared)

Spec == Init /\ [][Next]_vars /\ Fairness

-----------------------------------------------------------------------------
(* Properties *)

\* Type correctness; a message is queued once, at its own level, and the uses
\* of a level never exceed its ratio (SubQueue.cpp).
TypeOK ==
    /\ kind \in {"plain", "internal"}
    /\ items \in [Level -> Seq(Msg)]
    /\ \A l \in Level : /\ \A m \in ToSet(items[l]) : LevelOf[m] = l
                        /\ IsInjective(items[l])
                        /\ usage[l] \in 0..Ratio[l]
    /\ threshold \in {Open, Closed}
    /\ clearing \in BOOLEAN /\ equalInterrupt \in BOOLEAN
    /\ window \in [main : BOOLEAN, inter : BOOLEAN, pri : Level]
    /\ expired \subseteq Queued
    /\ sem \in 0..1
    /\ consumer \in {"waiting", "removing"}
    /\ scan \in [at : 0..NumLevels, again : BOOLEAN]
    /\ bypassed \in [Level -> Nat]

\* A flood of urgent messages does not starve the others of a plain queue: a
\* level that is open and not empty is passed over a bounded number of times
\* (QueueList.cpp:129-182, SubQueue.cpp:40-61).
RatioIsKept ==
    \A l \in Level : l > 1 => bypassed[l] <= BypassBound(l)

\* The thread that serves a plain queue never sleeps without a signal pending
\* while a message it could take is queued, whatever happened between its last
\* Remove and the semaphore (QueueList.cpp:184-207, 308-311).
NoWorkWhileAsleep ==
    kind = "plain" /\ consumer = "waiting" /\ sem = 0 /\ ~clearing =>
        \A l \in Level : IsOpen(l) => items[l] = <<>>

\* The step is a Remove of the internal queue that looked at level l.
LookedAt(l) ==
    /\ kind = "internal"
    /\ \/ consumer = "removing" /\ consumer' = "waiting"
       \/ \E k \in Level, m \in Queued : /\ k >= l
                                         /\ m \in ToSet(items[k]) \ expired
                                         /\ TakeInternal
                                         /\ m \notin Queued'

\* The places in level l of what could have been handed out and was not, in
\* front of what was.
PassedOver(l) ==
    LET gone == {i \in DOMAIN items[l] : items[l][i] \notin Queued' \cup expired}
    IN  {i \in DOMAIN items[l] \ gone :
            Eligible(l, items[l][i]) /\ \A j \in gone : i < j}

Dropped(l) == (ToSet(items[l]) \cap expired) \ Queued'

\* Remove of the internal queue leaves at most one message of a level it looked
\* at behind that it could have handed out before what it took, one more for
\* every expired message it drops (InternalMessageQueueList.cpp:32-180).
AtMostOneSkipped ==
    [][\A l \in Level :
        LookedAt(l) => Cardinality(PassedOver(l)) <= 1 + Cardinality(Dropped(l))]_vars

\* The messages of s that have none of the tags, in their order.
Without(s, tags) ==
    LET upTo[i \in 0..Len(s)] ==
            IF i = 0 THEN <<>>
            ELSE IF TagOf[s[i]] \in tags THEN upTo[i - 1]
            ELSE Append(upTo[i - 1], s[i])
    IN  upTo[Len(s)]

\* Exactly what is not flushed is left, and at most one message is added.
Covers(tags) ==
    \A l \in Level :
        \E new \in {<<>>} \cup {<<m>> : m \in Msg} :
            items'[l] = Without(items[l], tags) \o new

\* After a flush nothing that it covers is queued, not even in a level that is
\* at its ratio, and everything else still is, in the same order
\* (InternalMessageQueueList.cpp:522-612, 418-443).
FlushReachesAll ==
    [][/\ FlushAllPersistedButPB => Covers(ContentTags \ {PBTag})
       /\ \A m \in Queued' \ Queued : Covers(TagsFlushedBy(m))]_vars

\* Every message leaves the queue unless producers, or the thread that closes
\* the lower levels, never stop: no ratio, frozen window, skipped message or
\* missed signal keeps one there for ever.
QueueDrains ==
    \/ []<><<\E m \in Msg : m \notin Queued /\ m \in Queued'>>_vars
    \/ []<><<threshold = Open /\ threshold' = Closed>>_vars
    \/ []<>(Queued = {})
    \/ <>[](threshold = Closed)

=============================================================================
