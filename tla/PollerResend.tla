---------------------------- MODULE PollerResend ----------------------------
(***************************************************************************)
(* How CPollerProtocol (PollerProtocol/PollerProtocol.cpp) gets every      *)
(* transaction to the casino host ("poller"): three threads share the      *)
(* resend list, the queue of outgoing messages and the connection.         *)
(*                                                                         *)
(*   "queue"  takes messages of the internals: it gives a transaction its  *)
(*            unique id, adds it to the list and queues it for sending;    *)
(*   "send"   connects, sends the list again where that is due, and then   *)
(*            empties the queue;                                           *)
(*   "read"   takes the host's answers and removes what they settle.       *)
(*                                                                         *)
(* The list is taken as ResendList implements it: transactions come and go *)
(* as a whole and survive a restart.  Transactions are numbered 1, 2, ...  *)
(* in the order the internals hand them over; unique ids are given anew    *)
(* after a restart.  The host is external: it answers what it receives.    *)
(***************************************************************************)
EXTENDS Integers, Sequences, FiniteSets

CONSTANTS
    Offers,            \* what the internals may hand over: the kind of the
                       \* transaction, and whether its packet fails to encode
    SlotMastId,        \* the ids that a change of the slot master id may be to
    VoucherSeparation, \* VoucherSeparationEnabled()
    Capacity,          \* MAX_NUMBER_OF_TRANSACTIONS
    MaxBadResend,      \* MAX_BAD_TX_RESEND_COUNT
    MaxTx,             \* bound: transactions handed over
    MaxRequests,       \* bound: requests to be told when the list is empty
    MaxChan,           \* bound: answers under way
    MaxFaults,         \* bound: connections lost, PMT going down
    MaxCrashes         \* bound: restarts

OtherKinds == {"plain", "session", "ticketIn", "ticketOut", "vendAuth"}

\* A change of the slot master id is told by the id it is to.
AllKinds == OtherKinds \cup SlotMastId

ASSUME PollerResendAssumption ==
    /\ SlotMastId \cap OtherKinds = {}
    /\ Offers \subseteq [kind : AllKinds, bad : BOOLEAN]
    /\ VoucherSeparation \in BOOLEAN
    /\ {Capacity, MaxBadResend, MaxTx, MaxRequests, MaxChan, MaxFaults, MaxCrashes} \subseteq Nat

VARIABLES
    log,          \* the transactions handed over so far, with their unique id
    list,         \* the resend list: unique id -> transaction, sent 30 s ago?
    uniqueId,     \* m_uniqueId
    queue,        \* m_pollerMsgQueue
    notToResend,  \* m_listOfUniqueIdsNotToResend
    badCount,     \* m_BadTxResendCountMap
    connected,    \* pc->Connected()
    pmtUp,        \* m_pmtTransactionsUp
    fromHost,     \* what the host has sent and the read thread not yet read
    send,         \* where the send thread is, and the item it holds
    online,       \* previousOnlineState of the send thread
    after,        \* what a thread has still to do after changing the list
    notify,       \* m_notifyResendEmpty
    waiting,      \* the internals wait to be told that the list is empty
    outCount,     \* m_ticketsBufferedCount
    answering,    \* ids of tickets whose response the internals work on
    received,     \* the transactions the host has received
    tries,        \* how often a packet of a transaction failed to encode
    used          \* how much of each bound has been used

storage == <<list, uniqueId>>
marks   == <<notToResend, badCount>>
net     == <<connected, pmtUp, fromHost>>
thread  == <<send, online, after>>
inner   == <<notify, waiting, outCount, answering>>
seen    == <<received, tries>>
vars    == <<log, storage, queue, marks, net, thread, inner, seen, used>>

-----------------------------------------------------------------------------
Threads == {"queue", "send", "read"}
Ticket == {"ticketIn", "ticketOut", "vendAuth"}   \* all have TICKET_CODE
SendPc == {"connect", "online", "forced", "resend", "drain"}
NoItem == [id |-> 0, tx |-> 0, due |-> FALSE, valid |-> FALSE]

Submitted == DOMAIN log
IsTicket(n) == log[n].kind \in Ticket
IsTicketOut(n) == log[n].kind = "ticketOut"
IsSlotMast(n) == log[n].kind \in SlotMastId
Listed == {list[id].tx : id \in DOMAIN list}
Smallest(S) == CHOOSE x \in S : \A y \in S : x <= y
\* Mutant of Largest: begin() for rbegin() in GetHighestUniqueId.
LargestIsFirst(S) == CHOOSE x \in S : \A y \in S : x <= y
Largest(S) == CHOOSE x \in S : \A y \in S : y <= x

Without(f, x) == [y \in DOMAIN f \ {x} |-> f[y]]
With(f, x, v) == [y \in DOMAIN f \cup {x} |-> IF y = x THEN v ELSE f[y]]

Spend(what) == used' = [used EXCEPT ![what] = @ + 1]

\* What the host answers to transaction n (external).
Answers(n) ==
    IF IsTicket(n) THEN <<[type |-> "ack", tx |-> n], [type |-> "ticket", tx |-> n]>>
    ELSE IF IsSlotMast(n)
         THEN <<[type |-> "ack", tx |-> n], [type |-> "slotmast", tx |-> n]>>
         ELSE <<[type |-> "ack", tx |-> n]>>

\* Mutant of Disconnect: the answers that are under way still come.
DisconnectKeepsAnswers == connected' = FALSE /\ UNCHANGED fromHost

\* The connection is gone, and with it what was under way.
Disconnect == connected' = FALSE /\ fromHost' = <<>>

Init ==
    /\ log = <<>>
    /\ list = <<>> /\ uniqueId = 0
    /\ queue = <<>>
    /\ notToResend = {} /\ badCount = <<>>
    /\ connected = FALSE /\ pmtUp = FALSE /\ fromHost = <<>>
    /\ send = [pc |-> "connect", item |-> NoItem]
    /\ online = FALSE
    /\ after = [t \in Threads |-> <<>>]
    /\ notify = FALSE /\ waiting = FALSE /\ outCount = 0 /\ answering = {}
    /\ received = {} /\ tries = <<>>
    /\ used = [faults |-> 0, crashes |-> 0, requests |-> 0]

-----------------------------------------------------------------------------
(* Removal: RemoveResendTransaction takes the entry out and forgets that it *)
(* was bad; then the thread goes on with the steps left in after[t].        *)

TakeOut(id) ==
    /\ list' = Without(list, id)
    /\ badCount' = IF id \in DOMAIN list THEN Without(badCount, id) ELSE badCount

GoOn(t, steps) == after' = [after EXCEPT ![t] = steps \o Tail(@)]

\* Mutants of TicketSteps: every ticket counts as a printed one; nobody looks
\* whether the list has become empty.
TicketStepsCountAll(id, isTicketIn) ==
    IF id \in DOMAIN list THEN <<"check", "count", "check">> ELSE <<"check", "check">>

TicketStepsNoCheck(id, isTicketIn) ==
    IF id \in DOMAIN list /\ ~isTicketIn THEN <<"count">> ELSE <<>>

\* The steps of RemoveTicketFromResendList once the entry is out.
TicketSteps(id, isTicketIn) ==
    IF id \in DOMAIN list /\ ~isTicketIn THEN <<"check", "count", "check">>
                                         ELSE <<"check", "check">>

\* if( m_notifyResendEmpty && m_transactionResendList->IsEmpty() )
CheckEmpty(t) ==
    /\ after[t] # <<>> /\ Head(after[t]) = "check"
    /\ GoOn(t, IF notify /\ DOMAIN list = {} THEN <<"tell">> ELSE <<>>)
    /\ UNCHANGED <<log, storage, queue, marks, net, send, online, inner, seen, used>>

\* The message to the internals, and after it m_notifyResendEmpty = false.
TellEmpty(t) ==
    /\ after[t] # <<>> /\ Head(after[t]) = "tell"
    /\ waiting' = FALSE
    /\ GoOn(t, <<"reset">>)
    /\ UNCHANGED <<log, storage, queue, marks, net, send, online, notify, outCount, answering, seen, used>>

ResetNotify(t) ==
    /\ after[t] # <<>> /\ Head(after[t]) = "reset"
    /\ notify' = FALSE
    /\ GoOn(t, <<>>)
    /\ UNCHANGED <<log, storage, queue, marks, net, send, online, waiting, outCount, answering, seen, used>>

CountDown(t) ==
    /\ after[t] # <<>> /\ Head(after[t]) = "count"
    /\ outCount' = outCount - 1
    /\ GoOn(t, <<>>)
    /\ UNCHANGED <<log, storage, queue, marks, net, send, online, notify, waiting, answering, seen, used>>

-----------------------------------------------------------------------------
(* The queue thread: ProcessMessageFromInternals. *)

\* A Send...ToPoller handler: GetUniqueId, the entry in the set of ids not to
\* send again, QueueToPoller.  The session request of the personal banker is
\* queued but not stored; a full list stores nothing and the message is queued.
Submit(offer) ==
    LET kind == offer.kind
        n == Len(log) + 1
        id == uniqueId + 1
        stored == kind # "session" /\ Cardinality(DOMAIN list) < Capacity
    IN  /\ n <= MaxTx
        /\ after["queue"] = <<>>
        /\ log' = Append(log, [kind |-> kind, bad |-> offer.bad, id |-> id, stored |-> stored])
        /\ uniqueId' = id
        /\ notToResend' = IF kind = "vendAuth" THEN notToResend \cup {id} ELSE notToResend
        /\ list' = IF stored THEN With(list, id, [tx |-> n, due |-> FALSE]) ELSE list
        /\ queue' = Append(queue, n)
        /\ tries' = Append(tries, 0)
        /\ after' = IF kind = "ticketOut" /\ stored
                    THEN [after EXCEPT !["queue"] = <<"countOut">>] ELSE after
        /\ UNCHANGED <<badCount, net, send, online, inner, received, used>>

\* SendTicketTransactionToPoller after QueueToPoller returned true.
CountUp ==
    /\ after["queue"] # <<>> /\ Head(after["queue"]) = "countOut"
    /\ outCount' = outCount + 1
    /\ GoOn("queue", <<>>)
    /\ UNCHANGED <<log, storage, queue, marks, net, send, online, notify, waiting, answering, seen, used>>

\* Mutant of RequestNotify: the flag is not set.
RequestNotifyForgets ==
    /\ used.requests < MaxRequests
    /\ Spend("requests")
    /\ after["queue"] = <<>>
    /\ waiting' = TRUE
    /\ after' = [after EXCEPT !["queue"] = <<"ask">>]
    /\ UNCHANGED <<log, storage, queue, marks, net, send, online, notify, outCount, answering, seen>>

\* SendEmptyResendToInternals: set the flag, then look at the list.
RequestNotify ==
    /\ used.requests < MaxRequests
    /\ Spend("requests")
    /\ after["queue"] = <<>>
    /\ waiting' = TRUE
    /\ notify' = TRUE
    /\ after' = [after EXCEPT !["queue"] = <<"ask">>]
    /\ UNCHANGED <<log, storage, queue, marks, net, send, online, outCount, answering, seen>>

AnswerIfEmpty ==
    /\ after["queue"] # <<>> /\ Head(after["queue"]) = "ask"
    /\ GoOn("queue", IF DOMAIN list = {} THEN <<"tell">> ELSE <<>>)
    /\ UNCHANGED <<log, storage, queue, marks, net, send, online, inner, seen, used>>

\* RemoveTicketFromResendList, when the internals have taken the response.
TicketResponseReceived(n) ==
    /\ after["queue"] = <<>>
    /\ n \in answering
    /\ answering' = answering \ {n}
    /\ after' = [after EXCEPT !["queue"] = TicketSteps(log[n].id, ~IsTicketOut(n))]
    /\ TakeOut(log[n].id)
    /\ UNCHANGED <<log, uniqueId, queue, notToResend, net, send, online, notify, waiting,
                   outCount, received, tries, used>>

-----------------------------------------------------------------------------
(* The send thread: SendToPollerThread. *)

\* CheckForConnect.  Every attempt to connect clears the PMT flag first.
CheckForConnect ==
    /\ send.pc = "connect"
    /\ send' = [send EXCEPT !.pc = "online"]
    /\ \/ connected /\ UNCHANGED <<net, used>>
       \/ /\ ~connected
          /\ connected' = TRUE
          /\ pmtUp' = FALSE
          /\ UNCHANGED <<fromHost, used>>
       \/ /\ ~connected
          /\ used.faults < MaxFaults
          /\ Spend("faults")
          /\ pmtUp' = FALSE
          /\ UNCHANGED <<connected, fromHost>>
    /\ UNCHANGED <<log, storage, queue, marks, online, after, inner, received, tries>>

\* goneOnline: one pass over the list that sends everything.
CheckOnline ==
    /\ send.pc = "online"
    /\ online' = connected
    /\ send' = [pc |-> IF connected /\ ~online THEN "forced" ELSE "resend", item |-> NoItem]
    /\ UNCHANGED <<log, storage, queue, marks, net, after, inner, seen, used>>

\* GetFirstItem and GetNextItem: the entry after the one looked at last.  With
\* that one removed in the meantime the pass ends.
FetchItem ==
    LET last == send.item.id
        rest == IF last = 0 THEN DOMAIN list
                ELSE IF last \in DOMAIN list THEN {id \in DOMAIN list : id > last} ELSE {}
        next == Smallest(rest)
    IN  /\ send.pc \in {"forced", "resend"}
        /\ after["send"] = <<>>
        /\ ~send.item.valid
        /\ send' = IF rest = {}
                   THEN [pc |-> IF send.pc = "forced" THEN "resend" ELSE "drain", item |-> NoItem]
                   ELSE [send EXCEPT !.item = [id |-> next, tx |-> list[next].tx,
                                               due |-> list[next].due, valid |-> TRUE]]
        /\ UNCHANGED <<log, storage, queue, marks, net, online, after, inner, seen, used>>

\* May transaction n go out?  Tickets may without PMT under voucher separation.
MaySend(n) == pmtUp \/ (VoucherSeparation /\ IsTicket(n))

Holding == send.pc \in {"forced", "resend"} /\ send.item.valid
\* Mutant of Wanted: the time since the last send is not looked at.
WantedForced == MaySend(send.item.tx) /\ send.pc = "forced"
Wanted == MaySend(send.item.tx) /\ (send.pc = "forced" \/ send.item.due)
\* Mutant of Spent: one retry too many.
SpentLate == send.item.id \in DOMAIN badCount /\ badCount[send.item.id] > MaxBadResend
Spent == send.item.id \in DOMAIN badCount /\ badCount[send.item.id] >= MaxBadResend

\* The entry was removed while the send thread held a pointer to its buffer,
\* which is freed: what is read there is the old message or anything else.
Freed == send.item.id \notin DOMAIN list

ItemDone == send' = [send EXCEPT !.item.valid = FALSE]

SkipItem ==
    /\ Holding
    /\ ~Wanted \/ Freed
    /\ ItemDone
    /\ UNCHANGED <<log, storage, queue, marks, net, online, after, inner, seen, used>>

\* ValidateBadTransactionResendCount
DropBadItem ==
    /\ Holding /\ Wanted /\ Spent /\ ~Freed
    /\ TakeOut(send.item.id)
    /\ after' = [after EXCEPT !["send"] = <<"check">>]
    /\ ItemDone
    /\ UNCHANGED <<log, uniqueId, queue, notToResend, net, online, inner, received, tries, used>>

\* Mutant of DropItemNotToResend: the mark goes, the entry stays.
DropMarkOnly ==
    /\ Holding /\ Wanted /\ (~Spent \/ Freed)
    /\ send.item.id \in notToResend
    /\ notToResend' = notToResend \ {send.item.id}
    /\ ItemDone
    /\ UNCHANGED <<log, storage, queue, badCount, net, online, after, inner, seen, used>>

\* RemoveResendListItemIfNecessary
DropItemNotToResend ==
    /\ Holding /\ Wanted /\ (~Spent \/ Freed)
    /\ send.item.id \in notToResend
    /\ notToResend' = notToResend \ {send.item.id}
    /\ TakeOut(send.item.id)
    /\ after' = [after EXCEPT !["send"] = <<"check">>]
    /\ ItemDone
    /\ UNCHANGED <<log, uniqueId, queue, net, online, inner, received, tries, used>>

\* pc->Send of a packet: the host gets it, or the connection is closed.
Transmit(n) ==
    \/ /\ Len(fromHost) < MaxChan
       /\ fromHost' = fromHost \o Answers(n)
       /\ received' = received \cup {n}
       /\ UNCHANGED <<connected, pmtUp, used>>
    \/ /\ used.faults < MaxFaults
       /\ Spend("faults")
       /\ Disconnect
       /\ UNCHANGED <<pmtUp, received>>

\* SendToPoller: CreatePacketToSend fails for a bad packet, which is counted
\* from firstCount on; without a connection nothing happens.
SendPacket(n, nextCount) ==
    IF connected /\ log[n].bad
    THEN /\ badCount' = With(badCount, log[n].id, nextCount)
         /\ tries' = [tries EXCEPT ![n] = @ + 1]
         /\ UNCHANGED <<net, received, used>>
    ELSE /\ UNCHANGED <<badCount, tries>>
         /\ IF connected THEN Transmit(n) ELSE UNCHANGED <<net, received, used>>

\* SetLastSent and SendToPoller of the buffer.
ResendItem ==
    LET id == send.item.id
    IN  /\ Holding /\ Wanted /\ (~Spent \/ Freed)
        /\ id \notin notToResend
        /\ list' = IF Freed THEN list ELSE [list EXCEPT ![id].due = FALSE]
        /\ SendPacket(send.item.tx, IF id \in DOMAIN badCount THEN badCount[id] + 1 ELSE 0)
        /\ ItemDone
        /\ UNCHANGED <<log, uniqueId, queue, notToResend, online, after, inner>>

\* The freed buffer does not even encode: its id is counted as bad.
ResendFreedItem ==
    /\ Holding /\ Freed /\ connected
    /\ send.pc = "forced" \/ send.item.due
    /\ badCount' = With(badCount, send.item.id, 0)
    /\ ItemDone
    /\ UNCHANGED <<log, storage, queue, notToResend, net, online, after, inner, seen, used>>

\* The queue: SendToPoller of a message that is deleted whatever becomes of it.
DrainQueue ==
    /\ send.pc = "drain"
    /\ IF queue = <<>>
       THEN /\ send' = [send EXCEPT !.pc = "connect"]
            /\ UNCHANGED <<queue, badCount, net, seen, used>>
       ELSE /\ queue' = Tail(queue)
            /\ UNCHANGED send
            /\ IF MaySend(Head(queue))
               THEN SendPacket(Head(queue), 0)
               ELSE UNCHANGED <<badCount, net, received, tries, used>>
    /\ UNCHANGED <<log, storage, notToResend, online, after, inner>>

-----------------------------------------------------------------------------
(* The read thread: ReadAndProcessFromPoller. *)

Reads(type) ==
    /\ after["read"] = <<>>
    /\ fromHost # <<>> /\ Head(fromHost).type = type
    /\ fromHost' = Tail(fromHost)

\* A ticket and a change of the slot master id wait for their response.
ReadAck ==
    LET n == Head(fromHost).tx
    IN  /\ Reads("ack")
        /\ IF IsTicket(n) \/ IsSlotMast(n)
           THEN UNCHANGED <<list, badCount, after>>
           ELSE /\ TakeOut(log[n].id)
                /\ after' = [after EXCEPT !["read"] = <<"check">>]
        /\ UNCHANGED <<log, uniqueId, queue, notToResend, connected, pmtUp, send, online,
                       inner, received, tries, used>>

\* ProcessTicketResponseFromPoller.  With no such ticket in the list it looks
\* for one whose validation number is null; IsVALNumNULL holds of every ticket
\* whose number differs from "D0D0...", so the first ticket is removed.
ReadTicketResponse ==
    LET n == Head(fromHost).tx
        tickets == {id \in DOMAIN list : IsTicket(list[id].tx)}
        first == Smallest(tickets)
    IN  /\ Reads("ticket")
        /\ IF n \in Listed
           THEN /\ answering' = answering \cup {n}
                /\ UNCHANGED <<list, badCount, after>>
           ELSE /\ UNCHANGED answering
                /\ IF tickets = {}
                   THEN UNCHANGED <<list, badCount, after>>
                   ELSE /\ TakeOut(first)
                        /\ after' = [after EXCEPT !["read"] =
                                        TicketSteps(first, ~IsTicketOut(list[first].tx))]
        /\ UNCHANGED <<log, uniqueId, queue, notToResend, connected, pmtUp, send, online,
                       notify, waiting, outCount, received, tries, used>>

\* Mutant of SameChange: the id of the response is not compared.
AnyChange(n) == {id \in DOMAIN list : IsSlotMast(list[id].tx)}

\* The listed changes to the same slot master id as that of transaction n.
SameChange(n) ==
    {id \in DOMAIN list : IsSlotMast(list[id].tx) /\ log[list[id].tx].kind = log[n].kind}

\* ProcessChangeSlotMastRespFromPoller: RemoveChangeSlotMastIDTransaction takes out
\* the first change to the id of the response, whichever change was answered; that
\* the entry was bad is not forgotten, and nobody looks whether the list is empty.
ReadSlotMastResponse ==
    LET same == SameChange(Head(fromHost).tx)
        first == Smallest(same)
    IN  /\ Reads("slotmast")
        /\ IF same = {}
           THEN UNCHANGED list
           ELSE list' = Without(list, first)
        /\ UNCHANGED <<log, uniqueId, queue, marks, connected, pmtUp, thread, inner,
                       received, tries, used>>

\* ProcessHeartbeatRespFromPoller
ReadHeartbeatResponse ==
    /\ Reads("pmt")
    /\ pmtUp' = Head(fromHost).up
    /\ UNCHANGED <<log, storage, queue, marks, connected, thread, inner, seen, used>>

-----------------------------------------------------------------------------
(* The surroundings. *)

\* The host answers a heartbeat and tells whether PMT takes transactions.
HostReportsPmt(up) ==
    /\ connected
    /\ up # pmtUp
    /\ Len(fromHost) < MaxChan
    /\ \A i \in DOMAIN fromHost : fromHost[i].type # "pmt"
    /\ IF up THEN UNCHANGED used ELSE used.faults < MaxFaults /\ Spend("faults")
    /\ fromHost' = Append(fromHost, [type |-> "pmt", up |-> up])
    /\ UNCHANGED <<log, storage, queue, marks, connected, pmtUp, thread, inner, seen>>

LinkDown ==
    /\ connected
    /\ used.faults < MaxFaults
    /\ Spend("faults")
    /\ Disconnect
    /\ UNCHANGED <<log, storage, queue, marks, pmtUp, thread, inner, seen>>

\* RESEND_TRANSACTION_INTERVAL passes.
Elapse ==
    /\ \E id \in DOMAIN list : ~list[id].due
    /\ list' = [id \in DOMAIN list |-> [list[id] EXCEPT !.due = TRUE]]
    /\ UNCHANGED <<log, uniqueId, queue, marks, net, thread, inner, seen, used>>

\* A restart: the list comes back from the NVRAM, SetNvramStatus takes the
\* highest id and the number of printed tickets from it, the rest is lost.  The
\* entries count as sent at tick 0: long ago, but for the first 30 s of a boot.
CrashAndRestart ==
    /\ used.crashes < MaxCrashes
    /\ Spend("crashes")
    /\ \E old \in BOOLEAN :
           list' = [id \in DOMAIN list |-> [list[id] EXCEPT !.due = old]]
    /\ uniqueId' = IF DOMAIN list = {} THEN 0 ELSE Largest(DOMAIN list)
    /\ outCount' = Cardinality({id \in DOMAIN list : IsTicketOut(list[id].tx)})
    /\ queue' = <<>>
    /\ notToResend' = {} /\ badCount' = <<>>
    /\ Disconnect /\ pmtUp' = FALSE
    /\ send' = [pc |-> "connect", item |-> NoItem]
    /\ online' = FALSE
    /\ after' = [t \in Threads |-> <<>>]
    /\ notify' = FALSE /\ waiting' = FALSE /\ answering' = {}
    /\ UNCHANGED <<log, received, tries>>

-----------------------------------------------------------------------------
Continue(t) == CheckEmpty(t) \/ TellEmpty(t) \/ ResetNotify(t) \/ CountDown(t)

QueueThread ==
    \/ \E offer \in Offers : Submit(offer)
    \/ CountUp
    \/ RequestNotify
    \/ AnswerIfEmpty
    \/ \E n \in answering : TicketResponseReceived(n)
    \/ Continue("queue")

SendThread ==
    \/ CheckForConnect
    \/ CheckOnline
    \/ FetchItem
    \/ SkipItem
    \/ DropBadItem
    \/ DropItemNotToResend
    \/ ResendItem
    \/ ResendFreedItem
    \/ DrainQueue
    \/ Continue("send")

ReadThread ==
    \/ ReadAck
    \/ ReadTicketResponse
    \/ ReadSlotMastResponse
    \/ ReadHeartbeatResponse
    \/ Continue("read")

Next ==
    \/ QueueThread
    \/ SendThread
    \/ ReadThread
    \/ \E up \in BOOLEAN : HostReportsPmt(up)
    \/ LinkDown
    \/ Elapse
    \/ CrashAndRestart

Spec == Init /\ [][Next]_vars

\* Every thread keeps running, time passes, the internals come back to a
\* ticket response they were given, and PMT comes up again on the host.
Fairness ==
    /\ WF_vars(CountUp \/ AnswerIfEmpty \/ Continue("queue")
                  \/ \E n \in answering : TicketResponseReceived(n))
    /\ WF_vars(SendThread)
    /\ WF_vars(ReadThread)
    /\ WF_vars(HostReportsPmt(TRUE))
    /\ WF_vars(Elapse)

FairSpec == Spec /\ Fairness

-----------------------------------------------------------------------------
(* Properties *)

LogTypes ==
    log \in Seq([kind : AllKinds, bad : BOOLEAN, id : Nat, stored : BOOLEAN])

StorageTypes ==
    /\ DOMAIN list \subseteq Nat
    /\ \A id \in DOMAIN list : list[id] \in [tx : Submitted, due : BOOLEAN]
    /\ uniqueId \in Nat

QueueTypes == queue \in Seq(Submitted)

MarkTypes ==
    /\ notToResend \subseteq Nat
    /\ DOMAIN badCount \subseteq Nat
    /\ \A id \in DOMAIN badCount : badCount[id] \in Nat
    /\ \A id \in DOMAIN badCount \cap DOMAIN list : badCount[id] <= MaxBadResend

Answer == [type : {"ack", "ticket", "slotmast"}, tx : Submitted]
Message == Answer \cup [type : {"pmt"}, up : BOOLEAN]

NetTypes ==
    /\ connected \in BOOLEAN /\ pmtUp \in BOOLEAN
    /\ fromHost \in Seq(Message)

Item == [id : Nat, tx : Submitted \cup {0}, due : BOOLEAN, valid : BOOLEAN]

ThreadTypes ==
    /\ send \in [pc : SendPc, item : Item]
    /\ online \in BOOLEAN
    /\ after \in [Threads -> Seq({"check", "tell", "reset", "count", "countOut", "ask"})]

InnerTypes ==
    /\ notify \in BOOLEAN /\ waiting \in BOOLEAN
    /\ outCount \in Int
    /\ answering \subseteq Submitted

SeenTypes ==
    /\ received \subseteq Submitted
    /\ tries \in Seq(Nat) /\ DOMAIN tries = Submitted

UsedTypes == used \in [{"faults", "crashes", "requests"} -> Nat]

\* The type of every variable; no listed transaction is counted as bad beyond the
\* limit.
TypeOK ==
    /\ LogTypes
    /\ StorageTypes
    /\ QueueTypes
    /\ MarkTypes
    /\ NetTypes
    /\ ThreadTypes
    /\ InnerTypes
    /\ SeenTypes
    /\ UsedTypes

\* The host has transaction n, or another change to the same slot master id.
Reached(n) ==
    \/ n \in received
    \/ IsSlotMast(n) /\ \E m \in received : log[m].kind = log[n].kind

\* A transaction that was stored and is in the list no more has reached the
\* host, or could not be encoded in the first try and MaxBadResend retries.
Settled(n) ==
    log[n].stored /\ n \notin Listed =>
        Reached(n) \/ (log[n].bad /\ tries[n] > MaxBadResend)

\* No restart, lost connection or overtaking of the three threads makes the
\* list forget a transaction before it is settled: an acknowledgement never
\* removes another transaction than its own, a bad one is not given up early.
\* The response to a change of the slot master id may remove another change, which
\* the host has not received, but only one to the same id.
NothingForgotten == \A n \in Submitted : IsTicket(n) \/ Settled(n)

\* The same of tickets (but for those that are not to be sent again).
NoTicketForgotten ==
    \A n \in Submitted : log[n].kind \in {"ticketIn", "ticketOut"} => Settled(n)

\* The transactions under way: in the queue, in an answer, with the internals.
InAnswers == {fromHost[i].tx : i \in {j \in DOMAIN fromHost : fromHost[j].type # "pmt"}}
UnderWay == answering \cup {queue[i] : i \in DOMAIN queue} \cup InAnswers

\* The next unique id is not in use anywhere: AddTransaction will not replace
\* an entry, and an answer that is under way will not settle a later one.
IdsInUse ==
    DOMAIN list \cup DOMAIN badCount \cup notToResend \cup {send.item.id}
        \cup {log[n].id : n \in UnderWay}

UniqueIdIsFresh == \A id \in IdsInUse : id <= uniqueId

\* Whenever the queue thread is between two messages, the number of pending
\* printed tickets the internals are told is not less than what is listed.
PrintedTicketsCounted ==
    after["queue"] = <<>> =>
        outCount >= Cardinality({n \in Listed : IsTicketOut(n)})

\* While the internals wait and the list is empty, some thread is about to
\* look at the list and tell them.
AnswerOnItsWay ==
    waiting /\ DOMAIN list = {} => \E t \in Threads : after[t] # <<>>

\* Until the first restart a ticket that is not to be sent again reaches the
\* host through the queue only: the list never sends it.
NotToResendIsNotResent ==
    [][ResendItem /\ used.crashes = 0 => log[send.item.tx].kind # "vendAuth"]_vars

\* Every stored transaction leaves the list some day, sent or given up.
EverythingLeaves ==
    \A n \in 1..MaxTx : (n \in Submitted /\ n \in Listed) ~> (n \notin Listed)

\* Whoever asks to be told when the list is empty is told.
RequestIsAnswered == waiting ~> ~waiting

-----------------------------------------------------------------------------
(* Why the safety properties hold *)

\* An entry has the id of its transaction, and a transaction under way finds no
\* entry but its own under its id, although ids are given again after restarts.
OwnEntries ==
    /\ \A id \in DOMAIN list : log[list[id].tx].id = id
    /\ \A n \in UnderWay : log[n].id \in DOMAIN list => list[log[n].id].tx = n

\* So does the item the send thread holds.
HeldItem ==
    Holding =>
        LET id == send.item.id  n == send.item.tx IN
        /\ n \in Submitted /\ log[n].id = id
        /\ id \in DOMAIN list => list[id].tx = n

\* Answers are about what was received, which is not bad.
AnswersTrue ==
    /\ \A n \in received : ~log[n].bad
    /\ \A i \in DOMAIN fromHost : fromHost[i].type # "pmt" => fromHost[i].tx \in received
    /\ \A i \in DOMAIN fromHost : fromHost[i].type = "ticket" => IsTicket(fromHost[i].tx)
    /\ \A n \in answering : IsTicket(n)

\* A listed transaction has been tried more often than it is counted, and marked
\* are, up to a restart, exactly the authorizations.
ListedMarks ==
    \A id \in DOMAIN list :
        LET n == list[id].tx IN
        /\ id \in DOMAIN badCount => log[n].bad /\ tries[n] > badCount[id]
        /\ id \in notToResend => log[n].kind = "vendAuth"

Authorizations ==
    used.crashes = 0 =>
        /\ \A id \in DOMAIN list : log[list[id].tx].kind = "vendAuth" => id \in notToResend
        /\ Holding /\ log[send.item.tx].kind = "vendAuth" => send.item.id \in notToResend

\* What a thread may have still to do, and when that is to count down a ticket.
ToCount == {<<"count", "check">>}
               \cup {<<x, "count", "check">> : x \in {"check", "tell", "reset"}}
ToDo == ToCount \cup {<<>>, <<"countOut">>, <<"ask">>}
            \cup {<<x>> : x \in {"check", "tell", "reset"}}
            \cup {<<x, "check">> : x \in {"check", "tell", "reset"}}

CountOf(steps) == IF steps \in ToCount THEN 1 ELSE 0
UpOf(steps) == IF steps = <<"countOut">> THEN 1 ELSE 0
Pending == CountOf(after["queue"]) + CountOf(after["send"]) + CountOf(after["read"])
ListedOut == {n \in Listed : IsTicketOut(n)}

\* The count of printed tickets covers what is listed also when every thread has
\* done what it has still to do.
CountCovers ==
    /\ \A t \in Threads : after[t] \in ToDo
    /\ outCount + UpOf(after["queue"]) >= Cardinality(ListedOut) + Pending

\* The inductive invariant that the safety properties follow from.
IInv ==
    /\ TypeOK
    /\ UniqueIdIsFresh
    /\ NothingForgotten
    /\ OwnEntries
    /\ HeldItem
    /\ AnswersTrue
    /\ ListedMarks
    /\ Authorizations
    /\ CountCovers

\* With no change of the slot master id, and one request in all, the internals do not
\* wait in vain: no thread is about to take back the flag, and with an empty list some
\* thread is about to look at it.
NoSlotmast ==
    /\ \A n \in Submitted : ~IsSlotMast(n)
    /\ \A i \in DOMAIN fromHost : fromHost[i].type # "slotmast"

FirstOf(steps) == IF steps = <<>> THEN "nothing" ELSE Head(steps)
FirstStep(t) == FirstOf(after[t])

RequestKept ==
    /\ (notify \/ waiting \/ \E t \in Threads : FirstStep(t) \in {"ask", "tell", "reset"})
           => used.requests > 0
    /\ waiting => notify /\ \A t \in Threads : FirstStep(t) # "reset"
    /\ waiting /\ DOMAIN list = {} =>
           \E t \in Threads : FirstStep(t) \notin {"nothing", "countOut"}

AnswerInv == NoSlotmast /\ RequestKept

=============================================================================
