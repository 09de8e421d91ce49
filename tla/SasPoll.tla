------------------------------ MODULE SasPoll ------------------------------
(***************************************************************************)
(* The life of a SAS poll (SASProtocol/SASPollMessage.cpp).  A requesting  *)
(* thread creates a poll, queues it and waits at most ten seconds for the  *)
(* thread that talks to the gaming machine to have processed it; then it   *)
(* reads the result, may send the same object again, and deletes it.  A    *)
(* poll that is still queued when the time is over is taken back; one that *)
(* is being sent must be waited for before it is deleted.                  *)
(*                                                                         *)
(* One requester makes two-phase transfers of credits (PerformEFT): it     *)
(* keeps the less urgent polls off the queue, asks, and when the machine   *)
(* agrees sends the same poll again as the acknowledgement.  The others    *)
(* ask and read.  The machine and the line are external: a poll may be     *)
(* answered, refused or not answered, having arrived or not, after the     *)
(* retries of SendToSAS.                                                   *)
(***************************************************************************)
EXTENDS Integers, FiniteSets

CONSTANTS
    Requester,     \* the threads that queue polls
    Transfer,      \* the one that makes EFT transfers
    NoOne

ASSUME SasPollAssumption ==
    /\ Transfer \in Requester
    /\ NoOne \notin Requester

VARIABLES
    pc,            \* what each requester does
    poll,          \* its poll object
    phase,         \* EFTACKPHASE1 or EFTACKPHASE2, as 1 or 2
    late,          \* a wait of the requester has ended by its time limit
    send,          \* the thread SendToEGM and the poll it has
    starve,        \* the poll queue is closed to less urgent polls
    acked,         \* the machine has carried out the current transfer
    outcome,       \* what internals was told about it
    closing        \* how far Shutdown is

vars == <<pc, poll, phase, late, send, starve, acked, outcome, closing>>

-----------------------------------------------------------------------------
\* "received" is m_responseReceived, "sem" m_hResponseSem, "ret" m_nReturnValue,
\* "status" what the derived class copied from the last answer ("unset" before)
\* and "of" the phase of that answer.
Poll == [alive : BOOLEAN, queued : BOOLEAN, received : BOOLEAN, sem : {0, 1},
         ret : {"success", "failed"}, status : {"unset", "good", "refused"},
         of : {0, 1, 2}]

\* Mutant of NewPoll: the poll starts out processed.
NewPollReceived ==
    [alive |-> TRUE, queued |-> TRUE, received |-> TRUE, sem |-> 0,
     ret |-> "success", status |-> "unset", of |-> 0]

NewPoll ==
    [alive |-> TRUE, queued |-> TRUE, received |-> FALSE, sem |-> 0,
     ret |-> "success", status |-> "unset", of |-> 0]

NoPoll == [NewPoll EXCEPT !.alive = FALSE, !.queued = FALSE]

\* Of the thread SendToEGM: "gone" says its poll was deleted under it.
SendPc == {"idle", "exchanging", "copying", "flagging", "unlocking", "stopped"}

Send == [pc : SendPc, of : Requester \cup {NoOne},
         reply : {"none", "good", "refused", "lost"}, gone : BOOLEAN]

Idle == [pc |-> "idle", of |-> NoOne, reply |-> "none", gone |-> FALSE]

Init ==
    /\ pc = [r \in Requester |-> "idle"]
    /\ poll = [r \in Requester |-> NoPoll]
    /\ phase = [r \in Requester |-> 1]
    /\ late = [r \in Requester |-> FALSE]
    /\ send = Idle
    /\ starve = FALSE
    /\ acked = FALSE
    /\ outcome = "none"
    /\ closing = "no"

-----------------------------------------------------------------------------
(* A requester *)

\* Creates a poll and adds it to the queue; a transfer closes the queue first.
Request(r) ==
    /\ pc[r] = "idle"
    /\ closing = "no"
    /\ pc' = [pc EXCEPT ![r] = "waiting"]
    /\ poll' = [poll EXCEPT ![r] = NewPoll]
    /\ phase' = [phase EXCEPT ![r] = 1]
    /\ IF r = Transfer
       THEN starve' = TRUE /\ acked' = FALSE /\ outcome' = "none"
       ELSE UNCHANGED <<starve, acked, outcome>>
    /\ UNCHANGED <<late, send, closing>>

\* WaitForResponse returns with the semaphore, which it releases again.
Answered(r) ==
    /\ pc[r] = "waiting"
    /\ poll[r].sem = 1
    /\ pc' = [pc EXCEPT ![r] = "answered"]
    /\ UNCHANGED <<poll, phase, late, send, starve, acked, outcome, closing>>

\* Mutant of TimeOut: marks the poll processed without asking if it was removed.
TimeOutMarks(r) ==
    /\ pc[r] = "waiting"
    /\ poll[r].sem = 0
    /\ poll' = [poll EXCEPT ![r] = [@ EXCEPT !.queued = FALSE, !.sem = 1,
                                             !.received = TRUE]]
    /\ late' = [late EXCEPT ![r] = TRUE]
    /\ pc' = [pc EXCEPT ![r] = "answered"]
    /\ UNCHANGED <<phase, send, starve, acked, outcome, closing>>

\* WaitForResponse times out: a poll that is still queued is taken back and
\* marked as processed.  Its return value stays what it was.
TimeOut(r) ==
    /\ pc[r] = "waiting"
    /\ poll[r].sem = 0
    /\ poll' = [poll EXCEPT ![r] =
                   [@ EXCEPT !.queued = FALSE, !.sem = 1,
                             !.received = poll[r].received \/ poll[r].queued]]
    /\ late' = [late EXCEPT ![r] = TRUE]
    /\ pc' = [pc EXCEPT ![r] = "answered"]
    /\ UNCHANGED <<phase, send, starve, acked, outcome, closing>>

\* An ordinary poll is read and given up.
Finish(r) ==
    /\ pc[r] = "answered"
    /\ r # Transfer
    /\ pc' = [pc EXCEPT ![r] = "deleting"]
    /\ UNCHANGED <<poll, phase, late, send, starve, acked, outcome, closing>>

\* What PerformEFT may find: a status that was never copied can have any value.
LooksGood(p) == p.ret = "success" /\ p.status \in {"good", "unset"}
LooksBad(p) == p.ret = "failed" \/ p.status \in {"refused", "unset"}

\* The machine agrees: the poll will be sent again, with the acknowledgement.
\* ResetResponse waits until the poll has been processed.
Acknowledge ==
    LET p == poll[Transfer] IN
    /\ pc[Transfer] = "answered" /\ phase[Transfer] = 1
    /\ LooksGood(p)
    /\ pc' = [pc EXCEPT ![Transfer] = "resetting"]
    /\ UNCHANGED <<poll, phase, late, send, starve, acked, outcome, closing>>

\* Mutant of Reset: the semaphore is not taken again.
ResetKeepsSem ==
    LET p == poll[Transfer] IN
    /\ pc[Transfer] = "resetting"
    /\ p.received /\ p.sem = 1
    /\ poll' = [poll EXCEPT ![Transfer] =
                   [@ EXCEPT !.received = FALSE, !.ret = "success",
                             !.queued = TRUE]]
    /\ phase' = [phase EXCEPT ![Transfer] = 2]
    /\ pc' = [pc EXCEPT ![Transfer] = "waiting"]
    /\ UNCHANGED <<late, send, starve, acked, outcome, closing>>

Reset ==
    LET p == poll[Transfer] IN
    /\ pc[Transfer] = "resetting"
    /\ p.received /\ p.sem = 1
    /\ poll' = [poll EXCEPT ![Transfer] =
                   [@ EXCEPT !.received = FALSE, !.sem = 0, !.ret = "success",
                             !.queued = TRUE]]
    /\ phase' = [phase EXCEPT ![Transfer] = 2]
    /\ pc' = [pc EXCEPT ![Transfer] = "waiting"]
    /\ UNCHANGED <<late, send, starve, acked, outcome, closing>>

\* Mutant of Report: the error path of the first phase leaves the queue closed.
ReportStarving(result) ==
    LET p == poll[Transfer] IN
    /\ pc[Transfer] = "answered"
    /\ IF result = "complete" THEN phase[Transfer] = 2 /\ LooksGood(p)
       ELSE LooksBad(p)
    /\ outcome' = result
    /\ starve' = (starve /\ phase[Transfer] = 1)
    /\ pc' = [pc EXCEPT ![Transfer] = "deleting"]
    /\ UNCHANGED <<poll, phase, late, send, acked, closing>>

\* Internals is told that the transfer is complete, or (CancelEFT) cancelled;
\* either way the queue is opened again.
Report(result) ==
    LET p == poll[Transfer] IN
    /\ pc[Transfer] = "answered"
    /\ IF result = "complete" THEN phase[Transfer] = 2 /\ LooksGood(p)
       ELSE LooksBad(p)
    /\ outcome' = result
    /\ starve' = FALSE
    /\ pc' = [pc EXCEPT ![Transfer] = "deleting"]
    /\ UNCHANGED <<poll, phase, late, send, acked, closing>>

\* The destructor waits until the poll has been processed.
Delete(r) ==
    /\ pc[r] = "deleting"
    /\ poll[r].received
    /\ poll' = [poll EXCEPT ![r] = NoPoll]
    /\ send' = [send EXCEPT !.gone = @ \/ send.of = r]
    /\ pc' = [pc EXCEPT ![r] = "idle"]
    /\ UNCHANGED <<phase, late, starve, acked, outcome, closing>>

-----------------------------------------------------------------------------
(* SendToEGM *)

requesters == <<pc, phase, late, starve, outcome, closing>>

\* Remove gives a poll; SendToSAS first sets its return value to success.
Take(r) ==
    /\ send.pc = "idle"
    /\ closing # "send"
    /\ poll[r].queued
    /\ r = Transfer \/ ~starve
    /\ poll' = [poll EXCEPT ![r] = [@ EXCEPT !.queued = FALSE, !.ret = "success"]]
    /\ send' = [Idle EXCEPT !.pc = "exchanging", !.of = r]
    /\ UNCHANGED <<requesters, acked>>

\* The machine answers, refuses, or no good answer comes back within the
\* retries, whether or not the machine got the poll.
Exchange(reply) ==
    LET r == send.of IN
    /\ send.pc = "exchanging"
    /\ \E carriedOut \in BOOLEAN :
          /\ reply = "good" => carriedOut
          /\ reply = "refused" => ~carriedOut
          /\ acked' = (acked \/ (r = Transfer /\ phase[r] = 2 /\ carriedOut))
    /\ poll' = [poll EXCEPT ![r].ret = IF reply = "lost" THEN "failed" ELSE "success"]
    /\ send' = [send EXCEPT !.pc = "copying", !.reply = reply]
    /\ UNCHANGED requesters

\* Mutant of Copy: the flag is set before the answer is copied.
CopyLate ==
    LET r == send.of IN
    /\ send.pc = "copying"
    /\ poll' = [poll EXCEPT ![r].received = TRUE]
    /\ send' = [send EXCEPT !.pc = "flagging"]
    /\ UNCHANGED <<requesters, acked>>

\* ResponseReceived of the derived class copies a good answer.
Copy ==
    LET r == send.of IN
    /\ send.pc = "copying"
    /\ poll' = IF poll[r].ret = "failed" THEN poll
               ELSE [poll EXCEPT ![r] = [@ EXCEPT !.status = send.reply,
                                                  !.of = phase[r]]]
    /\ send' = [send EXCEPT !.pc = "flagging"]
    /\ UNCHANGED <<requesters, acked>>

\* Mutant of Flag: the poll is signalled but never marked as processed.
FlagSkipped ==
    /\ send.pc = "flagging"
    /\ send' = [send EXCEPT !.pc = "unlocking"]
    /\ UNCHANGED <<requesters, poll, acked>>

\* CSASPollMessage::ResponseReceived, first line.
Flag ==
    /\ send.pc = "flagging"
    /\ poll' = [poll EXCEPT ![send.of].received = TRUE]
    /\ send' = [send EXCEPT !.pc = "unlocking"]
    /\ UNCHANGED <<requesters, acked>>

\* Its second line.  A requester whose wait had timed out may have deleted the
\* poll since the first: the semaphore is then that of freed memory, where the
\* next poll of the requester may be.
Unlock ==
    LET r == send.of
        signalled == [poll EXCEPT ![r].sem = 1]
    IN  /\ send.pc = "unlocking"
        /\ IF send.gone
           THEN poll' \in {poll} \cup {q \in {signalled} : poll[r].alive}
           ELSE poll' = signalled
        /\ send' = Idle
        /\ UNCHANGED <<requesters, acked>>

-----------------------------------------------------------------------------
(* Shutdown *)

\* The requesting threads are told to end.
Shutdown ==
    /\ closing = "no"
    /\ closing' = "stop"
    /\ UNCHANGED <<pc, poll, phase, late, send, starve, acked, outcome>>

\* Mutant of StopSending: does not wait for the requesters.
StopSendingAtOnce ==
    /\ closing = "stop"
    /\ closing' = "send"
    /\ UNCHANGED <<pc, poll, phase, late, send, starve, acked, outcome>>

\* When they have, SendToEGM is told.
StopSending ==
    /\ closing = "stop"
    /\ \A r \in Requester : pc[r] = "idle"
    /\ closing' = "send"
    /\ UNCHANGED <<pc, poll, phase, late, send, starve, acked, outcome>>

\* SendToEGM ends; a poll it has just removed is dropped.
Stop ==
    /\ closing = "send"
    /\ send.pc = "idle"
    /\ send' = [Idle EXCEPT !.pc = "stopped"]
    /\ \/ UNCHANGED poll
       \/ \E r \in Requester : /\ poll[r].queued
                               /\ poll' = [poll EXCEPT ![r].queued = FALSE]
    /\ UNCHANGED <<requesters, acked>>

-----------------------------------------------------------------------------
RequesterStep(r) ==
    \/ Answered(r)
    \/ TimeOut(r)
    \/ Finish(r)
    \/ Delete(r)

TransferStep ==
    \/ Acknowledge
    \/ Reset
    \/ \E result \in {"complete", "cancelled"} : Report(result)

SendStep ==
    \/ \E r \in Requester : Take(r)
    \/ \E reply \in {"good", "refused", "lost"} : Exchange(reply)
    \/ Copy
    \/ Flag
    \/ Unlock
    \/ Stop

Next ==
    \/ \E r \in Requester : Request(r)
    \/ \E r \in Requester : RequesterStep(r)
    \/ TransferStep
    \/ SendStep
    \/ Shutdown
    \/ StopSending

\* Every thread goes on running; a wait ends by its time limit; the queue gives
\* every poll its turn (see MessageQueue).
Fairness ==
    /\ \A r \in Requester : SF_vars(Take(r))
    /\ \A r \in Requester : WF_vars(RequesterStep(r))
    /\ WF_vars(TransferStep)
    /\ WF_vars(SendStep)
    /\ WF_vars(StopSending)

Spec == Init /\ [][Next]_vars /\ Fairness

-----------------------------------------------------------------------------
(* Properties *)

\* The values of the requesters' polls, of the sender and of the shutdown.
TypeOK ==
    /\ pc \in [Requester -> {"idle", "waiting", "answered", "resetting", "deleting"}]
    /\ poll \in [Requester -> Poll]
    /\ phase \in [Requester -> {1, 2}]
    /\ late \in [Requester -> BOOLEAN]
    /\ send \in Send
    /\ starve \in BOOLEAN
    /\ acked \in BOOLEAN
    /\ outcome \in {"none", "complete", "cancelled"}
    /\ closing \in {"no", "stop", "send"}

\* The poll that is being sent, up to the flag that says it has been processed,
\* exists, and is neither marked as processed nor queued: its requester cannot
\* delete it, send it again or take it for answered meanwhile, whatever waits
\* have timed out (SASPollMessage.cpp:37-67, 91-110).
SendsOnlyLive ==
    send.pc \in {"exchanging", "copying", "flagging"} =>
        /\ poll[send.of].alive
        /\ ~poll[send.of].received
        /\ ~poll[send.of].queued

\* A requester none of whose waits has timed out reads what has become of the
\* poll it waited for: all is done, and a success comes with the answer to this
\* poll, not to an earlier one of the same object (SASPollMessage.cpp:52-119).
AnswerInTime ==
    \A r \in Requester :
        pc[r] = "answered" /\ ~late[r] =>
            /\ poll[r].received
            /\ poll[r].ret = "success" => poll[r].of = phase[r]

\* Without a time-out, internals is told that a transfer is complete only if
\* the machine has carried it out (SASPersonalBanker.cpp:375-432).
ReportedInTime ==
    outcome = "complete" /\ ~late[Transfer] => acked

\* The same with or without time-outs, once the machine has agreed to the
\* transfer.  The code says of the answer to the acknowledgement "if response
\* status = 0, then transfer complete" and sets a "default in case long poll
\* fails" (SASPersonalBanker.cpp:397-401).
ReportedIsCarriedOut ==
    outcome = "complete" /\ poll[Transfer].status = "good" => acked

\* The end of a transfer leaves the queue open to all polls, on every path.
StarvationIsLifted == pc[Transfer] \in {"deleting", "idle"} => ~starve

\* Every requester gets out of its waits, its resets and its destructor: the
\* one that makes transfers always, the others unless transfers keep closing the
\* queue for ever.
WaitsEnd ==
    /\ pc[Transfer] # "idle" ~> pc[Transfer] = "idle"
    /\ \A r \in Requester :
          []<>starve \/ (pc[r] # "idle" ~> pc[r] = "idle")

\* A shutdown comes to its end, and no poll is dropped that a thread waits for.
ShutdownCompletes ==
    /\ closing = "stop" ~> send.pc = "stopped"
    /\ [](send.pc = "stopped" => \A r \in Requester : pc[r] = "idle")

-----------------------------------------------------------------------------
(* Why the safety properties hold *)

\* The requester has not left its first wait since the poll was queued.
InTime(r) == ~late[r] => pc[r] = "waiting" /\ poll[r].sem = 0

\* The last good answer copied is the answer to the poll as it was last queued.
Current(r) == poll[r].ret = "success" => poll[r].of = phase[r]

\* The sender has a poll of a requester, and knows more the further it is.
Sending ==
    /\ send.pc \in {"exchanging", "copying", "flagging", "unlocking"} =>
          send.of \in Requester
    /\ send.pc \in {"exchanging", "copying", "flagging"} =>
          /\ poll[send.of].alive /\ ~poll[send.of].received /\ ~poll[send.of].queued
          /\ ~send.gone
          /\ InTime(send.of)
    /\ send.pc = "flagging" => Current(send.of)
    /\ send.pc = "unlocking" =>
          \/ late[send.of]
          \/ /\ ~send.gone
             /\ poll[send.of].alive /\ poll[send.of].received
             /\ InTime(send.of)
             /\ Current(send.of)

\* A poll exists while its requester is not idle, and a queued one has not been
\* processed.  One that was signalled in time has.
Waiting ==
    \A r \in Requester :
        /\ poll[r].alive <=> pc[r] # "idle"
        /\ poll[r].queued => poll[r].alive /\ ~poll[r].received /\ InTime(r)
        /\ ~late[r] /\ (pc[r] = "answered" \/ (pc[r] = "waiting" /\ poll[r].sem = 1)) =>
              poll[r].received /\ Current(r)

\* What is known of the machine once the acknowledgement has a good answer.
Carried ==
    /\ poll[Transfer].status = "unset" => poll[Transfer].of = 0
    /\ poll[Transfer].of = 2 => phase[Transfer] = 2
    /\ poll[Transfer].of = 2 /\ poll[Transfer].status = "good" => acked
    /\ send.pc = "copying" /\ send.of = Transfer /\ phase[Transfer] = 2 /\ send.reply = "good"
          => acked
    /\ send.pc = "copying" => /\ send.reply \in {"good", "refused", "lost"}
                              /\ (send.reply = "lost") <=> (poll[send.of].ret = "failed")

\* The inductive invariant that the safety properties follow from.
IInv ==
    /\ TypeOK
    /\ Sending
    /\ Waiting
    /\ Carried
    /\ StarvationIsLifted
    /\ ReportedInTime

=============================================================================
