--------------------------- MODULE SasPollProofs ---------------------------
(***************************************************************************)
(* Proofs about SasPoll, for any set of requesters.                        *)
(*                                                                         *)
(* IInv is the inductive invariant.  Its heart is that a poll is marked as *)
(* processed by one side only: by the sender for a poll it has taken, and  *)
(* by a requester that times out only for one it has itself taken back.    *)
(* Every step that deletes or reuses a poll asks for the mark first, so a  *)
(* poll being sent is safe; and as long as no wait of a requester has      *)
(* timed out, the signal finds it still waiting for that very poll.        *)
(***************************************************************************)
EXTENDS SasPoll, TLAPS

-----------------------------------------------------------------------------
(* Records *)

\* A fresh poll and no poll are polls.
LEMMA FreshPolls == NewPoll \in Poll /\ NoPoll \in Poll
<1>1. NewPoll \in Poll
  BY DEF NewPoll, Poll
<1>2. [NewPoll EXCEPT !.alive = FALSE, !.queued = FALSE] \in Poll
  BY <1>1 DEF Poll
<1> QED
  BY <1>1, <1>2 DEF NoPoll

\* No poll is not there, not queued, not processed and has no answer.
LEMMA NoPollFields ==
  /\ ~NoPoll.alive /\ ~NoPoll.queued /\ ~NoPoll.received
  /\ NoPoll.sem = 0 /\ NoPoll.of = 0 /\ NoPoll.status = "unset"
BY DEF NoPoll, NewPoll

\* The updates that the actions make keep a poll a poll.
LEMMA PollUpdates ==
  ASSUME NEW p \in Poll, NEW b \in BOOLEAN, NEW v \in {"success", "failed"},
         NEW x \in {"good", "refused"}, NEW y \in {1, 2}
  PROVE  /\ [p EXCEPT !.queued = FALSE] \in Poll
         /\ [p EXCEPT !.queued = FALSE, !.sem = 1, !.received = b] \in Poll
         /\ [p EXCEPT !.received = FALSE, !.sem = 0, !.ret = "success",
                       !.queued = TRUE] \in Poll
         /\ [p EXCEPT !.queued = FALSE, !.ret = "success"] \in Poll
         /\ [p EXCEPT !.ret = v] \in Poll
         /\ [p EXCEPT !.status = x, !.of = y] \in Poll
         /\ [p EXCEPT !.received = TRUE] \in Poll
         /\ [p EXCEPT !.sem = 1] \in Poll
<1>1. [p EXCEPT !.queued = FALSE] \in Poll
  BY DEF Poll
<1>2. [p EXCEPT !.queued = FALSE, !.sem = 1, !.received = b] \in Poll
  BY DEF Poll
<1>3. [p EXCEPT !.received = FALSE, !.sem = 0, !.ret = "success",
                !.queued = TRUE] \in Poll
  BY DEF Poll
<1>4. [p EXCEPT !.queued = FALSE, !.ret = "success"] \in Poll
  BY DEF Poll
<1>5. [p EXCEPT !.ret = v] \in Poll
  BY DEF Poll
<1>6. [p EXCEPT !.status = x, !.of = y] \in Poll
  BY DEF Poll
<1>7. [p EXCEPT !.received = TRUE] \in Poll /\ [p EXCEPT !.sem = 1] \in Poll
  BY DEF Poll
<1> QED
  BY <1>1, <1>2, <1>3, <1>4, <1>5, <1>6, <1>7

\* One requester's poll replaced by a poll.
LEMMA OnePoll ==
  ASSUME NEW f \in [Requester -> Poll], NEW r \in Requester, NEW p \in Poll
  PROVE  [f EXCEPT ![r] = p] \in [Requester -> Poll]
OBVIOUS

\* The sender's states are states of a sender.
LEMMA SendUpdates ==
  /\ Idle \in Send
  /\ [Idle EXCEPT !.pc = "stopped"] \in Send
  /\ \A r \in Requester : [Idle EXCEPT !.pc = "exchanging", !.of = r] \in Send
  /\ \A s \in Send, reply \in {"good", "refused", "lost"} :
        [s EXCEPT !.pc = "copying", !.reply = reply] \in Send
  /\ \A s \in Send : [s EXCEPT !.pc = "flagging"] \in Send
  /\ \A s \in Send : [s EXCEPT !.pc = "unlocking"] \in Send
  /\ \A s \in Send, b \in BOOLEAN : [s EXCEPT !.gone = b] \in Send
BY DEF Idle, Send, SendPc

LEMMA InitInv == ASSUME Init PROVE IInv
<1>1. TypeOK
  BY FreshPolls, SendUpdates DEF Init, TypeOK
<1>2. Sending /\ Waiting
  BY NoPollFields DEF Init, Sending, Waiting, Idle
<1>3. Carried /\ StarvationIsLifted /\ ReportedInTime
  BY SasPollAssumption, NoPollFields
     DEF Init, Carried, StarvationIsLifted, ReportedInTime, Idle
<1> QED
  BY <1>1, <1>2, <1>3 DEF IInv

-----------------------------------------------------------------------------
(* One lemma per action *)

\* A new poll starts unprocessed, and nothing of the requester's is being sent.
LEMMA RequestInv == ASSUME IInv, NEW r \in Requester, Request(r) PROVE IInv'
<1> USE SasPollAssumption DEF IInv, Request, NewPoll
<1>1. TypeOK'
  <2>1. poll' \in [Requester -> Poll]
    BY FreshPolls, OnePoll DEF TypeOK
  <2> QED
    BY <2>1 DEF TypeOK
<1>2. Sending'
  BY DEF TypeOK, Poll, Sending, Waiting, InTime, Current
<1>3. Waiting'
  BY DEF TypeOK, Poll, Sending, Waiting, InTime, Current
<1>4. Carried'
  BY DEF TypeOK, Poll, Sending, Waiting, Carried
<1>5. StarvationIsLifted' /\ ReportedInTime'
  BY DEF TypeOK, Poll, Waiting, Current, Carried, StarvationIsLifted, ReportedInTime
<1> QED
  BY <1>1, <1>2, <1>3, <1>4, <1>5

\* A wait that ends in time was signalled.
LEMMA AnsweredInv == ASSUME IInv, NEW r \in Requester, Answered(r) PROVE IInv'
<1> USE SasPollAssumption DEF IInv, Answered
<1>1. TypeOK'
  BY DEF TypeOK
<1>2. Sending'
  BY DEF TypeOK, Poll, Sending, Waiting, InTime, Current
<1>3. Waiting'
  BY DEF TypeOK, Poll, Sending, Waiting, InTime, Current
<1>4. Carried'
  BY DEF TypeOK, Poll, Sending, Waiting, Carried
<1>5. StarvationIsLifted' /\ ReportedInTime'
  BY DEF TypeOK, Poll, Waiting, Current, Carried, StarvationIsLifted, ReportedInTime
<1> QED
  BY <1>1, <1>2, <1>3, <1>4, <1>5

\* A time-out makes the requester late; it does not touch a poll being sent.
LEMMA TimeOutInv == ASSUME IInv, NEW r \in Requester, TimeOut(r) PROVE IInv'
<1> USE SasPollAssumption DEF IInv, TimeOut
<1>1. TypeOK'
  <2>1. poll' \in [Requester -> Poll]
    <3>1. poll[r] \in Poll /\ (poll[r].received \/ poll[r].queued) \in BOOLEAN
      BY DEF TypeOK, Poll
    <3>2. [poll[r] EXCEPT !.queued = FALSE, !.sem = 1,
                          !.received = poll[r].received \/ poll[r].queued] \in Poll
      BY <3>1, PollUpdates
    <3> QED
      BY <3>2, OnePoll DEF TypeOK
  <2> QED
    BY <2>1 DEF TypeOK
<1>2. Sending'
  BY DEF TypeOK, Poll, Sending, Waiting, InTime, Current
<1>3. Waiting'
  BY DEF TypeOK, Poll, Sending, Waiting, InTime, Current
<1>4. Carried'
  BY DEF TypeOK, Poll, Sending, Waiting, Carried
<1>5. StarvationIsLifted' /\ ReportedInTime'
  BY DEF TypeOK, Poll, Waiting, Current, Carried, StarvationIsLifted, ReportedInTime
<1> QED
  BY <1>1, <1>2, <1>3, <1>4, <1>5

\* Reading the result changes no poll.
LEMMA FinishInv == ASSUME IInv, NEW r \in Requester, Finish(r) PROVE IInv'
<1> USE SasPollAssumption DEF IInv, Finish
<1>1. TypeOK'
  BY DEF TypeOK
<1>2. Sending'
  BY DEF TypeOK, Poll, Sending, Waiting, InTime, Current
<1>3. Waiting'
  BY DEF TypeOK, Poll, Sending, Waiting, InTime, Current
<1>4. Carried'
  BY DEF TypeOK, Poll, Sending, Waiting, Carried
<1>5. StarvationIsLifted' /\ ReportedInTime'
  BY DEF TypeOK, Poll, Waiting, Current, Carried, StarvationIsLifted, ReportedInTime
<1> QED
  BY <1>1, <1>2, <1>3, <1>4, <1>5

\* Only a processed poll is deleted, so none that is being sent.
LEMMA DeleteInv == ASSUME IInv, NEW r \in Requester, Delete(r) PROVE IInv'
<1> USE SasPollAssumption DEF IInv, Delete, NoPoll, NewPoll
<1>1. TypeOK'
  <2>1. poll' \in [Requester -> Poll]
    BY FreshPolls, OnePoll DEF TypeOK
  <2>2. send' \in Send
    BY SendUpdates DEF TypeOK, Send
  <2> QED
    BY <2>1, <2>2 DEF TypeOK
<1>2. Sending'
  BY DEF TypeOK, Poll, Sending, Waiting, InTime, Current
<1>3. Waiting'
  BY DEF TypeOK, Poll, Sending, Waiting, InTime, Current
<1>4. Carried'
  BY DEF TypeOK, Poll, Sending, Waiting, Carried
<1>5. StarvationIsLifted' /\ ReportedInTime'
  BY DEF TypeOK, Poll, Waiting, Current, Carried, StarvationIsLifted, ReportedInTime
<1> QED
  BY <1>1, <1>2, <1>3, <1>4, <1>5

\* The decision to acknowledge changes no poll.
LEMMA AcknowledgeInv == ASSUME IInv, Acknowledge PROVE IInv'
<1> USE SasPollAssumption DEF IInv, Acknowledge, LooksGood
<1>1. TypeOK'
  BY DEF TypeOK
<1>2. Sending'
  BY DEF TypeOK, Poll, Sending, Waiting, InTime, Current
<1>3. Waiting'
  BY DEF TypeOK, Poll, Sending, Waiting, InTime, Current
<1>4. Carried'
  BY DEF TypeOK, Poll, Sending, Waiting, Carried
<1>5. StarvationIsLifted' /\ ReportedInTime'
  BY DEF TypeOK, Poll, Waiting, Current, Carried, StarvationIsLifted, ReportedInTime
<1> QED
  BY <1>1, <1>2, <1>3, <1>4, <1>5

\* Only a processed poll is queued again.
LEMMA ResetInv == ASSUME IInv, Reset PROVE IInv'
<1> USE SasPollAssumption DEF IInv, Reset
<1>1. TypeOK'
  <2>1. poll' \in [Requester -> Poll]
    BY PollUpdates, OnePoll DEF TypeOK
  <2> QED
    BY <2>1 DEF TypeOK
<1>2. Sending'
  BY DEF TypeOK, Poll, Sending, Waiting, InTime, Current
<1>3. Waiting'
  BY DEF TypeOK, Poll, Sending, Waiting, InTime, Current
<1>4. Carried'
  BY DEF TypeOK, Poll, Sending, Waiting, Carried
<1>5. StarvationIsLifted' /\ ReportedInTime'
  BY DEF TypeOK, Poll, Waiting, Current, Carried, StarvationIsLifted, ReportedInTime
<1> QED
  BY <1>1, <1>2, <1>3, <1>4, <1>5

\* A success that is reported in time is the answer to the acknowledgement.
LEMMA ReportInv == ASSUME IInv, NEW result \in {"complete", "cancelled"}, Report(result) PROVE IInv'
<1> USE SasPollAssumption DEF IInv, Report, LooksGood, LooksBad
<1>1. TypeOK'
  BY DEF TypeOK
<1>2. Sending'
  BY DEF TypeOK, Poll, Sending, Waiting, InTime, Current
<1>3. Waiting'
  BY DEF TypeOK, Poll, Sending, Waiting, InTime, Current
<1>4. Carried'
  BY DEF TypeOK, Poll, Sending, Waiting, Carried
<1>5. StarvationIsLifted' /\ ReportedInTime'
  BY DEF TypeOK, Poll, Waiting, Current, Carried, StarvationIsLifted, ReportedInTime
<1> QED
  BY <1>1, <1>2, <1>3, <1>4, <1>5

\* A queued poll exists and has not been processed.
LEMMA TakeInv == ASSUME IInv, NEW r \in Requester, Take(r) PROVE IInv'
<1> USE SasPollAssumption DEF IInv, Take, Idle, requesters
<1>1. TypeOK'
  <2>1. poll' \in [Requester -> Poll]
    BY PollUpdates, OnePoll DEF TypeOK
  <2>2. send' \in Send
    BY SendUpdates DEF TypeOK
  <2> QED
    BY <2>1, <2>2 DEF TypeOK
<1>2. Sending'
  BY DEF TypeOK, Poll, Sending, Waiting, InTime, Current
<1>3. Waiting'
  BY DEF TypeOK, Poll, Sending, Waiting, InTime, Current
<1>4. Carried'
  BY DEF TypeOK, Poll, Sending, Waiting, Carried
<1>5. StarvationIsLifted' /\ ReportedInTime'
  BY DEF TypeOK, Poll, Waiting, Current, Carried, StarvationIsLifted, ReportedInTime
<1> QED
  BY <1>1, <1>2, <1>3, <1>4, <1>5

\* The machine's answer concerns the poll being sent only.
LEMMA ExchangeInv == ASSUME IInv, NEW reply \in {"good", "refused", "lost"}, Exchange(reply) PROVE IInv'
<1> USE SasPollAssumption DEF IInv, Exchange, requesters
<1>1. TypeOK'
  <2>1. poll' \in [Requester -> Poll]
    BY PollUpdates, OnePoll DEF TypeOK, Sending
  <2>2. send' \in Send
    BY SendUpdates DEF TypeOK
  <2> QED
    BY <2>1, <2>2 DEF TypeOK
<1>2. Sending'
  BY DEF TypeOK, Poll, Sending, Waiting, InTime, Current
<1>3. Waiting'
  BY DEF TypeOK, Poll, Sending, Waiting, InTime, Current
<1>4. Carried'
  BY DEF TypeOK, Poll, Sending, Waiting, Carried
<1>5. StarvationIsLifted' /\ ReportedInTime'
  BY DEF TypeOK, Poll, Waiting, Current, Carried, StarvationIsLifted, ReportedInTime
<1> QED
  BY <1>1, <1>2, <1>3, <1>4, <1>5

\* A good answer is copied before the poll is marked.
LEMMA CopyInv == ASSUME IInv, Copy PROVE IInv'
<1> USE SasPollAssumption DEF IInv, Copy, requesters
<1>1. TypeOK'
  <2>1. poll' \in [Requester -> Poll]
    BY PollUpdates, OnePoll DEF TypeOK, Sending, Carried
  <2>2. send' \in Send
    BY SendUpdates DEF TypeOK
  <2> QED
    BY <2>1, <2>2 DEF TypeOK
<1>2. Sending'
  BY DEF TypeOK, Poll, Sending, Waiting, InTime, Current
<1>3. Waiting'
  BY DEF TypeOK, Poll, Sending, Waiting, InTime, Current
<1>4. Carried'
  BY DEF TypeOK, Poll, Sending, Waiting, Carried
<1>5. StarvationIsLifted' /\ ReportedInTime'
  BY DEF TypeOK, Poll, Waiting, Current, Carried, StarvationIsLifted, ReportedInTime
<1> QED
  BY <1>1, <1>2, <1>3, <1>4, <1>5

\* The mark comes before the signal.
LEMMA FlagInv == ASSUME IInv, Flag PROVE IInv'
<1> USE SasPollAssumption DEF IInv, Flag, requesters
<1>1. TypeOK'
  <2>1. poll' \in [Requester -> Poll]
    BY PollUpdates, OnePoll DEF TypeOK, Sending
  <2>2. send' \in Send
    BY SendUpdates DEF TypeOK
  <2> QED
    BY <2>1, <2>2 DEF TypeOK
<1>2. Sending'
  BY DEF TypeOK, Poll, Sending, Waiting, InTime, Current
<1>3. Waiting'
  BY DEF TypeOK, Poll, Sending, Waiting, InTime, Current
<1>4. Carried'
  BY DEF TypeOK, Poll, Sending, Waiting, Carried
<1>5. StarvationIsLifted' /\ ReportedInTime'
  BY DEF TypeOK, Poll, Waiting, Current, Carried, StarvationIsLifted, ReportedInTime
<1> QED
  BY <1>1, <1>2, <1>3, <1>4, <1>5

\* The signal comes after the mark, and after a deletion its requester is late.
LEMMA UnlockInv == ASSUME IInv, Unlock PROVE IInv'
<1> USE SasPollAssumption DEF IInv, Unlock, Idle, requesters
<1>1. TypeOK'
  <2>1. poll' \in [Requester -> Poll]
    <3>1. send.of \in Requester /\ poll[send.of] \in Poll
      BY DEF TypeOK, Sending
    <3>2. [poll EXCEPT ![send.of].sem = 1] \in [Requester -> Poll]
      BY <3>1, PollUpdates, OnePoll DEF TypeOK
    <3> QED
      BY <3>2 DEF TypeOK
  <2>2. send' \in Send
    BY SendUpdates DEF TypeOK
  <2> QED
    BY <2>1, <2>2 DEF TypeOK
<1>2. Sending'
  BY DEF TypeOK, Poll, Sending, Waiting, InTime, Current
<1>3. Waiting'
  BY DEF TypeOK, Poll, Sending, Waiting, InTime, Current
<1>4. Carried'
  BY DEF TypeOK, Poll, Sending, Waiting, Carried
<1>5. StarvationIsLifted' /\ ReportedInTime'
  BY DEF TypeOK, Poll, Waiting, Current, Carried, StarvationIsLifted, ReportedInTime
<1> QED
  BY <1>1, <1>2, <1>3, <1>4, <1>5

\* The sender ends with no poll.
LEMMA StopInv == ASSUME IInv, Stop PROVE IInv'
<1> USE SasPollAssumption DEF IInv, Stop, Idle, requesters
<1>1. TypeOK'
  <2>1. poll' \in [Requester -> Poll]
    <3>1. ASSUME NEW r \in Requester
          PROVE  [poll EXCEPT ![r].queued = FALSE] \in [Requester -> Poll]
      BY PollUpdates, OnePoll DEF TypeOK
    <3> QED
      BY <3>1 DEF TypeOK
  <2>2. send' \in Send
    BY SendUpdates DEF TypeOK
  <2> QED
    BY <2>1, <2>2 DEF TypeOK
<1>2. Sending'
  BY DEF TypeOK, Poll, Sending, Waiting, InTime, Current
<1>3. Waiting'
  BY DEF TypeOK, Poll, Sending, Waiting, InTime, Current
<1>4. Carried'
  BY DEF TypeOK, Poll, Sending, Waiting, Carried
<1>5. StarvationIsLifted' /\ ReportedInTime'
  BY DEF TypeOK, Poll, Waiting, Current, Carried, StarvationIsLifted, ReportedInTime
<1> QED
  BY <1>1, <1>2, <1>3, <1>4, <1>5

-----------------------------------------------------------------------------
(* The specification *)

\* Shutdown and StopSending change only how far the shutdown is.
LEMMA ClosingInv == ASSUME IInv, Shutdown \/ StopSending PROVE IInv'
BY DEF Shutdown, StopSending, IInv, TypeOK, Sending, InTime, Current, Waiting, Carried,
   StarvationIsLifted, ReportedInTime

LEMMA NextInv == ASSUME IInv, [Next]_vars PROVE IInv'
<1>1. CASE UNCHANGED vars
  BY <1>1 DEF vars, IInv, TypeOK, Sending, InTime, Current, Waiting, Carried,
     StarvationIsLifted, ReportedInTime
<1>2. ASSUME NEW r \in Requester, Request(r) \/ RequesterStep(r) PROVE IInv'
  BY <1>2, RequestInv, AnsweredInv, TimeOutInv, FinishInv, DeleteInv DEF RequesterStep
<1>3. CASE TransferStep
  BY <1>3, AcknowledgeInv, ResetInv, ReportInv DEF TransferStep
<1>4. CASE SendStep
  BY <1>4, TakeInv, ExchangeInv, CopyInv, FlagInv, UnlockInv, StopInv DEF SendStep
<1>5. CASE Shutdown \/ StopSending
  BY <1>5, ClosingInv
<1> QED
  BY <1>1, <1>2, <1>3, <1>4, <1>5 DEF Next

\* IInv holds in every reachable state (it stands for the code as a whole).
THEOREM Invariance == Spec => []IInv
BY InitInv, NextInv, PTL DEF Spec

\* Polls, sender and shutdown keep their types (SASPollMessage.cpp).
THEOREM TypeCorrect == Spec => []TypeOK
<1>1. IInv => TypeOK
  BY DEF IInv
<1> QED
  BY <1>1, Invariance, PTL

\* The poll that is being sent exists and is neither marked as processed nor
\* queued, for any number of threads (SASPollMessage.cpp:37-67, 91-110).
THEOREM SendingIsSafe == Spec => []SendsOnlyLive
<1>1. IInv => SendsOnlyLive
  BY DEF IInv, Sending, SendsOnlyLive
<1> QED
  BY <1>1, Invariance, PTL

\* Without a time-out a requester reads the answer to the poll it waited for
\* (SASPollMessage.cpp:52-119).
THEOREM AnswersMatch == Spec => []AnswerInTime
<1>1. IInv => AnswerInTime
  BY DEF IInv, Waiting, Current, AnswerInTime
<1> QED
  BY <1>1, Invariance, PTL

\* Without a time-out a transfer that is reported complete has been carried out
\* by the machine (SASPersonalBanker.cpp:375-432).
THEOREM ReportsAreTrue == Spec => []ReportedInTime
<1>1. IInv => ReportedInTime
  BY DEF IInv
<1> QED
  BY <1>1, Invariance, PTL

\* No path through a transfer leaves the queue closed to other polls
\* (SASPersonalBanker.cpp:302-311, 434-452).
THEOREM QueueReopens == Spec => []StarvationIsLifted
<1>1. IInv => StarvationIsLifted
  BY DEF IInv
<1> QED
  BY <1>1, Invariance, PTL

=============================================================================
