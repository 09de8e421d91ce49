------------------------- MODULE PollerAnswerProofs -------------------------
(***************************************************************************)
(* The internals, who wait for an empty resend list before they reboot,    *)
(* are not forgotten by the three threads of PollerResend: for any offers  *)
(* without a change of the slot master id, and one request in all.         *)
(*                                                                         *)
(* Both conditions are needed.  A change of the slot master id leaves the  *)
(* list without a look at m_notifyResendEmpty, and a second request that   *)
(* comes between the answer to the first and the reset of that flag is     *)
(* forgotten.                                                              *)
(***************************************************************************)
EXTENDS PollerResendProofs

-----------------------------------------------------------------------------
(* What a thread does first *)

\* The first step after the one that is done.
LEMMA FirstAfter ==
  ASSUME NEW s \in ToDo, s # <<>>
  PROVE  /\ Head(s) \in {"check", "tell", "reset", "count", "countOut", "ask"}
         /\ Head(s) \in {"check", "reset"} =>
               FirstOf(<<>> \o Tail(s)) \in {"nothing", "check", "count"}
         /\ Head(s) \in {"check", "ask"} => FirstOf(<<"tell">> \o Tail(s)) = "tell"
         /\ Head(s) = "tell" => FirstOf(<<"reset">> \o Tail(s)) = "reset"
         /\ Head(s) = "count" => FirstOf(<<>> \o Tail(s)) = "check"
         /\ Head(s) \in {"countOut", "ask"} => FirstOf(<<>> \o Tail(s)) = "nothing"
<1>a. /\ FirstOf(<<>>) = "nothing"
      /\ \A x : FirstOf(<<x>>) = x
      /\ \A x, y : FirstOf(<<x, y>>) = x
      /\ \A x, y, z : FirstOf(<<x, y, z>>) = x
  BY DEF FirstOf
<1>1. CASE \E x \in {"check", "tell", "reset", "countOut", "ask"} : s = <<x>>
  <2>1. PICK x \in {"check", "tell", "reset", "countOut", "ask"} : s = <<x>>
    BY <1>1
  <2>2. /\ Head(s) = x /\ <<>> \o Tail(s) = <<>>
        /\ <<"tell">> \o Tail(s) = <<"tell">> /\ <<"reset">> \o Tail(s) = <<"reset">>
    BY <2>1, StepDone
  <2> QED
    BY <1>a, <2>1, <2>2
<1>2. CASE \E x \in {"check", "tell", "reset", "count"} : s = <<x, "check">>
  <2>1. PICK x \in {"check", "tell", "reset", "count"} : s = <<x, "check">>
    BY <1>2
  <2>2. /\ Head(s) = x /\ <<>> \o Tail(s) = <<"check">>
        /\ <<"tell">> \o Tail(s) = <<"tell", "check">>
        /\ <<"reset">> \o Tail(s) = <<"reset", "check">>
    BY <2>1, StepDone
  <2> QED
    BY <1>a, <2>1, <2>2
<1>3. CASE \E x \in {"check", "tell", "reset"} : s = <<x, "count", "check">>
  <2>1. PICK x \in {"check", "tell", "reset"} : s = <<x, "count", "check">>
    BY <1>3
  <2>2. /\ Head(s) = x /\ <<>> \o Tail(s) = <<"count", "check">>
        /\ <<"tell">> \o Tail(s) = <<"tell", "count", "check">>
        /\ <<"reset">> \o Tail(s) = <<"reset", "count", "check">>
    BY <2>1, StepDone
  <2>3. /\ FirstOf(<<"count", "check">>) = "count"
        /\ FirstOf(<<"tell", "count", "check">>) = "tell"
        /\ FirstOf(<<"reset", "count", "check">>) = "reset"
    BY <1>a
  <2> QED
    BY <2>1, <2>2, <2>3
<1> QED
  BY <1>1, <1>2, <1>3 DEF ToDo, ToCount

\* One thread's steps replaced.
LEMMA FirstStepOne ==
  ASSUME TypeOK, NEW t \in Threads, NEW s, after' = [after EXCEPT ![t] = s]
  PROVE  \A u \in Threads : FirstStep(u)' = IF u = t THEN FirstOf(s) ELSE FirstStep(u)
<1>1. \A u \in Threads : after'[u] = IF u = t THEN s ELSE after[u]
  BY DEF TypeOK, ThreadTypes
<1> QED
  BY <1>1 DEF FirstStep, FirstOf

\* Only a request is counted as one.
LEMMA RequestsStay ==
  ASSUME TypeOK, HeldItem, [Next]_vars
  PROVE  /\ used.requests \in Nat /\ used'.requests \in Nat
         /\ used'.requests >= used.requests
<1>1. used \in [{"faults", "crashes", "requests"} -> Nat]
  BY DEF TypeOK, UsedTypes
<1>2. used' = used \/ \E what \in {"faults", "crashes", "requests"} : Spend(what)
  BY UsedStep DEF CrashAndRestart
<1>3. CASE used' = used
  BY <1>1, <1>3
<1>4. ASSUME NEW what \in {"faults", "crashes", "requests"}, Spend(what)
      PROVE  used'.requests \in Nat /\ used'.requests >= used.requests
  <2>1. used' = [used EXCEPT ![what] = @ + 1]
    BY <1>4 DEF Spend
  <2>2. used["requests"] \in Nat
    BY <1>1
  <2>3. used'["requests"] = IF what = "requests" THEN used["requests"] + 1 ELSE used["requests"]
    BY <1>1, <2>1
  <2> QED
    BY <2>2, <2>3
<1> QED
  BY <1>1, <1>2, <1>3, <1>4

-----------------------------------------------------------------------------
(* No change of the slot master id *)

\* Without an offer of one there is none, and the host answers none.
LEMMA NoSlotmastStep ==
  ASSUME TypeOK, HeldItem, NoSlotmast, [Next]_vars,
         \A offer \in Offers : offer.kind \notin SlotMastId
  PROVE  NoSlotmast'
<1>a. \A n \in Submitted' : log'[n].kind \notin SlotMastId
  <2> SUFFICES ASSUME NEW n \in Submitted' PROVE log'[n].kind \notin SlotMastId
    OBVIOUS
  <2>1. CASE n \in Submitted
    BY <2>1, LogGrows DEF NoSlotmast, IsSlotMast
  <2>2. CASE Submits /\ n = Len(log) + 1
    BY <2>2, Submitting
  <2> QED
    BY <2>1, <2>2, NewTransactions
<1>b. ASSUME \A i \in DOMAIN fromHost' : fromHost'[i].type # "slotmast"
      PROVE  NoSlotmast'
  BY <1>a, <1>b DEF NoSlotmast, IsSlotMast
<1>c. ASSUME fromHost' = fromHost \/ fromHost' = <<>>
      PROVE  NoSlotmast'
  <2>1. \A i \in DOMAIN fromHost' : i \in DOMAIN fromHost /\ fromHost'[i] = fromHost[i]
    BY <1>c
  <2> QED
    BY <1>b, <2>1 DEF NoSlotmast
<1>d. ASSUME NEW n \in Submitted, NEW c, SendPacket(n, c)
      PROVE  NoSlotmast'
  <2>1. CASE fromHost' = fromHost \o Answers(n)
    <3>1. Answers(n) \in Seq(Message) /\ fromHost \in Seq(Message)
      <4>1. Answers(n) \in Seq(Answer) /\ Answer \subseteq Message
        BY AnswersType DEF Message
      <4> QED
        BY <4>1, SeqMonotonic DEF TypeOK, NetTypes
    <3>2. \A i \in DOMAIN fromHost' :
             \/ i \in DOMAIN fromHost /\ fromHost'[i] = fromHost[i]
             \/ \E j \in DOMAIN Answers(n) : fromHost'[i] = Answers(n)[j]
      BY <2>1, <3>1, ConcatElements
    <3>3. \A j \in DOMAIN Answers(n) : Answers(n)[j].type # "slotmast"
      BY DEF Answers, NoSlotmast
    <3> QED
      BY <1>b, <3>2, <3>3 DEF NoSlotmast
  <2> QED
    BY <1>c, <1>d, <2>1, Packet
<1>e. ASSUME NEW type, Reads(type)
      PROVE  NoSlotmast'
  BY <1>b, <1>e, Reading DEF NoSlotmast
<1>1. CASE ResendItem
  BY <1>1, <1>d, HeldPacket
<1>2. CASE DrainQueue
  <2>1. UNCHANGED net \/ (Head(queue) \in Submitted /\ SendPacket(Head(queue), 0))
    BY <1>2, DrainedPacket
  <2> QED
    BY <1>c, <1>d, <2>1 DEF net
<1>3. CASE ReadAck
  BY <1>3, <1>e DEF ReadAck
<1>4. CASE ReadTicketResponse
  BY <1>4, <1>e DEF ReadTicketResponse
<1>5. CASE ReadSlotMastResponse
  BY <1>5, <1>e DEF ReadSlotMastResponse
<1>6. CASE ReadHeartbeatResponse
  BY <1>6, <1>e DEF ReadHeartbeatResponse
<1>7. CASE PmtReports
  <2>1. PICK up \in BOOLEAN : HostReportsPmt(up)
    BY <1>7 DEF PmtReports
  <2> DEFINE m == [type |-> "pmt", up |-> up]
  <2>2. fromHost' = Append(fromHost, m) /\ m \in Message /\ fromHost \in Seq(Message)
        /\ m.type # "slotmast"
    BY <2>1 DEF HostReportsPmt, Message, TypeOK, NetTypes
  <2> HIDE DEF m
  <2>3. \A i \in DOMAIN fromHost' :
           fromHost'[i] = m \/ (i \in DOMAIN fromHost /\ fromHost'[i] = fromHost[i])
    BY <2>2, Appended
  <2> QED
    BY <1>b, <2>2, <2>3 DEF NoSlotmast
<1>8. CASE LinkDown
  BY <1>8, <1>c DEF LinkDown, Disconnect
<1>9. CASE CrashAndRestart
  BY <1>9, <1>c DEF CrashAndRestart, Disconnect
<1>10. CASE \/ Submits
           \/ CountUp
           \/ RequestNotify
           \/ AnswerIfEmpty
           \/ Responses
           \/ Checks
           \/ Tells
           \/ Resets
           \/ CountsDown
           \/ CheckForConnect
           \/ CheckOnline
           \/ FetchItem
           \/ SkipItem
           \/ DropBadItem
           \/ DropItemNotToResend
           \/ ResendFreedItem
           \/ Elapse
           \/ UNCHANGED vars
  <2>1. UNCHANGED <<fromHost>>
    BY <1>10 DEF Submit, CountUp, RequestNotify, AnswerIfEmpty,
      TicketResponseReceived, CheckEmpty, TellEmpty, ResetNotify, CountDown,
      CheckForConnect, CheckOnline, FetchItem, SkipItem, DropBadItem,
      DropItemNotToResend, ResendFreedItem, Elapse, Submits, Responses,
      Checks, Tells, Resets, CountsDown, net, vars
  <2> QED
    BY <1>c, <2>1
<1> QED
  BY <1>1, <1>2, <1>3, <1>4, <1>5, <1>6, <1>7, <1>8, <1>9, <1>10, NextCases

-----------------------------------------------------------------------------
(* The request is kept *)

\* The flag stays until the internals were told; when the last entry leaves, its
\* remover still has to look at the flag, and finds it set.
LEMMA RequestKeptStep ==
  ASSUME TypeOK, HeldItem, CountCovers, NoSlotmast, RequestKept, [Next]_vars,
         MaxRequests <= 1, MaxRequests \in Nat
  PROVE  RequestKept'
<1>a. /\ used.requests \in Nat /\ used'.requests \in Nat
      /\ used'.requests >= used.requests
  BY RequestsStay
<1>b. \A t \in Threads : after[t] \in ToDo
  BY DEF CountCovers
<1>c. /\ \A t \in Threads : FirstStep(t) \in {"ask", "tell", "reset"} => used.requests > 0
      /\ notify \/ waiting => used.requests > 0
      /\ waiting => notify /\ \A t \in Threads : FirstStep(t) # "reset"
      /\ waiting /\ DOMAIN list = {} =>
             \E t \in Threads : FirstStep(t) \notin {"nothing", "countOut"}
  BY DEF RequestKept
\* What has to be shown of the next state.
<1>d. ASSUME notify' \/ waiting' => used'.requests > 0,
             \A t \in Threads : FirstStep(t)' \in {"ask", "tell", "reset"} => used'.requests > 0,
             waiting' => notify' /\ \A t \in Threads : FirstStep(t)' # "reset",
             waiting' /\ DOMAIN list' = {} =>
                 \E t \in Threads : FirstStep(t)' \notin {"nothing", "countOut"}
      PROVE  RequestKept'
  BY <1>d DEF RequestKept
\* The threads have still to do what they had, and the list does not become empty.
<1>e. ASSUME UNCHANGED <<notify, waiting, after>>, DOMAIN list' = {} => DOMAIN list = {}
      PROVE  RequestKept'
  <2>1. \A t \in Threads : FirstStep(t)' = FirstStep(t)
    BY <1>e DEF FirstStep
  <2>2. used.requests > 0 => used'.requests > 0
    BY <1>a
  <2> QED
    BY <1>c, <1>d, <1>e, <2>1, <2>2
\* A thread is going to look at the list.
<1>f. ASSUME NEW t \in Threads, NEW s, after' = [after EXCEPT ![t] = s],
             UNCHANGED <<notify, waiting>>, FirstOf(s) = "check"
      PROVE  RequestKept'
  <2>1. \A u \in Threads : FirstStep(u)' = IF u = t THEN "check" ELSE FirstStep(u)
    BY <1>f, FirstStepOne
  <2>2. used.requests > 0 => used'.requests > 0
    BY <1>a
  <2>3. FirstStep(t)' \notin {"nothing", "countOut"}
    BY <2>1
  <2> QED
    BY <1>c, <1>d, <1>f, <2>1, <2>2, <2>3
\* A thread goes on that the internals do not depend on, or while the list has entries.
<1>g. ASSUME NEW t \in Threads, NEW s, after' = [after EXCEPT ![t] = s],
             UNCHANGED <<notify, waiting>>,
             FirstOf(s) \in {"nothing", "check", "count", "countOut"},
             \/ ~waiting
             \/ DOMAIN list' # {}
             \/ DOMAIN list = {} /\ FirstStep(t) \in {"nothing", "countOut"}
      PROVE  RequestKept'
  <2>1. \A u \in Threads : FirstStep(u)' = IF u = t THEN FirstOf(s) ELSE FirstStep(u)
    BY <1>g, FirstStepOne
  <2>2. used.requests > 0 => used'.requests > 0
    BY <1>a
  <2>3. \A u \in Threads : FirstStep(u)' \in {"ask", "tell", "reset"} => used'.requests > 0
    BY <1>c, <1>g, <2>1, <2>2
  <2>4. waiting' => notify' /\ \A u \in Threads : FirstStep(u)' # "reset"
    BY <1>c, <1>g, <2>1
  <2>5. waiting' /\ DOMAIN list' = {} =>
            \E u \in Threads : FirstStep(u)' \notin {"nothing", "countOut"}
    BY <1>c, <1>g, <2>1
  <2> QED
    BY <1>c, <1>d, <1>g, <2>2, <2>3, <2>4, <2>5
\* An entry is taken out, and its remover goes on with a look at the list.
<1>h. ASSUME NEW t \in Threads, NEW id, NEW isTicketIn, UNCHANGED <<notify, waiting>>,
             after' = [after EXCEPT ![t] = TicketSteps(id, isTicketIn)]
      PROVE  RequestKept'
  <2> DEFINE s == TicketSteps(id, isTicketIn)
  <2>1. FirstOf(s) = "check"
    BY DEF FirstOf, TicketSteps
  <2> HIDE DEF s
  <2>2. after' = [after EXCEPT ![t] = s]
    BY <1>h DEF s
  <2> QED
    BY <1>f, <1>h, <2>1, <2>2
<1>k. "queue" \in Threads /\ "send" \in Threads /\ "read" \in Threads
  BY DEF Threads
<1>l. FirstOf(<<"check">>) = "check" /\ FirstOf(<<>>) = "nothing"
      /\ FirstOf(<<"countOut">>) = "countOut" /\ FirstOf(<<"ask">>) = "ask"
  BY DEF FirstOf
<1>1. CASE Submits
  <2>1. PICK offer \in Offers : Submit(offer)
    BY <1>1 DEF Submits
  <2>2. UNCHANGED <<notify, waiting>> /\ after["queue"] = <<>>
    BY <2>1 DEF Submit, inner
  <2>3. DOMAIN list' = {} => DOMAIN list = {} /\ list' = list
    BY <2>1 DEF Submit, With
  <2>4. CASE after' = after
    BY <1>e, <2>2, <2>3, <2>4
  <2>5. CASE after' = [after EXCEPT !["queue"] = <<"countOut">>]
    <3>1. FirstStep("queue") = "nothing"
      BY <2>2, <1>l DEF FirstStep
    <3> QED
      BY <1>g, <1>k, <1>l, <2>2, <2>3, <2>5, <3>1
  <2> QED
    BY <2>1, <2>4, <2>5 DEF Submit
<1>2. CASE CountUp
  <2> DEFINE s == <<>> \o Tail(after["queue"])
  <2>1. /\ after["queue"] # <<>> /\ Head(after["queue"]) = "countOut"
        /\ after' = [after EXCEPT !["queue"] = s] /\ UNCHANGED <<notify, waiting, list>>
    BY <1>2 DEF CountUp, GoOn, storage
  <2>2. FirstOf(s) = "nothing" /\ FirstStep("queue") = "countOut"
    BY <1>b, <1>k, <2>1, FirstAfter DEF FirstStep, FirstOf
  <2> HIDE DEF s
  <2>3. DOMAIN list' # {} \/ DOMAIN list = {}
    BY <2>1
  <2> QED
    BY <1>g, <1>k, <2>1, <2>2, <2>3
<1>3. CASE RequestNotify
  <2> DEFINE s == <<"ask">>
  <2>1. /\ used.requests < MaxRequests /\ Spend("requests")
        /\ waiting' = TRUE /\ notify' = TRUE /\ after' = [after EXCEPT !["queue"] = s]
    BY <1>3 DEF RequestNotify
  <2>2. used.requests = 0
    BY <1>a, <2>1
  <2>3. used'.requests > 0
    <3>1. used' = [used EXCEPT !["requests"] = used["requests"] + 1]
      BY <2>1 DEF Spend
    <3>2. used \in [{"faults", "crashes", "requests"} -> Nat]
      BY DEF TypeOK, UsedTypes
    <3> QED
      BY <3>1, <3>2
  <2>4. \A u \in Threads : FirstStep(u) \notin {"ask", "tell", "reset"}
    BY <1>c, <2>2
  <2> HIDE DEF s
  <2>5. \A u \in Threads : FirstStep(u)' = IF u = "queue" THEN FirstOf(s) ELSE FirstStep(u)
    BY <1>k, <2>1, FirstStepOne
  <2>6. FirstOf(s) = "ask"
    BY <1>l DEF s
  <2>7. FirstStep("queue")' \notin {"nothing", "countOut"}
    BY <1>k, <2>5, <2>6
  <2>8. \A u \in Threads : FirstStep(u)' # "reset"
    BY <2>4, <2>5, <2>6
  <2> QED
    BY <1>d, <1>k, <2>1, <2>3, <2>7, <2>8
<1>4. CASE AnswerIfEmpty
  <2>1. /\ after["queue"] # <<>> /\ Head(after["queue"]) = "ask"
        /\ UNCHANGED <<notify, waiting, list>>
    BY <1>4 DEF AnswerIfEmpty, inner, storage
  <2>2. used.requests > 0 /\ used'.requests > 0
    BY <1>a, <1>c, <1>k, <2>1 DEF FirstStep, FirstOf
  <2>3. CASE DOMAIN list = {}
    <3> DEFINE s == <<"tell">> \o Tail(after["queue"])
    <3>1. after' = [after EXCEPT !["queue"] = s]
      BY <1>4, <2>3 DEF AnswerIfEmpty, GoOn
    <3>2. FirstOf(s) = "tell"
      BY <1>b, <1>k, <2>1, FirstAfter
    <3> HIDE DEF s
    <3>3. \A u \in Threads : FirstStep(u)' = IF u = "queue" THEN FirstOf(s) ELSE FirstStep(u)
      BY <1>k, <3>1, FirstStepOne
    <3>4. FirstStep("queue")' \notin {"nothing", "countOut"}
      BY <1>k, <3>2, <3>3
    <3>5. waiting' => notify' /\ \A u \in Threads : FirstStep(u)' # "reset"
      BY <1>c, <2>1, <3>2, <3>3
    <3>6. \A u \in Threads : FirstStep(u)' \in {"ask", "tell", "reset"} => used'.requests > 0
      BY <2>2
    <3> QED
      BY <1>d, <1>k, <2>2, <3>4, <3>5, <3>6
  <2>4. CASE DOMAIN list # {}
    <3> DEFINE s == <<>> \o Tail(after["queue"])
    <3>1. after' = [after EXCEPT !["queue"] = s]
      BY <1>4, <2>4 DEF AnswerIfEmpty, GoOn
    <3>2. FirstOf(s) = "nothing"
      BY <1>b, <1>k, <2>1, FirstAfter
    <3> HIDE DEF s
    <3> QED
      BY <1>g, <1>k, <2>1, <2>4, <3>1, <3>2
  <2> QED
    BY <2>3, <2>4
<1>5. CASE Responses
  <2>1. PICK n \in answering : TicketResponseReceived(n)
    BY <1>5 DEF Responses
  <2> QED
    BY <1>h, <1>k, <2>1 DEF TicketResponseReceived
<1>6. CASE Checks
  <2>1. PICK t \in Threads : CheckEmpty(t)
    BY <1>6 DEF Checks
  <2>2. /\ after[t] \in ToDo /\ after[t] # <<>> /\ Head(after[t]) = "check"
        /\ UNCHANGED <<notify, waiting, list>>
    BY <1>b, <2>1 DEF CheckEmpty, inner, storage
  <2>3. CASE notify /\ DOMAIN list = {}
    <3> DEFINE s == <<"tell">> \o Tail(after[t])
    <3>1. after' = [after EXCEPT ![t] = s]
      BY <2>1, <2>3 DEF CheckEmpty, GoOn
    <3>2. FirstOf(s) = "tell"
      BY <2>2, FirstAfter
    <3> HIDE DEF s
    <3>3. \A u \in Threads : FirstStep(u)' = IF u = t THEN "tell" ELSE FirstStep(u)
      BY <3>1, <3>2, FirstStepOne
    <3>4. FirstStep(t)' \notin {"nothing", "countOut"}
      BY <3>3
    <3>5. waiting' => notify' /\ \A u \in Threads : FirstStep(u)' # "reset"
      BY <1>c, <2>2, <3>3
    <3>6. used'.requests > 0
      BY <1>a, <1>c, <2>3
    <3> QED
      BY <1>d, <3>4, <3>5, <3>6
  <2>4. CASE ~(notify /\ DOMAIN list = {})
    <3> DEFINE s == <<>> \o Tail(after[t])
    <3>1. after' = [after EXCEPT ![t] = s]
      BY <2>1, <2>4 DEF CheckEmpty, GoOn
    <3>2. FirstOf(s) \in {"nothing", "check", "count"}
      BY <2>2, FirstAfter
    <3> HIDE DEF s
    <3>3. ~waiting \/ DOMAIN list' # {}
      BY <1>c, <2>2, <2>4
    <3> QED
      BY <1>g, <2>2, <3>1, <3>2, <3>3
  <2> QED
    BY <2>3, <2>4
<1>7. CASE Tells
  <2>1. PICK t \in Threads : TellEmpty(t)
    BY <1>7 DEF Tells
  <2>2. waiting' = FALSE /\ after[t] # <<>> /\ Head(after[t]) = "tell"
    BY <2>1 DEF TellEmpty
  <2>3. used'.requests > 0
    BY <1>a, <1>c, <2>2 DEF FirstStep, FirstOf
  <2> QED
    BY <1>d, <2>2, <2>3
<1>8. CASE Resets
  <2>1. PICK t \in Threads : ResetNotify(t)
    BY <1>8 DEF Resets
  <2>2. waiting' = waiting /\ after[t] # <<>> /\ Head(after[t]) = "reset"
    BY <2>1 DEF ResetNotify
  <2>3. FirstStep(t) = "reset"
    BY <2>2 DEF FirstStep, FirstOf
  <2>4. used'.requests > 0 /\ ~waiting'
    BY <1>a, <1>c, <2>2, <2>3
  <2> QED
    BY <1>d, <2>4
<1>9. CASE CountsDown
  <2>1. PICK t \in Threads : CountDown(t)
    BY <1>9 DEF CountsDown
  <2> DEFINE s == <<>> \o Tail(after[t])
  <2>2. /\ after[t] \in ToDo /\ after[t] # <<>> /\ Head(after[t]) = "count"
        /\ after' = [after EXCEPT ![t] = s] /\ UNCHANGED <<notify, waiting>>
    BY <1>b, <2>1 DEF CountDown, GoOn
  <2>3. FirstOf(s) = "check"
    BY <2>2, FirstAfter
  <2> HIDE DEF s
  <2> QED
    BY <1>f, <2>2, <2>3
<1>10. CASE DropBadItem
  BY <1>10, <1>f, <1>k, <1>l DEF DropBadItem, inner
<1>11. CASE DropItemNotToResend
  BY <1>11, <1>f, <1>k, <1>l DEF DropItemNotToResend, inner
<1>12. CASE ResendItem
  <2>1. UNCHANGED <<notify, waiting, after>> /\ DOMAIN list' = DOMAIN list
    BY <1>12 DEF ResendItem, inner
  <2> QED
    BY <1>e, <2>1
<1>13. CASE ReadAck
  <2>1. UNCHANGED <<notify, waiting>>
    BY <1>13 DEF ReadAck, inner
  <2>2. CASE after' = [after EXCEPT !["read"] = <<"check">>]
    BY <1>f, <1>k, <1>l, <2>1, <2>2
  <2>3. CASE UNCHANGED <<list, after>>
    BY <1>e, <2>1, <2>3
  <2> QED
    BY <1>13, <2>2, <2>3 DEF ReadAck
<1>14. CASE ReadTicketResponse
  <2> DEFINE first == Smallest({id \in DOMAIN list : IsTicket(list[id].tx)})
  <2>1. UNCHANGED <<notify, waiting>>
    BY <1>14 DEF ReadTicketResponse
  <2>2. CASE after' = [after EXCEPT !["read"] =
                          TicketSteps(first, ~IsTicketOut(list[first].tx))]
    <3> HIDE DEF first
    <3> QED
      BY <1>h, <1>k, <2>1, <2>2
  <2>3. CASE UNCHANGED <<list, after>>
    BY <1>e, <2>1, <2>3
  <2> QED
    BY <1>14, <2>2, <2>3 DEF ReadTicketResponse
<1>15. CASE ReadSlotMastResponse
  <2>1. Reads("slotmast")
    BY <1>15 DEF ReadSlotMastResponse
  <2>2. 1 \in DOMAIN fromHost /\ fromHost[1].type = "slotmast"
    BY <2>1, Reading
  <2> QED
    BY <2>2 DEF NoSlotmast
<1>16. CASE Elapse
  <2>1. UNCHANGED <<notify, waiting, after>> /\ DOMAIN list' = DOMAIN list
    BY <1>16 DEF Elapse, inner, thread
  <2> QED
    BY <1>e, <2>1
<1>17. CASE CrashAndRestart
  <2>1. notify' = FALSE /\ waiting' = FALSE /\ after' = [t \in Threads |-> <<>>]
    BY <1>17 DEF CrashAndRestart
  <2>2. \A t \in Threads : after'[t] = <<>>
    BY <2>1
  <2>3. \A t \in Threads : FirstStep(t)' = "nothing"
    BY <2>2 DEF FirstStep, FirstOf
  <2> QED
    BY <1>d, <2>1, <2>3
<1>18. CASE \/ CheckForConnect
           \/ CheckOnline
           \/ FetchItem
           \/ SkipItem
           \/ ResendFreedItem
           \/ DrainQueue
           \/ ReadHeartbeatResponse
           \/ PmtReports
           \/ LinkDown
           \/ UNCHANGED vars
  <2>1. UNCHANGED <<notify, waiting, after, list>>
    BY <1>18 DEF CheckForConnect, CheckOnline, FetchItem, SkipItem,
      ResendFreedItem, DrainQueue, ReadHeartbeatResponse, HostReportsPmt,
      LinkDown, PmtReports, storage, thread, inner, vars
  <2> QED
    BY <1>e, <2>1
<1> QED
  BY <1>1, <1>2, <1>3, <1>4, <1>5, <1>6, <1>7, <1>8, <1>9, <1>10, <1>11,
    <1>12, <1>13, <1>14, <1>15, <1>16, <1>17, <1>18, NextCases

\* With one request, and no change of the slot master id on offer, the internals that
\* wait for an empty list do not wait with nobody about to look at it.
THEOREM AnswerComes ==
  ASSUME MaxRequests <= 1, \A offer \in Offers : offer.kind \notin SlotMastId
  PROVE  Spec => []AnswerOnItsWay
<1>1. Init => AnswerInv
  <2> SUFFICES ASSUME Init PROVE AnswerInv
    OBVIOUS
  <2>1. DOMAIN <<>> = {}
    OBVIOUS
  <2>2. NoSlotmast
    BY <2>1 DEF Init, NoSlotmast, Submitted
  <2>3. \A t \in Threads : FirstStep(t) = "nothing"
    BY DEF Init, FirstStep, FirstOf
  <2>4. RequestKept
    BY <2>3 DEF Init, RequestKept
  <2> QED
    BY <2>2, <2>4 DEF AnswerInv
<1>2. IInv /\ AnswerInv /\ [Next]_vars => AnswerInv'
  <2> SUFFICES ASSUME IInv, AnswerInv, [Next]_vars PROVE AnswerInv'
    OBVIOUS
  <2>1. TypeOK /\ HeldItem /\ CountCovers /\ NoSlotmast /\ RequestKept
    BY DEF IInv, AnswerInv
  <2>2. MaxRequests \in Nat
    BY PollerResendAssumption
  <2>3. NoSlotmast'
    BY <2>1, NoSlotmastStep
  <2>4. RequestKept'
    BY <2>1, <2>2, RequestKeptStep
  <2> QED
    BY <2>3, <2>4 DEF AnswerInv
<1>3. AnswerInv => AnswerOnItsWay
  BY DEF AnswerInv, RequestKept, AnswerOnItsWay, FirstStep, FirstOf
<1> QED
  BY <1>1, <1>2, <1>3, Invariance, PTL DEF Spec

=============================================================================
