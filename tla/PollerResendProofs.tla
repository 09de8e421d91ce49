------------------------- MODULE PollerResendProofs -------------------------
(***************************************************************************)
(* Proofs about PollerResend, for any offers, capacity and bounds.         *)
(*                                                                         *)
(* IInv is the inductive invariant.  Its heart is that ids and entries     *)
(* agree (OwnEntries, HeldItem) although three threads change the list and *)
(* ids are given again after a restart: so an acknowledgement removes no   *)
(* entry but its own.                                                      *)
(***************************************************************************)
EXTENDS PollerResend, TLAPS, FiniteSetTheorems, SequenceTheorems

-----------------------------------------------------------------------------
(* Numbers *)

\* A set of naturals has a smallest element.
LEMMA SmallestIn ==
  ASSUME NEW S \in SUBSET Nat, S # {}
  PROVE  Smallest(S) \in S /\ \A y \in S : Smallest(S) <= y
<1>1. PICK x \in S : \A y \in S : ~(<<y, x>> \in OpToRel(<, Nat))
  BY NatLessThanWellFounded, WFMin
<1>2. \A y \in S : ~(y < x)
  BY <1>1 DEF OpToRel
<1>3. \A y \in S : x <= y
  BY <1>2
<1> QED
  BY <1>3 DEF Smallest

\* A bounded set of naturals has a largest one.
LEMMA LargestIn ==
  ASSUME NEW S \in SUBSET Nat, S # {}, NEW m \in Nat, \A x \in S : x <= m
  PROVE  Largest(S) \in S /\ \A y \in S : y <= Largest(S)
<1> DEFINE T == {k \in Nat : \A x \in S : x <= k}
<1>1. T \in SUBSET Nat /\ T # {}
  OBVIOUS
<1>2. Smallest(T) \in T /\ \A y \in T : Smallest(T) <= y
  BY <1>1, SmallestIn
<1>3. Smallest(T) \in S
  <2>1. SUFFICES ASSUME Smallest(T) \notin S PROVE FALSE
    OBVIOUS
  <2>2. \A x \in S : x <= Smallest(T) - 1 /\ Smallest(T) - 1 \in Nat
    BY <1>2, <2>1
  <2>3. Smallest(T) - 1 \in T
    BY <2>2
  <2> QED
    BY <1>2, <2>3
<1>4. \A y \in S : y <= Smallest(T)
  BY <1>2
<1>5. \E x \in S : \A y \in S : y <= x
  BY <1>3, <1>4
<1> QED
  BY <1>5 DEF Largest

-----------------------------------------------------------------------------
(* Sequences *)

\* What is appended is the last element, and the others stay.
LEMMA Appended ==
  ASSUME NEW S, NEW s \in Seq(S), NEW x, NEW T, S \subseteq T, x \in T
  PROVE  /\ Append(s, x) \in Seq(T)
         /\ DOMAIN Append(s, x) = DOMAIN s \cup {Len(s) + 1}
         /\ Len(s) + 1 \notin DOMAIN s
         /\ \A i \in DOMAIN s : Append(s, x)[i] = s[i]
         /\ Append(s, x)[Len(s) + 1] = x
<1>1. s \in Seq(T) /\ DOMAIN s = 1..Len(s) /\ Len(s) \in Nat
  BY SeqMonotonic, LenProperties
<1>2. /\ Append(s, x) \in Seq(T)
      /\ Len(Append(s, x)) = Len(s) + 1
      /\ \A i \in 1..Len(s) : Append(s, x)[i] = s[i]
      /\ Append(s, x)[Len(s) + 1] = x
  BY <1>1, AppendProperties
<1>3. DOMAIN Append(s, x) = 1..(Len(s) + 1)
  BY <1>2, LenProperties
<1> QED
  BY <1>1, <1>2, <1>3

\* Every element of the tail is one of the sequence.
LEMMA TailElements ==
  ASSUME NEW S, NEW s \in Seq(S), s # <<>>
  PROVE  /\ Head(s) \in S /\ Tail(s) \in Seq(S)
         /\ 1 \in DOMAIN s /\ Head(s) = s[1]
         /\ \A i \in DOMAIN Tail(s) : i + 1 \in DOMAIN s /\ Tail(s)[i] = s[i + 1]
<1>1. /\ Head(s) \in S /\ Tail(s) \in Seq(S) /\ Len(Tail(s)) = Len(s) - 1
      /\ \A i \in 1..Len(Tail(s)) : Tail(s)[i] = s[i + 1]
  BY HeadTailProperties
<1>2. DOMAIN s = 1..Len(s) /\ DOMAIN Tail(s) = 1..Len(Tail(s)) /\ Len(s) \in Nat
  BY <1>1, LenProperties
<1>3. Len(s) # 0
  BY EmptySeq
<1> QED
  BY <1>1, <1>2, <1>3

\* Every element of a concatenation is one of its parts.
LEMMA ConcatElements ==
  ASSUME NEW S, NEW s \in Seq(S), NEW t \in Seq(S)
  PROVE  /\ s \o t \in Seq(S)
         /\ \A i \in DOMAIN (s \o t) :
               \/ i \in DOMAIN s /\ (s \o t)[i] = s[i]
               \/ \E j \in DOMAIN t : (s \o t)[i] = t[j]
<1>1. /\ s \o t \in Seq(S) /\ Len(s \o t) = Len(s) + Len(t)
      /\ \A i \in 1 .. Len(s) + Len(t) :
            (s \o t)[i] = IF i <= Len(s) THEN s[i] ELSE t[i - Len(s)]
  BY ConcatProperties
<1>2. DOMAIN s = 1..Len(s) /\ DOMAIN t = 1..Len(t) /\ Len(s) \in Nat /\ Len(t) \in Nat
      /\ DOMAIN (s \o t) = 1..(Len(s) + Len(t))
  BY <1>1, LenProperties
<1> QED
  BY <1>1, <1>2

-----------------------------------------------------------------------------
(* What a thread has still to do *)

\* One step put before one or two.
LEMMA ShortConcat ==
  \A a, b, c : <<a>> \o <<b>> = <<a, b>> /\ <<a>> \o <<b, c>> = <<a, b, c>>
<1> TAKE a, b, c
<1> DEFINE S == {a, b, c}
<1>1. <<a>> \in Seq(S) /\ <<b>> \in Seq(S) /\ <<b, c>> \in Seq(S)
      /\ <<a, b>> \in Seq(S) /\ <<a, b, c>> \in Seq(S)
  OBVIOUS
<1>2. /\ Len(<<a>>) = 1 /\ Len(<<b>>) = 1 /\ Len(<<b, c>>) = 2
      /\ Len(<<a, b>>) = 2 /\ Len(<<a, b, c>>) = 3
  OBVIOUS
<1> HIDE DEF S
<1>3. /\ <<a>> \o <<b>> \in Seq(S) /\ Len(<<a>> \o <<b>>) = 2
      /\ \A i \in 1..2 : (<<a>> \o <<b>>)[i] = <<a, b>>[i]
  BY <1>1, <1>2, ConcatProperties
<1>4. /\ <<a>> \o <<b, c>> \in Seq(S) /\ Len(<<a>> \o <<b, c>>) = 3
      /\ \A i \in 1..3 : (<<a>> \o <<b, c>>)[i] = <<a, b, c>>[i]
  BY <1>1, <1>2, ConcatProperties
<1>5. <<a>> \o <<b>> = <<a, b>>
  BY <1>1, <1>2, <1>3, SeqEqual
<1>6. <<a>> \o <<b, c>> = <<a, b, c>>
  BY <1>1, <1>2, <1>4, SeqEqual
<1> QED
  BY <1>5, <1>6

\* The first step done, with nothing or one step in its place.
LEMMA StepDone ==
  /\ \A x, v : <<>> \o Tail(<<x>>) = <<>> /\ <<v>> \o Tail(<<x>>) = <<v>>
  /\ \A x, y, v : <<>> \o Tail(<<x, y>>) = <<y>> /\ <<v>> \o Tail(<<x, y>>) = <<v, y>>
  /\ \A x, y, z, v : /\ <<>> \o Tail(<<x, y, z>>) = <<y, z>>
                     /\ <<v>> \o Tail(<<x, y, z>>) = <<v, y, z>>
<1>1. /\ \A x : Tail(<<x>>) = <<>>
      /\ \A x, y : Tail(<<x, y>>) = <<y>>
      /\ \A x, y, z : Tail(<<x, y, z>>) = <<y, z>>
  OBVIOUS
<1>2. /\ <<>> \o <<>> = <<>>
      /\ \A y : <<>> \o <<y>> = <<y>>
      /\ \A y, z : <<>> \o <<y, z>> = <<y, z>>
      /\ \A v : <<v>> \o <<>> = <<v>>
  OBVIOUS
<1>3. \A v, y, z : <<v>> \o <<y>> = <<v, y>> /\ <<v>> \o <<y, z>> = <<v, y, z>>
  BY ShortConcat
<1> QED
  BY <1>1, <1>2, <1>3

\* The members of ToDo, and which of them count a ticket down.
LEMMA ToDoMembers ==
  /\ <<>> \in ToDo /\ <<>> \notin ToCount
  /\ \A x \in {"check", "tell", "reset", "countOut", "ask"} :
        <<x>> \in ToDo /\ <<x>> \notin ToCount
  /\ \A x \in {"check", "tell", "reset"} :
        /\ <<x, "check">> \in ToDo /\ <<x, "check">> \notin ToCount
        /\ <<x, "count", "check">> \in ToDo /\ <<x, "count", "check">> \in ToCount
  /\ <<"count", "check">> \in ToDo /\ <<"count", "check">> \in ToCount
<1>1. <<>> \in ToDo /\ <<>> \notin ToCount
  BY DEF ToDo, ToCount
<1>2. \A x \in {"check", "tell", "reset", "countOut", "ask"} : <<x>> \in ToDo
  BY DEF ToDo
<1>3. \A x \in {"check", "tell", "reset", "countOut", "ask"} : <<x>> \notin ToCount
  BY DEF ToCount
<1>4. \A x \in {"check", "tell", "reset"} : <<x, "check">> \in ToDo
  BY DEF ToDo
<1>5. \A x \in {"check", "tell", "reset"} : <<x, "check">> \notin ToCount
  BY DEF ToCount
<1>6. /\ <<"count", "check">> \in ToCount
      /\ \A x \in {"check", "tell", "reset"} : <<x, "count", "check">> \in ToCount
  BY DEF ToCount
<1>7. ToCount \subseteq ToDo
  BY DEF ToDo
<1> QED
  BY <1>1, <1>2, <1>3, <1>4, <1>5, <1>6, <1>7

\* What is left after the first step, whether the count of a ticket is still to
\* come, and what the first step may be.
LEMMA ToDoSteps ==
  ASSUME NEW s \in ToDo, s # <<>>
  PROVE  /\ Head(s) = "check" =>
               /\ <<>> \o Tail(s) \in ToDo /\ <<"tell">> \o Tail(s) \in ToDo
               /\ <<>> \o Tail(s) \in ToCount <=> s \in ToCount
               /\ <<"tell">> \o Tail(s) \in ToCount <=> s \in ToCount
               /\ <<>> \o Tail(s) # <<"countOut">> /\ <<"tell">> \o Tail(s) # <<"countOut">>
               /\ s # <<"countOut">>
         /\ Head(s) = "tell" =>
               /\ <<"reset">> \o Tail(s) \in ToDo
               /\ <<"reset">> \o Tail(s) \in ToCount <=> s \in ToCount
               /\ <<"reset">> \o Tail(s) # <<"countOut">> /\ s # <<"countOut">>
         /\ Head(s) = "reset" =>
               /\ <<>> \o Tail(s) \in ToDo
               /\ <<>> \o Tail(s) \in ToCount <=> s \in ToCount
               /\ <<>> \o Tail(s) # <<"countOut">> /\ s # <<"countOut">>
         /\ Head(s) = "count" =>
               /\ s \in ToCount
               /\ <<>> \o Tail(s) = <<"check">>
         /\ Head(s) = "countOut" => s = <<"countOut">> /\ <<>> \o Tail(s) = <<>>
         /\ Head(s) = "ask" => /\ s = <<"ask">> /\ <<>> \o Tail(s) = <<>>
                               /\ <<"tell">> \o Tail(s) = <<"tell">>
<1>1. CASE \E x \in {"check", "tell", "reset", "countOut", "ask"} : s = <<x>>
  <2>1. PICK x \in {"check", "tell", "reset", "countOut", "ask"} : s = <<x>>
    BY <1>1
  <2>2. /\ Head(s) = x /\ <<>> \o Tail(s) = <<>>
        /\ <<"tell">> \o Tail(s) = <<"tell">> /\ <<"reset">> \o Tail(s) = <<"reset">>
    BY <2>1, StepDone
  <2> QED
    BY <2>1, <2>2, ToDoMembers
<1>2. CASE \E x \in {"check", "tell", "reset", "count"} : s = <<x, "check">>
  <2>1. PICK x \in {"check", "tell", "reset", "count"} : s = <<x, "check">>
    BY <1>2
  <2>2. /\ <<>> \o Tail(s) = <<"check">>
        /\ <<"tell">> \o Tail(s) = <<"tell", "check">>
        /\ <<"reset">> \o Tail(s) = <<"reset", "check">>
    BY <2>1, StepDone
  <2>3. Head(s) = x
    BY <2>1
  <2>4. \A y, z : <<y, z>> # <<"countOut">> /\ <<"check">> # <<"countOut">>
    OBVIOUS
  <2> QED
    BY <2>1, <2>2, <2>3, <2>4, ToDoMembers
<1>3. CASE \E x \in {"check", "tell", "reset"} : s = <<x, "count", "check">>
  <2>1. PICK x \in {"check", "tell", "reset"} : s = <<x, "count", "check">>
    BY <1>3
  <2>2. /\ <<>> \o Tail(s) = <<"count", "check">>
        /\ <<"tell">> \o Tail(s) = <<"tell", "count", "check">>
        /\ <<"reset">> \o Tail(s) = <<"reset", "count", "check">>
    BY <2>1, StepDone
  <2>3. Head(s) = x
    BY <2>1
  <2> QED
    BY <2>1, <2>2, <2>3, ToDoMembers
<1> QED
  BY <1>1, <1>2, <1>3 DEF ToDo, ToCount

\* What is to be done is a sequence of steps.
LEMMA ToDoType == ToDo \subseteq Seq({"check", "tell", "reset", "count", "countOut", "ask"})
<1> DEFINE X == {"check", "tell", "reset", "count", "countOut", "ask"}
<1>1. \A x, y, z \in X : <<x>> \in Seq(X) /\ <<x, y>> \in Seq(X) /\ <<x, y, z>> \in Seq(X)
  OBVIOUS
<1>2. <<>> \in Seq(X)
  OBVIOUS
<1>3. {"check", "tell", "reset", "count", "countOut", "ask"} = X
  OBVIOUS
<1>4. \A s \in ToCount : s \in Seq(X)
  BY <1>1 DEF ToCount
<1> QED
  BY <1>1, <1>2, <1>4 DEF ToDo

-----------------------------------------------------------------------------
(* Type correctness *)

\* The actions with a parameter, for whatever it is.
Submits == \E offer \in Offers : Submit(offer)
Responses == \E n \in answering : TicketResponseReceived(n)
Checks == \E t \in Threads : CheckEmpty(t)
Tells == \E t \in Threads : TellEmpty(t)
Resets == \E t \in Threads : ResetNotify(t)
CountsDown == \E t \in Threads : CountDown(t)
PmtReports == \E up \in BOOLEAN : HostReportsPmt(up)

\* The disjuncts of the next-state relation.
LEMMA NextCases ==
  ASSUME [Next]_vars
  PROVE  \/ Submits \/ CountUp \/ RequestNotify \/ AnswerIfEmpty \/ Responses
         \/ Checks \/ Tells \/ Resets \/ CountsDown
         \/ CheckForConnect \/ CheckOnline \/ FetchItem \/ SkipItem
         \/ DropBadItem \/ DropItemNotToResend \/ ResendItem \/ ResendFreedItem \/ DrainQueue
         \/ ReadAck \/ ReadTicketResponse \/ ReadSlotMastResponse \/ ReadHeartbeatResponse
         \/ PmtReports \/ LinkDown \/ Elapse \/ CrashAndRestart
         \/ UNCHANGED vars
BY DEF Next, QueueThread, SendThread, ReadThread, Continue, Threads,
       Submits, Responses, Checks, Tells, Resets, CountsDown, PmtReports

\* The log only grows, and what is in it stays.
LEMMA LogGrows ==
  ASSUME TypeOK, [Next]_vars
  PROVE  /\ Submitted \subseteq Submitted'
         /\ \A n \in Submitted : log'[n] = log[n]
<1>1. CASE Submits
  BY <1>1, Appended DEF Submits, Submit, Submitted, TypeOK, LogTypes
<1>2. CASE \/ CountUp
           \/ RequestNotify
           \/ AnswerIfEmpty
           \/ Responses
           \/ Checks
           \/ Tells
           \/ Resets
           \/ CountsDown
           \/ CheckForConnect
           \/ CheckOnline
           \/ FetchItem
           \/ SkipItem
           \/ DropBadItem
           \/ DropItemNotToResend
           \/ ResendItem
           \/ ResendFreedItem
           \/ DrainQueue
           \/ ReadAck
           \/ ReadTicketResponse
           \/ ReadSlotMastResponse
           \/ ReadHeartbeatResponse
           \/ PmtReports
           \/ LinkDown
           \/ Elapse
           \/ CrashAndRestart
           \/ UNCHANGED vars
  <2>1. UNCHANGED <<log>>
    BY <1>2 DEF CountUp, RequestNotify, AnswerIfEmpty, TicketResponseReceived,
      CheckEmpty, TellEmpty, ResetNotify, CountDown, CheckForConnect,
      CheckOnline, FetchItem, SkipItem, DropBadItem, DropItemNotToResend,
      ResendItem, ResendFreedItem, DrainQueue, ReadAck, ReadTicketResponse,
      ReadSlotMastResponse, ReadHeartbeatResponse, HostReportsPmt, LinkDown,
      Elapse, CrashAndRestart, Responses, Checks, Tells, Resets, CountsDown,
      PmtReports, vars
  <2> QED
    BY <2>1 DEF Submitted
<1> QED
  BY <1>1, <1>2, NextCases

\* The log keeps its type: only Submit appends a transaction.
LEMMA LogTypesStep ==
  ASSUME TypeOK, [Next]_vars
  PROVE  LogTypes'
<1>1. CASE Submits
  <2>1. PICK offer \in Offers : Submit(offer)
    BY <1>1 DEF Submits
  <2> DEFINE S == [kind : AllKinds, bad : BOOLEAN, id : Nat, stored : BOOLEAN]
  <2> DEFINE stored == offer.kind # "session" /\ Cardinality(DOMAIN list) < Capacity
             r == [kind |-> offer.kind, bad |-> offer.bad, id |-> uniqueId + 1,
                   stored |-> stored]
  <2>2. offer.kind \in AllKinds /\ offer.bad \in BOOLEAN /\ uniqueId + 1 \in Nat
    BY <2>1, PollerResendAssumption DEF TypeOK, StorageTypes
  <2>3. log' = Append(log, r)
    BY <2>1 DEF Submit
  <2>4. stored \in BOOLEAN
    OBVIOUS
  <2>5. r \in S
    <3> HIDE DEF stored
    <3> QED
      BY <2>2, <2>4
  <2> QED
    BY <2>3, <2>5, Appended DEF TypeOK, LogTypes
<1>2. CASE \/ CountUp
           \/ RequestNotify
           \/ AnswerIfEmpty
           \/ Responses
           \/ Checks
           \/ Tells
           \/ Resets
           \/ CountsDown
           \/ CheckForConnect
           \/ CheckOnline
           \/ FetchItem
           \/ SkipItem
           \/ DropBadItem
           \/ DropItemNotToResend
           \/ ResendItem
           \/ ResendFreedItem
           \/ DrainQueue
           \/ ReadAck
           \/ ReadTicketResponse
           \/ ReadSlotMastResponse
           \/ ReadHeartbeatResponse
           \/ PmtReports
           \/ LinkDown
           \/ Elapse
           \/ CrashAndRestart
           \/ UNCHANGED vars
  <2>1. UNCHANGED <<log>>
    BY <1>2 DEF CountUp, RequestNotify, AnswerIfEmpty, TicketResponseReceived,
      CheckEmpty, TellEmpty, ResetNotify, CountDown, CheckForConnect,
      CheckOnline, FetchItem, SkipItem, DropBadItem, DropItemNotToResend,
      ResendItem, ResendFreedItem, DrainQueue, ReadAck, ReadTicketResponse,
      ReadSlotMastResponse, ReadHeartbeatResponse, HostReportsPmt, LinkDown,
      Elapse, CrashAndRestart, Responses, Checks, Tells, Resets, CountsDown,
      PmtReports, vars
  <2> QED
    BY <2>1 DEF TypeOK, LogTypes
<1> QED
  BY <1>1, <1>2, NextCases

\* The queue holds transactions that were handed over.
LEMMA QueueTypesStep ==
  ASSUME TypeOK, [Next]_vars
  PROVE  QueueTypes'
<1>0. Submitted \subseteq Submitted'
  BY LogGrows
<1>1. CASE Submits
  <2>1. queue' = Append(queue, Len(log) + 1) /\ Len(log) + 1 \in Submitted'
    BY <1>1, Appended DEF Submits, Submit, Submitted, TypeOK, LogTypes
  <2> QED
    BY <1>0, <2>1, Appended DEF TypeOK, QueueTypes
<1>2. CASE DrainQueue
  <2>1. Submitted' = Submitted /\ (queue' = queue \/ (queue # <<>> /\ queue' = Tail(queue)))
    BY <1>2 DEF DrainQueue, Submitted
  <2> QED
    BY <2>1, TailElements DEF TypeOK, QueueTypes
<1>3. CASE CrashAndRestart
  BY <1>3 DEF TypeOK, QueueTypes, Submitted, CrashAndRestart, Spend,
    Disconnect
<1>4. CASE \/ CountUp
           \/ RequestNotify
           \/ AnswerIfEmpty
           \/ Responses
           \/ Checks
           \/ Tells
           \/ Resets
           \/ CountsDown
           \/ CheckForConnect
           \/ CheckOnline
           \/ FetchItem
           \/ SkipItem
           \/ DropBadItem
           \/ DropItemNotToResend
           \/ ResendItem
           \/ ResendFreedItem
           \/ ReadAck
           \/ ReadTicketResponse
           \/ ReadSlotMastResponse
           \/ ReadHeartbeatResponse
           \/ PmtReports
           \/ LinkDown
           \/ Elapse
           \/ UNCHANGED vars
  <2>1. UNCHANGED <<log, queue>>
    BY <1>4 DEF CountUp, RequestNotify, AnswerIfEmpty, TicketResponseReceived,
      CheckEmpty, TellEmpty, ResetNotify, CountDown, CheckForConnect,
      CheckOnline, FetchItem, SkipItem, DropBadItem, DropItemNotToResend,
      ResendItem, ResendFreedItem, ReadAck, ReadTicketResponse,
      ReadSlotMastResponse, ReadHeartbeatResponse, HostReportsPmt, LinkDown,
      Elapse, Responses, Checks, Tells, Resets, CountsDown, PmtReports, vars
  <2> QED
    BY <2>1 DEF TypeOK, QueueTypes, Submitted
<1> QED
  BY <1>1, <1>2, <1>3, <1>4, NextCases

\* What TakeOut leaves of the list and of the counts of bad packets.
LEMMA Removal ==
  ASSUME NEW id, TakeOut(id)
  PROVE  /\ DOMAIN list' = DOMAIN list \ {id}
         /\ \A i \in DOMAIN list' : list'[i] = list[i]
         /\ DOMAIN badCount' \subseteq DOMAIN badCount
         /\ \A i \in DOMAIN badCount' : badCount'[i] = badCount[i]
         /\ id \in DOMAIN list => id \notin DOMAIN badCount'
BY DEF TakeOut, Without

\* The list has no id above the last one given.
LEMMA ListIds ==
  ASSUME TypeOK, UniqueIdIsFresh
  PROVE  \A id \in DOMAIN list : id \in Nat /\ id <= uniqueId
BY DEF TypeOK, StorageTypes, UniqueIdIsFresh, IdsInUse

\* A restart goes on with the highest id of the list.
LEMMA RestartId ==
  ASSUME TypeOK, UniqueIdIsFresh, CrashAndRestart
  PROVE  /\ uniqueId' \in Nat
         /\ DOMAIN list' = DOMAIN list
         /\ \A id \in DOMAIN list : list'[id].tx = list[id].tx /\ id <= uniqueId'
<1>1. /\ DOMAIN list' = DOMAIN list
      /\ \A id \in DOMAIN list : list'[id].tx = list[id].tx
  BY DEF CrashAndRestart, TypeOK, StorageTypes
<1>2. uniqueId' = IF DOMAIN list = {} THEN 0 ELSE Largest(DOMAIN list)
  BY DEF CrashAndRestart
<1>3. CASE DOMAIN list = {}
  BY <1>1, <1>2, <1>3
<1>4. CASE DOMAIN list # {}
  <2>1. uniqueId \in Nat /\ DOMAIN list \in SUBSET Nat
    BY DEF TypeOK, StorageTypes
  <2>2. Largest(DOMAIN list) \in DOMAIN list
        /\ \A id \in DOMAIN list : id <= Largest(DOMAIN list)
    BY <1>4, <2>1, LargestIn, ListIds
  <2> QED
    BY <1>1, <1>2, <1>4, <2>1, <2>2
<1> QED
  BY <1>3, <1>4

\* The list keeps holding transactions that were handed over, under natural ids; the
\* id after a restart is the highest of the list, which exists as ids are bounded.
LEMMA StorageTypesStep ==
  ASSUME TypeOK, UniqueIdIsFresh, [Next]_vars
  PROVE  StorageTypes'
<1>0. Submitted \subseteq Submitted'
  BY LogGrows
<1>1. CASE Submits
  <2>1. PICK offer \in Offers : Submit(offer)
    BY <1>1 DEF Submits
  <2>2. uniqueId' = uniqueId + 1 /\ Len(log) + 1 \in Submitted'
    BY <2>1, Appended DEF Submit, Submitted, TypeOK, LogTypes
  <2>3. list' = list \/ list' = With(list, uniqueId + 1, [tx |-> Len(log) + 1, due |-> FALSE])
    BY <2>1 DEF Submit
  <2>4. CASE list' = list
    BY <1>0, <2>2, <2>4 DEF TypeOK, StorageTypes
  <2>5. CASE list' = With(list, uniqueId + 1, [tx |-> Len(log) + 1, due |-> FALSE])
    <3>1. /\ DOMAIN list' = DOMAIN list \cup {uniqueId + 1}
          /\ \A id \in DOMAIN list' :
                list'[id] = IF id = uniqueId + 1 THEN [tx |-> Len(log) + 1, due |-> FALSE]
                                                 ELSE list[id]
      BY <2>5 DEF With
    <3>2. [tx |-> Len(log) + 1, due |-> FALSE] \in [tx : Submitted', due : BOOLEAN]
      BY <2>2
    <3>3. \A id \in DOMAIN list : list[id] \in [tx : Submitted', due : BOOLEAN]
      BY <1>0 DEF TypeOK, StorageTypes
    <3>4. \A id \in DOMAIN list' : list'[id] \in [tx : Submitted', due : BOOLEAN]
      BY <3>1, <3>2, <3>3
    <3> QED
      BY <2>2, <3>1, <3>4 DEF TypeOK, StorageTypes
  <2> QED
    BY <2>3, <2>4, <2>5
<1>2. CASE Responses
  <2>1. uniqueId' = uniqueId /\ \E id : TakeOut(id)
    BY <1>2 DEF Responses, TicketResponseReceived, storage
  <2> QED
    BY <1>0, <2>1, Removal DEF TypeOK, StorageTypes
<1>3. CASE DropBadItem
  <2>1. uniqueId' = uniqueId /\ \E id : TakeOut(id)
    BY <1>3 DEF DropBadItem, storage
  <2> QED
    BY <1>0, <2>1, Removal DEF TypeOK, StorageTypes
<1>4. CASE DropItemNotToResend
  <2>1. uniqueId' = uniqueId /\ \E id : TakeOut(id)
    BY <1>4 DEF DropItemNotToResend, storage
  <2> QED
    BY <1>0, <2>1, Removal DEF TypeOK, StorageTypes
<1>5. CASE ResendItem
  <2>1. /\ uniqueId' = uniqueId
        /\ list' = list \/ list' = [list EXCEPT ![send.item.id].due = FALSE]
    BY <1>5 DEF ResendItem
  <2> QED
    BY <1>0, <2>1 DEF TypeOK, StorageTypes
<1>6. CASE ReadAck
  <2>1. uniqueId' = uniqueId /\ (list' = list \/ \E id : TakeOut(id))
    BY <1>6 DEF ReadAck
  <2> QED
    BY <1>0, <2>1, Removal DEF TypeOK, StorageTypes
<1>7. CASE ReadTicketResponse
  <2>1. uniqueId' = uniqueId /\ (list' = list \/ \E id : TakeOut(id))
    BY <1>7 DEF ReadTicketResponse
  <2> QED
    BY <1>0, <2>1, Removal DEF TypeOK, StorageTypes
<1>8. CASE ReadSlotMastResponse
  <2>1. uniqueId' = uniqueId /\ (list' = list \/ \E id : list' = Without(list, id))
    BY <1>8 DEF ReadSlotMastResponse
  <2> QED
    BY <1>0, <2>1 DEF TypeOK, StorageTypes, Without
<1>9. CASE Elapse
  BY <1>9, <1>0 DEF TypeOK, StorageTypes, Submitted, Elapse, storage
<1>10. CASE CrashAndRestart
  <2>1. DOMAIN list' = DOMAIN list /\ uniqueId' \in Nat
    BY <1>10, RestartId
  <2>2. PICK old \in BOOLEAN : list' = [id \in DOMAIN list |-> [list[id] EXCEPT !.due = old]]
    BY <1>10 DEF CrashAndRestart
  <2> QED
    BY <1>0, <2>1, <2>2 DEF TypeOK, StorageTypes
<1>11. CASE \/ CountUp
           \/ RequestNotify
           \/ AnswerIfEmpty
           \/ Checks
           \/ Tells
           \/ Resets
           \/ CountsDown
           \/ CheckForConnect
           \/ CheckOnline
           \/ FetchItem
           \/ SkipItem
           \/ ResendFreedItem
           \/ DrainQueue
           \/ ReadHeartbeatResponse
           \/ PmtReports
           \/ LinkDown
           \/ UNCHANGED vars
  <2>1. UNCHANGED <<list, uniqueId, log>>
    BY <1>11 DEF CountUp, RequestNotify, AnswerIfEmpty, CheckEmpty, TellEmpty,
      ResetNotify, CountDown, CheckForConnect, CheckOnline, FetchItem,
      SkipItem, ResendFreedItem, DrainQueue, ReadHeartbeatResponse,
      HostReportsPmt, LinkDown, Checks, Tells, Resets, CountsDown, PmtReports,
      storage, vars
  <2> QED
    BY <2>1 DEF TypeOK, StorageTypes, Submitted
<1> QED
  BY <1>1, <1>2, <1>3, <1>4, <1>5, <1>6, <1>7, <1>8, <1>9, <1>10, <1>11,
    NextCases

\* What sending the packet of a transaction may do.
LEMMA Packet ==
  ASSUME NEW n, NEW c, SendPacket(n, c)
  PROVE  \/ /\ log[n].bad
            /\ badCount' = With(badCount, log[n].id, c)
            /\ tries' = [tries EXCEPT ![n] = @ + 1]
            /\ UNCHANGED <<connected, pmtUp, fromHost, received, used>>
         \/ /\ UNCHANGED <<badCount, tries, pmtUp>>
            /\ \/ UNCHANGED <<connected, fromHost, received, used>>
               \/ /\ ~log[n].bad
                  /\ fromHost' = fromHost \o Answers(n)
                  /\ received' = received \cup {n}
                  /\ UNCHANGED <<connected, used>>
               \/ /\ connected' = FALSE /\ fromHost' = <<>>
                  /\ Spend("faults")
                  /\ UNCHANGED received
BY DEF SendPacket, Transmit, Disconnect, net

\* The send thread sends the packet of the item it holds, and counts no more
\* failures than it may while the item is in the list.
LEMMA HeldPacket ==
  ASSUME TypeOK, HeldItem, ResendItem
  PROVE  /\ send.item.tx \in Submitted /\ log[send.item.tx].id = send.item.id
         /\ \E c \in Nat :
               /\ SendPacket(send.item.tx, c)
               /\ c = IF send.item.id \in DOMAIN badCount THEN badCount[send.item.id] + 1 ELSE 0
               /\ send.item.id \in DOMAIN list => c <= MaxBadResend
<1>1. Holding /\ (~Spent \/ Freed)
  BY DEF ResendItem
<1>2. send.item.tx \in Submitted /\ log[send.item.tx].id = send.item.id
  BY <1>1 DEF HeldItem
<1>3. PICK c : /\ SendPacket(send.item.tx, c)
               /\ c = IF send.item.id \in DOMAIN badCount THEN badCount[send.item.id] + 1 ELSE 0
  BY DEF ResendItem
<1>4. /\ send.item.id \in DOMAIN badCount => badCount[send.item.id] \in Nat
      /\ send.item.id \in DOMAIN badCount /\ send.item.id \in DOMAIN list
            => ~(badCount[send.item.id] >= MaxBadResend)
  BY <1>1 DEF TypeOK, MarkTypes, Spent, Freed
<1>5. MaxBadResend \in Nat
  BY PollerResendAssumption
<1>6. c \in Nat /\ (send.item.id \in DOMAIN list => c <= MaxBadResend)
  BY <1>3, <1>4, <1>5
<1> QED
  BY <1>2, <1>3, <1>6

\* What draining the queue may do.
LEMMA DrainedPacket ==
  ASSUME TypeOK, DrainQueue
  PROVE  \/ UNCHANGED <<queue, badCount, net, seen, used>>
         \/ /\ queue # <<>> /\ queue' = Tail(queue) /\ UNCHANGED send
            /\ Head(queue) \in Submitted
            /\ \/ UNCHANGED <<badCount, net, seen, used>>
               \/ SendPacket(Head(queue), 0)
<1>1. queue # <<>> => Head(queue) \in Submitted
  BY TailElements DEF TypeOK, QueueTypes
<1> QED
  BY <1>1 DEF DrainQueue, seen

\* One more packet counted as bad.
LEMMA Counted ==
  ASSUME MarkTypes, NEW id \in Nat, NEW c \in Nat, id \in DOMAIN list => c <= MaxBadResend,
         badCount' = With(badCount, id, c)
  PROVE  /\ DOMAIN badCount' \subseteq Nat
         /\ \A i \in DOMAIN badCount' : badCount'[i] \in Nat
         /\ \A i \in DOMAIN badCount' \cap DOMAIN list : badCount'[i] <= MaxBadResend
<1>1. /\ DOMAIN badCount' = DOMAIN badCount \cup {id}
      /\ \A i \in DOMAIN badCount' : badCount'[i] = IF i = id THEN c ELSE badCount[i]
  BY DEF With
<1> QED
  BY <1>1 DEF MarkTypes

\* The ids of the log, and what a transaction is.
LEMMA LogFields ==
  ASSUME TypeOK, NEW n \in Submitted
  PROVE  /\ log[n].id \in Nat /\ log[n].kind \in AllKinds
         /\ log[n].bad \in BOOLEAN /\ log[n].stored \in BOOLEAN
<1>1. log[n] \in [kind : AllKinds, bad : BOOLEAN, id : Nat, stored : BOOLEAN]
  BY LenProperties, ElementOfSeq DEF TypeOK, LogTypes, Submitted
<1> QED
  BY <1>1

\* The count of tickets stays an integer, and after a restart the list is finite.
LEMMA InnerTypesStep ==
  ASSUME TypeOK, UniqueIdIsFresh, [Next]_vars
  PROVE  InnerTypes'
<1>0. Submitted \subseteq Submitted'
  BY LogGrows
<1>1. CASE Submits
  BY <1>1, <1>0 DEF Submits, Submit, TypeOK, InnerTypes, inner
<1>2. CASE CountUp
  BY <1>2 DEF TypeOK, InnerTypes, Submitted, CountUp, GoOn, inner
<1>3. CASE RequestNotify
  BY <1>3 DEF TypeOK, InnerTypes, Submitted, RequestNotify, Spend, inner
<1>4. CASE Responses
  BY <1>4 DEF TypeOK, InnerTypes, Submitted, TicketResponseReceived,
    Responses, TakeOut, Without, inner
<1>5. CASE Tells
  BY <1>5 DEF TypeOK, InnerTypes, Submitted, TellEmpty, Tells, GoOn, inner
<1>6. CASE Resets
  BY <1>6 DEF TypeOK, InnerTypes, Submitted, ResetNotify, Resets, GoOn, inner
<1>7. CASE CountsDown
  BY <1>7 DEF TypeOK, InnerTypes, Submitted, CountDown, CountsDown, GoOn,
    inner
<1>8. CASE ReadTicketResponse
  <2>1. /\ UNCHANGED <<notify, waiting, outCount, log>>
        /\ answering' = answering \/ answering' = answering \cup {Head(fromHost).tx}
        /\ fromHost # <<>> /\ Head(fromHost).type = "ticket"
    BY <1>8 DEF ReadTicketResponse, Reads
  <2>2. Head(fromHost).tx \in Submitted
    BY <2>1, TailElements DEF TypeOK, NetTypes, Message, Answer
  <2> QED
    BY <2>1, <2>2 DEF TypeOK, InnerTypes, Submitted
<1>9. CASE CrashAndRestart
  <2>1. /\ DOMAIN list \in SUBSET Nat /\ \A id \in DOMAIN list : id <= uniqueId
        /\ uniqueId \in Nat
    BY ListIds DEF TypeOK, StorageTypes
  <2>2. IsFiniteSet(DOMAIN list)
    BY <2>1, FS_BoundedSetOfNaturals
  <2>3. IsFiniteSet({id \in DOMAIN list : IsTicketOut(list[id].tx)})
    BY <2>2, FS_Subset
  <2>4. Cardinality({id \in DOMAIN list : IsTicketOut(list[id].tx)}) \in Nat
    BY <2>3, FS_CardinalityType
  <2>5. outCount' = Cardinality({id \in DOMAIN list : IsTicketOut(list[id].tx)})
    BY <1>9 DEF CrashAndRestart
  <2>7. outCount' \in Nat
    BY <2>4, <2>5, Zenon
  <2>6. notify' = FALSE /\ waiting' = FALSE /\ answering' = {}
    BY <1>9 DEF CrashAndRestart
  <2>8. notify' \in BOOLEAN /\ waiting' \in BOOLEAN
    BY <2>6, Zenon
  <2>9. outCount' \in Int
    BY <2>7
  <2> QED
    BY <2>6, <2>8, <2>9 DEF InnerTypes
<1>10. CASE \/ AnswerIfEmpty
           \/ Checks
           \/ CheckForConnect
           \/ CheckOnline
           \/ FetchItem
           \/ SkipItem
           \/ DropBadItem
           \/ DropItemNotToResend
           \/ ResendItem
           \/ ResendFreedItem
           \/ DrainQueue
           \/ ReadAck
           \/ ReadSlotMastResponse
           \/ ReadHeartbeatResponse
           \/ PmtReports
           \/ LinkDown
           \/ Elapse
           \/ UNCHANGED vars
  <2>1. UNCHANGED <<notify, waiting, outCount, answering, log>>
    BY <1>10 DEF AnswerIfEmpty, CheckEmpty, CheckForConnect, CheckOnline,
      FetchItem, SkipItem, DropBadItem, DropItemNotToResend, ResendItem,
      ResendFreedItem, DrainQueue, ReadAck, ReadSlotMastResponse,
      ReadHeartbeatResponse, HostReportsPmt, LinkDown, Elapse, Checks,
      PmtReports, inner, vars
  <2> QED
    BY <2>1 DEF TypeOK, InnerTypes, Submitted
<1> QED
  BY <1>1, <1>2, <1>3, <1>4, <1>5, <1>6, <1>7, <1>8, <1>9, <1>10, NextCases

\* The bounds' counters stay natural numbers.
LEMMA UsedTypesStep ==
  ASSUME TypeOK, HeldItem, [Next]_vars
  PROVE  UsedTypes'
<1>0. ASSUME NEW what \in {"faults", "crashes", "requests"}, Spend(what)
      PROVE  UsedTypes'
  BY <1>0 DEF Spend, TypeOK, UsedTypes
<1>1. CASE RequestNotify
  <2>1. UNCHANGED used \/ Spend("requests")
    BY <1>1 DEF RequestNotify
  <2> QED
    BY <1>0, <2>1 DEF TypeOK, UsedTypes
<1>2. CASE CheckForConnect
  <2>1. UNCHANGED used \/ Spend("faults")
    BY <1>2 DEF CheckForConnect
  <2> QED
    BY <1>0, <2>1 DEF TypeOK, UsedTypes
<1>3. CASE ResendItem
  <2>1. UNCHANGED used \/ Spend("faults")
    BY <1>3, HeldPacket, Packet
  <2> QED
    BY <1>0, <2>1 DEF TypeOK, UsedTypes
<1>4. CASE DrainQueue
  <2>1. UNCHANGED used \/ Spend("faults")
    BY <1>4, DrainedPacket, Packet
  <2> QED
    BY <1>0, <2>1 DEF TypeOK, UsedTypes
<1>5. CASE PmtReports
  <2>1. UNCHANGED used \/ Spend("faults")
    BY <1>5 DEF PmtReports, HostReportsPmt
  <2> QED
    BY <1>0, <2>1 DEF TypeOK, UsedTypes
<1>6. CASE LinkDown
  <2>1. UNCHANGED used \/ Spend("faults")
    BY <1>6 DEF LinkDown
  <2> QED
    BY <1>0, <2>1 DEF TypeOK, UsedTypes
<1>7. CASE CrashAndRestart
  <2>1. UNCHANGED used \/ Spend("crashes")
    BY <1>7 DEF CrashAndRestart
  <2> QED
    BY <1>0, <2>1 DEF TypeOK, UsedTypes
<1>8. CASE \/ Submits
           \/ CountUp
           \/ AnswerIfEmpty
           \/ Responses
           \/ Checks
           \/ Tells
           \/ Resets
           \/ CountsDown
           \/ CheckOnline
           \/ FetchItem
           \/ SkipItem
           \/ DropBadItem
           \/ DropItemNotToResend
           \/ ResendFreedItem
           \/ ReadAck
           \/ ReadTicketResponse
           \/ ReadSlotMastResponse
           \/ ReadHeartbeatResponse
           \/ Elapse
           \/ UNCHANGED vars
  <2>1. UNCHANGED <<used>>
    BY <1>8 DEF Submit, CountUp, AnswerIfEmpty, TicketResponseReceived,
      CheckEmpty, TellEmpty, ResetNotify, CountDown, CheckOnline, FetchItem,
      SkipItem, DropBadItem, DropItemNotToResend, ResendFreedItem, ReadAck,
      ReadTicketResponse, ReadSlotMastResponse, ReadHeartbeatResponse, Elapse,
      Submits, Responses, Checks, Tells, Resets, CountsDown, vars
  <2> QED
    BY <2>1 DEF TypeOK, UsedTypes
<1> QED
  BY <1>1, <1>2, <1>3, <1>4, <1>5, <1>6, <1>7, <1>8, NextCases

\* A thread that reads takes the first message, which is an answer if it has to
\* be one, and leaves the others.
LEMMA Reading ==
  ASSUME TypeOK, NEW type, Reads(type)
  PROVE  /\ fromHost # <<>> /\ Head(fromHost) \in Message /\ Head(fromHost).type = type
         /\ Head(fromHost) = fromHost[1] /\ 1 \in DOMAIN fromHost
         /\ fromHost' = Tail(fromHost) /\ fromHost' \in Seq(Message)
         /\ \A i \in DOMAIN fromHost' : \E j \in DOMAIN fromHost : fromHost'[i] = fromHost[j]
         /\ type # "pmt" => Head(fromHost) \in Answer /\ Head(fromHost).tx \in Submitted
<1>1. fromHost # <<>> /\ Head(fromHost).type = type /\ fromHost' = Tail(fromHost)
  BY DEF Reads
<1>2. fromHost \in Seq(Message)
  BY DEF TypeOK, NetTypes
<1>3. /\ Head(fromHost) \in Message /\ fromHost' \in Seq(Message)
      /\ Head(fromHost) = fromHost[1] /\ 1 \in DOMAIN fromHost
  BY <1>1, <1>2, TailElements
<1>4. \A i \in DOMAIN fromHost' : \E j \in DOMAIN fromHost : fromHost'[i] = fromHost[j]
  BY <1>1, <1>2, TailElements
<1>5. type # "pmt" => Head(fromHost) \in Answer /\ Head(fromHost).tx \in Submitted
  BY <1>1, <1>3 DEF Message, Answer
<1> QED
  BY <1>1, <1>3, <1>4, <1>5

\* The answers to a transaction are about it.
LEMMA AnswersType ==
  ASSUME NEW n \in Submitted
  PROVE  /\ Answers(n) \in Seq(Answer)
         /\ \A i \in DOMAIN Answers(n) :
               /\ Answers(n)[i].tx = n
               /\ Answers(n)[i].type = "ticket" => IsTicket(n)
<1>1. /\ [type |-> "ack", tx |-> n] \in Answer
      /\ [type |-> "ticket", tx |-> n] \in Answer
      /\ [type |-> "slotmast", tx |-> n] \in Answer
  BY DEF Answer
<1>2. CASE IsTicket(n)
  BY <1>1, <1>2 DEF Answers
<1>3. CASE ~IsTicket(n)
  BY <1>1, <1>3 DEF Answers
<1> QED
  BY <1>2, <1>3

\* What the host is sent and answers is typed.
LEMMA PacketTypes ==
  ASSUME TypeOK, NEW n \in Submitted, NEW c, SendPacket(n, c), Submitted' = Submitted
  PROVE  NetTypes' /\ SeenTypes'
<1>1. Answers(n) \in Seq(Message) /\ fromHost \in Seq(Message)
  <2>1. Answers(n) \in Seq(Answer) /\ Answer \subseteq Message
    BY AnswersType DEF Message
  <2> QED
    BY <2>1, SeqMonotonic DEF TypeOK, NetTypes
<1>2. fromHost \o Answers(n) \in Seq(Message) /\ <<>> \in Seq(Message)
  BY <1>1, ConcatElements, EmptySeq
<1>3. fromHost' \in Seq(Message)
  BY <1>1, <1>2, Packet
<1>4. Message' = Message
  BY DEF Message, Answer
<1>5. connected' \in BOOLEAN /\ pmtUp' \in BOOLEAN
  <2>1. pmtUp' = pmtUp /\ (connected' = connected \/ connected' = FALSE)
    BY Packet
  <2>2. connected \in BOOLEAN /\ pmtUp \in BOOLEAN
    BY DEF TypeOK, NetTypes
  <2>3. pmtUp' \in BOOLEAN
    BY <2>1, <2>2
  <2>4. connected' \in BOOLEAN
    BY <2>1, <2>2, Zenon
  <2> QED
    BY <2>3, <2>4
<1>6. received' \subseteq Submitted
  <2>1. received' \subseteq received \cup {n}
    BY Packet
  <2>2. received \subseteq Submitted
    BY DEF TypeOK, SeenTypes
  <2> QED
    BY <2>1, <2>2
<1>7. tries' \in Seq(Nat) /\ DOMAIN tries' = Submitted
  <2>1. tries' = tries \/ tries' = [tries EXCEPT ![n] = @ + 1]
    BY Packet
  <2>2. /\ tries \in Seq(Nat) /\ DOMAIN tries = Submitted
        /\ DOMAIN tries = 1..Len(tries) /\ tries[n] \in Nat
    BY LenProperties, ElementOfSeq DEF TypeOK, SeenTypes
  <2>3. [tries EXCEPT ![n] = tries[n] + 1] \in Seq(Nat)
    BY <2>2, ExceptSeq
  <2> QED
    BY <2>1, <2>2, <2>3
<1> QED
  BY <1>3, <1>4, <1>5, <1>6, <1>7 DEF NetTypes, SeenTypes

\* What is under way from the host stays a sequence of answers.
LEMMA NetTypesStep ==
  ASSUME TypeOK, HeldItem, [Next]_vars
  PROVE  NetTypes'
<1>0. Message \subseteq Message'
  BY LogGrows DEF Message, Answer
<1>a. ASSUME fromHost' \in Seq(Message), connected' \in BOOLEAN, pmtUp' \in BOOLEAN
      PROVE  NetTypes'
  BY <1>0, <1>a, SeqMonotonic DEF NetTypes
<1>b. connected \in BOOLEAN /\ pmtUp \in BOOLEAN /\ fromHost \in Seq(Message)
  BY DEF TypeOK, NetTypes
<1>1. CASE Submits
  <2>1. UNCHANGED net
    BY <1>1 DEF Submits, Submit
  <2> QED
    BY <1>a, <1>b, <2>1 DEF net
<1>2. CASE CheckForConnect
  <2>1. connected' \in BOOLEAN /\ pmtUp' \in BOOLEAN /\ fromHost' = fromHost
    BY <1>2, <1>b DEF CheckForConnect, net
  <2> QED
    BY <1>a, <1>b, <2>1
<1>3. CASE ResendItem
  <2>1. Submitted' = Submitted
    BY <1>3 DEF ResendItem, Submitted
  <2> QED
    BY <1>3, <2>1, HeldPacket, PacketTypes
<1>4. CASE DrainQueue
  <2>1. Submitted' = Submitted
    BY <1>4 DEF DrainQueue, Submitted
  <2>2. UNCHANGED net \/ (Head(queue) \in Submitted /\ SendPacket(Head(queue), 0))
    BY <1>4, DrainedPacket
  <2>3. UNCHANGED net => NetTypes'
    BY <1>a, <1>b DEF net
  <2> QED
    BY <2>1, <2>2, <2>3, PacketTypes
<1>5. CASE ReadAck
  <2>1. Reads("ack")
    BY <1>5 DEF ReadAck
  <2>2. fromHost' \in Seq(Message)
    BY <2>1, Reading
  <2>3. connected' \in BOOLEAN /\ pmtUp' \in BOOLEAN
    BY <1>5, <1>b DEF ReadAck
  <2> QED
    BY <1>a, <2>2, <2>3
<1>6. CASE ReadTicketResponse
  <2>1. Reads("ticket")
    BY <1>6 DEF ReadTicketResponse
  <2>2. fromHost' \in Seq(Message)
    BY <2>1, Reading
  <2>3. connected' \in BOOLEAN /\ pmtUp' \in BOOLEAN
    BY <1>6, <1>b DEF ReadTicketResponse
  <2> QED
    BY <1>a, <2>2, <2>3
<1>7. CASE ReadSlotMastResponse
  <2>1. Reads("slotmast")
    BY <1>7 DEF ReadSlotMastResponse
  <2>2. fromHost' \in Seq(Message)
    BY <2>1, Reading
  <2>3. connected' \in BOOLEAN /\ pmtUp' \in BOOLEAN
    BY <1>7, <1>b DEF ReadSlotMastResponse
  <2> QED
    BY <1>a, <2>2, <2>3
<1>8. CASE ReadHeartbeatResponse
  <2>1. Reads("pmt") /\ pmtUp' = Head(fromHost).up /\ connected' = connected
    BY <1>8 DEF ReadHeartbeatResponse
  <2>2. fromHost' \in Seq(Message) /\ Head(fromHost) \in Message /\ Head(fromHost).type = "pmt"
    BY <2>1, Reading
  <2>3. Head(fromHost).up \in BOOLEAN
    BY <2>2 DEF Message, Answer
  <2> QED
    BY <1>a, <1>b, <2>1, <2>2, <2>3
<1>9. CASE PmtReports
  <2>1. PICK up \in BOOLEAN : HostReportsPmt(up)
    BY <1>9 DEF PmtReports
  <2>2. fromHost' = Append(fromHost, [type |-> "pmt", up |-> up]) /\ UNCHANGED <<connected, pmtUp>>
    BY <2>1 DEF HostReportsPmt
  <2>3. [type |-> "pmt", up |-> up] \in Message
    BY DEF Message
  <2> QED
    BY <1>a, <1>b, <2>2, <2>3, Appended
<1>10. CASE LinkDown
  <2>1. connected' \in BOOLEAN /\ pmtUp' \in BOOLEAN /\ fromHost' = <<>>
    BY <1>10, <1>b DEF LinkDown, Disconnect
  <2> QED
    BY <1>a, <2>1, EmptySeq
<1>11. CASE CrashAndRestart
  <2>1. connected' \in BOOLEAN /\ pmtUp' \in BOOLEAN /\ fromHost' = <<>>
    BY <1>11, <1>b DEF CrashAndRestart, Disconnect
  <2> QED
    BY <1>a, <2>1, EmptySeq
<1>12. CASE \/ CountUp
           \/ RequestNotify
           \/ AnswerIfEmpty
           \/ Responses
           \/ Checks
           \/ Tells
           \/ Resets
           \/ CountsDown
           \/ CheckOnline
           \/ FetchItem
           \/ SkipItem
           \/ DropBadItem
           \/ DropItemNotToResend
           \/ ResendFreedItem
           \/ Elapse
           \/ UNCHANGED vars
  <2>1. UNCHANGED <<connected, pmtUp, fromHost, log>>
    BY <1>12 DEF CountUp, RequestNotify, AnswerIfEmpty,
      TicketResponseReceived, CheckEmpty, TellEmpty, ResetNotify, CountDown,
      CheckOnline, FetchItem, SkipItem, DropBadItem, DropItemNotToResend,
      ResendFreedItem, Elapse, Responses, Checks, Tells, Resets, CountsDown,
      net, vars
  <2> QED
    BY <2>1 DEF TypeOK, NetTypes, Message, Answer, Submitted
<1> QED
  BY <1>1, <1>2, <1>3, <1>4, <1>5, <1>6, <1>7, <1>8, <1>9, <1>10, <1>11,
    <1>12, NextCases

\* Received and listed at the connect are transactions that were handed over.
LEMMA SeenTypesStep ==
  ASSUME TypeOK, HeldItem, [Next]_vars
  PROVE  SeenTypes'
<1>0. Submitted \subseteq Submitted'
  BY LogGrows
<1>1. CASE Submits
  <2>1. PICK offer \in Offers : Submit(offer)
    BY <1>1 DEF Submits
  <2>2. tries' = Append(tries, 0) /\ UNCHANGED received
    BY <2>1 DEF Submit
  <2>3. DOMAIN log' = DOMAIN log \cup {Len(log) + 1}
    BY <2>1, Appended DEF Submit, TypeOK, LogTypes
  <2>4. DOMAIN tries' = DOMAIN tries \cup {Len(tries) + 1} /\ tries' \in Seq(Nat)
    BY <2>2, Appended DEF TypeOK, SeenTypes
  <2>5. Len(tries) = Len(log)
    BY LenProperties DEF TypeOK, SeenTypes, LogTypes, Submitted
  <2> QED
    BY <1>0, <2>2, <2>3, <2>4, <2>5 DEF TypeOK, SeenTypes, Submitted
<1>2. CASE Responses
  <2>1. UNCHANGED <<log, received, tries>>
    BY <1>2, Removal DEF Responses, TicketResponseReceived, seen
  <2> QED
    BY <1>0, <2>1 DEF TypeOK, SeenTypes, Submitted
<1>3. CASE CheckForConnect
  <2>1. UNCHANGED <<log, received, tries>>
    BY <1>3 DEF CheckForConnect
  <2> QED
    BY <1>0, <2>1 DEF TypeOK, SeenTypes, Submitted
<1>4. CASE DropBadItem
  <2>1. UNCHANGED <<log, received, tries>>
    BY <1>4, Removal DEF DropBadItem, seen
  <2> QED
    BY <1>0, <2>1 DEF TypeOK, SeenTypes, Submitted
<1>5. CASE DropItemNotToResend
  <2>1. UNCHANGED <<log, received, tries>>
    BY <1>5, Removal DEF DropItemNotToResend, seen
  <2> QED
    BY <1>0, <2>1 DEF TypeOK, SeenTypes, Submitted
<1>6. CASE ResendItem
  <2>1. Submitted' = Submitted
    BY <1>6 DEF ResendItem, Submitted
  <2> QED
    BY <1>6, <2>1, HeldPacket, PacketTypes
<1>7. CASE DrainQueue
  <2>1. Submitted' = Submitted
    BY <1>7 DEF DrainQueue, Submitted
  <2>2. UNCHANGED seen \/ (Head(queue) \in Submitted /\ SendPacket(Head(queue), 0))
    BY <1>7, DrainedPacket
  <2>3. UNCHANGED seen => SeenTypes'
    BY <2>1 DEF seen, TypeOK, SeenTypes
  <2> QED
    BY <2>1, <2>2, <2>3, PacketTypes
<1>8. CASE ReadAck
  <2>1. UNCHANGED <<log, received, tries>>
    BY <1>8, Removal DEF ReadAck, seen
  <2> QED
    BY <1>0, <2>1 DEF TypeOK, SeenTypes, Submitted
<1>9. CASE ReadTicketResponse
  <2>1. UNCHANGED <<log, received, tries>>
    BY <1>9, Removal DEF ReadTicketResponse, seen
  <2> QED
    BY <1>0, <2>1 DEF TypeOK, SeenTypes, Submitted
<1>10. CASE ReadSlotMastResponse
  <2>1. UNCHANGED <<log, received, tries>>
    BY <1>10, Removal DEF ReadSlotMastResponse, seen
  <2> QED
    BY <1>0, <2>1 DEF TypeOK, SeenTypes, Submitted
<1>11. CASE CrashAndRestart
  <2>1. UNCHANGED <<log, received, tries>>
    BY <1>11, Removal DEF CrashAndRestart, seen
  <2> QED
    BY <1>0, <2>1 DEF TypeOK, SeenTypes, Submitted
<1>12. CASE \/ CountUp
           \/ RequestNotify
           \/ AnswerIfEmpty
           \/ Checks
           \/ Tells
           \/ Resets
           \/ CountsDown
           \/ CheckOnline
           \/ FetchItem
           \/ SkipItem
           \/ ResendFreedItem
           \/ ReadHeartbeatResponse
           \/ PmtReports
           \/ LinkDown
           \/ Elapse
           \/ UNCHANGED vars
  <2>1. UNCHANGED <<received, tries, log>>
    BY <1>12 DEF CountUp, RequestNotify, AnswerIfEmpty, CheckEmpty, TellEmpty,
      ResetNotify, CountDown, CheckOnline, FetchItem, SkipItem,
      ResendFreedItem, ReadHeartbeatResponse, HostReportsPmt, LinkDown,
      Elapse, Checks, Tells, Resets, CountsDown, PmtReports, seen, vars
  <2> QED
    BY <2>1 DEF TypeOK, SeenTypes, Submitted
<1> QED
  BY <1>1, <1>2, <1>3, <1>4, <1>5, <1>6, <1>7, <1>8, <1>9, <1>10, <1>11,
    <1>12, NextCases

\* The state of the send thread.
LEMMA SendTypesStep ==
  ASSUME TypeOK, [Next]_vars
  PROVE  send' \in [pc : SendPc, item : Item'] /\ online' \in BOOLEAN
<1>0. Item \subseteq Item'
  BY LogGrows DEF Item
<1>t. send \in [pc : SendPc, item : Item] /\ online \in BOOLEAN /\ connected \in BOOLEAN
  BY DEF TypeOK, ThreadTypes, NetTypes
<1>n. NoItem \in Item
  BY DEF NoItem, Item
<1>d. ItemDone => send' \in [pc : SendPc, item : Item]
  BY <1>t DEF ItemDone, Item
<1>u. send \in [pc : SendPc, item : Item']
  BY <1>0, <1>t
<1>1. CASE Submits
  BY <1>1, <1>t, <1>u DEF Submits, Submit
<1>2. CASE CheckForConnect
  BY <1>2, <1>t, <1>0 DEF CheckForConnect, SendPc
<1>3. CASE CheckOnline
  <2>1. online' = connected
    BY <1>3 DEF CheckOnline
  <2>2. send'.pc \in SendPc /\ send' = [pc |-> send'.pc, item |-> NoItem]
    BY <1>3 DEF CheckOnline, SendPc
  <2> QED
    BY <1>0, <1>t, <1>n, <2>1, <2>2
<1>4. CASE FetchItem
  <2> DEFINE last == send.item.id
             rest == IF last = 0 THEN DOMAIN list
                     ELSE IF last \in DOMAIN list THEN {id \in DOMAIN list : id > last} ELSE {}
  <2>1. CASE rest = {}
    <3>1. \E pc \in SendPc : send' = [pc |-> pc, item |-> NoItem]
      BY <1>4, <2>1 DEF FetchItem, SendPc
    <3> QED
      BY <1>4, <3>1, <1>0, <1>t, <1>n DEF FetchItem
  <2>2. CASE rest # {}
    <3>1. rest \in SUBSET Nat /\ rest \subseteq DOMAIN list
      BY DEF TypeOK, StorageTypes
    <3>2. Smallest(rest) \in DOMAIN list /\ Smallest(rest) \in Nat
      BY <3>1, <2>2, SmallestIn
    <3>3. send' = [send EXCEPT !.item = [id |-> Smallest(rest), tx |-> list[Smallest(rest)].tx,
                                         due |-> list[Smallest(rest)].due, valid |-> TRUE]]
      BY <1>4, <2>2 DEF FetchItem
    <3>4. [id |-> Smallest(rest), tx |-> list[Smallest(rest)].tx,
           due |-> list[Smallest(rest)].due, valid |-> TRUE] \in Item
      <4> HIDE DEF rest
      <4> QED
        BY <3>2 DEF TypeOK, StorageTypes, Item
    <3>5. online' = online
      BY <1>4 DEF FetchItem
    <3> HIDE DEF rest
    <3> QED
      BY <1>0, <1>t, <3>3, <3>4, <3>5
  <2> QED
    BY <2>1, <2>2
<1>5. CASE SkipItem
  BY <1>5, <1>0, <1>t, <1>d DEF SkipItem
<1>6. CASE DropBadItem
  BY <1>6, <1>0, <1>t, <1>d DEF DropBadItem
<1>7. CASE DropItemNotToResend
  BY <1>7, <1>0, <1>t, <1>d DEF DropItemNotToResend
<1>8. CASE ResendItem
  BY <1>8, <1>0, <1>t, <1>d DEF ResendItem
<1>9. CASE ResendFreedItem
  BY <1>9, <1>0, <1>t, <1>d DEF ResendFreedItem
<1>10. CASE DrainQueue
  BY <1>10, <1>0, <1>t, <1>u DEF DrainQueue, SendPc
<1>11. CASE CrashAndRestart
  BY <1>11, <1>0, <1>n DEF CrashAndRestart, SendPc
<1>12. CASE \/ CountUp
           \/ RequestNotify
           \/ AnswerIfEmpty
           \/ Responses
           \/ Checks
           \/ Tells
           \/ Resets
           \/ CountsDown
           \/ ReadAck
           \/ ReadTicketResponse
           \/ ReadSlotMastResponse
           \/ ReadHeartbeatResponse
           \/ PmtReports
           \/ LinkDown
           \/ Elapse
           \/ UNCHANGED vars
  <2>1. UNCHANGED <<send, online, log>>
    BY <1>12 DEF CountUp, RequestNotify, AnswerIfEmpty,
      TicketResponseReceived, CheckEmpty, TellEmpty, ResetNotify, CountDown,
      ReadAck, ReadTicketResponse, ReadSlotMastResponse,
      ReadHeartbeatResponse, HostReportsPmt, LinkDown, Elapse, Responses,
      Checks, Tells, Resets, CountsDown, PmtReports, thread, vars
  <2> QED
    BY <1>t, <1>u, <2>1
<1> QED
  BY <1>1, <1>2, <1>3, <1>4, <1>5, <1>6, <1>7, <1>8, <1>9, <1>10, <1>11,
    <1>12, NextCases

-----------------------------------------------------------------------------
(* Ids and entries *)

\* An entry is an old one with its transaction, or that of the new transaction.
LEMMA EntriesStep ==
  ASSUME TypeOK, [Next]_vars
  PROVE  \A id \in DOMAIN list' :
            \/ id \in DOMAIN list /\ list'[id].tx = list[id].tx
            \/ /\ Submits /\ id = uniqueId + 1 /\ list'[id].tx = Len(log) + 1
<1>1. CASE Submits
  <2>1. PICK offer \in Offers : Submit(offer)
    BY <1>1 DEF Submits
  <2>2. list' = list \/ list' = With(list, uniqueId + 1, [tx |-> Len(log) + 1, due |-> FALSE])
    BY <2>1 DEF Submit
  <2> QED
    BY <1>1, <2>2 DEF With
<1>2. CASE Responses
  BY <1>2, Removal DEF Responses, TicketResponseReceived, storage
<1>3. CASE DropBadItem
  BY <1>3, Removal DEF DropBadItem, storage
<1>4. CASE DropItemNotToResend
  BY <1>4, Removal DEF DropItemNotToResend, storage
<1>5. CASE ResendItem
  <2>1. list' = list \/ list' = [list EXCEPT ![send.item.id].due = FALSE]
    BY <1>5 DEF ResendItem
  <2>2. \A id \in DOMAIN list : list[id] \in [tx : Submitted, due : BOOLEAN]
    BY DEF TypeOK, StorageTypes
  <2> QED
    BY <2>1, <2>2
<1>6. CASE ReadAck
  BY <1>6, Removal DEF ReadAck, storage
<1>7. CASE ReadTicketResponse
  BY <1>7, Removal DEF ReadTicketResponse, storage
<1>8. CASE ReadSlotMastResponse
  <2>1. list' = list \/ \E id : list' = Without(list, id)
    BY <1>8 DEF ReadSlotMastResponse
  <2> QED
    BY <2>1 DEF Without
<1>9. CASE Elapse
  <2>1. list' = [id \in DOMAIN list |-> [list[id] EXCEPT !.due = TRUE]]
    BY <1>9 DEF Elapse
  <2>2. \A id \in DOMAIN list : list[id] \in [tx : Submitted, due : BOOLEAN]
    BY DEF TypeOK, StorageTypes
  <2> QED
    BY <2>1, <2>2
<1>10. CASE CrashAndRestart
  <2>1. PICK old \in BOOLEAN : list' = [id \in DOMAIN list |-> [list[id] EXCEPT !.due = old]]
    BY <1>10 DEF CrashAndRestart
  <2>2. \A id \in DOMAIN list : list[id] \in [tx : Submitted, due : BOOLEAN]
    BY DEF TypeOK, StorageTypes
  <2> QED
    BY <2>1, <2>2
<1>11. CASE \/ CountUp
           \/ RequestNotify
           \/ AnswerIfEmpty
           \/ Checks
           \/ Tells
           \/ Resets
           \/ CountsDown
           \/ CheckForConnect
           \/ CheckOnline
           \/ FetchItem
           \/ SkipItem
           \/ ResendFreedItem
           \/ DrainQueue
           \/ ReadHeartbeatResponse
           \/ PmtReports
           \/ LinkDown
           \/ UNCHANGED vars
  <2>1. UNCHANGED <<list>>
    BY <1>11 DEF CountUp, RequestNotify, AnswerIfEmpty, CheckEmpty, TellEmpty,
      ResetNotify, CountDown, CheckForConnect, CheckOnline, FetchItem,
      SkipItem, ResendFreedItem, DrainQueue, ReadHeartbeatResponse,
      HostReportsPmt, LinkDown, Checks, Tells, Resets, CountsDown, PmtReports,
      storage, vars
  <2> QED
    BY <2>1 DEF StorageTypes
<1> QED
  BY <1>1, <1>2, <1>3, <1>4, <1>5, <1>6, <1>7, <1>8, <1>9, <1>10, <1>11,
    NextCases

\* What is submitted: the new transaction has the next id, and nothing else
\* that is told apart by ids changes.
LEMMA Submitting ==
  ASSUME TypeOK, Submits
  PROVE  LET n == Len(log) + 1 IN
         \E offer \in Offers :
            /\ log'[n].id = uniqueId + 1 /\ log'[n].kind = offer.kind /\ log'[n].bad = offer.bad
            /\ log'[n].stored = (offer.kind # "session" /\ Cardinality(DOMAIN list) < Capacity)
            /\ n \notin Submitted /\ Submitted' = Submitted \cup {n}
            /\ \A m \in Submitted : log'[m] = log[m]
            /\ uniqueId' = uniqueId + 1
            /\ list' = IF log'[n].stored THEN With(list, uniqueId + 1, [tx |-> n, due |-> FALSE])
                                         ELSE list
            /\ notToResend' = IF offer.kind = "vendAuth"
                              THEN notToResend \cup {uniqueId + 1} ELSE notToResend
            /\ queue' = Append(queue, n)
            /\ UNCHANGED <<badCount, net, send, online, inner, received, used>>
<1>1. PICK offer \in Offers : Submit(offer)
  BY DEF Submits
<1> DEFINE n == Len(log) + 1
           stored == offer.kind # "session" /\ Cardinality(DOMAIN list) < Capacity
           r == [kind |-> offer.kind, bad |-> offer.bad, id |-> uniqueId + 1, stored |-> stored]
<1>2. log' = Append(log, r)
  BY <1>1 DEF Submit
<1>3. /\ log'[n] = r /\ n \notin Submitted /\ Submitted' = Submitted \cup {n}
      /\ \A m \in Submitted : log'[m] = log[m]
  <2>1. PICK S : log \in Seq(S)
    BY DEF TypeOK, LogTypes
  <2>2. log \in Seq(S) /\ S \subseteq S \cup {r} /\ r \in S \cup {r}
    BY <2>1
  <2> HIDE DEF r
  <2> QED
    BY <1>2, <2>2, Appended DEF Submitted
<1>4. /\ log'[n].id = uniqueId + 1 /\ log'[n].kind = offer.kind
      /\ log'[n].bad = offer.bad /\ log'[n].stored = stored
  <2> HIDE DEF stored
  <2> QED
    BY <1>3
<1>5. /\ uniqueId' = uniqueId + 1
      /\ list' = IF stored THEN With(list, uniqueId + 1, [tx |-> n, due |-> FALSE]) ELSE list
      /\ notToResend' = IF offer.kind = "vendAuth"
                        THEN notToResend \cup {uniqueId + 1} ELSE notToResend
      /\ queue' = Append(queue, n)
      /\ UNCHANGED <<badCount, net, send, online, inner, received, used>>
  BY <1>1 DEF Submit
<1> QED
  BY <1>3, <1>4, <1>5

\* A step of another action submits nothing.
LEMMA NotSubmitted ==
  ASSUME TypeOK, log' = log
  PROVE  ~Submits
<1>1. Submits => Submitted' # Submitted
  BY Submitting
<1> QED
  BY <1>1 DEF Submitted

\* What is under way stays so, or is the new transaction, or is the one that
\* the send thread holds.
LEMMA UnderWayStep ==
  ASSUME TypeOK, HeldItem, [Next]_vars
  PROVE  \A n \in UnderWay' :
            \/ n \in UnderWay
            \/ ResendItem /\ n = send.item.tx
            \/ Submits /\ n = Len(log) + 1
<1>a. InAnswers = {fromHost[i].tx : i \in {j \in DOMAIN fromHost : fromHost[j].type # "pmt"}}
      /\ InAnswers' = {fromHost'[i].tx : i \in {j \in DOMAIN fromHost' : fromHost'[j].type # "pmt"}}
  BY DEF InAnswers
<1>b. ASSUME NEW type, Reads(type)
      PROVE  /\ InAnswers' \subseteq InAnswers
             /\ type # "pmt" => Head(fromHost).tx \in InAnswers
  BY <1>a, <1>b, Reading
<1>c. ASSUME NEW n \in Submitted, NEW c, SendPacket(n, c)
      PROVE  InAnswers' \subseteq InAnswers \cup {n}
  <2>1. fromHost' = fromHost \/ fromHost' = <<>> \/ fromHost' = fromHost \o Answers(n)
    BY <1>c, Packet
  <2>2. CASE fromHost' = fromHost \o Answers(n)
    <3>1. Answers(n) \in Seq(Message) /\ fromHost \in Seq(Message)
      <4>1. Answers(n) \in Seq(Answer) /\ Answer \subseteq Message
        BY AnswersType DEF Message
      <4> QED
        BY <4>1, SeqMonotonic DEF TypeOK, NetTypes
    <3>2. \A i \in DOMAIN fromHost' :
             \/ i \in DOMAIN fromHost /\ fromHost'[i] = fromHost[i]
             \/ \E j \in DOMAIN Answers(n) : fromHost'[i] = Answers(n)[j]
      BY <2>2, <3>1, ConcatElements
    <3> QED
      BY <1>a, <3>2, AnswersType
  <2>3. CASE fromHost' = <<>>
    BY <1>a, <2>3
  <2> QED
    BY <1>a, <2>1, <2>2, <2>3
<1>d. UnderWay = answering \cup {queue[i] : i \in DOMAIN queue} \cup InAnswers
      /\ UnderWay' = answering' \cup {queue'[i] : i \in DOMAIN queue'} \cup InAnswers'
  BY DEF UnderWay
<1>1. CASE Submits
  <2>1. queue' = Append(queue, Len(log) + 1) /\ UNCHANGED <<answering, fromHost>>
    BY <1>1, Submitting DEF net, inner
  <2>2. queue \in Seq(Submitted)
    BY DEF TypeOK, QueueTypes
  <2>3. \A i \in DOMAIN queue' : (i \in DOMAIN queue /\ queue'[i] = queue[i])
                                    \/ queue'[i] = Len(log) + 1
    <3> DEFINE T == Submitted \cup {Len(log) + 1}
    <3>1. Submitted \subseteq T /\ Len(log) + 1 \in T
      OBVIOUS
    <3> HIDE DEF T
    <3> QED
      BY <2>1, <2>2, <3>1, Appended
  <2>4. InAnswers' = InAnswers
    BY <2>1, <1>a
  <2> QED
    BY <1>1, <1>d, <2>1, <2>3, <2>4
<1>2. CASE Responses
  <2>1. answering' \subseteq answering /\ UNCHANGED <<queue, fromHost>>
    BY <1>2 DEF Responses, TicketResponseReceived, net
  <2> QED
    BY <2>1 DEF UnderWay, InAnswers
<1>3. CASE ResendItem
  <2>1. UNCHANGED <<answering, queue>>
    BY <1>3 DEF ResendItem, inner
  <2>2. InAnswers' \subseteq InAnswers \cup {send.item.tx}
    BY <1>3, <1>c, HeldPacket
  <2> QED
    BY <1>3, <1>d, <2>1, <2>2
<1>4. CASE DrainQueue
  <2>1. answering' = answering
    BY <1>4 DEF DrainQueue, inner
  <2>2. CASE UNCHANGED <<queue, net>>
    BY <2>1, <2>2 DEF UnderWay, InAnswers, net
  <2>3. CASE queue # <<>> /\ queue' = Tail(queue)
    <3>1. queue \in Seq(Submitted)
      BY DEF TypeOK, QueueTypes
    <3>2. /\ 1 \in DOMAIN queue /\ Head(queue) = queue[1] /\ Head(queue) \in Submitted
          /\ \A i \in DOMAIN queue' : i + 1 \in DOMAIN queue /\ queue'[i] = queue[i + 1]
      BY <2>3, <3>1, TailElements
    <3>3. InAnswers' \subseteq InAnswers \cup {Head(queue)}
      <4>1. UNCHANGED net \/ SendPacket(Head(queue), 0)
        BY <1>4, DrainedPacket, <2>3
      <4>2. UNCHANGED net => InAnswers' = InAnswers
        BY <1>a DEF net
      <4> QED
        BY <1>c, <3>2, <4>1, <4>2
    <3> QED
      BY <1>d, <2>1, <3>2, <3>3
  <2> QED
    BY <1>4, <2>2, <2>3, DrainedPacket
<1>5. CASE ReadAck
  <2>1. Reads("ack") /\ queue' = queue /\ answering' \subseteq answering \cup {Head(fromHost).tx}
    BY <1>5 DEF ReadAck, inner
  <2> QED
    BY <1>b, <1>d, <2>1
<1>6. CASE ReadTicketResponse
  <2>1. Reads("ticket") /\ queue' = queue /\ answering' \subseteq answering \cup {Head(fromHost).tx}
    BY <1>6 DEF ReadTicketResponse, inner
  <2> QED
    BY <1>b, <1>d, <2>1
<1>7. CASE ReadSlotMastResponse
  <2>1. Reads("slotmast") /\ queue' = queue /\ answering' \subseteq answering \cup {Head(fromHost).tx}
    BY <1>7 DEF ReadSlotMastResponse, inner
  <2> QED
    BY <1>b, <1>d, <2>1
<1>8. CASE ReadHeartbeatResponse
  <2>1. Reads("pmt") /\ queue' = queue /\ answering' \subseteq answering
    BY <1>8 DEF ReadHeartbeatResponse, inner
  <2> QED
    BY <1>b, <1>d, <2>1
<1>9. CASE PmtReports
  <2>1. PICK up \in BOOLEAN : HostReportsPmt(up)
    BY <1>9 DEF PmtReports
  <2>2. /\ fromHost' = Append(fromHost, [type |-> "pmt", up |-> up])
        /\ UNCHANGED <<answering, queue>>
    BY <2>1 DEF HostReportsPmt, inner
  <2>3. [type |-> "pmt", up |-> up] \in Message /\ fromHost \in Seq(Message)
    BY DEF Message, TypeOK, NetTypes
  <2>4. \A i \in DOMAIN fromHost' : (i \in DOMAIN fromHost /\ fromHost'[i] = fromHost[i])
                                       \/ fromHost'[i].type = "pmt"
    BY <2>2, <2>3, Appended
  <2>5. InAnswers' \subseteq InAnswers
    BY <1>a, <2>4
  <2> QED
    BY <1>d, <2>2, <2>5
<1>10. CASE LinkDown
  <2>1. fromHost' = <<>> /\ UNCHANGED <<answering, queue>>
    BY <1>10 DEF LinkDown, Disconnect, inner
  <2>2. InAnswers' = {}
    BY <1>a, <2>1
  <2> QED
    BY <1>d, <2>1, <2>2
<1>11. CASE CrashAndRestart
  <2>1. fromHost' = <<>> /\ queue' = <<>> /\ answering' = {}
    BY <1>11 DEF CrashAndRestart, Disconnect
  <2> QED
    BY <2>1 DEF UnderWay, InAnswers
<1>12. CASE \/ CountUp
           \/ RequestNotify
           \/ AnswerIfEmpty
           \/ Checks
           \/ Tells
           \/ Resets
           \/ CountsDown
           \/ CheckForConnect
           \/ CheckOnline
           \/ FetchItem
           \/ SkipItem
           \/ DropBadItem
           \/ DropItemNotToResend
           \/ ResendFreedItem
           \/ Elapse
           \/ UNCHANGED vars
  <2>1. UNCHANGED <<answering, queue, fromHost>>
    BY <1>12 DEF CountUp, RequestNotify, AnswerIfEmpty, CheckEmpty, TellEmpty,
      ResetNotify, CountDown, CheckForConnect, CheckOnline, FetchItem,
      SkipItem, DropBadItem, DropItemNotToResend, ResendFreedItem, Elapse,
      Checks, Tells, Resets, CountsDown, net, inner, vars
  <2> QED
    BY <2>1 DEF UnderWay, InAnswers
<1> QED
  BY <1>1, <1>2, <1>3, <1>4, <1>5, <1>6, <1>7, <1>8, <1>9, <1>10, <1>11,
    <1>12, NextCases

\* Nothing is under way after a restart.
LEMMA NothingUnderWay ==
  ASSUME CrashAndRestart
  PROVE  UnderWay' = {}
<1>1. fromHost' = <<>> /\ queue' = <<>> /\ answering' = {}
  BY DEF CrashAndRestart, Disconnect
<1> QED
  BY <1>1 DEF UnderWay, InAnswers

\* What is under way has been submitted.
LEMMA UnderWaySubmitted ==
  ASSUME TypeOK
  PROVE  UnderWay \subseteq Submitted
<1>1. \A i \in DOMAIN queue : queue[i] \in Submitted
  BY LenProperties, ElementOfSeq DEF TypeOK, QueueTypes
<1>2. \A i \in DOMAIN fromHost : fromHost[i] \in Message
  BY LenProperties, ElementOfSeq DEF TypeOK, NetTypes
<1>3. InAnswers \subseteq Submitted
  BY <1>2 DEF InAnswers, Message, Answer
<1> QED
  BY <1>1, <1>3 DEF UnderWay, TypeOK, InnerTypes

\* The last id changes with a new transaction and with a restart only.
LEMMA UniqueIdStep ==
  ASSUME [Next]_vars
  PROVE  CrashAndRestart \/ (Submits /\ uniqueId' = uniqueId + 1) \/ uniqueId' = uniqueId
<1>1. CASE Submits
  BY <1>1 DEF Submits, Submit
<1>2. CASE CrashAndRestart
  BY <1>2
<1>3. CASE \/ CountUp
           \/ RequestNotify
           \/ AnswerIfEmpty
           \/ Responses
           \/ Checks
           \/ Tells
           \/ Resets
           \/ CountsDown
           \/ CheckForConnect
           \/ CheckOnline
           \/ FetchItem
           \/ SkipItem
           \/ DropBadItem
           \/ DropItemNotToResend
           \/ ResendItem
           \/ ResendFreedItem
           \/ DrainQueue
           \/ ReadAck
           \/ ReadTicketResponse
           \/ ReadSlotMastResponse
           \/ ReadHeartbeatResponse
           \/ PmtReports
           \/ LinkDown
           \/ Elapse
           \/ UNCHANGED vars
  <2>1. UNCHANGED <<uniqueId>>
    BY <1>3 DEF CountUp, RequestNotify, AnswerIfEmpty, TicketResponseReceived,
      CheckEmpty, TellEmpty, ResetNotify, CountDown, CheckForConnect,
      CheckOnline, FetchItem, SkipItem, DropBadItem, DropItemNotToResend,
      ResendItem, ResendFreedItem, DrainQueue, ReadAck, ReadTicketResponse,
      ReadSlotMastResponse, ReadHeartbeatResponse, HostReportsPmt, LinkDown,
      Elapse, Responses, Checks, Tells, Resets, CountsDown, PmtReports,
      storage, vars
  <2> QED
    BY <2>1 DEF storage
<1> QED
  BY <1>1, <1>2, <1>3, NextCases

\* Ids counted as bad were counted before, or are those of the item that the
\* send thread holds or of a transaction in the queue.
LEMMA BadIdsStep ==
  ASSUME TypeOK, HeldItem, [Next]_vars
  PROVE  \A id \in DOMAIN badCount' :
            id \in DOMAIN badCount \cup {send.item.id} \cup {log[n].id : n \in UnderWay}
<1>1. CASE Responses
  BY <1>1, Removal DEF Responses, TicketResponseReceived, marks
<1>2. CASE DropBadItem
  BY <1>2, Removal DEF DropBadItem, marks
<1>3. CASE DropItemNotToResend
  BY <1>3, Removal DEF DropItemNotToResend, marks
<1>4. CASE ResendItem
  <2>1. \/ badCount' = badCount
        \/ \E c : badCount' = With(badCount, send.item.id, c)
    BY <1>4, HeldPacket, Packet
  <2> QED
    BY <2>1 DEF With
<1>5. CASE ResendFreedItem
  BY <1>5 DEF ResendFreedItem, With
<1>6. CASE DrainQueue
  <2>1. \/ badCount' = badCount
        \/ queue # <<>> /\ badCount' = With(badCount, log[Head(queue)].id, 0)
    BY <1>6, DrainedPacket, Packet
  <2>2. queue # <<>> => Head(queue) \in UnderWay
    BY TailElements DEF TypeOK, QueueTypes, UnderWay
  <2> QED
    BY <2>1, <2>2 DEF With
<1>7. CASE ReadAck
  BY <1>7, Removal DEF ReadAck, marks
<1>8. CASE ReadTicketResponse
  BY <1>8, Removal DEF ReadTicketResponse, marks
<1>9. CASE CrashAndRestart
  BY <1>9 DEF CrashAndRestart
<1>10. CASE \/ Submits
           \/ CountUp
           \/ RequestNotify
           \/ AnswerIfEmpty
           \/ Checks
           \/ Tells
           \/ Resets
           \/ CountsDown
           \/ CheckForConnect
           \/ CheckOnline
           \/ FetchItem
           \/ SkipItem
           \/ ReadSlotMastResponse
           \/ ReadHeartbeatResponse
           \/ PmtReports
           \/ LinkDown
           \/ Elapse
           \/ UNCHANGED vars
  <2>1. UNCHANGED <<badCount>>
    BY <1>10 DEF Submit, CountUp, RequestNotify, AnswerIfEmpty, CheckEmpty,
      TellEmpty, ResetNotify, CountDown, CheckForConnect, CheckOnline,
      FetchItem, SkipItem, ReadSlotMastResponse, ReadHeartbeatResponse,
      HostReportsPmt, LinkDown, Elapse, Submits, Checks, Tells, Resets,
      CountsDown, PmtReports, marks, vars
  <2> QED
    BY <2>1 DEF marks
<1> QED
  BY <1>1, <1>2, <1>3, <1>4, <1>5, <1>6, <1>7, <1>8, <1>9, <1>10, NextCases

\* Only a new transaction is marked as not to be sent again.
LEMMA MarkedStep ==
  ASSUME TypeOK, [Next]_vars
  PROVE  \A id \in notToResend' :
            \/ id \in notToResend
            \/ Submits /\ id = uniqueId + 1 /\ log'[Len(log) + 1].kind = "vendAuth"
<1>1. CASE Submits
  BY <1>1, Submitting
<1>2. CASE DropItemNotToResend
  BY <1>2 DEF DropItemNotToResend
<1>3. CASE CrashAndRestart
  BY <1>3 DEF CrashAndRestart
<1>4. CASE \/ CountUp
           \/ RequestNotify
           \/ AnswerIfEmpty
           \/ Responses
           \/ Checks
           \/ Tells
           \/ Resets
           \/ CountsDown
           \/ CheckForConnect
           \/ CheckOnline
           \/ FetchItem
           \/ SkipItem
           \/ DropBadItem
           \/ ResendItem
           \/ ResendFreedItem
           \/ DrainQueue
           \/ ReadAck
           \/ ReadTicketResponse
           \/ ReadSlotMastResponse
           \/ ReadHeartbeatResponse
           \/ PmtReports
           \/ LinkDown
           \/ Elapse
           \/ UNCHANGED vars
  <2>1. UNCHANGED <<notToResend>>
    BY <1>4 DEF CountUp, RequestNotify, AnswerIfEmpty, TicketResponseReceived,
      CheckEmpty, TellEmpty, ResetNotify, CountDown, CheckForConnect,
      CheckOnline, FetchItem, SkipItem, DropBadItem, ResendItem,
      ResendFreedItem, DrainQueue, ReadAck, ReadTicketResponse,
      ReadSlotMastResponse, ReadHeartbeatResponse, HostReportsPmt, LinkDown,
      Elapse, Responses, Checks, Tells, Resets, CountsDown, PmtReports, marks,
      vars
  <2> QED
    BY <2>1 DEF marks
<1> QED
  BY <1>1, <1>2, <1>3, <1>4, NextCases

\* The item of the send thread stays, or is done with, or is an entry of the list.
LEMMA HeldStep ==
  ASSUME TypeOK, [Next]_vars
  PROVE  \/ send'.item = NoItem /\ ~Holding'
         \/ send'.item.id = send.item.id /\ send'.item.tx = send.item.tx /\ ~Holding'
         \/ send' = send
         \/ FetchItem /\ send'.item.id \in DOMAIN list /\ send'.item.tx = list[send'.item.id].tx
<1>a. ItemDone => /\ send'.item.id = send.item.id /\ send'.item.tx = send.item.tx /\ ~Holding'
  BY DEF ItemDone, Holding, TypeOK, ThreadTypes, Item
<1>1. CASE CheckForConnect
  BY <1>1 DEF CheckForConnect, Holding, TypeOK, ThreadTypes, Item
<1>2. CASE CheckOnline
  <2>1. send'.item = NoItem
    BY <1>2 DEF CheckOnline
  <2> QED
    BY <2>1 DEF NoItem, Holding
<1>3. CASE FetchItem
  <2> DEFINE last == send.item.id
             rest == IF last = 0 THEN DOMAIN list
                     ELSE IF last \in DOMAIN list THEN {id \in DOMAIN list : id > last} ELSE {}
  <2>1. CASE rest = {}
    <3>1. send'.item = NoItem
      BY <1>3, <2>1 DEF FetchItem
    <3> QED
      BY <3>1 DEF NoItem, Holding
  <2>2. CASE rest # {}
    <3>1. rest \in SUBSET Nat /\ rest \subseteq DOMAIN list
      BY DEF TypeOK, StorageTypes
    <3>2. Smallest(rest) \in DOMAIN list
      BY <3>1, <2>2, SmallestIn
    <3>3. send' = [send EXCEPT !.item = [id |-> Smallest(rest), tx |-> list[Smallest(rest)].tx,
                                         due |-> list[Smallest(rest)].due, valid |-> TRUE]]
      BY <1>3, <2>2 DEF FetchItem
    <3> HIDE DEF rest
    <3>4. send'.item.id = Smallest(rest) /\ send'.item.tx = list[Smallest(rest)].tx
      BY <3>3 DEF TypeOK, ThreadTypes, Item
    <3> QED
      BY <1>3, <3>2, <3>4
  <2> QED
    BY <2>1, <2>2
<1>4. CASE SkipItem
  BY <1>4, <1>a DEF SkipItem
<1>5. CASE DropBadItem
  BY <1>5, <1>a DEF DropBadItem
<1>6. CASE DropItemNotToResend
  BY <1>6, <1>a DEF DropItemNotToResend
<1>7. CASE ResendItem
  BY <1>7, <1>a DEF ResendItem
<1>8. CASE ResendFreedItem
  BY <1>8, <1>a DEF ResendFreedItem
<1>9. CASE DrainQueue
  BY <1>9 DEF DrainQueue, Holding, TypeOK, ThreadTypes, Item
<1>10. CASE CrashAndRestart
  <2>1. send'.item = NoItem
    BY <1>10 DEF CrashAndRestart
  <2> QED
    BY <2>1 DEF NoItem, Holding
<1>11. CASE \/ Submits
           \/ CountUp
           \/ RequestNotify
           \/ AnswerIfEmpty
           \/ Responses
           \/ Checks
           \/ Tells
           \/ Resets
           \/ CountsDown
           \/ ReadAck
           \/ ReadTicketResponse
           \/ ReadSlotMastResponse
           \/ ReadHeartbeatResponse
           \/ PmtReports
           \/ LinkDown
           \/ Elapse
           \/ UNCHANGED vars
  <2>1. UNCHANGED <<send>>
    BY <1>11 DEF Submit, CountUp, RequestNotify, AnswerIfEmpty,
      TicketResponseReceived, CheckEmpty, TellEmpty, ResetNotify, CountDown,
      ReadAck, ReadTicketResponse, ReadSlotMastResponse,
      ReadHeartbeatResponse, HostReportsPmt, LinkDown, Elapse, Submits,
      Responses, Checks, Tells, Resets, CountsDown, PmtReports, thread, vars
  <2> QED
    BY <2>1 DEF thread
<1> QED
  BY <1>1, <1>2, <1>3, <1>4, <1>5, <1>6, <1>7, <1>8, <1>9, <1>10, <1>11,
    NextCases

\* The next id stays fresh: old ids stay below it, and after a restart only the
\* ids of the list are left.
LEMMA UniqueIdIsFreshStep ==
  ASSUME TypeOK, UniqueIdIsFresh, HeldItem, [Next]_vars
  PROVE  UniqueIdIsFresh'
<1>a. uniqueId \in Nat
  BY DEF TypeOK, StorageTypes
<1>1. CASE CrashAndRestart
  <2>1. uniqueId' \in Nat /\ \A id \in DOMAIN list' : id <= uniqueId'
    BY <1>1, RestartId
  <2>2. badCount' = <<>> /\ notToResend' = {} /\ send'.item = NoItem
    BY <1>1 DEF CrashAndRestart
  <2>3. UnderWay' = {}
    BY <1>1, NothingUnderWay
  <2>4. NoItem.id = 0
    BY DEF NoItem
  <2> QED
    BY <2>1, <2>2, <2>3, <2>4 DEF UniqueIdIsFresh, IdsInUse
<1>2. CASE ~CrashAndRestart
  <2>1. uniqueId' = uniqueId \/ (Submits /\ uniqueId' = uniqueId + 1)
    BY <1>2, UniqueIdStep
  <2>2. /\ uniqueId' \in Nat /\ uniqueId <= uniqueId'
        /\ Submits => uniqueId' = uniqueId + 1
    BY <1>a, <2>1, Submitting
  <2>3. \A id \in IdsInUse : id <= uniqueId'
    <3>1. \A id \in IdsInUse : id \in Nat
      BY LogFields, UnderWaySubmitted
      DEF IdsInUse, TypeOK, StorageTypes, MarkTypes, ThreadTypes, Item
    <3> QED
      BY <1>a, <2>2, <3>1 DEF UniqueIdIsFresh
  <2>4. \A id \in DOMAIN list' : id <= uniqueId'
    BY <1>a, <2>2, <2>3, EntriesStep DEF IdsInUse
  <2>5. \A id \in DOMAIN badCount' : id <= uniqueId'
    BY <2>3, BadIdsStep DEF IdsInUse
  <2>6. \A id \in notToResend' : id <= uniqueId'
    BY <1>a, <2>2, <2>3, MarkedStep DEF IdsInUse
  <2>7. send'.item.id <= uniqueId'
    <3>1. send'.item.id \in IdsInUse \cup {0}
      BY HeldStep DEF IdsInUse, NoItem
    <3> QED
      BY <2>2, <2>3, <3>1
  <2>8. \A n \in UnderWay' : log'[n].id <= uniqueId'
    <3> SUFFICES ASSUME NEW n \in UnderWay' PROVE log'[n].id <= uniqueId'
      OBVIOUS
    <3>1. CASE n \in UnderWay
      <4>1. log'[n] = log[n] /\ log[n].id \in IdsInUse
        BY <3>1, UnderWaySubmitted, LogGrows DEF IdsInUse
      <4> QED
        BY <2>3, <4>1
    <3>2. CASE ResendItem /\ n = send.item.tx
      <4>1. n \in Submitted /\ log[n].id = send.item.id
        BY <3>2, HeldPacket
      <4>2. log'[n] = log[n] /\ log[n].id \in IdsInUse
        BY <4>1, LogGrows DEF IdsInUse
      <4> QED
        BY <2>3, <4>2
    <3>3. CASE Submits /\ n = Len(log) + 1
      BY <1>a, <2>2, <3>3, Submitting
    <3> QED
      BY <3>1, <3>2, <3>3, UnderWayStep
  <2> QED
    BY <2>4, <2>5, <2>6, <2>7, <2>8 DEF UniqueIdIsFresh, IdsInUse
<1> QED
  BY <1>1, <1>2

\* The next id is in use nowhere.
LEMMA NextIdIsFree ==
  ASSUME TypeOK, UniqueIdIsFresh
  PROVE  uniqueId + 1 \notin IdsInUse
<1>1. uniqueId \in Nat
  BY DEF TypeOK, StorageTypes
<1> QED
  BY <1>1 DEF UniqueIdIsFresh

\* An id is given to one entry only, and what is under way keeps to its own: a new
\* transaction takes an id nothing uses, a restart loses what was under way.
LEMMA OwnEntriesStep ==
  ASSUME TypeOK, UniqueIdIsFresh, OwnEntries, HeldItem, [Next]_vars
  PROVE  OwnEntries'
<1>1. ASSUME NEW id \in DOMAIN list'
      PROVE  log'[list'[id].tx].id = id
  <2>1. CASE id \in DOMAIN list /\ list'[id].tx = list[id].tx
    <3>1. list[id].tx \in Submitted /\ log[list[id].tx].id = id
      BY <2>1 DEF TypeOK, StorageTypes, OwnEntries
    <3> QED
      BY <2>1, <3>1, LogGrows
  <2>2. CASE Submits /\ id = uniqueId + 1 /\ list'[id].tx = Len(log) + 1
    BY <2>2, Submitting
  <2> QED
    BY <1>1, <2>1, <2>2, EntriesStep
<1>2. ASSUME NEW n \in UnderWay', log'[n].id \in DOMAIN list'
      PROVE  list'[log'[n].id].tx = n
  <2>1. ASSUME n \in Submitted, log[n].id \in IdsInUse,
               log[n].id \in DOMAIN list => list[log[n].id].tx = n
        PROVE  list'[log'[n].id].tx = n
    <3>1. log'[n] = log[n] /\ log[n].id # uniqueId + 1
      BY <2>1, LogGrows, NextIdIsFree
    <3> QED
      BY <1>2, <2>1, <3>1, EntriesStep
  <2>2. CASE n \in UnderWay
    <3>1. n \in Submitted /\ log[n].id \in IdsInUse
      BY <2>2, UnderWaySubmitted DEF IdsInUse
    <3> QED
      BY <2>1, <2>2, <3>1 DEF OwnEntries
  <2>3. CASE ResendItem /\ n = send.item.tx
    <3>1. Holding
      BY <2>3 DEF ResendItem
    <3>2. n \in Submitted /\ log[n].id = send.item.id
      BY <2>3, HeldPacket
    <3>3. log[n].id \in IdsInUse
      BY <3>2 DEF IdsInUse
    <3> QED
      BY <2>1, <2>3, <3>1, <3>2, <3>3 DEF HeldItem
  <2>4. CASE Submits /\ n = Len(log) + 1
    <3>1. log'[n].id = uniqueId + 1 /\ uniqueId + 1 \notin DOMAIN list
      BY <2>4, Submitting, NextIdIsFree DEF IdsInUse
    <3> QED
      BY <1>2, <2>4, <3>1, EntriesStep
  <2> QED
    BY <1>2, <2>2, <2>3, <2>4, UnderWayStep
<1> QED
  BY <1>1, <1>2 DEF OwnEntries

-----------------------------------------------------------------------------
(* What is counted as bad *)

\* Counts change only when the send thread sends.
LEMMA BadCountStep ==
  ASSUME TypeOK, [Next]_vars
  PROVE  \A id \in DOMAIN badCount' :
            \/ id \in DOMAIN badCount /\ badCount'[id] = badCount[id]
            \/ ResendItem \/ ResendFreedItem \/ DrainQueue
<1>1. CASE Responses
  BY <1>1, Removal DEF Responses, TicketResponseReceived, marks
<1>2. CASE DropBadItem
  BY <1>2, Removal DEF DropBadItem, marks
<1>3. CASE DropItemNotToResend
  BY <1>3, Removal DEF DropItemNotToResend, marks
<1>4. CASE ResendItem
  BY <1>4
<1>5. CASE ResendFreedItem
  BY <1>5
<1>6. CASE DrainQueue
  BY <1>6
<1>7. CASE ReadAck
  BY <1>7, Removal DEF ReadAck, marks
<1>8. CASE ReadTicketResponse
  BY <1>8, Removal DEF ReadTicketResponse, marks
<1>9. CASE CrashAndRestart
  BY <1>9 DEF CrashAndRestart
<1>10. CASE \/ Submits
           \/ CountUp
           \/ RequestNotify
           \/ AnswerIfEmpty
           \/ Checks
           \/ Tells
           \/ Resets
           \/ CountsDown
           \/ CheckForConnect
           \/ CheckOnline
           \/ FetchItem
           \/ SkipItem
           \/ ReadSlotMastResponse
           \/ ReadHeartbeatResponse
           \/ PmtReports
           \/ LinkDown
           \/ Elapse
           \/ UNCHANGED vars
  <2>1. UNCHANGED <<badCount>>
    BY <1>10 DEF Submit, CountUp, RequestNotify, AnswerIfEmpty, CheckEmpty,
      TellEmpty, ResetNotify, CountDown, CheckForConnect, CheckOnline,
      FetchItem, SkipItem, ReadSlotMastResponse, ReadHeartbeatResponse,
      HostReportsPmt, LinkDown, Elapse, Submits, Checks, Tells, Resets,
      CountsDown, PmtReports, marks, vars
  <2> QED
    BY <2>1 DEF marks
<1> QED
  BY <1>1, <1>2, <1>3, <1>4, <1>5, <1>6, <1>7, <1>8, <1>9, <1>10, NextCases

\* The counts of the bad transactions stay below the limit while they are listed:
\* the send thread counts only what it has not given up, and a new id is not counted.
LEMMA MarkTypesStep ==
  ASSUME TypeOK, UniqueIdIsFresh, HeldItem, [Next]_vars
  PROVE  MarkTypes'
<1>a. MarkTypes
  BY DEF TypeOK
<1>b. ASSUME notToResend' \subseteq Nat, DOMAIN badCount' \subseteq Nat,
             \A i \in DOMAIN badCount' : badCount'[i] \in Nat,
             \A i \in DOMAIN badCount' \cap DOMAIN list : badCount'[i] <= MaxBadResend,
             ~Submits
      PROVE  MarkTypes'
  <2>1. DOMAIN list' \subseteq DOMAIN list
    BY <1>b, EntriesStep
  <2> QED
    BY <1>b, <2>1 DEF MarkTypes
<1>c. ASSUME notToResend' \subseteq notToResend, NEW id, TakeOut(id), ~Submits
      PROVE  MarkTypes'
  <2>1. DOMAIN badCount' \subseteq DOMAIN badCount
        /\ \A i \in DOMAIN badCount' : badCount'[i] = badCount[i]
    BY <1>c, Removal
  <2> QED
    BY <1>a, <1>b, <1>c, <2>1 DEF MarkTypes
<1>d. ASSUME notToResend' = notToResend, badCount' = badCount, ~Submits
      PROVE  MarkTypes'
  BY <1>a, <1>b, <1>d DEF MarkTypes
<1>e. ASSUME notToResend' = notToResend, NEW id \in Nat, NEW c \in Nat,
             id \in DOMAIN list => c <= MaxBadResend,
             badCount' = With(badCount, id, c), ~Submits
      PROVE  MarkTypes'
  <2>1. /\ DOMAIN badCount' \subseteq Nat
        /\ \A i \in DOMAIN badCount' : badCount'[i] \in Nat
        /\ \A i \in DOMAIN badCount' \cap DOMAIN list : badCount'[i] <= MaxBadResend
    BY <1>a, <1>e, Counted
  <2> QED
    BY <1>a, <1>b, <1>e, <2>1 DEF MarkTypes
<1>1. CASE Submits
  <2>1. badCount' = badCount /\ notToResend' \subseteq Nat
    BY <1>a, <1>1 DEF TypeOK, StorageTypes, MarkTypes, Submit, Submits
  <2>2. uniqueId + 1 \notin DOMAIN badCount
    BY NextIdIsFree DEF IdsInUse
  <2>3. DOMAIN list' \subseteq DOMAIN list \cup {uniqueId + 1}
    BY EntriesStep
  <2> QED
    BY <1>a, <2>1, <2>2, <2>3 DEF MarkTypes
<1>2. CASE Responses
  <2>1. notToResend' = notToResend /\ (\E id : TakeOut(id)) /\ ~Submits
    BY <1>2, NotSubmitted DEF Responses, TicketResponseReceived
  <2> QED
    BY <1>c, <2>1
<1>3. CASE DropBadItem
  <2>1. notToResend' = notToResend /\ (\E id : TakeOut(id)) /\ ~Submits
    BY <1>3, NotSubmitted DEF DropBadItem
  <2> QED
    BY <1>c, <2>1
<1>4. CASE DropItemNotToResend
  <2>1. notToResend' \subseteq notToResend /\ (\E id : TakeOut(id)) /\ ~Submits
    BY <1>4, NotSubmitted DEF DropItemNotToResend
  <2> QED
    BY <1>c, <2>1
<1>5. CASE ResendItem
  <2>1. notToResend' = notToResend /\ ~Submits
    BY <1>5, NotSubmitted DEF ResendItem
  <2>2. PICK c \in Nat : /\ SendPacket(send.item.tx, c)
                         /\ send.item.id \in DOMAIN list => c <= MaxBadResend
    BY <1>5, HeldPacket
  <2>3. \/ badCount' = With(badCount, log[send.item.tx].id, c)
        \/ badCount' = badCount
    BY <2>2, Packet
  <2>4. log[send.item.tx].id = send.item.id /\ send.item.id \in Nat
    BY <1>5, HeldPacket, LogFields
  <2> QED
    BY <1>d, <1>e, <2>1, <2>2, <2>3, <2>4
<1>6. CASE ResendFreedItem
  <2>1. notToResend' = notToResend /\ badCount' = With(badCount, send.item.id, 0) /\ ~Submits
    BY <1>6, NotSubmitted DEF ResendFreedItem
  <2>2. send.item.id \in Nat /\ 0 <= MaxBadResend /\ 0 \in Nat
    BY PollerResendAssumption DEF TypeOK, ThreadTypes, Item
  <2> QED
    BY <1>e, <2>1, <2>2
<1>7. CASE DrainQueue
  <2>1. notToResend' = notToResend /\ ~Submits
    BY <1>7, NotSubmitted DEF DrainQueue
  <2>2. \/ badCount' = badCount
        \/ Head(queue) \in Submitted /\ SendPacket(Head(queue), 0)
    BY <1>7, DrainedPacket
  <2>3. CASE badCount' = badCount
    BY <1>d, <2>1, <2>3
  <2>4. CASE Head(queue) \in Submitted /\ SendPacket(Head(queue), 0)
    <3>1. \/ badCount' = With(badCount, log[Head(queue)].id, 0)
          \/ badCount' = badCount
      BY <2>4, Packet
    <3>2. log[Head(queue)].id \in Nat /\ 0 <= MaxBadResend /\ 0 \in Nat
      BY <2>4, LogFields, PollerResendAssumption
    <3> QED
      BY <1>d, <1>e, <2>1, <3>1, <3>2
  <2> QED
    BY <2>2, <2>3, <2>4
<1>8. CASE ReadAck
  <2>1. notToResend' = notToResend /\ (badCount' = badCount \/ \E id : TakeOut(id)) /\ ~Submits
    BY <1>8, NotSubmitted DEF ReadAck
  <2> QED
    BY <1>c, <1>d, <2>1
<1>9. CASE ReadTicketResponse
  <2>1. notToResend' = notToResend /\ (badCount' = badCount \/ \E id : TakeOut(id)) /\ ~Submits
    BY <1>9, NotSubmitted DEF ReadTicketResponse
  <2> QED
    BY <1>c, <1>d, <2>1
<1>10. CASE CrashAndRestart
  <2>1. notToResend' = {} /\ badCount' = <<>>
    BY <1>10 DEF CrashAndRestart
  <2> QED
    BY <2>1 DEF MarkTypes
<1>11. CASE \/ CountUp
           \/ RequestNotify
           \/ AnswerIfEmpty
           \/ Checks
           \/ Tells
           \/ Resets
           \/ CountsDown
           \/ CheckForConnect
           \/ CheckOnline
           \/ FetchItem
           \/ SkipItem
           \/ ReadSlotMastResponse
           \/ ReadHeartbeatResponse
           \/ PmtReports
           \/ LinkDown
           \/ Elapse
           \/ UNCHANGED vars
  <2>1. UNCHANGED <<notToResend, badCount>>
    BY <1>11 DEF CountUp, RequestNotify, AnswerIfEmpty, CheckEmpty, TellEmpty,
      ResetNotify, CountDown, CheckForConnect, CheckOnline, FetchItem,
      SkipItem, ReadSlotMastResponse, ReadHeartbeatResponse, HostReportsPmt,
      LinkDown, Elapse, Checks, Tells, Resets, CountsDown, PmtReports, marks,
      vars
  <2>2. UNCHANGED log
    BY <1>11 DEF CountUp, RequestNotify, AnswerIfEmpty, CheckEmpty, TellEmpty,
      ResetNotify, CountDown, CheckForConnect, CheckOnline, FetchItem,
      SkipItem, ReadSlotMastResponse, ReadHeartbeatResponse, HostReportsPmt,
      LinkDown, Elapse, Checks, Tells, Resets, CountsDown, PmtReports, vars
  <2>3. ~Submits
    BY <2>2, NotSubmitted
  <2> QED
    BY <1>d, <2>1, <2>3
<1> QED
  BY <1>1, <1>2, <1>3, <1>4, <1>5, <1>6, <1>7, <1>8, <1>9, <1>10, <1>11,
    NextCases

\* An answer that is read is about a received transaction, which is not bad.
LEMMA AnswerReceived ==
  ASSUME TypeOK, AnswersTrue, NEW type \in {"ack", "ticket", "slotmast"}, Reads(type)
  PROVE  /\ Head(fromHost).tx \in Submitted
         /\ Head(fromHost).tx \in received /\ ~log[Head(fromHost).tx].bad
         /\ type = "ticket" => IsTicket(Head(fromHost).tx)
         /\ Head(fromHost).tx \in UnderWay
<1>1. /\ Head(fromHost) = fromHost[1] /\ 1 \in DOMAIN fromHost /\ Head(fromHost).type = type
      /\ Head(fromHost).tx \in Submitted
  BY Reading
<1>2. type # "pmt"
  OBVIOUS
<1>3. Head(fromHost).tx \in InAnswers
  BY <1>1, <1>2 DEF InAnswers
<1> QED
  BY <1>1, <1>2, <1>3 DEF AnswersTrue, UnderWay

\* The item the send thread holds is its entry, or the entry is gone.
LEMMA HeldItemStep ==
  ASSUME TypeOK, UniqueIdIsFresh, OwnEntries, HeldItem, [Next]_vars
  PROVE  HeldItem'
<1>1. CASE ~Holding'
  BY <1>1 DEF HeldItem
<1>2. CASE Holding' /\ send' = send
  <2> DEFINE id == send.item.id
             n == send.item.tx
  <2>1. Holding
    BY <1>2 DEF Holding
  <2>2. n \in Submitted /\ log[n].id = id
    BY <2>1 DEF HeldItem
  <2>3. n \in Submitted' /\ log'[n].id = id
    BY <2>2, LogGrows
  <2>4. id # uniqueId + 1
    BY NextIdIsFree DEF IdsInUse
  <2>5. id \in DOMAIN list' => list'[id].tx = n
    BY <2>1, <2>4, EntriesStep DEF HeldItem
  <2> QED
    BY <1>2, <2>3, <2>5 DEF HeldItem
<1>3. CASE FetchItem /\ send'.item.id \in DOMAIN list /\ send'.item.tx = list[send'.item.id].tx
  <2>1. list' = list /\ log' = log
    BY <1>3 DEF FetchItem, storage
  <2>2. send'.item.tx \in Submitted /\ log[send'.item.tx].id = send'.item.id
    BY <1>3 DEF OwnEntries, TypeOK, StorageTypes
  <2> QED
    BY <1>3, <2>1, <2>2 DEF HeldItem, Submitted
<1> QED
  BY <1>1, <1>2, <1>3, HeldStep

\* A transaction is received, or tried, once more, never less.
LEMMA SeenGrows ==
  ASSUME TypeOK, HeldItem, [Next]_vars
  PROVE  /\ received \subseteq received'
         /\ \A n \in Submitted : tries[n] \in Nat /\ tries'[n] \in Nat /\ tries[n] <= tries'[n]
<1>a. \A n \in Submitted : tries[n] \in Nat
  BY LenProperties, ElementOfSeq DEF TypeOK, SeenTypes
<1>b. UNCHANGED <<received, tries>> =>
         /\ received \subseteq received'
         /\ \A n \in Submitted : tries[n] \in Nat /\ tries'[n] \in Nat /\ tries[n] <= tries'[n]
  BY <1>a
<1>c. ASSUME NEW n \in Submitted, NEW c, SendPacket(n, c)
      PROVE  /\ received \subseteq received'
             /\ \A m \in Submitted : tries[m] \in Nat /\ tries'[m] \in Nat /\ tries[m] <= tries'[m]
  <2>1. received \subseteq received' /\ (tries' = tries \/ tries' = [tries EXCEPT ![n] = @ + 1])
    BY <1>c, Packet
  <2>2. DOMAIN tries = Submitted
    BY DEF TypeOK, SeenTypes
  <2> QED
    BY <1>a, <2>1, <2>2
<1>1. CASE Submits
  <2>1. tries' = Append(tries, 0) /\ received' = received
    BY <1>1 DEF Submits, Submit
  <2>2. \A n \in DOMAIN tries : tries'[n] = tries[n]
    BY <2>1, Appended DEF TypeOK, SeenTypes
  <2> QED
    BY <1>a, <2>1, <2>2 DEF TypeOK, SeenTypes
<1>2. CASE ResendItem
  BY <1>2, <1>c, HeldPacket
<1>3. CASE DrainQueue
  <2>1. UNCHANGED <<received, tries>> \/ (Head(queue) \in Submitted /\ SendPacket(Head(queue), 0))
    BY <1>3, DrainedPacket DEF seen
  <2> QED
    BY <1>b, <1>c, <2>1
<1>4. CASE \/ CountUp
           \/ RequestNotify
           \/ AnswerIfEmpty
           \/ Responses
           \/ Checks
           \/ Tells
           \/ Resets
           \/ CountsDown
           \/ CheckForConnect
           \/ CheckOnline
           \/ FetchItem
           \/ SkipItem
           \/ DropBadItem
           \/ DropItemNotToResend
           \/ ResendFreedItem
           \/ ReadAck
           \/ ReadTicketResponse
           \/ ReadSlotMastResponse
           \/ ReadHeartbeatResponse
           \/ PmtReports
           \/ LinkDown
           \/ Elapse
           \/ CrashAndRestart
           \/ UNCHANGED vars
  <2>1. UNCHANGED <<received, tries>>
    BY <1>4 DEF CountUp, RequestNotify, AnswerIfEmpty, TicketResponseReceived,
      CheckEmpty, TellEmpty, ResetNotify, CountDown, CheckForConnect,
      CheckOnline, FetchItem, SkipItem, DropBadItem, DropItemNotToResend,
      ResendFreedItem, ReadAck, ReadTicketResponse, ReadSlotMastResponse,
      ReadHeartbeatResponse, HostReportsPmt, LinkDown, Elapse,
      CrashAndRestart, Responses, Checks, Tells, Resets, CountsDown,
      PmtReports, seen, vars
  <2> QED
    BY <1>b, <2>1
<1> QED
  BY <1>1, <1>2, <1>3, <1>4, NextCases

\* The packet sent keeps the answers true.
LEMMA PacketAnswers ==
  ASSUME TypeOK, AnswersTrue, [Next]_vars, NEW n \in Submitted, NEW c, SendPacket(n, c),
         answering' = answering
  PROVE  AnswersTrue'
<1>1. \A m \in Submitted : log'[m] = log[m]
  BY LogGrows
<1>2. received \subseteq Submitted /\ answering \subseteq Submitted
  BY DEF TypeOK, SeenTypes, InnerTypes
<1>3. \A i \in DOMAIN fromHost : fromHost[i] \in Message
  BY LenProperties, ElementOfSeq DEF TypeOK, NetTypes
<1>4. \A m \in answering' : log'[m].kind \in Ticket
  BY <1>1, <1>2 DEF AnswersTrue, IsTicket
<1>5. CASE received' = received /\ (fromHost' = fromHost \/ fromHost' = <<>>)
  <2>1. \A i \in DOMAIN fromHost' : i \in DOMAIN fromHost /\ fromHost'[i] = fromHost[i]
    BY <1>5
  <2>2. \A m \in received' : ~log'[m].bad
    BY <1>1, <1>2, <1>5 DEF AnswersTrue, IsTicket
  <2>3. \A i \in DOMAIN fromHost' : fromHost'[i].type # "pmt" =>
           /\ fromHost'[i].tx \in received'
           /\ fromHost'[i].type = "ticket" => log'[fromHost'[i].tx].kind \in Ticket
    BY <1>1, <1>2, <1>3, <1>5, <2>1 DEF AnswersTrue, IsTicket
  <2> QED
    BY <1>4, <2>2, <2>3 DEF AnswersTrue, IsTicket
<1>6. CASE ~log[n].bad /\ received' = received \cup {n} /\ fromHost' = fromHost \o Answers(n)
  <2>1. Answers(n) \in Seq(Message) /\ fromHost \in Seq(Message)
    <3>1. Answers(n) \in Seq(Answer) /\ Answer \subseteq Message
      BY AnswersType DEF Message
    <3> QED
      BY <3>1, SeqMonotonic DEF TypeOK, NetTypes
  <2>2. \A i \in DOMAIN fromHost' :
           \/ i \in DOMAIN fromHost /\ fromHost'[i] = fromHost[i]
           \/ \E j \in DOMAIN Answers(n) : fromHost'[i] = Answers(n)[j]
    BY <1>6, <2>1, ConcatElements
  <2>3. \A m \in received' : ~log'[m].bad
    BY <1>1, <1>2, <1>6 DEF AnswersTrue, IsTicket
  <2>4. \A i \in DOMAIN fromHost' : fromHost'[i].type # "pmt" =>
           /\ fromHost'[i].tx \in received'
           /\ fromHost'[i].type = "ticket" => log'[fromHost'[i].tx].kind \in Ticket
    <3> SUFFICES ASSUME NEW i \in DOMAIN fromHost', fromHost'[i].type # "pmt"
                 PROVE  /\ fromHost'[i].tx \in received'
                        /\ fromHost'[i].type = "ticket" => log'[fromHost'[i].tx].kind \in Ticket
      OBVIOUS
    <3>1. CASE i \in DOMAIN fromHost /\ fromHost'[i] = fromHost[i]
      BY <1>1, <1>2, <1>6, <3>1 DEF AnswersTrue, IsTicket
    <3>2. CASE \E j \in DOMAIN Answers(n) : fromHost'[i] = Answers(n)[j]
      BY <1>1, <1>6, <3>2, AnswersType DEF IsTicket
    <3> QED
      BY <2>2, <3>1, <3>2
  <2> QED
    BY <1>4, <2>3, <2>4 DEF AnswersTrue, IsTicket
<1> QED
  BY <1>5, <1>6, Packet

\* The host answers what it has received, and nothing bad is received.
LEMMA AnswersTrueStep ==
  ASSUME TypeOK, AnswersTrue, HeldItem, [Next]_vars
  PROVE  AnswersTrue'
<1>a. \A m \in Submitted : log'[m] = log[m]
  BY LogGrows
<1>b. received \subseteq Submitted /\ answering \subseteq Submitted
  BY DEF TypeOK, SeenTypes, InnerTypes
<1>c. ASSUME received' = received,
             \A n \in answering' : n \in Submitted /\ IsTicket(n),
             \A i \in DOMAIN fromHost' :
                \/ fromHost'[i].type = "pmt"
                \/ \E j \in DOMAIN fromHost : fromHost'[i] = fromHost[j]
      PROVE  AnswersTrue'
  <2>1. \A m \in received' : ~log'[m].bad
    BY <1>a, <1>b, <1>c DEF AnswersTrue, IsTicket
  <2>2. \A m \in answering' : log'[m].kind \in Ticket
    BY <1>a, <1>c DEF IsTicket
  <2>3. \A i \in DOMAIN fromHost' : fromHost'[i].type # "pmt" =>
           /\ fromHost'[i].tx \in received'
           /\ fromHost'[i].type = "ticket" => log'[fromHost'[i].tx].kind \in Ticket
    BY <1>a, <1>b, <1>c DEF AnswersTrue, IsTicket
  <2> QED
    BY <2>1, <2>2, <2>3 DEF AnswersTrue, IsTicket
<1>d. UNCHANGED <<received, answering, fromHost>> => AnswersTrue'
  BY <1>b, <1>c DEF AnswersTrue, IsTicket
<1>e. \A n \in answering : n \in Submitted /\ IsTicket(n)
  BY <1>b DEF AnswersTrue, IsTicket
<1>1. CASE Responses
  <2>1. answering' \subseteq answering /\ UNCHANGED <<received, fromHost>>
    BY <1>1 DEF Responses, TicketResponseReceived, net
  <2> QED
    BY <1>c, <1>e, <2>1
<1>2. CASE ResendItem
  <2>1. answering' = answering
    BY <1>2 DEF ResendItem, inner
  <2> QED
    BY <1>2, <2>1, HeldPacket, PacketAnswers
<1>3. CASE DrainQueue
  <2>1. answering' = answering
    BY <1>3 DEF DrainQueue, inner
  <2>2. \/ UNCHANGED <<received, fromHost>>
        \/ Head(queue) \in Submitted /\ SendPacket(Head(queue), 0)
    BY <1>3, DrainedPacket DEF seen, net
  <2> QED
    BY <1>d, <2>1, <2>2, PacketAnswers
<1>4. CASE ReadAck
  <2>1. Reads("ack") /\ UNCHANGED <<received, answering>>
    BY <1>4 DEF ReadAck, inner, seen
  <2>2. \A i \in DOMAIN fromHost' : \E j \in DOMAIN fromHost : fromHost'[i] = fromHost[j]
    BY <2>1, Reading
  <2> QED
    BY <1>c, <1>e, <2>1, <2>2
<1>5. CASE ReadTicketResponse
  <2>1. /\ Reads("ticket") /\ received' = received
        /\ answering' \subseteq answering \cup {Head(fromHost).tx}
    BY <1>5 DEF ReadTicketResponse
  <2>2. \A i \in DOMAIN fromHost' : \E j \in DOMAIN fromHost : fromHost'[i] = fromHost[j]
    BY <2>1, Reading
  <2>3. Head(fromHost).tx \in Submitted /\ IsTicket(Head(fromHost).tx)
    BY <2>1, AnswerReceived
  <2> QED
    BY <1>c, <1>e, <2>1, <2>2, <2>3
<1>6. CASE ReadSlotMastResponse
  <2>1. Reads("slotmast") /\ UNCHANGED <<received, answering>>
    BY <1>6 DEF ReadSlotMastResponse, inner, seen
  <2>2. \A i \in DOMAIN fromHost' : \E j \in DOMAIN fromHost : fromHost'[i] = fromHost[j]
    BY <2>1, Reading
  <2> QED
    BY <1>c, <1>e, <2>1, <2>2
<1>7. CASE ReadHeartbeatResponse
  <2>1. Reads("pmt") /\ UNCHANGED <<received, answering>>
    BY <1>7 DEF ReadHeartbeatResponse, inner, seen
  <2>2. \A i \in DOMAIN fromHost' : \E j \in DOMAIN fromHost : fromHost'[i] = fromHost[j]
    BY <2>1, Reading
  <2> QED
    BY <1>c, <1>e, <2>1, <2>2
<1>8. CASE PmtReports
  <2>1. PICK up \in BOOLEAN : HostReportsPmt(up)
    BY <1>8 DEF PmtReports
  <2>2. /\ fromHost' = Append(fromHost, [type |-> "pmt", up |-> up])
        /\ UNCHANGED <<answering, received>>
    BY <2>1 DEF HostReportsPmt, inner, seen
  <2>3. [type |-> "pmt", up |-> up] \in Message /\ fromHost \in Seq(Message)
    BY DEF Message, TypeOK, NetTypes
  <2>4. \A i \in DOMAIN fromHost' : (i \in DOMAIN fromHost /\ fromHost'[i] = fromHost[i])
                                       \/ fromHost'[i].type = "pmt"
    BY <2>2, <2>3, Appended
  <2> QED
    BY <1>c, <1>e, <2>2, <2>4
<1>9. CASE LinkDown
  <2>1. fromHost' = <<>> /\ UNCHANGED <<answering, received>>
    BY <1>9 DEF LinkDown, Disconnect, inner, seen
  <2> QED
    BY <1>c, <1>e, <2>1
<1>10. CASE CrashAndRestart
  <2>1. fromHost' = <<>> /\ answering' = {} /\ received' = received
    BY <1>10 DEF CrashAndRestart, Disconnect
  <2> QED
    BY <1>c, <2>1
<1>11. CASE \/ Submits
           \/ CountUp
           \/ RequestNotify
           \/ AnswerIfEmpty
           \/ Checks
           \/ Tells
           \/ Resets
           \/ CountsDown
           \/ CheckForConnect
           \/ CheckOnline
           \/ FetchItem
           \/ SkipItem
           \/ DropBadItem
           \/ DropItemNotToResend
           \/ ResendFreedItem
           \/ Elapse
           \/ UNCHANGED vars
  <2>1. UNCHANGED <<received, fromHost, answering>>
    BY <1>11 DEF Submit, CountUp, RequestNotify, AnswerIfEmpty, CheckEmpty,
      TellEmpty, ResetNotify, CountDown, CheckForConnect, CheckOnline,
      FetchItem, SkipItem, DropBadItem, DropItemNotToResend, ResendFreedItem,
      Elapse, Submits, Checks, Tells, Resets, CountsDown, net, inner, seen,
      vars
  <2> QED
    BY <1>d, <2>1
<1> QED
  BY <1>1, <1>2, <1>3, <1>4, <1>5, <1>6, <1>7, <1>8, <1>9, <1>10, <1>11,
    NextCases

\* A count of a listed transaction is below its tries, and marks are of
\* authorizations, as an id that is given again has neither.
LEMMA ListedMarksStep ==
  ASSUME TypeOK, UniqueIdIsFresh, OwnEntries, HeldItem, ListedMarks, [Next]_vars
  PROVE  ListedMarks'
<1> SUFFICES ASSUME NEW id \in DOMAIN list'
             PROVE  LET n == list'[id].tx IN
                    /\ id \in DOMAIN badCount' => log'[n].bad /\ tries'[n] > badCount'[id]
                    /\ id \in notToResend' => log'[n].kind = "vendAuth"
  BY DEF ListedMarks
<1>1. CASE Submits /\ id = uniqueId + 1 /\ list'[id].tx = Len(log) + 1
  <2>1. id \notin DOMAIN badCount /\ id \notin notToResend
    BY <1>1, NextIdIsFree DEF IdsInUse
  <2>2. badCount' = badCount
    BY <1>1, Submitting
  <2>3. id \in notToResend' => log'[Len(log) + 1].kind = "vendAuth"
    BY <2>1, MarkedStep
  <2> QED
    BY <1>1, <2>1, <2>2, <2>3
<1>2. CASE id \in DOMAIN list /\ list'[id].tx = list[id].tx
  <2> DEFINE n == list[id].tx
  <2>1. /\ n \in Submitted /\ log'[n] = log[n] /\ log[n].id = id
        /\ id \in IdsInUse /\ id # uniqueId + 1
    BY <1>2, LogGrows, NextIdIsFree DEF TypeOK, StorageTypes, OwnEntries, IdsInUse
  <2>2. id \in notToResend' => log'[n].kind = "vendAuth"
    BY <1>2, <2>1, MarkedStep DEF ListedMarks
  <2>3. ASSUME id \in DOMAIN badCount, badCount'[id] = badCount[id]
        PROVE  log'[n].bad /\ tries'[n] > badCount'[id]
    <3>1. log[n].bad /\ tries[n] > badCount[id] /\ badCount[id] \in Nat
      BY <1>2, <2>3 DEF ListedMarks, TypeOK, MarkTypes
    <3>2. tries[n] \in Nat /\ tries'[n] \in Nat /\ tries[n] <= tries'[n]
      BY <2>1, SeenGrows
    <3> QED
      BY <2>1, <2>3, <3>1, <3>2
  <2>4. ASSUME id \in DOMAIN badCount', NEW m \in Submitted, NEW c \in Nat, SendPacket(m, c),
               log[m].id = id => m = n /\ tries[m] \in Nat /\ tries[m] + 1 > c
        PROVE  log'[n].bad /\ tries'[n] > badCount'[id]
    <3>1. CASE badCount' = badCount
      BY <2>3, <2>4, <3>1
    <3>2. CASE /\ log[m].bad /\ badCount' = With(badCount, log[m].id, c)
               /\ tries' = [tries EXCEPT ![m] = @ + 1]
      <4>1. CASE log[m].id = id
        <5>1. badCount'[id] = c
          BY <3>2, <4>1 DEF With
        <5>2. tries'[n] = tries[n] + 1
          BY <2>1, <2>4, <3>2, <4>1 DEF TypeOK, SeenTypes
        <5> QED
          BY <2>1, <2>4, <3>2, <4>1, <5>1, <5>2
      <4>2. CASE log[m].id # id
        <5>1. id \in DOMAIN badCount /\ badCount'[id] = badCount[id]
          BY <2>4, <3>2, <4>2 DEF With
        <5> QED
          BY <2>3, <5>1
      <4> QED
        BY <4>1, <4>2
    <3> QED
      BY <2>4, <3>1, <3>2, Packet
  <2>5. ASSUME id \in DOMAIN badCount'
        PROVE  log'[n].bad /\ tries'[n] > badCount'[id]
    <3>0. tries[n] \in Nat
      BY <2>1, SeenGrows
    <3>1. CASE ResendItem
      <4> DEFINE m == send.item.tx
      <4>1. Holding
        BY <3>1 DEF ResendItem
      <4>2. PICK c \in Nat :
               /\ SendPacket(m, c)
               /\ c = IF send.item.id \in DOMAIN badCount
                      THEN badCount[send.item.id] + 1 ELSE 0
        BY <3>1, HeldPacket
      <4>3. m \in Submitted /\ log[m].id = send.item.id
        BY <3>1, HeldPacket
      <4>4. ASSUME log[m].id = id PROVE m = n /\ tries[m] \in Nat /\ tries[m] + 1 > c
        <5>1. m = n /\ id = send.item.id
          BY <1>2, <4>1, <4>3, <4>4 DEF HeldItem
        <5>2. id \in DOMAIN badCount => badCount[id] \in Nat /\ tries[n] > badCount[id]
          BY <1>2 DEF ListedMarks, TypeOK, MarkTypes
        <5> QED
          BY <3>0, <4>2, <5>1, <5>2
      <4> QED
        BY <2>4, <2>5, <4>2, <4>3, <4>4
    <3>2. CASE ResendFreedItem
      <4>1. /\ send.item.id \notin DOMAIN list
            /\ badCount' = With(badCount, send.item.id, 0)
        BY <3>2 DEF ResendFreedItem, Freed
      <4>2. id \in DOMAIN badCount /\ badCount'[id] = badCount[id]
        BY <1>2, <2>5, <4>1 DEF With
      <4> QED
        BY <2>3, <4>2
    <3>3. CASE DrainQueue
      <4>1. CASE UNCHANGED badCount
        BY <2>3, <2>5, <4>1
      <4>2. CASE queue # <<>> /\ Head(queue) \in Submitted /\ SendPacket(Head(queue), 0)
        <5>1. Head(queue) \in UnderWay
          BY <4>2, TailElements DEF TypeOK, QueueTypes, UnderWay
        <5>2. log[Head(queue)].id = id => Head(queue) = n
          BY <1>2, <5>1 DEF OwnEntries
        <5> QED
          BY <2>4, <2>5, <3>0, <4>2, <5>2
      <4> QED
        BY <3>3, <4>1, <4>2, DrainedPacket
    <3> QED
      BY <2>3, <2>5, <3>1, <3>2, <3>3, BadCountStep
  <2> QED
    BY <1>2, <2>2, <2>5
<1> QED
  BY <1>1, <1>2, EntriesStep

\* Transactions are submitted by the queue thread only.
LEMMA NewTransactions ==
  ASSUME TypeOK, [Next]_vars
  PROVE  \A n \in Submitted' : n \in Submitted \/ (Submits /\ n = Len(log) + 1)
<1>1. CASE Submits
  BY <1>1, Submitting
<1>2. CASE \/ CountUp
           \/ RequestNotify
           \/ AnswerIfEmpty
           \/ Responses
           \/ Checks
           \/ Tells
           \/ Resets
           \/ CountsDown
           \/ CheckForConnect
           \/ CheckOnline
           \/ FetchItem
           \/ SkipItem
           \/ DropBadItem
           \/ DropItemNotToResend
           \/ ResendItem
           \/ ResendFreedItem
           \/ DrainQueue
           \/ ReadAck
           \/ ReadTicketResponse
           \/ ReadSlotMastResponse
           \/ ReadHeartbeatResponse
           \/ PmtReports
           \/ LinkDown
           \/ Elapse
           \/ CrashAndRestart
           \/ UNCHANGED vars
  <2>1. UNCHANGED <<log>>
    BY <1>2 DEF CountUp, RequestNotify, AnswerIfEmpty, TicketResponseReceived,
      CheckEmpty, TellEmpty, ResetNotify, CountDown, CheckForConnect,
      CheckOnline, FetchItem, SkipItem, DropBadItem, DropItemNotToResend,
      ResendItem, ResendFreedItem, DrainQueue, ReadAck, ReadTicketResponse,
      ReadSlotMastResponse, ReadHeartbeatResponse, HostReportsPmt, LinkDown,
      Elapse, CrashAndRestart, Responses, Checks, Tells, Resets, CountsDown,
      PmtReports, vars
  <2> QED
    BY <2>1 DEF Submitted
<1> QED
  BY <1>1, <1>2, NextCases

\* A mark goes with its entry, or with a restart.
LEMMA MarksLeft ==
  ASSUME TypeOK, [Next]_vars, NEW id \in notToResend, id \notin notToResend'
  PROVE  CrashAndRestart \/ (DropItemNotToResend /\ id \notin DOMAIN list' /\ ~Holding')
<1>1. CASE Submits
  BY <1>1 DEF Submits, Submit
<1>2. CASE DropItemNotToResend
  <2>1. id = send.item.id /\ TakeOut(send.item.id) /\ ItemDone
    BY <1>2 DEF DropItemNotToResend
  <2>2. ~Holding'
    BY <2>1 DEF ItemDone, Holding, TypeOK, ThreadTypes, Item
  <2> QED
    BY <1>2, <2>1, <2>2, Removal
<1>3. CASE CrashAndRestart
  BY <1>3
<1>4. CASE \/ CountUp
           \/ RequestNotify
           \/ AnswerIfEmpty
           \/ Responses
           \/ Checks
           \/ Tells
           \/ Resets
           \/ CountsDown
           \/ CheckForConnect
           \/ CheckOnline
           \/ FetchItem
           \/ SkipItem
           \/ DropBadItem
           \/ ResendItem
           \/ ResendFreedItem
           \/ DrainQueue
           \/ ReadAck
           \/ ReadTicketResponse
           \/ ReadSlotMastResponse
           \/ ReadHeartbeatResponse
           \/ PmtReports
           \/ LinkDown
           \/ Elapse
           \/ UNCHANGED vars
  <2>1. UNCHANGED <<notToResend>>
    BY <1>4 DEF CountUp, RequestNotify, AnswerIfEmpty, TicketResponseReceived,
      CheckEmpty, TellEmpty, ResetNotify, CountDown, CheckForConnect,
      CheckOnline, FetchItem, SkipItem, DropBadItem, ResendItem,
      ResendFreedItem, DrainQueue, ReadAck, ReadTicketResponse,
      ReadSlotMastResponse, ReadHeartbeatResponse, HostReportsPmt, LinkDown,
      Elapse, Responses, Checks, Tells, Resets, CountsDown, PmtReports, marks,
      vars
  <2> QED
    BY <2>1 DEF marks
<1> QED
  BY <1>1, <1>2, <1>3, <1>4, NextCases

\* Restarts are counted by restarts only.
LEMMA UsedStep ==
  ASSUME TypeOK, HeldItem, [Next]_vars
  PROVE  \/ used' = used \/ CrashAndRestart
         \/ \E what \in {"faults", "requests"} : Spend(what)
<1>1. CASE RequestNotify
  BY <1>1 DEF RequestNotify
<1>2. CASE CheckForConnect
  BY <1>2 DEF CheckForConnect
<1>3. CASE ResendItem
  BY <1>3, HeldPacket, Packet
<1>4. CASE DrainQueue
  BY <1>4, DrainedPacket, Packet
<1>5. CASE PmtReports
  BY <1>5 DEF PmtReports, HostReportsPmt
<1>6. CASE LinkDown
  BY <1>6 DEF LinkDown
<1>7. CASE CrashAndRestart
  BY <1>7
<1>8. CASE \/ Submits
           \/ CountUp
           \/ AnswerIfEmpty
           \/ Responses
           \/ Checks
           \/ Tells
           \/ Resets
           \/ CountsDown
           \/ CheckOnline
           \/ FetchItem
           \/ SkipItem
           \/ DropBadItem
           \/ DropItemNotToResend
           \/ ResendFreedItem
           \/ ReadAck
           \/ ReadTicketResponse
           \/ ReadSlotMastResponse
           \/ ReadHeartbeatResponse
           \/ Elapse
           \/ UNCHANGED vars
  <2>1. UNCHANGED <<used>>
    BY <1>8 DEF Submit, CountUp, AnswerIfEmpty, TicketResponseReceived,
      CheckEmpty, TellEmpty, ResetNotify, CountDown, CheckOnline, FetchItem,
      SkipItem, DropBadItem, DropItemNotToResend, ResendFreedItem, ReadAck,
      ReadTicketResponse, ReadSlotMastResponse, ReadHeartbeatResponse, Elapse,
      Submits, Responses, Checks, Tells, Resets, CountsDown, vars
  <2> QED
    BY <2>1 DEF vars
<1> QED
  BY <1>1, <1>2, <1>3, <1>4, <1>5, <1>6, <1>7, <1>8, NextCases

\* Up to a restart a listed authorization is marked: its mark and its entry leave
\* together.
LEMMA AuthorizationsStep ==
  ASSUME TypeOK, UniqueIdIsFresh, OwnEntries, HeldItem, Authorizations, [Next]_vars
  PROVE  Authorizations'
<1> SUFFICES ASSUME used'.crashes = 0
             PROVE  /\ \A id \in DOMAIN list' :
                          log'[list'[id].tx].kind = "vendAuth" => id \in notToResend'
                    /\ Holding' /\ log'[send'.item.tx].kind = "vendAuth" =>
                          send'.item.id \in notToResend'
  BY DEF Authorizations
<1>1. used.crashes = 0 /\ ~CrashAndRestart
  <2>1. used.crashes \in Nat
    BY DEF TypeOK, UsedTypes
  <2>2. CrashAndRestart => used'.crashes = used.crashes + 1
    BY DEF CrashAndRestart, Spend, TypeOK, UsedTypes
  <2>3. ASSUME NEW what \in {"faults", "requests"}, Spend(what) PROVE used'.crashes = used.crashes
    BY <2>3 DEF Spend, TypeOK, UsedTypes
  <2>4. used'.crashes = used.crashes \/ CrashAndRestart
    BY <2>3, UsedStep
  <2> QED
    BY <2>1, <2>2, <2>4
<1>2. ASSUME NEW id \in DOMAIN list', log'[list'[id].tx].kind = "vendAuth"
      PROVE  id \in notToResend'
  <2>1. CASE Submits /\ id = uniqueId + 1 /\ list'[id].tx = Len(log) + 1
    BY <1>2, <2>1, Submitting
  <2>2. CASE id \in DOMAIN list /\ list'[id].tx = list[id].tx
    <3>1. list[id].tx \in Submitted
      BY <2>2 DEF TypeOK, StorageTypes
    <3>2. log[list[id].tx].kind = "vendAuth"
      BY <1>2, <2>2, <3>1, LogGrows
    <3>3. id \in notToResend
      BY <1>1, <2>2, <3>2 DEF Authorizations
    <3> QED
      BY <1>1, <1>2, <3>3, MarksLeft
  <2> QED
    BY <1>2, <2>1, <2>2, EntriesStep
<1>3. ASSUME Holding', log'[send'.item.tx].kind = "vendAuth"
      PROVE  send'.item.id \in notToResend'
  <2>1. CASE send' = send
    <3>1. Holding
      BY <1>3, <2>1 DEF Holding
    <3>2. send.item.tx \in Submitted
      BY <3>1 DEF HeldItem
    <3>3. send.item.id \in notToResend
      BY <1>1, <1>3, <2>1, <3>1, <3>2, LogGrows DEF Authorizations
    <3> QED
      BY <1>1, <1>3, <2>1, <3>3, MarksLeft
  <2>2. CASE FetchItem /\ send'.item.id \in DOMAIN list
                       /\ send'.item.tx = list[send'.item.id].tx
    <3>1. list' = list
      BY <2>2 DEF FetchItem, storage
    <3> QED
      BY <1>2, <1>3, <2>2, <3>1
  <2> QED
    BY <1>3, <2>1, <2>2, HeldStep
<1> QED
  BY <1>2, <1>3

\* What leaves the list is a ticket, or has been received, or is given up after
\* all its tries.
LEMMA Gone ==
  ASSUME TypeOK, OwnEntries, HeldItem, AnswersTrue, ListedMarks, [Next]_vars,
         NEW id \in DOMAIN list, id \notin DOMAIN list'
  PROVE  LET n == list[id].tx IN
         IsTicket(n) \/ Reached(n) \/ (log[n].bad /\ tries[n] > MaxBadResend)
<1> DEFINE n == list[id].tx
<1>a. n \in Submitted /\ tries[n] \in Nat
  <2>1. n \in Submitted
    BY DEF TypeOK, StorageTypes
  <2> QED
    BY <2>1, SeenGrows
<1>1. CASE Submits
  BY <1>1 DEF Submits, Submit, With
<1>2. CASE Responses
  <2>1. PICK m \in answering : TakeOut(log[m].id)
    BY <1>2 DEF Responses, TicketResponseReceived
  <2>2. id = log[m].id /\ m \in UnderWay
    BY <2>1, Removal DEF UnderWay
  <2>3. n = m
    BY <2>2 DEF OwnEntries
  <2> QED
    BY <2>1, <2>3 DEF AnswersTrue
<1>3. CASE DropBadItem
  <2>1. Spent /\ TakeOut(send.item.id)
    BY <1>3 DEF DropBadItem
  <2>2. id = send.item.id
    BY <2>1, Removal
  <2>3. id \in DOMAIN badCount /\ badCount[id] >= MaxBadResend /\ badCount[id] \in Nat
    BY <2>1, <2>2 DEF Spent, TypeOK, MarkTypes
  <2>4. log[n].bad /\ tries[n] > badCount[id]
    BY <2>3 DEF ListedMarks
  <2> QED
    BY <1>a, <2>3, <2>4, PollerResendAssumption
<1>4. CASE DropItemNotToResend
  <2>1. send.item.id \in notToResend /\ TakeOut(send.item.id)
    BY <1>4 DEF DropItemNotToResend
  <2>2. id = send.item.id
    BY <2>1, Removal
  <2> QED
    BY <2>1, <2>2 DEF ListedMarks, IsTicket, Ticket
<1>5. CASE ResendItem
  BY <1>5 DEF ResendItem
<1>6. CASE ReadAck
  <2>1. Reads("ack") /\ TakeOut(log[Head(fromHost).tx].id)
    BY <1>6 DEF ReadAck
  <2>2. id = log[Head(fromHost).tx].id
    BY <2>1, Removal
  <2>3. Head(fromHost).tx \in received /\ Head(fromHost).tx \in UnderWay
    BY <2>1, AnswerReceived
  <2>4. n = Head(fromHost).tx
    BY <2>2, <2>3 DEF OwnEntries
  <2> QED
    BY <2>3, <2>4 DEF Reached
<1>7. CASE ReadTicketResponse
  <2> DEFINE tickets == {i \in DOMAIN list : IsTicket(list[i].tx)}
  <2>1. tickets # {} /\ TakeOut(Smallest(tickets))
    BY <1>7 DEF ReadTicketResponse
  <2>2. tickets \in SUBSET Nat
    BY DEF TypeOK, StorageTypes
  <2>3. Smallest(tickets) \in tickets
    BY <2>1, <2>2, SmallestIn
  <2>4. id = Smallest(tickets)
    BY <2>1, Removal
  <2> QED
    BY <2>3, <2>4
<1>8. CASE ReadSlotMastResponse
  <2> DEFINE m == Head(fromHost).tx
  <2>1. /\ Reads("slotmast") /\ SameChange(m) # {}
        /\ list' = Without(list, Smallest(SameChange(m)))
    BY <1>8 DEF ReadSlotMastResponse
  <2>2. m \in received
    BY <2>1, AnswerReceived
  <2>3. SameChange(m) \in SUBSET Nat
    BY DEF SameChange, TypeOK, StorageTypes
  <2>4. Smallest(SameChange(m)) \in SameChange(m)
    BY <2>1, <2>3, SmallestIn
  <2>5. id = Smallest(SameChange(m))
    BY <2>1 DEF Without
  <2>6. IsSlotMast(n) /\ log[n].kind = log[m].kind
    BY <2>4, <2>5 DEF SameChange
  <2> QED
    BY <2>2, <2>6 DEF Reached
<1>9. CASE Elapse
  BY <1>9 DEF Elapse
<1>10. CASE CrashAndRestart
  BY <1>10 DEF CrashAndRestart
<1>11. CASE \/ CountUp
           \/ RequestNotify
           \/ AnswerIfEmpty
           \/ Checks
           \/ Tells
           \/ Resets
           \/ CountsDown
           \/ CheckForConnect
           \/ CheckOnline
           \/ FetchItem
           \/ SkipItem
           \/ ResendFreedItem
           \/ DrainQueue
           \/ ReadHeartbeatResponse
           \/ PmtReports
           \/ LinkDown
           \/ UNCHANGED vars
  <2>1. UNCHANGED <<list>>
    BY <1>11 DEF CountUp, RequestNotify, AnswerIfEmpty, CheckEmpty, TellEmpty,
      ResetNotify, CountDown, CheckForConnect, CheckOnline, FetchItem,
      SkipItem, ResendFreedItem, DrainQueue, ReadHeartbeatResponse,
      HostReportsPmt, LinkDown, Checks, Tells, Resets, CountsDown, PmtReports,
      storage, vars
  <2> QED
    BY <2>1 DEF storage
<1> QED
  BY <1>1, <1>2, <1>3, <1>4, <1>5, <1>6, <1>7, <1>8, <1>9, <1>10, <1>11,
    NextCases

\* What leaves the list is settled: its answer has come, so it was received, or its
\* count has reached the limit, so it was tried more often.
LEMMA NothingForgottenStep ==
  ASSUME TypeOK, UniqueIdIsFresh, NothingForgotten, OwnEntries, HeldItem, AnswersTrue,
         ListedMarks, [Next]_vars
  PROVE  NothingForgotten'
<1> SUFFICES ASSUME NEW n \in Submitted', ~IsTicket(n)' PROVE Settled(n)'
  BY DEF NothingForgotten
<1>1. CASE Submits /\ n = Len(log) + 1
  <2> SUFFICES ASSUME log'[n].stored PROVE n \in Listed'
    BY DEF Settled
  <2>1. list' = With(list, uniqueId + 1, [tx |-> n, due |-> FALSE])
    BY <1>1, Submitting
  <2>2. uniqueId + 1 \in DOMAIN list' /\ list'[uniqueId + 1].tx = n
    BY <2>1 DEF With
  <2> QED
    BY <2>2 DEF Listed
<1>2. CASE n \in Submitted
  <2> SUFFICES ASSUME log'[n].stored, n \notin Listed'
               PROVE  Reached(n)' \/ (log'[n].bad /\ tries'[n] > MaxBadResend)
    BY DEF Settled
  <2>1. log'[n] = log[n] /\ ~IsTicket(n) /\ log[n].stored
    BY <1>2, LogGrows DEF IsTicket
  <2>2. Reached(n) \/ (log[n].bad /\ tries[n] > MaxBadResend)
    <3>1. CASE n \notin Listed
      BY <1>2, <2>1, <3>1 DEF NothingForgotten, Settled
    <3>2. CASE n \in Listed
      <4>1. PICK id \in DOMAIN list : list[id].tx = n
        BY <3>2 DEF Listed
      <4>2. id # uniqueId + 1
        BY NextIdIsFree DEF IdsInUse
      <4>3. id \notin DOMAIN list'
        BY <4>1, <4>2, EntriesStep DEF Listed
      <4> QED
        BY <2>1, <4>1, <4>3, Gone
    <3> QED
      BY <3>1, <3>2
  <2>3. /\ received \subseteq received'
        /\ tries[n] \in Nat /\ tries'[n] \in Nat /\ tries[n] <= tries'[n]
    BY <1>2, SeenGrows
  <2>4. \A m \in received : log'[m] = log[m]
    BY LogGrows DEF TypeOK, SeenTypes
  <2>5. Reached(n) => Reached(n)'
    BY <2>1, <2>3, <2>4 DEF Reached, IsSlotMast
  <2> QED
    BY <2>1, <2>2, <2>3, <2>5, PollerResendAssumption
<1> QED
  BY <1>1, <1>2, NewTransactions

-----------------------------------------------------------------------------
(* The count of printed tickets *)

\* A thread that has nothing to do, or one thing, is in ToDo, and what counts.
LEMMA CountValues ==
  /\ \A s : CountOf(s) \in {0, 1} /\ UpOf(s) \in {0, 1}
  /\ CountOf(<<>>) = 0 /\ UpOf(<<>>) = 0 /\ <<>> \in ToDo
  /\ \A x \in {"check", "tell", "ask"} :
        CountOf(<<x>>) = 0 /\ UpOf(<<x>>) = 0 /\ <<x>> \in ToDo
  /\ CountOf(<<"countOut">>) = 0 /\ UpOf(<<"countOut">>) = 1 /\ <<"countOut">> \in ToDo
  /\ CountOf(<<"check", "check">>) = 0 /\ UpOf(<<"check", "check">>) = 0
  /\ <<"check", "check">> \in ToDo
  /\ CountOf(<<"check", "count", "check">>) = 1 /\ UpOf(<<"check", "count", "check">>) = 0
  /\ <<"check", "count", "check">> \in ToDo
<1>1. \A s : CountOf(s) \in {0, 1} /\ UpOf(s) \in {0, 1}
  BY DEF CountOf, UpOf
<1>2. CountOf(<<>>) = 0 /\ UpOf(<<>>) = 0 /\ <<>> \in ToDo
  BY ToDoMembers DEF CountOf, UpOf
<1>3. ASSUME NEW x \in {"check", "tell", "ask"}
      PROVE  CountOf(<<x>>) = 0 /\ UpOf(<<x>>) = 0 /\ <<x>> \in ToDo
  <2>1. <<x>> \notin ToCount /\ <<x>> \in ToDo /\ <<x>> # <<"countOut">>
    BY ToDoMembers
  <2> QED
    BY <2>1 DEF CountOf, UpOf
<1>4. CountOf(<<"countOut">>) = 0 /\ UpOf(<<"countOut">>) = 1 /\ <<"countOut">> \in ToDo
  BY ToDoMembers DEF CountOf, UpOf
<1>5. /\ CountOf(<<"check", "check">>) = 0 /\ UpOf(<<"check", "check">>) = 0
      /\ <<"check", "check">> \in ToDo
  <2>1. <<"check", "check">> # <<"countOut">>
    OBVIOUS
  <2> QED
    BY <2>1, ToDoMembers DEF CountOf, UpOf
<1>6. /\ CountOf(<<"check", "count", "check">>) = 1 /\ UpOf(<<"check", "count", "check">>) = 0
      /\ <<"check", "count", "check">> \in ToDo
  <2>1. <<"check", "count", "check">> # <<"countOut">>
    OBVIOUS
  <2> QED
    BY <2>1, ToDoMembers DEF CountOf, UpOf
<1> QED
  BY <1>1, <1>2, <1>3, <1>4, <1>5, <1>6

\* One thread's list of what to do replaced.
LEMMA AfterOne ==
  ASSUME TypeOK, CountCovers, NEW t \in Threads, NEW s \in ToDo,
         after' = [after EXCEPT ![t] = s]
  PROVE  /\ \A u \in Threads : after'[u] \in ToDo
         /\ Pending' = (Pending - CountOf(after[t])) + CountOf(s)
         /\ UpOf(after'["queue"]) = IF t = "queue" THEN UpOf(s) ELSE UpOf(after["queue"])
<1>1. \A u \in Threads : after'[u] = IF u = t THEN s ELSE after[u]
  BY DEF TypeOK, ThreadTypes
<1>2. \A u \in Threads : after'[u] \in ToDo
  BY <1>1 DEF CountCovers
<1>3. CountOf(after["queue"]) \in {0, 1} /\ CountOf(after["send"]) \in {0, 1}
      /\ CountOf(after["read"]) \in {0, 1} /\ CountOf(s) \in {0, 1}
  BY CountValues
<1>4. t \in {"queue", "send", "read"} /\ Threads = {"queue", "send", "read"}
  BY DEF Threads
<1>5. Pending' = CountOf(after'["queue"]) + CountOf(after'["send"]) + CountOf(after'["read"])
  BY DEF Pending, CountOf
<1>6. Pending' = (Pending - CountOf(after[t])) + CountOf(s)
  <2>1. CASE t = "queue"
    BY <1>1, <1>3, <1>4, <1>5, <2>1 DEF Pending
  <2>2. CASE t = "send"
    BY <1>1, <1>3, <1>4, <1>5, <2>2 DEF Pending
  <2>3. CASE t = "read"
    BY <1>1, <1>3, <1>4, <1>5, <2>3 DEF Pending
  <2> QED
    BY <1>4, <2>1, <2>2, <2>3
<1> QED
  BY <1>1, <1>2, <1>4, <1>6

\* There are finitely many printed tickets in the list.
LEMMA OutFinite ==
  ASSUME TypeOK
  PROVE  IsFiniteSet(ListedOut) /\ Cardinality(ListedOut) \in Nat
<1>1. Submitted = 1..Len(log) /\ Len(log) \in Nat
  BY LenProperties DEF TypeOK, LogTypes, Submitted
<1>2. IsFiniteSet(Submitted)
  BY <1>1, FS_Interval
<1>3. ListedOut \in SUBSET Submitted
  BY DEF ListedOut, Listed, TypeOK, StorageTypes
<1> QED
  BY <1>2, <1>3, FS_Subset, FS_CardinalityType

\* Only a new transaction adds a printed ticket to the list.
LEMMA OutStep ==
  ASSUME TypeOK, [Next]_vars
  PROVE  \A n \in ListedOut' : n \in ListedOut \/
            (Submits /\ n = Len(log) + 1 /\ log'[n].kind = "ticketOut" /\ log'[n].stored)
<1> SUFFICES ASSUME NEW n \in ListedOut'
             PROVE  n \in ListedOut \/
                    (Submits /\ n = Len(log) + 1 /\ log'[n].kind = "ticketOut" /\ log'[n].stored)
  OBVIOUS
<1>1. PICK id \in DOMAIN list' : list'[id].tx = n
  BY DEF ListedOut, Listed
<1>2. log'[n].kind = "ticketOut"
  BY DEF ListedOut, IsTicketOut
<1>3. CASE id \in DOMAIN list /\ list'[id].tx = list[id].tx
  <2>1. n \in Submitted /\ n \in Listed
    BY <1>1, <1>3 DEF TypeOK, StorageTypes, Listed
  <2> QED
    BY <1>2, <2>1, LogGrows DEF ListedOut, IsTicketOut
<1>4. CASE Submits /\ id = uniqueId + 1 /\ list'[id].tx = Len(log) + 1
  <2>1. CASE log'[n].stored
    BY <1>1, <1>2, <1>4, <2>1
  <2>2. CASE ~log'[n].stored
    <3>1. list' = list
      BY <1>1, <1>4, <2>2, Submitting
    <3>2. n \notin Submitted
      BY <1>1, <1>4, Submitting
    <3> QED
      BY <1>1, <3>1, <3>2 DEF TypeOK, StorageTypes
  <2> QED
    BY <2>1, <2>2
<1> QED
  BY <1>1, <1>3, <1>4, EntriesStep

\* So there are no more than before, and at most one more with a new one.
LEMMA OutCount ==
  ASSUME TypeOK, [Next]_vars
  PROVE  /\ Cardinality(ListedOut') \in Nat /\ Cardinality(ListedOut) \in Nat
         /\ Cardinality(ListedOut') <= Cardinality(ListedOut) + 1
         /\ ~Submits \/ log'[Len(log) + 1].kind # "ticketOut" \/ ~log'[Len(log) + 1].stored =>
               Cardinality(ListedOut') <= Cardinality(ListedOut)
<1>1. IsFiniteSet(ListedOut) /\ Cardinality(ListedOut) \in Nat
  BY OutFinite
<1>2. Cardinality(ListedOut') \in Nat
  <2>1. IsFiniteSet(ListedOut \cup {Len(log) + 1})
    BY <1>1, FS_AddElement
  <2>2. ListedOut' \in SUBSET (ListedOut \cup {Len(log) + 1})
    BY OutStep
  <2> QED
    BY <2>1, <2>2, FS_Subset, FS_CardinalityType
<1>3. Cardinality(ListedOut') <= Cardinality(ListedOut) + 1
  <2>1. /\ IsFiniteSet(ListedOut \cup {Len(log) + 1})
        /\ Cardinality(ListedOut \cup {Len(log) + 1}) <= Cardinality(ListedOut) + 1
    <3> DEFINE C == Cardinality(ListedOut)
    <3>1. /\ IsFiniteSet(ListedOut \cup {Len(log) + 1})
          /\ Cardinality(ListedOut \cup {Len(log) + 1}) \in {C, C + 1}
      BY <1>1, FS_AddElement
    <3>2. C \in Nat
      BY <1>1
    <3> HIDE DEF C
    <3> QED
      BY <3>1, <3>2 DEF C
  <2>2. ListedOut' \in SUBSET (ListedOut \cup {Len(log) + 1})
    BY OutStep
  <2>3. /\ Cardinality(ListedOut') <= Cardinality(ListedOut \cup {Len(log) + 1})
        /\ Cardinality(ListedOut \cup {Len(log) + 1}) \in Nat
    BY <2>1, <2>2, FS_Subset, FS_CardinalityType
  <2> QED
    BY <1>1, <1>2, <2>1, <2>3
<1>4. ASSUME ~Submits \/ log'[Len(log) + 1].kind # "ticketOut" \/ ~log'[Len(log) + 1].stored
      PROVE  Cardinality(ListedOut') <= Cardinality(ListedOut)
  <2>1. ListedOut' \in SUBSET ListedOut
    BY <1>4, OutStep
  <2> QED
    BY <1>1, <2>1, FS_Subset
<1> QED
  BY <1>1, <1>2, <1>3, <1>4

\* The removal of a printed ticket takes it out of what is listed for good.
LEMMA OutRemoved ==
  ASSUME TypeOK, OwnEntries, NEW id \in DOMAIN list, IsTicketOut(list[id].tx), TakeOut(id),
         log' = log
  PROVE  Cardinality(ListedOut') <= Cardinality(ListedOut) - 1
<1> DEFINE n == list[id].tx
<1>1. n \in ListedOut
  BY DEF ListedOut, Listed
<1>2. ListedOut' \in SUBSET (ListedOut \ {n})
  <2> SUFFICES ASSUME NEW m \in ListedOut' PROVE m \in ListedOut \ {n}
    OBVIOUS
  <2>1. PICK i \in DOMAIN list' : list'[i].tx = m
    BY DEF ListedOut, Listed
  <2>2. i \in DOMAIN list /\ i # id /\ list[i].tx = m
    BY <2>1, Removal
  <2>3. m # n
    BY <2>2 DEF OwnEntries
  <2>4. log[m].kind = "ticketOut"
    BY DEF ListedOut, IsTicketOut
  <2> QED
    BY <2>2, <2>3, <2>4 DEF ListedOut, Listed, IsTicketOut
<1>3. IsFiniteSet(ListedOut) /\ Cardinality(ListedOut) \in Nat
  BY OutFinite
<1>4. /\ IsFiniteSet(ListedOut \ {n})
      /\ Cardinality(ListedOut \ {n}) = Cardinality(ListedOut) - 1
  BY <1>1, <1>3, FS_RemoveElement
<1> QED
  BY <1>2, <1>4, FS_Subset

\* After a restart the count is at least what is listed: no two transactions
\* share an entry.
LEMMA OutCounted ==
  ASSUME TypeOK, UniqueIdIsFresh, CrashAndRestart
  PROVE  outCount' \in Nat /\ Cardinality(ListedOut') <= outCount'
<1> DEFINE Ids == {id \in DOMAIN list : IsTicketOut(list[id].tx)}
           f == [id \in Ids |-> list[id].tx]
<1>1. IsFiniteSet(Ids)
  <2>1. /\ DOMAIN list \in SUBSET Nat /\ \A id \in DOMAIN list : id <= uniqueId
        /\ uniqueId \in Nat
    BY ListIds DEF TypeOK, StorageTypes
  <2>2. IsFiniteSet(DOMAIN list)
    BY <2>1, FS_BoundedSetOfNaturals
  <2> QED
    BY <2>2, FS_Subset
<1>2. log' = log /\ outCount' = Cardinality(Ids)
  BY DEF CrashAndRestart
<1>3. /\ DOMAIN list' = DOMAIN list
      /\ \A id \in DOMAIN list : list'[id].tx = list[id].tx
  BY RestartId
<1>4. ListedOut' = ListedOut
  BY <1>2, <1>3 DEF ListedOut, Listed, IsTicketOut
<1>5. f \in Surjection(Ids, ListedOut)
  <2>1. f \in [Ids -> ListedOut]
    BY DEF ListedOut, Listed
  <2>2. \A n \in ListedOut : \E id \in Ids : f[id] = n
    BY DEF ListedOut, Listed
  <2> QED
    BY <2>1, <2>2 DEF Surjection
<1>6. Cardinality(ListedOut) <= Cardinality(Ids)
  <2> HIDE DEF Ids, f
  <2> QED
    BY <1>1, <1>5, FS_Surjection
<1> QED
  BY <1>1, <1>2, <1>4, <1>6, FS_CardinalityType

\* The count, with what every thread has still to count, covers what is listed: an
\* entry and its count change in different steps, and the difference is in `after`.
LEMMA CountCoversStep ==
  ASSUME TypeOK, UniqueIdIsFresh, OwnEntries, AnswersTrue, CountCovers, [Next]_vars
  PROVE  CountCovers'
<1>o. PICK out \in Nat, outN \in Nat :
         /\ out = Cardinality(ListedOut) /\ outN = Cardinality(ListedOut')
         /\ outN <= out + 1
         /\ (~Submits \/ log'[Len(log) + 1].kind # "ticketOut"
                      \/ ~log'[Len(log) + 1].stored => outN <= out)
  BY OutCount
<1>c. PICK count \in Int, up \in {0, 1}, pending \in Int :
         /\ count = outCount /\ up = UpOf(after["queue"]) /\ pending = Pending
  <2>1. outCount \in Int
    BY DEF TypeOK, InnerTypes
  <2>2. UpOf(after["queue"]) \in {0, 1} /\ Pending \in Int
    BY CountValues DEF Pending
  <2> QED
    BY <2>1, <2>2
<1>t. \A t \in Threads : after[t] \in ToDo /\ CountOf(after[t]) \in {0, 1}
  BY CountValues DEF CountCovers
<1>k. count + up >= out + pending
  BY <1>o, <1>c DEF CountCovers
\* What has to be shown of the next state.
<1>a. ASSUME \A t \in Threads : after'[t] \in ToDo,
             NEW upN \in Int, UpOf(after'["queue"]) = upN,
             NEW pendingN \in Int, Pending' = pendingN,
             NEW countN \in Int, outCount' = countN, countN + upN >= outN + pendingN
      PROVE  CountCovers'
  <2>1. CountCovers' = /\ \A t \in Threads : after'[t] \in ToDo
                       /\ outCount' + UpOf(after'["queue"]) >= Cardinality(ListedOut') + Pending'
    BY DEF CountCovers, UpOf
  <2> QED
    BY <1>o, <1>a, <2>1
\* Nothing to do changes, and nothing more is listed.
<1>d. ASSUME UNCHANGED <<after, outCount>>, outN <= out
      PROVE  CountCovers'
  <2>1. /\ Pending' = pending /\ UpOf(after'["queue"]) = up /\ outCount' = count
        /\ \A t \in Threads : after'[t] \in ToDo
    BY <1>c, <1>t, <1>d DEF Pending
  <2>2. count + up >= outN + pending
    BY <1>k, <1>d
  <2> QED
    BY <1>a, <2>1, <2>2
\* A thread has something else to do that counts no more than before.
<1>e. ASSUME NEW t \in Threads, NEW s \in ToDo, after' = [after EXCEPT ![t] = s],
             outCount' = outCount, outN <= out,
             CountOf(s) <= CountOf(after[t]), t = "queue" => UpOf(s) >= up
      PROVE  CountCovers'
  <2>1. /\ \A u \in Threads : after'[u] \in ToDo
        /\ Pending' = (pending - CountOf(after[t])) + CountOf(s)
        /\ UpOf(after'["queue"]) = IF t = "queue" THEN UpOf(s) ELSE up
    BY <1>c, <1>e, AfterOne
  <2>2. PICK x \in {0, 1}, y \in {0, 1}, z \in {0, 1} :
           x = CountOf(s) /\ y = UpOf(s) /\ z = CountOf(after[t])
    BY CountValues
  <2>3. PICK upN \in Int : upN = UpOf(after'["queue"]) /\ upN >= up
    BY <1>e, <2>1, <2>2
  <2>4. Pending' = (pending - z) + x /\ (pending - z) + x <= pending /\ outCount' = count
    BY <1>c, <1>e, <2>1, <2>2
  <2>5. count + upN >= outN + ((pending - z) + x)
    BY <1>k, <1>e, <2>3, <2>4
  <2>6. (pending - z) + x \in Int
    OBVIOUS
  <2> QED
    BY <1>a, <2>1, <2>3, <2>4, <2>5, <2>6
\* A thread without anything to do takes an entry out of the list.
<1>f. ASSUME NEW t \in Threads, after[t] = <<>>, NEW id, TakeOut(id),
             NEW isTicketIn \in BOOLEAN,
             id \in DOMAIN list => (isTicketIn <=> ~IsTicketOut(list[id].tx)),
             after' = [after EXCEPT ![t] = TicketSteps(id, isTicketIn)],
             outCount' = outCount, log' = log, outN <= out
      PROVE  CountCovers'
  <2>1. CountOf(<<>>) = 0 /\ UpOf(<<>>) = 0
    BY CountValues
  <2>2. t = "queue" => up = 0
    BY <1>c, <1>f, <2>1
  <2>3. CASE id \in DOMAIN list /\ ~isTicketIn
    <3>1. TicketSteps(id, isTicketIn) = <<"check", "count", "check">>
      BY <2>3 DEF TicketSteps
    <3>2. /\ <<"check", "count", "check">> \in ToDo
          /\ CountOf(<<"check", "count", "check">>) = 1
          /\ UpOf(<<"check", "count", "check">>) = 0
      BY CountValues
    <3>3. outN <= out - 1
      BY <1>o, <1>f, <2>3, OutRemoved
    <3> DEFINE s == <<"check", "count", "check">>
    <3>4. s \in ToDo /\ CountOf(s) = 1 /\ UpOf(s) = 0 /\ after' = [after EXCEPT ![t] = s]
      BY <1>f, <3>1, <3>2
    <3> HIDE DEF s
    <3>5. /\ \A u \in Threads : after'[u] \in ToDo
          /\ Pending' = (pending - CountOf(after[t])) + CountOf(s)
          /\ UpOf(after'["queue"]) = IF t = "queue" THEN UpOf(s) ELSE up
      BY <1>c, <3>4, AfterOne
    <3>6. Pending' = pending + 1 /\ UpOf(after'["queue"]) = up /\ outCount' = count
      BY <1>c, <1>f, <2>1, <2>2, <3>4, <3>5
    <3>7. count + up >= outN + (pending + 1) /\ pending + 1 \in Int
      BY <1>k, <3>3
    <3> QED
      BY <1>a, <3>5, <3>6, <3>7
  <2>4. CASE ~(id \in DOMAIN list /\ ~isTicketIn)
    <3>1. TicketSteps(id, isTicketIn) = <<"check", "check">>
      BY <2>4 DEF TicketSteps
    <3>2. /\ <<"check", "check">> \in ToDo /\ CountOf(<<"check", "check">>) = 0
          /\ UpOf(<<"check", "check">>) = 0
      BY CountValues
    <3> DEFINE s == <<"check", "check">>
    <3>3. s \in ToDo /\ CountOf(s) = 0 /\ UpOf(s) = 0 /\ after' = [after EXCEPT ![t] = s]
      BY <1>f, <3>1, <3>2
    <3> HIDE DEF s
    <3>4. CountOf(s) <= CountOf(after[t]) /\ (t = "queue" => UpOf(s) >= up)
      BY <1>f, <2>1, <2>2, <3>3
    <3> QED
      BY <1>e, <1>f, <3>3, <3>4
  <2> QED
    BY <2>3, <2>4
\* The first thing to do is done, and does not count.
<1>g. ASSUME NEW t \in Threads, NEW steps, GoOn(t, steps), steps \o Tail(after[t]) \in ToDo,
             steps \o Tail(after[t]) \in ToCount <=> after[t] \in ToCount,
             after[t] # <<"countOut">>, outCount' = outCount, outN <= out
      PROVE  CountCovers'
  <2> DEFINE s == steps \o Tail(after[t])
  <2>1. after' = [after EXCEPT ![t] = s]
    BY <1>g DEF GoOn
  <2>2. s \in ToDo /\ CountOf(s) = CountOf(after[t])
    BY <1>g DEF CountOf
  <2> HIDE DEF s
  <2>3. UpOf(s) \in {0, 1} /\ CountOf(s) \in {0, 1}
    BY CountValues
  <2>4. t = "queue" => up = 0
    BY <1>c, <1>g DEF UpOf
  <2>5. CountOf(s) <= CountOf(after[t]) /\ (t = "queue" => UpOf(s) >= up)
    BY <2>2, <2>3, <2>4
  <2> QED
    BY <1>e, <1>g, <2>1, <2>2, <2>5
<1>1. CASE Submits
  <2>1. PICK offer \in Offers : Submit(offer)
    BY <1>1 DEF Submits
  <2> DEFINE n == Len(log) + 1
             stored == offer.kind # "session" /\ Cardinality(DOMAIN list) < Capacity
  <2>2. /\ after["queue"] = <<>> /\ outCount' = outCount
        /\ after' = IF offer.kind = "ticketOut" /\ stored
                    THEN [after EXCEPT !["queue"] = <<"countOut">>] ELSE after
    BY <2>1 DEF Submit, inner
  <2>3. log'[n].kind = offer.kind /\ (log'[n].stored <=> stored)
    <3> DEFINE r == [kind |-> offer.kind, bad |-> offer.bad, id |-> uniqueId + 1,
                     stored |-> stored]
    <3>1. log' = Append(log, r)
      BY <2>1 DEF Submit
    <3>2. log'[n] = r
      <4>1. PICK S : log \in Seq(S)
        BY DEF TypeOK, LogTypes
      <4>2. log \in Seq(S) /\ S \subseteq S \cup {r} /\ r \in S \cup {r}
        BY <4>1
      <4> HIDE DEF r
      <4> QED
        BY <3>1, <4>2, Appended
    <3> HIDE DEF stored
    <3> QED
      BY <3>2
  <2> HIDE DEF stored
  <2>4. CASE offer.kind = "ticketOut" /\ stored
    <3> DEFINE s == <<"countOut">>
    <3>1. s \in ToDo /\ CountOf(s) = 0 /\ UpOf(s) = 1 /\ CountOf(<<>>) = 0 /\ UpOf(<<>>) = 0
      BY CountValues
    <3>2. after' = [after EXCEPT !["queue"] = s] /\ "queue" \in Threads
      BY <2>2, <2>4 DEF Threads
    <3> HIDE DEF s
    <3>3. /\ \A u \in Threads : after'[u] \in ToDo
          /\ Pending' = (Pending - CountOf(after["queue"])) + CountOf(s)
          /\ UpOf(after'["queue"]) = UpOf(s)
      BY <3>1, <3>2, AfterOne
    <3>4. up = 0
      BY <1>c, <2>2, <3>1
    <3>5. Pending' = pending /\ UpOf(after'["queue"]) = 1 /\ outCount' = count
      BY <1>c, <2>2, <3>1, <3>3
    <3>6. count + 1 >= outN + pending
      BY <1>o, <1>k, <3>4
    <3> QED
      BY <1>a, <3>3, <3>5, <3>6
  <2>5. CASE ~(offer.kind = "ticketOut" /\ stored)
    BY <1>o, <1>d, <2>2, <2>3, <2>5
  <2> QED
    BY <2>4, <2>5
<1>2. CASE CountUp
  <2>1. /\ after["queue"] # <<>> /\ Head(after["queue"]) = "countOut" /\ "queue" \in Threads
        /\ GoOn("queue", <<>>) /\ outCount' = outCount + 1 /\ ~Submits
    BY <1>2, NotSubmitted DEF CountUp, Threads
  <2>2. after["queue"] = <<"countOut">> /\ <<>> \o Tail(after["queue"]) = <<>>
    BY <1>t, <2>1, ToDoSteps
  <2> DEFINE s == <<>>
  <2>3. after' = [after EXCEPT !["queue"] = s]
    BY <2>1, <2>2 DEF GoOn
  <2>4. s \in ToDo /\ CountOf(s) = 0 /\ UpOf(s) = 0 /\ CountOf(after["queue"]) = 0 /\ up = 1
    BY <1>c, <2>2, CountValues
  <2> HIDE DEF s
  <2>5. /\ \A u \in Threads : after'[u] \in ToDo
        /\ Pending' = (Pending - CountOf(after["queue"])) + CountOf(s)
        /\ UpOf(after'["queue"]) = UpOf(s)
    BY <2>1, <2>3, <2>4, AfterOne
  <2>6. Pending' = pending /\ UpOf(after'["queue"]) = 0 /\ outCount' = count + 1
    BY <1>c, <2>1, <2>4, <2>5
  <2>7. (count + 1) + 0 >= outN + pending /\ count + 1 \in Int
    BY <1>o, <1>k, <2>1, <2>4
  <2> QED
    BY <1>a, <2>5, <2>6, <2>7
<1>3. CASE RequestNotify
  <2>1. /\ after["queue"] = <<>> /\ after' = [after EXCEPT !["queue"] = <<"ask">>]
        /\ outCount' = outCount /\ "queue" \in Threads /\ ~Submits
    BY <1>3, NotSubmitted DEF RequestNotify, inner, Threads
  <2> DEFINE s == <<"ask">>
  <2>2. s \in ToDo /\ CountOf(s) = 0 /\ UpOf(s) = 0 /\ CountOf(after["queue"]) = 0 /\ up = 0
    BY <1>c, <2>1, CountValues
  <2>3. after' = [after EXCEPT !["queue"] = s]
    BY <2>1
  <2> HIDE DEF s
  <2>4. CountOf(s) <= CountOf(after["queue"]) /\ UpOf(s) >= up /\ outN <= out
    BY <1>o, <2>1, <2>2
  <2> QED
    BY <1>e, <2>1, <2>2, <2>3, <2>4
<1>4. CASE AnswerIfEmpty
  <2>1. /\ after["queue"] # <<>> /\ Head(after["queue"]) = "ask" /\ "queue" \in Threads
        /\ outCount' = outCount /\ ~Submits
        /\ GoOn("queue", <<"tell">>) \/ GoOn("queue", <<>>)
    BY <1>4, NotSubmitted DEF AnswerIfEmpty, inner, Threads
  <2>2. /\ after["queue"] = <<"ask">> /\ <<>> \o Tail(after["queue"]) = <<>>
        /\ <<"tell">> \o Tail(after["queue"]) = <<"tell">>
    BY <1>t, <2>1, ToDoSteps
  <2>3. PICK s \in {<<>>, <<"tell">>} : after' = [after EXCEPT !["queue"] = s]
    BY <2>1, <2>2 DEF GoOn
  <2>4. s \in ToDo /\ CountOf(s) = 0 /\ UpOf(s) = 0 /\ CountOf(after["queue"]) = 0 /\ up = 0
    BY <1>c, <2>2, CountValues
  <2>5. CountOf(s) <= CountOf(after["queue"]) /\ UpOf(s) >= up /\ outN <= out
    BY <1>o, <2>1, <2>4
  <2> QED
    BY <1>e, <2>1, <2>3, <2>4, <2>5
<1>5. CASE Responses
  <2>1. PICK n \in answering : TicketResponseReceived(n)
    BY <1>5 DEF Responses
  <2>2. /\ after["queue"] = <<>> /\ TakeOut(log[n].id) /\ "queue" \in Threads
        /\ after' = [after EXCEPT !["queue"] = TicketSteps(log[n].id, ~IsTicketOut(n))]
        /\ outCount' = outCount /\ log' = log /\ ~Submits
    BY <1>5, <2>1, NotSubmitted DEF TicketResponseReceived, Threads
  <2>3. log[n].id \in DOMAIN list => list[log[n].id].tx = n
    BY DEF OwnEntries, UnderWay
  <2>4. PICK in \in BOOLEAN : in <=> ~IsTicketOut(n)
    OBVIOUS
  <2>5. (~IsTicketOut(n)) \in BOOLEAN
    BY DEF IsTicketOut
  <2> QED
    BY <1>o, <1>f, <2>2, <2>3, <2>5
<1>6. CASE Checks
  <2>1. PICK t \in Threads : CheckEmpty(t)
    BY <1>6 DEF Checks
  <2>2. /\ after[t] \in ToDo /\ after[t] # <<>> /\ outCount' = outCount
        /\ ~Submits
    BY <1>6, <1>t, <2>1, NotSubmitted DEF CheckEmpty, inner
  <2>3. /\ Head(after[t]) = "check"
        /\ GoOn(t, <<"tell">>) \/ GoOn(t, <<>>)
    BY <2>1 DEF CheckEmpty
  <2>4. \A x \in {<<>>, <<"tell">>} :
           /\ x \o Tail(after[t]) \in ToDo
           /\ x \o Tail(after[t]) \in ToCount <=> after[t] \in ToCount
    BY <2>2, <2>3, ToDoSteps
  <2>5. after[t] # <<"countOut">>
    BY <2>2, <2>3, ToDoSteps
  <2> QED
    BY <1>o, <1>g, <2>2, <2>3, <2>4, <2>5
<1>7. CASE Tells
  <2>1. PICK t \in Threads : TellEmpty(t)
    BY <1>7 DEF Tells
  <2>2. /\ after[t] \in ToDo /\ after[t] # <<>> /\ outCount' = outCount
        /\ ~Submits
    BY <1>7, <1>t, <2>1, NotSubmitted DEF TellEmpty, inner
  <2>3. Head(after[t]) = "tell" /\ GoOn(t, <<"reset">>)
    BY <2>1 DEF TellEmpty
  <2>4. /\ <<"reset">> \o Tail(after[t]) \in ToDo
        /\ <<"reset">> \o Tail(after[t]) \in ToCount <=> after[t] \in ToCount
        /\ after[t] # <<"countOut">>
    BY <2>2, <2>3, ToDoSteps
  <2> QED
    BY <1>o, <1>g, <2>2, <2>3, <2>4
<1>8. CASE Resets
  <2>1. PICK t \in Threads : ResetNotify(t)
    BY <1>8 DEF Resets
  <2>2. /\ after[t] \in ToDo /\ after[t] # <<>> /\ outCount' = outCount
        /\ ~Submits
    BY <1>8, <1>t, <2>1, NotSubmitted DEF ResetNotify, inner
  <2>3. Head(after[t]) = "reset" /\ GoOn(t, <<>>)
    BY <2>1 DEF ResetNotify
  <2>4. /\ <<>> \o Tail(after[t]) \in ToDo
        /\ <<>> \o Tail(after[t]) \in ToCount <=> after[t] \in ToCount
        /\ after[t] # <<"countOut">>
    BY <2>2, <2>3, ToDoSteps
  <2> QED
    BY <1>o, <1>g, <2>2, <2>3, <2>4
<1>9. CASE CountsDown
  <2>1. PICK t \in Threads : CountDown(t)
    BY <1>9 DEF CountsDown
  <2>2. /\ after[t] \in ToDo /\ after[t] # <<>> /\ Head(after[t]) = "count"
        /\ outCount' = outCount - 1 /\ GoOn(t, <<>>) /\ ~Submits
    BY <1>9, <1>t, <2>1, NotSubmitted DEF CountDown
  <2>3. after[t] \in ToCount /\ <<>> \o Tail(after[t]) = <<"check">>
    BY <2>2, ToDoSteps
  <2>4. CountOf(after[t]) = 1 /\ after[t] # <<"countOut">>
    BY <2>3 DEF CountOf, ToCount
  <2> DEFINE s == <<"check">>
  <2>5. s \in ToDo /\ CountOf(s) = 0 /\ UpOf(s) = 0 /\ after' = [after EXCEPT ![t] = s]
    BY <2>2, <2>3, CountValues DEF GoOn
  <2> HIDE DEF s
  <2>6. /\ \A u \in Threads : after'[u] \in ToDo
        /\ Pending' = (pending - CountOf(after[t])) + CountOf(s)
        /\ UpOf(after'["queue"]) = IF t = "queue" THEN UpOf(s) ELSE up
    BY <1>c, <2>5, AfterOne
  <2>7. t = "queue" => up = 0
    BY <1>c, <2>4 DEF UpOf
  <2>8. UpOf(after'["queue"]) = up /\ Pending' = pending - 1 /\ outCount' = count - 1
    BY <1>c, <2>2, <2>4, <2>5, <2>6, <2>7
  <2>9. (count - 1) + up >= outN + (pending - 1) /\ count - 1 \in Int /\ pending - 1 \in Int
    BY <1>o, <1>k, <2>2
  <2> QED
    BY <1>a, <2>6, <2>8, <2>9
<1>10. CASE DropBadItem
  <2> DEFINE s == <<"check">>
  <2>1. /\ after' = [after EXCEPT !["send"] = s] /\ outCount' = outCount
        /\ ~Submits /\ "send" \in Threads
    BY <1>10, NotSubmitted DEF DropBadItem, inner, Threads
  <2>2. s \in ToDo /\ CountOf(s) = 0 /\ CountOf(after["send"]) \in {0, 1}
    BY CountValues
  <2> HIDE DEF s
  <2>3. CountOf(s) <= CountOf(after["send"]) /\ outN <= out /\ "send" # "queue"
    BY <1>o, <2>1, <2>2
  <2> QED
    BY <1>e, <2>1, <2>2, <2>3
<1>11. CASE DropItemNotToResend
  <2> DEFINE s == <<"check">>
  <2>1. /\ after' = [after EXCEPT !["send"] = s] /\ outCount' = outCount
        /\ ~Submits /\ "send" \in Threads
    BY <1>11, NotSubmitted DEF DropItemNotToResend, inner, Threads
  <2>2. s \in ToDo /\ CountOf(s) = 0 /\ CountOf(after["send"]) \in {0, 1}
    BY CountValues
  <2> HIDE DEF s
  <2>3. CountOf(s) <= CountOf(after["send"]) /\ outN <= out /\ "send" # "queue"
    BY <1>o, <2>1, <2>2
  <2> QED
    BY <1>e, <2>1, <2>2, <2>3
<1>12. CASE ResendItem
  <2>1. UNCHANGED <<after, outCount>> /\ ~Submits
    BY <1>12, NotSubmitted DEF ResendItem, inner
  <2> QED
    BY <1>o, <1>d, <2>1
<1>13. CASE ReadAck
  <2>1. Reads("ack") /\ outCount' = outCount /\ ~Submits /\ "read" \in Threads
    BY <1>13, NotSubmitted DEF ReadAck, inner, Threads
  <2>2. CASE after' = after
    BY <1>o, <1>d, <2>1, <2>2
  <2>3. CASE after' = [after EXCEPT !["read"] = <<"check">>]
    <3> DEFINE s == <<"check">>
    <3>1. s \in ToDo /\ CountOf(s) = 0 /\ CountOf(after["read"]) \in {0, 1}
      BY CountValues
    <3>2. after' = [after EXCEPT !["read"] = s]
      BY <2>3
    <3> HIDE DEF s
    <3>3. CountOf(s) <= CountOf(after["read"]) /\ outN <= out /\ "read" # "queue"
      BY <1>o, <2>1, <3>1
    <3> QED
      BY <1>e, <2>1, <3>1, <3>2, <3>3
  <2> QED
    BY <1>13, <2>2, <2>3 DEF ReadAck
<1>14. CASE ReadTicketResponse
  <2> DEFINE tickets == {id \in DOMAIN list : IsTicket(list[id].tx)}
             first == Smallest(tickets)
  <2>1. /\ after["read"] = <<>> /\ outCount' = outCount /\ log' = log /\ ~Submits
        /\ "read" \in Threads
    BY <1>14, NotSubmitted DEF ReadTicketResponse, Reads, Threads
  <2>2. CASE after' = after
    BY <1>o, <1>d, <2>1, <2>2
  <2>3. CASE /\ TakeOut(first)
             /\ after' = [after EXCEPT !["read"] = TicketSteps(first, ~IsTicketOut(list[first].tx))]
    <3> HIDE DEF first
    <3>1. (~IsTicketOut(list[first].tx)) \in BOOLEAN
      BY DEF IsTicketOut
    <3> QED
      BY <1>o, <1>f, <2>1, <2>3, <3>1
  <2> QED
    BY <1>14, <2>2, <2>3 DEF ReadTicketResponse
<1>15. CASE ReadSlotMastResponse
  <2>1. UNCHANGED <<after, outCount>> /\ ~Submits
    BY <1>15, NotSubmitted DEF ReadSlotMastResponse, thread, inner
  <2> QED
    BY <1>o, <1>d, <2>1
<1>16. CASE Elapse
  <2>1. UNCHANGED <<after, outCount>> /\ ~Submits
    BY <1>16, NotSubmitted DEF Elapse, thread, inner
  <2> QED
    BY <1>o, <1>d, <2>1
<1>17. CASE CrashAndRestart
  <2>1. after' = [t \in Threads |-> <<>>]
    BY <1>17 DEF CrashAndRestart
  <2>2. \A t \in Threads : after'[t] = <<>>
    BY <2>1
  <2>3. "queue" \in Threads /\ "send" \in Threads /\ "read" \in Threads
    BY DEF Threads
  <2>4. CountOf(<<>>) = 0 /\ UpOf(<<>>) = 0 /\ <<>> \in ToDo
    BY CountValues
  <2>5. Pending' = CountOf(after'["queue"]) + CountOf(after'["send"]) + CountOf(after'["read"])
    BY DEF Pending, CountOf
  <2>6. Pending' = 0 /\ UpOf(after'["queue"]) = 0
    BY <2>2, <2>3, <2>4, <2>5
  <2>7. PICK countN \in Int : countN = outCount' /\ outN <= countN
    BY <1>17, <1>o, OutCounted
  <2>8. countN + 0 >= outN + 0
    BY <1>o, <2>7
  <2>9. \A t \in Threads : after'[t] \in ToDo
    BY <2>2, <2>4
  <2> QED
    BY <1>a, <2>6, <2>7, <2>8, <2>9
<1>18. CASE \/ CheckForConnect
           \/ CheckOnline
           \/ FetchItem
           \/ SkipItem
           \/ ResendFreedItem
           \/ DrainQueue
           \/ ReadHeartbeatResponse
           \/ PmtReports
           \/ LinkDown
           \/ UNCHANGED vars
  <2>1. UNCHANGED <<after, outCount, list, log>>
    BY <1>18 DEF CheckForConnect, CheckOnline, FetchItem, SkipItem,
      ResendFreedItem, DrainQueue, ReadHeartbeatResponse, HostReportsPmt,
      LinkDown, PmtReports, storage, thread, inner, vars
  <2>2. outN <= out
    BY <1>o, <2>1 DEF ListedOut, Listed, IsTicketOut
  <2> QED
    BY <1>d, <2>1, <2>2
<1> QED
  BY <1>1, <1>2, <1>3, <1>4, <1>5, <1>6, <1>7, <1>8, <1>9, <1>10, <1>11,
    <1>12, <1>13, <1>14, <1>15, <1>16, <1>17, <1>18, NextCases

-----------------------------------------------------------------------------
(* The invariant holds *)

\* Every thread keeps having something, or nothing, to do.
LEMMA AfterStep ==
  ASSUME TypeOK, [Next]_vars
  PROVE  after' = [t \in Threads |-> after'[t]]
<1>a. after = [t \in Threads |-> after[t]]
  BY DEF TypeOK, ThreadTypes
<1>b. ASSUME NEW u, NEW s, after' = [after EXCEPT ![u] = s]
      PROVE  after' = [t \in Threads |-> after'[t]]
  BY <1>a, <1>b
<1>c. ASSUME after' = after
      PROVE  after' = [t \in Threads |-> after'[t]]
  BY <1>a, <1>c
<1>1. CASE Submits
  BY <1>1, <1>b, <1>c DEF Submits, Submit
<1>2. CASE CountUp
  BY <1>2, <1>b DEF CountUp, GoOn
<1>3. CASE RequestNotify
  BY <1>3, <1>b DEF RequestNotify
<1>4. CASE AnswerIfEmpty
  BY <1>4, <1>b DEF AnswerIfEmpty, GoOn
<1>5. CASE Responses
  BY <1>5, <1>b DEF Responses, TicketResponseReceived
<1>6. CASE Checks
  BY <1>6, <1>b DEF Checks, CheckEmpty, GoOn
<1>7. CASE Tells
  BY <1>7, <1>b DEF Tells, TellEmpty, GoOn
<1>8. CASE Resets
  BY <1>8, <1>b DEF Resets, ResetNotify, GoOn
<1>9. CASE CountsDown
  BY <1>9, <1>b DEF CountsDown, CountDown, GoOn
<1>10. CASE DropBadItem
  BY <1>10, <1>b DEF DropBadItem
<1>11. CASE DropItemNotToResend
  BY <1>11, <1>b DEF DropItemNotToResend
<1>12. CASE ReadAck
  BY <1>12, <1>b, <1>c DEF ReadAck, Reads
<1>13. CASE ReadTicketResponse
  BY <1>13, <1>b, <1>c DEF ReadTicketResponse, Reads
<1>14. CASE CrashAndRestart
  BY <1>14 DEF CrashAndRestart
<1>15. CASE \/ CheckForConnect
           \/ CheckOnline
           \/ FetchItem
           \/ SkipItem
           \/ ResendItem
           \/ ResendFreedItem
           \/ DrainQueue
           \/ ReadSlotMastResponse
           \/ ReadHeartbeatResponse
           \/ PmtReports
           \/ LinkDown
           \/ Elapse
           \/ UNCHANGED vars
  <2>1. UNCHANGED <<after>>
    BY <1>15 DEF CheckForConnect, CheckOnline, FetchItem, SkipItem,
      ResendItem, ResendFreedItem, DrainQueue, ReadSlotMastResponse,
      ReadHeartbeatResponse, HostReportsPmt, LinkDown, Elapse, PmtReports,
      thread, vars
  <2> QED
    BY <1>c, <2>1
<1> QED
  BY <1>1, <1>2, <1>3, <1>4, <1>5, <1>6, <1>7, <1>8, <1>9, <1>10, <1>11,
    <1>12, <1>13, <1>14, <1>15, NextCases

\* The types of what the threads are doing.
LEMMA ThreadTypesStep ==
  ASSUME TypeOK, HeldItem, CountCovers', [Next]_vars
  PROVE  ThreadTypes'
<1>1. send' \in [pc : SendPc, item : Item'] /\ online' \in BOOLEAN
  BY SendTypesStep
<1>2. \A t \in Threads : after'[t] \in Seq({"check", "tell", "reset", "count", "countOut", "ask"})
  BY ToDoType DEF CountCovers
<1>3. after' \in [Threads -> Seq({"check", "tell", "reset", "count", "countOut", "ask"})]
  BY <1>2, AfterStep
<1> QED
  BY <1>1, <1>3 DEF ThreadTypes

\* The invariant holds at first: nothing was handed over yet.
LEMMA InitIInv == Init => IInv
<1> SUFFICES ASSUME Init PROVE IInv
  OBVIOUS
<1> USE DEF Init
<1>1. DOMAIN <<>> = {}
  OBVIOUS
<1>2. Submitted = {} /\ DOMAIN list = {} /\ DOMAIN badCount = {} /\ DOMAIN queue = {}
      /\ DOMAIN fromHost = {} /\ DOMAIN tries = {}
  BY <1>1 DEF Submitted
<1>3. Listed = {} /\ ListedOut = {}
  BY <1>2 DEF Listed, ListedOut
<1>4. UnderWay = {}
  BY <1>2 DEF UnderWay, InAnswers
<1>5. ThreadTypes
  <2>1. send \in [pc : SendPc, item : Item]
    BY DEF SendPc, Item, NoItem
  <2>2. <<>> \in Seq({"check", "tell", "reset", "count", "countOut", "ask"})
    OBVIOUS
  <2> QED
    BY <2>1, <2>2 DEF ThreadTypes
<1>6. TypeOK
  <2>1. LogTypes /\ QueueTypes /\ NetTypes
    BY EmptySeq DEF LogTypes, QueueTypes, NetTypes
  <2>2. StorageTypes /\ MarkTypes
    BY <1>2 DEF StorageTypes, MarkTypes
  <2>3. InnerTypes
    <3>1. outCount = 0 /\ answering = {}
      OBVIOUS
    <3>2. notify \in BOOLEAN /\ waiting \in BOOLEAN
      BY Zenon
    <3> QED
      BY <3>1, <3>2 DEF InnerTypes
  <2>4. UsedTypes
    <3>1. used = [w \in {"faults", "crashes", "requests"} |-> 0]
      OBVIOUS
    <3> QED
      BY <3>1 DEF UsedTypes
  <2>5. SeenTypes
    BY <1>2, EmptySeq DEF SeenTypes
  <2> QED
    BY <1>5, <2>1, <2>2, <2>3, <2>4, <2>5 DEF TypeOK
<1>7. UniqueIdIsFresh
  BY <1>2, <1>4 DEF UniqueIdIsFresh, IdsInUse, NoItem
<1>8. ~Holding
  BY DEF Holding
<1>9. NothingForgotten /\ OwnEntries /\ AnswersTrue /\ ListedMarks
  BY <1>2, <1>4 DEF NothingForgotten, OwnEntries, AnswersTrue, ListedMarks
<1>10. HeldItem /\ Authorizations
  BY <1>2, <1>8 DEF HeldItem, Authorizations
<1>11. CountCovers
  <2>1. \A t \in Threads : after[t] = <<>>
    OBVIOUS
  <2>2. Pending = 0 /\ UpOf(after["queue"]) = 0
    BY <2>1, CountValues DEF Pending, Threads
  <2>3. Cardinality(ListedOut) = 0
    BY <1>3, FS_EmptySet
  <2> QED
    BY <2>1, <2>2, <2>3, CountValues DEF CountCovers
<1> QED
  BY <1>6, <1>7, <1>9, <1>10, <1>11 DEF IInv

\* Every step keeps it.
LEMMA IInvStep == IInv /\ [Next]_vars => IInv'
<1> SUFFICES ASSUME IInv, [Next]_vars PROVE IInv'
  OBVIOUS
<1>1. /\ TypeOK /\ UniqueIdIsFresh /\ NothingForgotten /\ OwnEntries /\ HeldItem
      /\ AnswersTrue /\ ListedMarks /\ Authorizations /\ CountCovers
  BY DEF IInv
<1>2. CountCovers'
  BY <1>1, CountCoversStep
<1>3. TypeOK'
  <2>1. LogTypes' /\ StorageTypes' /\ QueueTypes'
    BY <1>1, LogTypesStep, StorageTypesStep, QueueTypesStep
  <2>2. MarkTypes' /\ NetTypes' /\ InnerTypes'
    BY <1>1, MarkTypesStep, NetTypesStep, InnerTypesStep
  <2>3. SeenTypes' /\ UsedTypes' /\ ThreadTypes'
    BY <1>1, <1>2, SeenTypesStep, UsedTypesStep, ThreadTypesStep
  <2> QED
    BY <2>1, <2>2, <2>3 DEF TypeOK
<1>4. UniqueIdIsFresh' /\ OwnEntries' /\ HeldItem'
  BY <1>1, UniqueIdIsFreshStep, OwnEntriesStep, HeldItemStep
<1>5. AnswersTrue' /\ ListedMarks' /\ Authorizations'
  BY <1>1, AnswersTrueStep, ListedMarksStep, AuthorizationsStep
<1>6. NothingForgotten'
  BY <1>1, NothingForgottenStep
<1> QED
  BY <1>2, <1>3, <1>4, <1>5, <1>6 DEF IInv

\* In every state that can be reached the ids, entries, answers, marks and
\* counts of the three threads agree.
THEOREM Invariance == Spec => []IInv
<1> QED
  BY InitIInv, IInvStep, PTL DEF Spec

-----------------------------------------------------------------------------
(* What follows from it *)

\* Every variable keeps its type; every entry, queued message, answer and ticket
\* the internals work on is about a transaction that was handed over.
THEOREM TypeCorrect == Spec => []TypeOK
<1>1. IInv => TypeOK
  BY DEF IInv
<1> QED
  BY <1>1, Invariance, PTL

\* The next unique id of GetUniqueId is in use nowhere: no entry is replaced, and
\* no answer to an older transaction settles the new one, after restarts too.
THEOREM IdsStayFresh == Spec => []UniqueIdIsFresh
<1>1. IInv => UniqueIdIsFresh
  BY DEF IInv
<1> QED
  BY <1>1, Invariance, PTL

\* No restart, lost connection or overtaking of the threads makes the list forget
\* a transaction (other than a ticket) that the host has not got.
THEOREM NothingIsForgotten == Spec => []NothingForgotten
<1>1. IInv => NothingForgotten
  BY DEF IInv
<1> QED
  BY <1>1, Invariance, PTL

\* Between two messages the number of pending printed tickets (GetTicketsPending)
\* is not less than the number of those that are listed.
THEOREM TicketsCounted == Spec => []PrintedTicketsCounted
<1>1. IInv => PrintedTicketsCounted
  <2> SUFFICES ASSUME IInv, after["queue"] = <<>>
               PROVE  outCount >= Cardinality({n \in Listed : IsTicketOut(n)})
    BY DEF PrintedTicketsCounted
  <2>1. PICK out \in Nat : out = Cardinality(ListedOut)
    BY OutFinite DEF IInv
  <2>2. PICK pending \in Nat : pending = Pending
    <3>1. \A t : CountOf(after[t]) \in {0, 1}
      BY CountValues
    <3> QED
      BY <3>1 DEF Pending
  <2>3. UpOf(after["queue"]) = 0
    BY CountValues
  <2>4. outCount + 0 >= out + pending /\ outCount \in Int
    BY <2>1, <2>2, <2>3 DEF IInv, CountCovers, TypeOK, InnerTypes
  <2>5. outCount >= out
    BY <2>1, <2>2, <2>4
  <2> QED
    BY <2>1, <2>5 DEF ListedOut
<1> QED
  BY <1>1, Invariance, PTL

\* Until the first restart no authorization of a vendor ticket is sent from the
\* list: RemoveResendListItemIfNecessary finds its id in the set.
THEOREM AuthorizationsNotResent == Spec => NotToResendIsNotResent
<1>1. IInv /\ [Next]_vars =>
         [ResendItem /\ used.crashes = 0 => log[send.item.tx].kind # "vendAuth"]_vars
  <2> SUFFICES ASSUME IInv, ResendItem, used.crashes = 0
               PROVE  log[send.item.tx].kind # "vendAuth"
    OBVIOUS
  <2>1. Holding /\ send.item.id \notin notToResend
    BY DEF ResendItem
  <2> QED
    BY <2>1 DEF IInv, Authorizations
<1> QED
  BY <1>1, Invariance, PTL DEF Spec, NotToResendIsNotResent

=============================================================================
