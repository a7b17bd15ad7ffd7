--------------------------- MODULE SessionProofs ----------------------------
(***************************************************************************)
(* Proofs about Session and Mirror, its application, for every value of    *)
(* their constants.                                                        *)
(***************************************************************************)
EXTENDS Mirror, FiniteSetTheorems, SequenceTheorems, TLAPS

(* The bounds are numbers, apart from the assumption that gives them.      *)
LEMMA Bounds == MaxCalls \in Nat /\ MaxResponses \in Nat
  BY SessionAssumption DEF SessionAssumption

-----------------------------------------------------------------------------
(* The inductive invariant.                                                *)

(* Type correctness but for the one flag, which no prover handles together *)
(* with the rest; a command in progress has a number.                      *)
DataOK ==
    /\ unsolicited \in Seq(1..MaxResponses)
    /\ cmd \in Commands \cup {"none"}
    /\ verdict \in Verdicts
    /\ result \subseteq 1..MaxResponses
    /\ call \in 0..MaxCalls
    /\ received \in Seq([kind : Kinds, cmd : Commands, call : 1..MaxCalls])
    /\ returned \subseteq 1..MaxResponses
    /\ taken \in Seq(1..MaxResponses)
    /\ succeeded \subseteq 1..MaxCalls
    /\ Len(received) <= MaxResponses
    /\ cmd # "none" => call \in 1..MaxCalls

(* The two parts give the type invariant.                                  *)
LEMMA TypeParts == DataOK /\ qresync \in BOOLEAN => TypeOK
  BY Zenon DEF TypeOK, DataOK

(* What Judged says is a verdict.                                          *)
LEMMA JudgedIsVerdict == Judged \in Verdicts
  BY DEF Judged, Verdicts

(* What a call returns was collected by it.                                *)
LEMMA CollectedFromResult == Collected \subseteq result
  BY DEF Collected, OfKind

(* The record of a response, and its number.                               *)
LEMMA ReceiveRecord ==
  ASSUME DataOK, NEW kind \in Kinds, Receive(kind)
  PROVE  /\ [kind |-> kind, cmd |-> cmd, call |-> call]
               \in [kind : Kinds, cmd : Commands, call : 1..MaxCalls]
         /\ Len(received) \in Nat
         /\ Len(received) + 1 \in 1..MaxResponses
         /\ Len(received') = Len(received) + 1
         /\ received' \in Seq([kind : Kinds, cmd : Commands, call : 1..MaxCalls])
<1> DEFINE Record == [kind : Kinds, cmd : Commands, call : 1..MaxCalls]
           r == [kind |-> kind, cmd |-> cmd, call |-> call]
<1>1. cmd \in Commands /\ call \in 1..MaxCalls /\ Len(received) < MaxResponses
  BY DEF Receive, DataOK
<1>2. r \in Record
  BY <1>1
<1>3. received \in Seq(Record) /\ received' = Append(received, r)
  BY DEF DataOK, Receive
<1> HIDE DEF Record, r
<1>4. Len(received) \in Nat /\ Len(received') = Len(received) + 1 /\ received' \in Seq(Record)
  BY <1>2, <1>3, AppendProperties, LenProperties
<1>5. QED
  BY <1>1, <1>2, <1>4, Bounds DEF Record, r

(* Types are kept.                                                         *)
LEMMA DataOKStep == DataOK /\ [Next]_vars => DataOK'
<1> SUFFICES ASSUME DataOK, [Next]_vars PROVE DataOK'
  OBVIOUS
<1> USE Bounds
<1>1. CASE Issue
  BY <1>1 DEF Issue, DataOK, Verdicts
<1>2. ASSUME NEW kind \in Kinds, Receive(kind) PROVE DataOK'
  <2> DEFINE n == Len(received) + 1
  <2>1. n \in 1..MaxResponses /\ Len(received') = n
        /\ received' \in Seq([kind : Kinds, cmd : Commands, call : 1..MaxCalls])
    BY <1>2, ReceiveRecord
  <2> HIDE DEF n
  <2>2. unsolicited' \in {unsolicited, Append(unsolicited, n)}
    BY <1>2 DEF Receive, PushBack, n
  <2>3. unsolicited' \in Seq(1..MaxResponses)
    <3>1. unsolicited \in Seq(1..MaxResponses)
      BY DEF DataOK
    <3>2. Append(unsolicited, n) \in Seq(1..MaxResponses)
      BY <2>1, <3>1, AppendProperties
    <3>3. QED
      BY <2>2, <3>1, <3>2
  <2>4. result' \subseteq 1..MaxResponses
    BY <1>2, <2>1 DEF Receive, DataOK, n
  <2>5. verdict' \in Verdicts
    BY <1>2 DEF Receive, DataOK, Verdicts
  <2>6. UNCHANGED <<cmd, call, returned, taken, succeeded>>
    BY <1>2 DEF Receive
  <2>7. QED
    BY <2>1, <2>3, <2>4, <2>5, <2>6 DEF DataOK
<1>3. CASE Return
  <2>1. verdict' \in Verdicts
    BY <1>3, JudgedIsVerdict DEF Return, DataOK
  <2>2. returned' \subseteq 1..MaxResponses
    BY <1>3, CollectedFromResult DEF Return, DataOK
  <2>3. succeeded' \subseteq 1..MaxCalls
    BY <1>3 DEF Return, DataOK
  <2>4. cmd' = "none" /\ result' = {} /\ UNCHANGED <<unsolicited, call, received, taken>>
    BY <1>3 DEF Return
  <2>5. QED
    BY <2>1, <2>2, <2>3, <2>4 DEF DataOK
<1>4. CASE Take
  <2>1. taken' \in Seq(1..MaxResponses) /\ unsolicited' \in Seq(1..MaxResponses)
    BY <1>4, ConcatProperties DEF Take, DataOK
  <2>2. QED
    BY <1>4, <2>1 DEF Take, DataOK
<1>5. CASE UNCHANGED vars
  BY <1>5 DEF vars, DataOK
<1>6. QED
  BY <1>1, <1>2, <1>3, <1>4, <1>5 DEF Next

(* Type correctness, for any number of commands and responses and any      *)
(* choice of their kinds.                                                  *)
LEMMA DataCorrect == Spec => []DataOK
<1>1. Init => DataOK
  <2> SUFFICES ASSUME Init PROVE DataOK
    OBVIOUS
  <2>1. unsolicited \in Seq(1..MaxResponses) /\ taken \in Seq(1..MaxResponses)
        /\ received \in Seq([kind : Kinds, cmd : Commands, call : 1..MaxCalls])
        /\ Len(received) = 0
    BY EmptySeq DEF Init
  <2>2. QED
    BY <2>1, Bounds DEF Init, DataOK, Verdicts
<1>2. QED
  BY <1>1, DataOKStep, PTL DEF Spec

(* Every variable of a session keeps its type.                             *)
THEOREM TypeCorrect == Spec => []TypeOK
<1>1. Init => qresync \in BOOLEAN
  BY DEF Init
<1>2. qresync \in BOOLEAN /\ [Next]_vars => (qresync \in BOOLEAN)'
  <2>1. [Next]_vars => qresync' = qresync
    BY DEF Next, vars, Issue, Receive, Return, Take
  <2>2. QED
    BY <2>1, Zenon
<1>3. QED
  BY <1>1, <1>2, DataCorrect, TypeParts, PTL DEF Spec

-----------------------------------------------------------------------------
(* The order of updates.                                                   *)

(* What the application has taken, and what it will take.                  *)
Updates == taken \o unsolicited

(* u lists numbers up to n, in increasing order.                           *)
Increasing(u, n) ==
    /\ \A i \in DOMAIN u : u[i] \in 1..n
    /\ \A i, j \in DOMAIN u : i < j => u[i] < u[j]

(* The next number goes to the end, or is skipped.                         *)
LEMMA IncreasingAppend ==
  ASSUME NEW n \in Nat, NEW u \in Seq(Nat), Increasing(u, n)
  PROVE  Increasing(u, n + 1) /\ Increasing(Append(u, n + 1), n + 1)
<1> DEFINE v == Append(u, n + 1)
<1>1. /\ DOMAIN u = 1..Len(u) /\ Len(u) \in Nat
      /\ DOMAIN v = 1..(Len(u) + 1)
      /\ \A i \in 1..Len(u) : v[i] = u[i]
      /\ v[Len(u) + 1] = n + 1
  BY AppendProperties, LenProperties
<1> HIDE DEF v
<1>2. Increasing(u, n + 1)
  BY <1>1 DEF Increasing
<1>3. Increasing(v, n + 1)
  <2>1. \A i \in 1..Len(u) : v[i] \in 1..n
    BY <1>1 DEF Increasing
  <2>2. \A i \in DOMAIN v : v[i] \in 1..(n + 1)
    BY <1>1, <2>1
  <2>3. ASSUME NEW i \in DOMAIN v, NEW j \in DOMAIN v, i < j PROVE v[i] < v[j]
    <3>1. i \in 1..Len(u)
      BY <1>1, <2>3
    <3>2. CASE j \in 1..Len(u)
      BY <1>1, <2>3, <3>1, <3>2 DEF Increasing
    <3>3. CASE j = Len(u) + 1
      BY <1>1, <2>1, <3>1, <3>3
    <3>4. QED
      BY <1>1, <3>2, <3>3
  <2>4. QED
    BY <2>2, <2>3 DEF Increasing
<1>4. QED
  BY <1>2, <1>3 DEF v

(* Appending to the queue appends to the updates.                          *)
LEMMA ConcatAppend ==
  ASSUME NEW S, NEW s \in Seq(S), NEW t \in Seq(S), NEW x \in S
  PROVE  s \o Append(t, x) = Append(s \o t, x)
<1>1. <<x>> \in Seq(S) /\ s \o t \in Seq(S)
  BY ConcatProperties
<1>2. Append(t, x) = t \o <<x>> /\ Append(s \o t, x) = (s \o t) \o <<x>>
  BY <1>1, AppendIsConcat
<1>3. (s \o t) \o <<x>> = s \o (t \o <<x>>)
  BY <1>1, ConcatAssociative
<1>4. QED
  BY <1>2, <1>3

(* How a step changes the updates.                                         *)
LEMMA UpdatesStep ==
  ASSUME DataOK, [Next]_vars
  PROVE  \/ Updates' = Updates /\ Len(received') \in {Len(received), Len(received) + 1}
         \/ /\ Updates' = Append(Updates, Len(received) + 1)
            /\ Len(received') = Len(received) + 1
<1>1. CASE Issue
  BY <1>1 DEF Issue, Updates
<1>2. ASSUME NEW kind \in Kinds, Receive(kind)
      PROVE  /\ Len(received') = Len(received) + 1
             /\ Updates' \in {Updates, Append(Updates, Len(received) + 1)}
  <2>1. Len(received) + 1 \in 1..MaxResponses /\ Len(received') = Len(received) + 1
    BY <1>2, ReceiveRecord
  <2>2. taken' = taken /\ unsolicited' \in {unsolicited, Append(unsolicited, Len(received) + 1)}
    BY <1>2 DEF Receive, PushBack
  <2>3. taken \in Seq(1..MaxResponses) /\ unsolicited \in Seq(1..MaxResponses)
    BY DEF DataOK
  <2>4. taken \o Append(unsolicited, Len(received) + 1)
          = Append(taken \o unsolicited, Len(received) + 1)
    BY <2>1, <2>3, ConcatAppend
  <2>5. QED
    BY <2>1, <2>2, <2>4 DEF Updates
<1>3. CASE Return
  BY <1>3 DEF Return, Updates
<1>4. CASE Take
  <2>1. taken \in Seq(1..MaxResponses) /\ unsolicited \in Seq(1..MaxResponses)
    BY DEF DataOK
  <2>2. (taken \o unsolicited) \o <<>> = taken \o unsolicited
    BY <2>1, ConcatProperties, ConcatEmptySeq
  <2>3. QED
    BY <1>4, <2>2 DEF Take, Updates
<1>5. CASE UNCHANGED vars
  BY <1>5 DEF vars, Updates
<1>6. QED
  BY <1>1, <1>2, <1>3, <1>4, <1>5 DEF Next

(* The updates are in the server's order, across calls, errors and takes.  *)
UpdatesOrdered == Increasing(Updates, Len(received))

(* A response goes to the end of the queue or not at all, and taking the   *)
(* queue changes nothing in the order.                                     *)
LEMMA UpdatesOrderedStep == DataOK /\ UpdatesOrdered /\ [Next]_vars => UpdatesOrdered'
<1> SUFFICES ASSUME DataOK, UpdatesOrdered, [Next]_vars PROVE UpdatesOrdered'
  OBVIOUS
<1>1. Len(received) \in Nat
  BY LenProperties DEF DataOK
<1>2. Updates \in Seq(Nat)
  <2>1. taken \in Seq(1..MaxResponses) /\ unsolicited \in Seq(1..MaxResponses)
    BY DEF DataOK
  <2>2. Updates \in Seq(1..MaxResponses)
    BY <2>1, ConcatProperties DEF Updates
  <2>3. QED
    BY <2>2, SeqMonotonic, Bounds
<1>3. Increasing(Updates, Len(received))
  BY DEF UpdatesOrdered
<1>4. /\ Increasing(Updates, Len(received) + 1)
      /\ Increasing(Append(Updates, Len(received) + 1), Len(received) + 1)
  BY <1>1, <1>2, <1>3, IncreasingAppend
<1>5. Increasing(Updates', Len(received'))
  BY <1>3, <1>4, UpdatesStep
<1>6. QED
  BY <1>5 DEF UpdatesOrdered

(* The application takes updates in the order the server sent them, across *)
(* commands, errors and takes (push_back in try_handle_unilateral and      *)
(* parse_mailbox).                                                         *)
THEOREM OrderKept == Spec => []InServerOrder
<1>1. Init => UpdatesOrdered
  BY DEF Init, UpdatesOrdered, Updates, Increasing
<1>2. UpdatesOrdered => InServerOrder
  BY DEF UpdatesOrdered, Updates, Increasing, InServerOrder
<1>3. QED
  BY <1>1, <1>2, UpdatesOrderedStep, DataCorrect, PTL DEF Spec

-----------------------------------------------------------------------------
(* What is counted twice, and what is lost.                                *)

(* What Receive adds to the history.                                       *)
LEMMA ReceivedStep ==
  ASSUME DataOK, NEW kind \in Kinds, Receive(kind)
  PROVE  /\ DOMAIN received' = DOMAIN received \cup {Len(received) + 1}
         /\ \A i \in DOMAIN received : received'[i] = received[i]
         /\ received'[Len(received) + 1] = [kind |-> kind, cmd |-> cmd, call |-> call]
<1> DEFINE Record == [kind : Kinds, cmd : Commands, call : 1..MaxCalls]
           r == [kind |-> kind, cmd |-> cmd, call |-> call]
<1>1. r \in Record /\ received \in Seq(Record)
  BY ReceiveRecord DEF DataOK
<1>2. received' = Append(received, r)
  BY DEF Receive
<1> HIDE DEF Record, r
<1>3. QED
  BY <1>1, <1>2, AppendProperties, LenProperties DEF r

(* What a reply adds to the queue.                                         *)
LEMMA RangeAppend ==
  ASSUME NEW S, NEW s \in Seq(S), NEW x \in S
  PROVE  Range(Append(s, x)) = Range(s) \cup {x}
<1> DEFINE t == Append(s, x)
<1>1. t \in Seq(S) /\ Len(t) = Len(s) + 1 /\ t[Len(s) + 1] = x
      /\ \A i \in 1..Len(s) : t[i] = s[i]
  BY AppendProperties
<1> HIDE DEF t
<1>2. Len(s) \in Nat
  BY LenProperties
<1>3. Range(s) = {s[i] : i \in 1..Len(s)}
  BY RangeEquality
<1>4. Range(t) = {t[i] : i \in 1..(Len(s) + 1)}
  BY <1>1, RangeEquality
<1>5. Range(t) = Range(s) \cup {x}
  BY <1>1, <1>2, <1>3, <1>4
<1>6. QED
  BY <1>5 DEF t

(* A response read without an error is queued if its parser queues it.     *)
LEMMA QueuedByReceive ==
  ASSUME DataOK, NEW kind \in Kinds, Receive(kind)
  PROVE  Queued' = IF verdict = "ok" /\ Queues(cmd, kind)
                   THEN Queued \cup {Len(received) + 1} ELSE Queued
<1> DEFINE n == Len(received) + 1
           Numbers == 1..MaxResponses
<1>1. unsolicited \in Seq(Numbers) /\ n \in Numbers
  BY ReceiveRecord DEF DataOK
<1> HIDE DEF n, Numbers
<1>2. Range(Append(unsolicited, n)) = Range(unsolicited) \cup {n}
  BY <1>1, RangeAppend
<1> USE DEF n
<1>3. taken' = taken
  BY DEF Receive
<1>4. CASE verdict = "ok" /\ Queues(cmd, kind)
  <2>1. unsolicited' = Append(unsolicited, Len(received) + 1)
    BY <1>4 DEF Receive, PushBack
  <2>2. QED
    BY <1>2, <1>3, <1>4, <2>1 DEF Queued
<1>5. CASE ~(verdict = "ok" /\ Queues(cmd, kind))
  <2>1. unsolicited' = unsolicited
    BY <1>5 DEF Receive
  <2>2. QED
    BY <1>3, <1>5, <2>1 DEF Queued
<1>6. QED
  BY <1>4, <1>5

(* Taking the queue loses nothing of it.                                   *)
LEMMA QueuedByTake == DataOK /\ Take => Queued' = Queued
<1> SUFFICES ASSUME DataOK, Take PROVE Queued' = Queued
  OBVIOUS
<1>1. taken \in Seq(1..MaxResponses) /\ unsolicited \in Seq(1..MaxResponses)
  BY DEF DataOK
<1>2. Range(taken \o unsolicited) = Range(taken) \cup Range(unsolicited)
  BY <1>1, RangeConcatenation
<1>3. Range(<<>>) = {}
  BY DEF Range
<1>4. QED
  BY <1>2, <1>3 DEF Take, Queued

(* All the numbers in use are those of responses received.                 *)
Numbered == returned \cup result \cup Queued \subseteq 1..Len(received)

(* No response is both in a result and in the queue.                       *)
LEMMA OnceOnlyStep == DataOK /\ Numbered /\ OnceOnly /\ [Next]_vars => Numbered' /\ OnceOnly'
<1> SUFFICES ASSUME DataOK, Numbered, OnceOnly, [Next]_vars PROVE Numbered' /\ OnceOnly'
  OBVIOUS
<1>1. CASE Issue
  BY <1>1 DEF Issue, Numbered, OnceOnly, Queued
<1>2. ASSUME NEW kind \in Kinds, Receive(kind) PROVE Numbered' /\ OnceOnly'
  <2> DEFINE n == Len(received) + 1
  <2>1. Len(received) \in Nat /\ Len(received') = n
    BY <1>2, ReceiveRecord
  <2>2. returned' = returned
    BY <1>2 DEF Receive
  <2>3. \/ result' = result /\ Queued' \subseteq Queued \cup {n}
        \/ result' = result \cup {n} /\ Queued' = Queued
    <3>1. CASE verdict = "ok" /\ kind \in Wanted(cmd)
      <4>1. ~Queues(cmd, kind)
        BY <3>1, Zenon DEF Queues
      <4>2. result' = result \cup {n}
        BY <1>2, <3>1 DEF Receive
      <4>3. QED
        BY <1>2, <4>1, <4>2, QueuedByReceive
    <3>2. CASE ~(verdict = "ok" /\ kind \in Wanted(cmd))
      <4>1. result' = result
        BY <1>2, <3>2 DEF Receive
      <4>2. QED
        BY <1>2, <4>1, QueuedByReceive
    <3>3. QED
      BY <3>1, <3>2
  <2> HIDE DEF n
  <2>4. n \notin 1..Len(received) /\ 1..Len(received) \cup {n} \subseteq 1..n
    BY <2>1 DEF n
  <2>5. QED
    BY <2>1, <2>2, <2>3, <2>4 DEF Numbered, OnceOnly
<1>3. CASE Return
  <2>1. Queued' = Queued /\ received' = received /\ result' = {}
    BY <1>3 DEF Return, Queued
  <2>2. returned' \subseteq returned \cup result
    BY <1>3, CollectedFromResult DEF Return
  <2>3. QED
    BY <2>1, <2>2 DEF Numbered, OnceOnly
<1>4. CASE Take
  <2>1. Queued' = Queued
    BY <1>4, QueuedByTake
  <2>2. QED
    BY <1>4, <2>1 DEF Take, Numbered, OnceOnly
<1>5. CASE UNCHANGED vars
  BY <1>5 DEF vars, Numbered, OnceOnly, Queued
<1>6. QED
  BY <1>1, <1>2, <1>3, <1>4, <1>5 DEF Next

(* No response is counted twice, in a result and in the queue: what the    *)
(* parsers return and what they queue are disjoint.                        *)
THEOREM CountedOnce == Spec => []OnceOnly
<1>1. Init => Numbered /\ OnceOnly
  BY DEF Init, Numbered, OnceOnly, Queued, Range
<1>2. QED
  BY <1>1, OnceOnlyStep, DataCorrect, PTL DEF Spec

(* A server reports removals in one way for as long as the session lasts.  *)
OneStyle ==
    /\ qresync  => \A n \in DOMAIN received : received[n].kind # "expunge"
    /\ ~qresync => \A n \in DOMAIN received : received[n].kind # "vanished"

(* No command changes the way a server reports removals.                   *)
LEMMA OneStyleStep == DataOK /\ OneStyle /\ [Next]_vars => OneStyle'
<1> SUFFICES ASSUME DataOK, OneStyle, [Next]_vars PROVE OneStyle'
  OBVIOUS
<1>1. qresync' = qresync
  BY DEF Next, vars, Issue, Receive, Return, Take
<1>2. ASSUME NEW kind \in Kinds, Receive(kind) PROVE OneStyle'
  <2> DEFINE n == Len(received) + 1
  <2>1. /\ DOMAIN received' = DOMAIN received \cup {n}
        /\ \A i \in DOMAIN received : received'[i] = received[i]
        /\ received'[n] = [kind |-> kind, cmd |-> cmd, call |-> call]
    BY <1>2, ReceivedStep
  <2> HIDE DEF n
  <2>2. received'[n].kind = kind
    BY <2>1
  <2>3. qresync => kind # "expunge"
    BY <1>2, Zenon DEF Receive, MaySend
  <2>4. ~qresync => kind # "vanished"
    BY <1>2, Zenon DEF Receive, MaySend
  <2>5. qresync => \A i \in DOMAIN received' : received'[i].kind # "expunge"
    BY <2>1, <2>2, <2>3, Zenon DEF OneStyle
  <2>6. ~qresync => \A i \in DOMAIN received' : received'[i].kind # "vanished"
    BY <2>1, <2>2, <2>4, Zenon DEF OneStyle
  <2>7. QED
    BY <1>1, <2>5, <2>6, Zenon DEF OneStyle
<1>3. CASE UNCHANGED received
  BY <1>1, <1>3, Zenon DEF OneStyle
<1>4. QED
  BY <1>2, <1>3 DEF Next, vars, Issue, Return, Take

(* The replies: a call that succeeded is over; and while a reply is parsed *)
(* without an error, each of its responses is skipped, collected or queued.*)
ReplyOK ==
    /\ \A n \in DOMAIN received : received[n].call <= call
    /\ \A c \in succeeded : c <= call
    /\ cmd # "none" => /\ call \notin succeeded
                       /\ \A n \in result : received[n].kind \in Wanted(cmd)
    /\ cmd # "none" /\ verdict = "ok" =>
           \A n \in DOMAIN received :
               received[n].call = call => /\ received[n].cmd = cmd
                                          /\ \/ Ignores(cmd, received[n].kind)
                                             \/ n \in result \cup Queued

(* EXPUNGE's result holds all that was collected, or all that matters.     *)
LEMMA CollectedAll ==
  ASSUME DataOK, Numbered, OneStyle, ReplyOK, cmd # "none"
  PROVE  Collected = result
<1>1. CASE ~(cmd = "expunge" /\ OfKind("vanished") # {})
  BY <1>1 DEF Collected
<1>2. CASE cmd = "expunge" /\ OfKind("vanished") # {}
  <2>1. result \subseteq DOMAIN received
    BY LenProperties DEF Numbered, DataOK
  <2>2. \A n \in result : received[n].kind \in {"expunge", "vanished"}
    BY <1>2 DEF ReplyOK, Wanted
  <2>3. PICK m \in result : received[m].kind = "vanished"
    BY <1>2 DEF OfKind
  <2>4. \A n \in DOMAIN received : received[n].kind # "expunge"
    BY <2>1, <2>3, Zenon DEF OneStyle
  <2>5. result = OfKind("vanished")
    BY <2>1, <2>2, <2>4 DEF OfKind
  <2>6. QED
    BY <1>2, <2>5 DEF Collected
<1>3. QED
  BY <1>1, <1>2

(* A response taken without an error is skipped, collected or queued.      *)
LEMMA Placed ==
  ASSUME DataOK, NEW kind \in Kinds, Receive(kind), verdict' = "ok"
  PROVE  /\ verdict = "ok"
         /\ \/ Ignores(cmd, kind)
            \/ Len(received) + 1 \in result' \cup Queued'
<1>1. verdict = "ok"
  BY DEF Receive
<1>2. ~Panics(cmd, kind)
  BY <1>1 DEF Receive
<1>3. ~Fails(cmd, kind)
  BY <1>1, <1>2 DEF Receive
<1>4. kind \in Wanted(cmd) \/ Queues(cmd, kind) \/ Ignores(cmd, kind)
  BY <1>2, <1>3, Zenon DEF Fails
<1>5. CASE kind \in Wanted(cmd)
  BY <1>1, <1>5 DEF Receive
<1>6. CASE Queues(cmd, kind)
  BY <1>1, <1>6, QueuedByReceive
<1>7. QED
  BY <1>1, <1>4, <1>5, <1>6

(* A call that returned Ok has lost nothing.                               *)
LEMMA NothingLostStep ==
  DataOK /\ Numbered /\ OneStyle /\ ReplyOK /\ NothingLost /\ [Next]_vars => NothingLost'
<1> SUFFICES ASSUME DataOK, Numbered, OneStyle, ReplyOK, NothingLost, [Next]_vars
             PROVE  NothingLost'
  OBVIOUS
<1>1. ASSUME UNCHANGED <<received, succeeded, returned>>, Queued' = Queued
      PROVE  NothingLost'
  BY <1>1 DEF NothingLost
<1>2. CASE Issue \/ UNCHANGED vars
  BY <1>1, <1>2 DEF Issue, vars, Queued
<1>3. ASSUME NEW kind \in Kinds, Receive(kind) PROVE NothingLost'
  <2> DEFINE n == Len(received) + 1
  <2>1. /\ DOMAIN received' = DOMAIN received \cup {n}
        /\ \A i \in DOMAIN received : received'[i] = received[i]
        /\ received'[n] = [kind |-> kind, cmd |-> cmd, call |-> call]
    BY <1>3, ReceivedStep
  <2>2. Queued \subseteq Queued' /\ returned' = returned /\ succeeded' = succeeded
    BY <1>3, QueuedByReceive DEF Receive
  <2>3. call \notin succeeded
    BY <1>3 DEF Receive, ReplyOK
  <2> HIDE DEF n
  <2>4. QED
    BY <2>1, <2>2, <2>3 DEF NothingLost
<1>4. CASE Return
  <2>1. received' = received /\ Queued' = Queued /\ cmd # "none"
    BY <1>4 DEF Return, Queued
  <2>2. CASE verdict' # "ok"
    BY <1>1, <1>4, <2>1, <2>2 DEF Return
  <2>3. CASE verdict' = "ok"
    <3>1. verdict = "ok" /\ returned' = returned \cup result /\ succeeded' = succeeded \cup {call}
      BY <1>4, <2>1, <2>3, CollectedAll DEF Return
    <3>2. ASSUME NEW n \in DOMAIN received, received[n].call = call,
                 ~Ignores(received[n].cmd, received[n].kind)
          PROVE  n \in returned' \cup Queued'
      BY <2>1, <3>1, <3>2 DEF ReplyOK
    <3>3. QED
      BY <2>1, <3>1, <3>2 DEF NothingLost
  <2>4. QED
    BY <2>2, <2>3
<1>5. CASE Take
  BY <1>1, <1>5, QueuedByTake DEF Take
<1>6. QED
  BY <1>2, <1>3, <1>4, <1>5 DEF Next

(* Each step of a reply keeps its responses accounted for.                 *)
LEMMA ReplyOKStep == DataOK /\ Numbered /\ ReplyOK /\ [Next]_vars => ReplyOK'
<1> SUFFICES ASSUME DataOK, Numbered, ReplyOK, [Next]_vars PROVE ReplyOK'
  OBVIOUS
<1>1. CASE Issue
  <2>1. call' = call + 1 /\ UNCHANGED <<received, succeeded>> /\ result' = {} /\ call \in Int
    BY <1>1 DEF Issue, DataOK
  <2>2. ASSUME NEW n \in DOMAIN received
        PROVE  received[n].call <= call /\ received[n].call \in Int
    <3> DEFINE Record == [kind : Kinds, cmd : Commands, call : 1..MaxCalls]
    <3>1. received \in Seq(Record)
      BY DEF DataOK
    <3>2. \A r \in Record : r.call \in Int
      OBVIOUS
    <3> HIDE DEF Record
    <3>3. received[n] \in Record
      BY <3>1, LenProperties
    <3>4. QED
      BY <3>2, <3>3 DEF ReplyOK
  <2>3. \A c \in succeeded : c <= call /\ c \in Int
    BY DEF ReplyOK, DataOK
  <2>4. call' \notin succeeded /\ \A c \in succeeded : c <= call'
    BY <2>1, <2>3
  <2>5. \A n \in DOMAIN received : received[n].call <= call' /\ received[n].call # call'
    BY <2>1, <2>2
  <2>6. QED
    BY <2>1, <2>4, <2>5 DEF ReplyOK
<1>2. ASSUME NEW kind \in Kinds, Receive(kind) PROVE ReplyOK'
  <2> DEFINE n == Len(received) + 1
  <2>1. /\ DOMAIN received' = DOMAIN received \cup {n}
        /\ \A i \in DOMAIN received : received'[i] = received[i]
        /\ received'[n] = [kind |-> kind, cmd |-> cmd, call |-> call]
    BY <1>2, ReceivedStep
  <2>2. /\ UNCHANGED <<cmd, call, succeeded>>
        /\ cmd # "none"
        /\ call <= call
    BY <1>2 DEF Receive, DataOK
  <2>3. result' \in {result, result \cup IF kind \in Wanted(cmd) THEN {n} ELSE {}}
        /\ Queued \subseteq Queued'
    BY <1>2, QueuedByReceive DEF Receive
  <2>4. verdict' = "ok" => /\ verdict = "ok"
                           /\ Ignores(cmd, kind) \/ n \in result' \cup Queued'
    BY <1>2, Placed
  <2>5. n \notin DOMAIN received /\ result \subseteq DOMAIN received
    BY <1>2, ReceiveRecord, LenProperties DEF Numbered, DataOK
  <2> HIDE DEF n
  <2>6. \A i \in DOMAIN received' : received'[i].call <= call'
    BY <2>1, <2>2 DEF ReplyOK
  <2>7. \A i \in result' : received'[i].kind \in Wanted(cmd')
    BY <2>1, <2>2, <2>3, <2>5 DEF ReplyOK
  <2>8. ASSUME verdict' = "ok", NEW i \in DOMAIN received', received'[i].call = call'
        PROVE  /\ received'[i].cmd = cmd'
               /\ Ignores(cmd', received'[i].kind) \/ i \in result' \cup Queued'
    BY <2>1, <2>2, <2>3, <2>4, <2>8 DEF ReplyOK
  <2>9. QED
    BY <2>2, <2>6, <2>7, <2>8 DEF ReplyOK
<1>3. CASE Return
  <2>1. succeeded' \subseteq succeeded \cup {call} /\ call \in Int
    BY <1>3 DEF Return, DataOK
  <2>2. UNCHANGED <<received, call>> /\ cmd' = "none"
    BY <1>3 DEF Return
  <2>3. QED
    BY <2>1, <2>2 DEF ReplyOK
<1>4. CASE Take
  <2>1. Queued' = Queued /\ cmd = "none"
    BY <1>4, QueuedByTake DEF Take
  <2>2. QED
    BY <1>4, <2>1 DEF Take, ReplyOK
<1>5. CASE UNCHANGED vars
  <2>1. Queued' = Queued
    BY <1>5 DEF vars, Queued
  <2>2. QED
    BY <1>5, <2>1 DEF vars, ReplyOK
<1>6. QED
  BY <1>1, <1>2, <1>3, <1>4, <1>5 DEF Next

(* A response to a call that returned Ok is in its result or in the queue, *)
(* but for those its parser is written to skip; parse_expunge's choice     *)
(* between VANISHED's ranges and EXPUNGE's numbers loses none.             *)
THEOREM LosesNothing == Spec => []NothingLost
<1>1. Init => Numbered /\ OnceOnly /\ OneStyle /\ ReplyOK /\ NothingLost
  BY DEF Init, Numbered, OnceOnly, Queued, Range, OneStyle, ReplyOK, NothingLost
<1>2. QED
  BY <1>1, OnceOnlyStep, OneStyleStep, ReplyOKStep, NothingLostStep, DataCorrect, PTL DEF Spec

(* What is in a result is what the parser of its command asked for.        *)
ResultsWanted == \A n \in returned \cup result : received[n].kind \in Wanted(received[n].cmd)

(* A step puts nothing else there.                                         *)
LEMMA ResultsWantedStep == DataOK /\ Numbered /\ ResultsWanted /\ [Next]_vars => ResultsWanted'
<1> SUFFICES ASSUME DataOK, Numbered, ResultsWanted, [Next]_vars PROVE ResultsWanted'
  OBVIOUS
<1>1. ASSUME received' = received, returned' \cup result' \subseteq returned \cup result
      PROVE  ResultsWanted'
  BY <1>1 DEF ResultsWanted
<1>2. CASE Issue \/ Take \/ UNCHANGED vars
  BY <1>1, <1>2 DEF Issue, Take, vars
<1>3. ASSUME NEW kind \in Kinds, Receive(kind) PROVE ResultsWanted'
  <2> DEFINE n == Len(received) + 1
  <2>1. /\ \A i \in DOMAIN received : received'[i] = received[i]
        /\ received'[n] = [kind |-> kind, cmd |-> cmd, call |-> call]
    BY <1>3, ReceivedStep
  <2>2. /\ returned' = returned
        /\ result' \in {result, result \cup IF kind \in Wanted(cmd) THEN {n} ELSE {}}
    BY <1>3 DEF Receive
  <2>3. returned \cup result \subseteq DOMAIN received
    BY LenProperties DEF Numbered, DataOK
  <2> HIDE DEF n
  <2>4. QED
    BY <2>1, <2>2, <2>3 DEF ResultsWanted
<1>4. CASE Return
  BY <1>1, <1>4, CollectedFromResult DEF Return
<1>5. QED
  BY <1>2, <1>3, <1>4 DEF Next

(* A STATUS of another mailbox is never taken for the answer to STATUS, and *)
(* reaches the queue with whatever command it comes (parse_status).        *)
THEOREM OthersStatusKept == Spec => []OthersStatusIsQueued
<1>1. Init => Numbered /\ OnceOnly /\ ResultsWanted
  BY DEF Init, Numbered, OnceOnly, Queued, Range, ResultsWanted
<1>2. DataOK /\ ResultsWanted /\ NothingLost => OthersStatusIsQueued
  <2> SUFFICES ASSUME DataOK, ResultsWanted, NothingLost, NEW n \in DOMAIN received,
                      received[n].kind = "otherStatus", received[n].call \in succeeded,
                      received[n].cmd \notin {"check", "listStatus"}
               PROVE  n \in Queued
    BY DEF OthersStatusIsQueued
  <2>1. received[n].cmd \in AllCommands
    <3> DEFINE Record == [kind : Kinds, cmd : Commands, call : 1..MaxCalls]
    <3>1. received \in Seq(Record)
      BY DEF DataOK
    <3>2. \A r \in Record : r.cmd \in Commands
      OBVIOUS
    <3> HIDE DEF Record
    <3>3. received[n] \in Record
      BY <3>1, LenProperties
    <3>4. QED
      BY <3>2, <3>3, SessionAssumption DEF SessionAssumption
  <2>2. "otherStatus" \notin Wanted(received[n].cmd)
    BY <2>1 DEF Wanted, AllCommands
  <2>3. ~Ignores(received[n].cmd, "otherStatus")
    BY DEF Ignores
  <2>4. n \in returned \cup Queued
    BY <2>3 DEF NothingLost
  <2>5. QED
    BY <2>2, <2>4 DEF ResultsWanted
<1>3. QED
  BY <1>1, <1>2, OnceOnlyStep, ResultsWantedStep, LosesNothing, DataCorrect, PTL DEF Spec

-----------------------------------------------------------------------------
(* Folds.  The library's theorems of induction take an operator as a       *)
(* parameter; the pigeonhole principle gives the same with a set.          *)

(* A set that holds 0 and with each number the next holds all numbers: if  *)
(* m were missing, k |-> k + 1 would map what it holds below m into itself *)
(* without 0.                                                              *)
LEMMA Inductive ==
  ASSUME NEW A, 0 \in A, \A k \in Nat : k \in A => k + 1 \in A
  PROVE  Nat \subseteq A
<1>1. SUFFICES ASSUME NEW m \in Nat, m \notin A PROVE FALSE
  OBVIOUS
<1> DEFINE X == A \cap (0..m)
           Y == X \ {0}
           next == [k \in X |-> k + 1]
<1>2. IsFiniteSet(X) /\ 0 \in X
  <2>1. IsFiniteSet(0..m)
    BY FS_Interval
  <2>2. X \in SUBSET (0..m)
    OBVIOUS
  <2>3. IsFiniteSet(X)
    BY <2>1, <2>2, FS_Subset
  <2>4. QED
    BY <2>3
<1>3. next \in [X -> Y]
  <2>1. ASSUME NEW k \in X PROVE k + 1 \in Y
    <3>1. k \in Nat /\ k \in A /\ k # m /\ k <= m
      BY <1>1
    <3>2. k + 1 \in A
      BY <3>1
    <3>3. QED
      BY <3>1, <3>2
  <2>2. QED
    BY <2>1
<1>4. ~ \E x, y \in X : x # y /\ next[x] = next[y]
  OBVIOUS
<1> HIDE DEF X, next
<1>5. IsFiniteSet(Y) /\ Cardinality(Y) = Cardinality(X) - 1
  BY <1>2, FS_RemoveElement
<1>6. Cardinality(X) \in Nat
  BY <1>2, FS_CardinalityType
<1>7. Cardinality(Y) < Cardinality(X)
  BY <1>5, <1>6
<1> HIDE DEF Y
<1>8. QED
  BY <1>2, <1>3, <1>4, <1>5, <1>7, FS_PigeonHole

(* The recursive function of FoldLeft: what q adds up to from b, over each *)
(* subset of its places.                                                   *)
Runs(it, b, q, n) ==
    it = [s \in SUBSET (1..n) |->
              IF s = {} THEN b ELSE Applied(it[s \ {Max(s)}], q[Max(s)])]

(* There is such a function.                                               *)
LEMMA FoldExists ==
  ASSUME NEW b, NEW q
  PROVE  \A n \in Nat : \E it : Runs(it, b, q, n)
<1> DEFINE A == {n \in Nat : \E it : Runs(it, b, q, n)}
<1>1. 0 \in A
  <2>1. SUBSET (1..0) = {{}}
    OBVIOUS
  <2>2. Runs([s \in SUBSET (1..0) |-> b], b, q, 0)
    BY <2>1 DEF Runs
  <2>3. QED
    BY <2>2
<1>2. ASSUME NEW n \in Nat, n \in A PROVE n + 1 \in A
  <2>1. PICK it : Runs(it, b, q, n)
    BY <1>2
  <2> DEFINE more == [s \in SUBSET (1..(n + 1)) |->
                 IF s \subseteq 1..n THEN it[s] ELSE Applied(it[s \ {n + 1}], q[n + 1])]
  <2>2. ASSUME NEW s \in SUBSET (1..(n + 1)), s # {}
        PROVE  more[s] = Applied(more[s \ {Max(s)}], q[Max(s)])
    <3>1. CASE s \subseteq 1..n
      <4>1. s \ {Max(s)} \in SUBSET (1..n) /\ s \ {Max(s)} \in SUBSET (1..(n + 1))
        BY <3>1
      <4>2. more[s] = it[s] /\ more[s \ {Max(s)}] = it[s \ {Max(s)}]
        BY <3>1, <4>1
      <4>3. s \in SUBSET (1..n)
        BY <3>1
      <4>4. it[s] = Applied(it[s \ {Max(s)}], q[Max(s)])
        BY <2>1, <2>2, <4>3, Zenon DEF Runs
      <4>5. QED
        BY <4>2, <4>4
    <3>2. CASE ~(s \subseteq 1..n)
      <4>1. n + 1 \in s /\ \A x \in s : n + 1 >= x
        BY <3>2
      <4>2. Max(s) = n + 1
        <5>1. \A x \in s : (\A y \in s : x >= y) => x = n + 1
          BY <4>1
        <5>2. QED
          BY <4>1, <5>1 DEF Max
      <4>3. s \ {n + 1} \in SUBSET (1..n) /\ s \ {n + 1} \in SUBSET (1..(n + 1))
        OBVIOUS
      <4>4. more[s \ {n + 1}] = it[s \ {n + 1}]
        BY <4>3
      <4>5. QED
        BY <3>2, <4>2, <4>4
    <3>3. QED
      BY <3>1, <3>2
  <2>3. more[{}] = b
    <3>1. {} \in SUBSET (1..n) /\ {} \in SUBSET (1..(n + 1))
      OBVIOUS
    <3>2. it[{}] = b
      BY <2>1, <3>1, Zenon DEF Runs
    <3>3. QED
      BY <3>1, <3>2
  <2>4. DOMAIN more = SUBSET (1..(n + 1))
    OBVIOUS
  <2>5. Runs(more, b, q, n + 1)
    <3>1. more = [s \in SUBSET (1..(n + 1)) |-> more[s]]
      OBVIOUS
    <3> HIDE DEF more
    <3>2. QED
      BY <2>2, <2>3, <3>1, Zenon DEF Runs
  <2>6. QED
    BY <2>5
<1> HIDE DEF A
<1>3. Nat \subseteq A
  BY <1>1, <1>2, Inductive
<1>4. QED
  BY <1>3 DEF A

(* What the copy b becomes.                                                *)
Folded(b, q) == FoldLeft(Applied, b, q)

(* A fold from the left goes through its sequence.                         *)
LEMMA FoldedIs ==
  ASSUME NEW b, NEW n \in Nat, NEW q, DOMAIN q = 1..n, NEW g, g[0] = b,
         \A i \in 1..n : g[i] = Applied(g[i - 1], q[i])
  PROVE  Folded(b, q) = g[n]
<1>1. PICK it : Runs(it, b, q, n)
  BY FoldExists
<1>2. PICK iter : Runs(iter, b, q, n) /\ Folded(b, q) = iter[1..n]
  BY <1>1, Zenon DEF Folded, FoldLeft, MapThenFoldSet, Runs
<1> DEFINE A == {i \in Nat : i <= n => iter[1..i] = g[i]}
<1>3. 0 \in A
  <2>1. 1..0 = {} /\ {} \in SUBSET (1..n)
    OBVIOUS
  <2>2. iter[{}] = b
    BY <1>2, <2>1, Zenon DEF Runs
  <2>3. QED
    BY <2>1, <2>2
<1>4. ASSUME NEW i \in Nat, i \in A PROVE i + 1 \in A
  <2>1. SUFFICES ASSUME i + 1 <= n PROVE iter[1..(i + 1)] = g[i + 1]
    OBVIOUS
  <2>2. iter[1..i] = g[i]
    BY <1>4, <2>1
  <2> DEFINE s == 1..(i + 1)
  <2>3. s \in SUBSET (1..n) /\ s # {} /\ s \ {i + 1} = 1..i
    BY <2>1, SMTT(30)
  <2>4. Max(s) = i + 1
    <3>1. i + 1 \in s /\ \A x \in s : i + 1 >= x
      OBVIOUS
    <3>2. \A x \in s : (\A y \in s : x >= y) => x = i + 1
      BY <3>1
    <3>3. QED
      BY <3>1, <3>2 DEF Max
  <2> HIDE DEF s
  <2>5. iter[s] = Applied(iter[s \ {Max(s)}], q[Max(s)])
    BY <1>2, <2>3, Zenon DEF Runs
  <2>6. g[i + 1] = Applied(g[i], q[i + 1])
    <3>1. i + 1 \in 1..n /\ (i + 1) - 1 = i
      BY <2>1
    <3>2. QED
      BY <3>1
  <2>7. QED
    BY <2>2, <2>3, <2>4, <2>5, <2>6 DEF s
<1> HIDE DEF A
<1>5. Nat \subseteq A
  BY <1>3, <1>4, Inductive
<1>6. iter[1..n] = g[n]
  BY <1>5 DEF A
<1>7. QED
  BY <1>2, <1>6

-----------------------------------------------------------------------------
(* Responses applied in the order they came.                               *)

(* What the responses S of the first n told make of a copy, one by one ... *)
Steps(f, news, S, n) ==
    \A k \in 1..n : f[k] = IF k \in S THEN Applied(f[k - 1], news[k]) ELSE f[k - 1]

(* ... and in all.                                                         *)
Leads(news, S, a, b) ==
    \E f : f[0] = a /\ f[Len(news)] = b /\ Steps(f, news, S, Len(news))

(* One more is told.                                                       *)
LEMMA LeadsOn ==
  ASSUME NEW T, NEW news \in Seq(T), NEW r \in T, NEW S, NEW S2, NEW a, NEW b, NEW c,
         Leads(news, S, a, b),
         \A k \in 1..Len(news) : k \in S2 <=> k \in S,
         c = IF Len(news) + 1 \in S2 THEN Applied(b, r) ELSE b
  PROVE  Leads(Append(news, r), S2, a, c)
<1> DEFINE n == Len(news)
           more == Append(news, r)
<1>1. n \in Nat /\ Len(more) = n + 1 /\ more[n + 1] = r
      /\ \A k \in 1..n : more[k] = news[k]
  BY AppendProperties, LenProperties
<1>2. PICK f : /\ f[0] = a /\ f[n] = b
               /\ \A k \in 1..n : f[k] = IF k \in S THEN Applied(f[k - 1], news[k]) ELSE f[k - 1]
  BY DEF Leads, Steps
<1> HIDE DEF n, more
<1> DEFINE g == [k \in 0..(n + 1) |-> IF k = n + 1 THEN c ELSE f[k]]
<1>3. g[0] = a /\ g[n + 1] = c /\ \A k \in 0..n : g[k] = f[k]
  BY <1>1, <1>2
<1> HIDE DEF g
<1>4. ASSUME NEW k \in 1..(n + 1)
      PROVE  g[k] = IF k \in S2 THEN Applied(g[k - 1], more[k]) ELSE g[k - 1]
  <2>1. CASE k \in 1..n
    <3>1. k \in 0..n /\ k - 1 \in 0..n
      BY <1>1, <2>1
    <3>2. g[k] = f[k] /\ g[k - 1] = f[k - 1] /\ more[k] = news[k] /\ (k \in S2 <=> k \in S)
      BY <1>1, <1>3, <2>1, <3>1 DEF n
    <3>3. QED
      BY <1>2, <2>1, <3>2
  <2>2. CASE k = n + 1
    <3>1. k - 1 = n /\ n \in 0..n
      BY <1>1, <2>2
    <3>2. g[k] = c /\ g[k - 1] = b /\ more[k] = r
      BY <1>1, <1>2, <1>3, <2>2, <3>1
    <3>3. QED
      BY <2>2, <3>2 DEF n
  <2>3. QED
    BY <1>1, <2>1, <2>2
<1>5. Leads(more, S2, a, c)
  BY <1>1, <1>3, <1>4 DEF Leads, Steps
<1>6. QED
  BY <1>5 DEF more

(* None is applied.                                                        *)
LEMMA LeadsNowhere ==
  ASSUME NEW T, NEW news \in Seq(T), NEW a
  PROVE  Leads(news, {}, a, a)
<1> DEFINE f == [k \in 0..Len(news) |-> a]
<1>1. Len(news) \in Nat
  BY LenProperties
<1>2. f[0] = a /\ f[Len(news)] = a /\ \A k \in 1..Len(news) : f[k] = f[k - 1]
  BY <1>1
<1> HIDE DEF f
<1>3. QED
  BY <1>2 DEF Leads, Steps

(* Only what is about the mailbox matters.                                 *)
LEMMA LeadsAlike ==
  ASSUME NEW T, NEW news \in Seq(T), NEW S, NEW S2, NEW a, NEW b,
         Leads(news, S, a, b),
         \A k \in 1..Len(news) : news[k].kind \in About => (k \in S2 <=> k \in S)
  PROVE  Leads(news, S2, a, b)
<1>1. PICK f : /\ f[0] = a /\ f[Len(news)] = b
               /\ \A k \in 1..Len(news) :
                     f[k] = IF k \in S THEN Applied(f[k - 1], news[k]) ELSE f[k - 1]
  BY DEF Leads, Steps
<1>2. ASSUME NEW k \in 1..Len(news), news[k].kind \notin About
      PROVE  Applied(f[k - 1], news[k]) = f[k - 1]
  BY <1>2 DEF Applied, About
<1>3. ASSUME NEW k \in 1..Len(news)
      PROVE  f[k] = IF k \in S2 THEN Applied(f[k - 1], news[k]) ELSE f[k - 1]
  BY <1>1, <1>2
<1>4. QED
  BY <1>1, <1>3 DEF Leads, Steps

(* q lists S in increasing order.                                          *)
Lists(q, S) ==
    /\ DOMAIN q = 1..Len(q) /\ Len(q) \in Nat
    /\ S = {q[i] : i \in DOMAIN q}
    /\ \A i, j \in DOMAIN q : i < j => q[i] < q[j]

(* Between two that are applied nothing happens.                           *)
LEMMA Gap ==
  ASSUME NEW f, NEW i \in Nat, NEW j \in Nat, i <= j,
         \A k \in (i + 1)..j : f[k] = f[k - 1]
  PROVE  f[j] = f[i]
<1> DEFINE A == {d \in Nat : i + d <= j => f[i + d] = f[i]}
<1>1. 0 \in A
  OBVIOUS
<1>2. ASSUME NEW d \in Nat, d \in A PROVE d + 1 \in A
  <2>1. SUFFICES ASSUME i + (d + 1) <= j PROVE f[i + (d + 1)] = f[i]
    OBVIOUS
  <2>2. f[i + d] = f[i]
    BY <1>2, <2>1
  <2>3. i + (d + 1) \in (i + 1)..j /\ (i + (d + 1)) - 1 = i + d
    BY <2>1
  <2>4. QED
    BY <2>2, <2>3
<1> HIDE DEF A
<1>3. j - i \in A
  BY <1>1, <1>2, Inductive
<1>4. i + (j - i) = j
  OBVIOUS
<1>5. QED
  BY <1>3, <1>4 DEF A

(* What the listed ones tell.                                              *)
Picked(news, q) == [i \in DOMAIN q |-> news[q[i]]]

(* So a fold over those that are applied goes to where all of them lead.   *)
LEMMA FoldedAlong ==
  ASSUME NEW N \in Nat, NEW news, NEW S \in SUBSET (1..N), NEW f, NEW q,
         Lists(q, S), Steps(f, news, S, N)
  PROVE  Folded(f[0], Picked(news, q)) = f[N]
<1> DEFINE m == Len(q)
<1>1. /\ N \in Nat /\ m \in Nat /\ DOMAIN q = 1..m
      /\ \A i \in 1..m : q[i] \in 1..N /\ q[i] \in S
  BY DEF Lists
<1>2. \A k \in 1..N : f[k] = IF k \in S THEN Applied(f[k - 1], news[k]) ELSE f[k - 1]
  BY DEF Steps
<1>3. \A i, j \in 1..m : i < j => q[i] < q[j]
  BY <1>1 DEF Lists
<1>4. \A k \in S : \E i \in 1..m : k = q[i]
  BY <1>1 DEF Lists
<1> HIDE DEF m
<1> DEFINE place == [i \in 0..m |-> IF i = 0 THEN 0 ELSE q[i]]
           g == [i \in 0..m |-> f[place[i]]]
           r == [i \in DOMAIN q |-> news[q[i]]]
<1>5. ASSUME NEW i \in 1..m PROVE f[q[i] - 1] = g[i - 1]
  <2>1. i - 1 \in 0..m /\ i - 1 \in Nat /\ i \in Nat
    BY <1>1
  <2>2. place[i - 1] \in Nat /\ place[i - 1] <= q[i] - 1 /\ q[i] - 1 \in Nat /\ q[i] \in 1..N
    <3>1. CASE i = 1
      BY <1>1, <3>1
    <3>2. CASE i # 1
      <4>1. i - 1 \in 1..m /\ i - 1 < i
        BY <1>1, <3>2
      <4>2. q[i - 1] < q[i] /\ q[i - 1] \in 1..N /\ q[i] \in 1..N
        BY <1>1, <1>3, <4>1
      <4>3. place[i - 1] = q[i - 1]
        BY <2>1, <4>1
      <4>4. QED
        BY <1>1, <4>2, <4>3
    <3>3. QED
      BY <3>1, <3>2
  <2>3. ASSUME NEW k \in (place[i - 1] + 1)..(q[i] - 1)
        PROVE  f[k] = f[k - 1]
    <3>1. k \in 1..N /\ k < q[i] /\ place[i - 1] < k
      BY <1>1, <2>2
    <3>2. ASSUME k \in S PROVE FALSE
      <4>1. PICK j \in 1..m : k = q[j]
        BY <1>4, <3>2
      <4>2. j < i
        <5>1. CASE i < j
          BY <1>1, <1>3, <3>1, <4>1, <5>1
        <5>2. i # j
          BY <1>1, <3>1, <4>1
        <5>3. QED
          BY <1>1, <5>1, <5>2
      <4>3. j <= i - 1 /\ i - 1 \in 1..m
        BY <1>1, <4>2
      <4>4. place[i - 1] = q[i - 1]
        BY <1>1, <4>3
      <4>5. j < i - 1 => q[j] < q[i - 1]
        BY <1>3, <4>3
      <4>6. QED
        BY <1>1, <3>1, <4>1, <4>3, <4>4, <4>5
    <3>3. QED
      BY <1>2, <3>1, <3>2
  <2> HIDE DEF place
  <2>4. f[q[i] - 1] = f[place[i - 1]]
    <3> DEFINE z == q[i] - 1
               y == place[i - 1]
    <3>1. y \in Nat /\ z \in Nat /\ y <= z /\ \A k \in (y + 1)..z : f[k] = f[k - 1]
      BY <2>2, <2>3
    <3> HIDE DEF y, z
    <3>2. f[z] = f[y]
      BY <3>1, Gap, Zenon
    <3>3. QED
      BY <3>2 DEF y, z
  <2>5. QED
    BY <2>1, <2>4
<1>6. f[N] = g[m]
  <2>1. m \in 0..m /\ place[m] \in Nat /\ place[m] <= N
    BY <1>1
  <2>2. ASSUME NEW k \in (place[m] + 1)..N
        PROVE  f[k] = f[k - 1]
    <3>1. k \in 1..N /\ place[m] < k
      BY <1>1, <2>1, <2>2
    <3>2. ASSUME k \in S PROVE FALSE
      <4>1. PICK j \in 1..m : k = q[j]
        BY <1>4, <3>2
      <4>2. j <= m /\ m \in 1..m /\ place[m] = q[m]
        BY <1>1
      <4>3. j < m => q[j] < q[m]
        BY <1>3, <4>2
      <4>4. QED
        BY <1>1, <3>1, <4>1, <4>2, <4>3
    <3>3. QED
      BY <1>2, <3>1, <3>2
  <2> HIDE DEF place
  <2>3. f[N] = f[place[m]]
    BY <1>1, <2>1, <2>2, Gap, Zenon
  <2>4. QED
    BY <2>1, <2>3
<1>7. g[0] = f[0]
  BY <1>1
<1>8. ASSUME NEW i \in 1..m PROVE g[i] = Applied(g[i - 1], r[i])
  <2>1. q[i] \in 1..N /\ q[i] \in S /\ i \in 0..m /\ i # 0
    BY <1>1
  <2>2. g[i] = f[q[i]]
    BY <2>1
  <2>3. r[i] = news[q[i]]
    BY <1>1
  <2> HIDE DEF g, r
  <2>4. f[q[i]] = Applied(f[q[i] - 1], news[q[i]])
    BY <1>2, <2>1
  <2>5. QED
    BY <1>5, <2>2, <2>3, <2>4
<1>9. DOMAIN r = 1..m
  BY <1>1
<1> HIDE DEF g, r
<1>10. Folded(f[0], r) = g[m]
  <2>1. \A i \in 1..m : g[i] = Applied(g[i - 1], r[i])
    BY <1>8
  <2>2. m \in Nat
    BY <1>1
  <2> HIDE DEF place
  <2>3. QED
    BY <1>7, <1>9, <2>1, <2>2, FoldedIs, SMTT(30)
<1>11. QED
  BY <1>6, <1>10 DEF r, Picked

(* In terms of what was told.                                              *)
LEMMA LeadsFold ==
  ASSUME NEW T, NEW news \in Seq(T), NEW S \in SUBSET (1..Len(news)), NEW a, NEW b,
         NEW q, Lists(q, S), Leads(news, S, a, b)
  PROVE  Folded(a, Picked(news, q)) = b
<1>1. PICK f : f[0] = a /\ f[Len(news)] = b /\ Steps(f, news, S, Len(news))
  BY DEF Leads
<1>2. Len(news) \in Nat
  BY LenProperties
<1>3. Folded(f[0], Picked(news, q)) = f[Len(news)]
  BY <1>1, <1>2, FoldedAlong, Zenon
<1>4. QED
  BY <1>1, <1>3, Zenon

(* Every set of responses can be listed.                                   *)
LEMMA ListsExist ==
  \A n \in Nat : \A S \in SUBSET (1..n) :
      /\ IsFiniteSet(S)
      /\ \E q \in [1..Cardinality(S) -> S] : \A i, j \in DOMAIN q : i < j => q[i] < q[j]
<1> DEFINE Good(S) == /\ IsFiniteSet(S)
                      /\ \E q \in [1..Cardinality(S) -> S] :
                             \A i, j \in DOMAIN q : i < j => q[i] < q[j]
           A == {n \in Nat : \A S \in SUBSET (1..n) : Good(S)}
<1>1. 0 \in A
  <2>1. ASSUME NEW S \in SUBSET (1..0) PROVE Good(S)
    <3>1. S = {}
      OBVIOUS
    <3>2. IsFiniteSet(S) /\ Cardinality(S) = 0
      BY <3>1, FS_EmptySet, Zenon
    <3>3. [i \in 1..0 |-> 0] \in [1..Cardinality(S) -> S]
      BY <3>2
    <3>4. \A i, j \in DOMAIN [i \in 1..0 |-> 0] : i < j => FALSE
      OBVIOUS
    <3>5. QED
      BY <3>2, <3>3, <3>4
  <2>2. QED
    BY <2>1
<1>2. ASSUME NEW n \in Nat, n \in A PROVE n + 1 \in A
  <2>1. ASSUME NEW S \in SUBSET (1..(n + 1)) PROVE Good(S)
    <3>1. CASE n + 1 \notin S
      <4>1. S \in SUBSET (1..n)
        BY <3>1
      <4>2. QED
        BY <1>2, <4>1
    <3>2. CASE n + 1 \in S
      <4> DEFINE R == S \ {n + 1}
                 c == Cardinality(R)
      <4>1. R \in SUBSET (1..n)
        OBVIOUS
      <4>2. Good(R)
        BY <1>2, <4>1
      <4>3. PICK p \in [1..c -> R] : \A i, j \in DOMAIN p : i < j => p[i] < p[j]
        BY <4>2
      <4>4. S = R \cup {n + 1} /\ n + 1 \notin R
        BY <3>2
      <4>5. IsFiniteSet(R) /\ c \in Nat
        BY <4>2, FS_CardinalityType
      <4>6. IsFiniteSet(S) /\ Cardinality(S) = c + 1
        <5> HIDE DEF R
        <5>1. QED
          BY <4>4, <4>5, FS_AddElement
      <4> HIDE DEF c
      <4> DEFINE q == [i \in 1..(c + 1) |-> IF i = c + 1 THEN n + 1 ELSE p[i]]
      <4>7. q \in [1..(c + 1) -> S]
        <5>1. ASSUME NEW i \in 1..(c + 1), i # c + 1 PROVE p[i] \in S
          <6>1. i \in 1..c
            BY <4>5, <5>1
          <6>2. QED
            BY <4>3, <6>1
        <5>2. QED
          BY <3>2, <5>1
      <4>8. ASSUME NEW i \in 1..(c + 1), NEW j \in 1..(c + 1), i < j PROVE q[i] < q[j]
        <5>1. i \in 1..c /\ q[i] = p[i] /\ p[i] \in 1..n
          <6>1. i \in 1..c /\ i # c + 1
            BY <4>5, <4>8
          <6>2. p[i] \in R
            BY <4>3, <6>1
          <6>3. QED
            BY <4>1, <6>1, <6>2
        <5>2. CASE j = c + 1
          BY <5>1, <5>2
        <5>3. CASE j # c + 1
          <6>1. j \in 1..c /\ q[j] = p[j]
            BY <4>5, <5>3
          <6>2. QED
            BY <4>3, <4>8, <5>1, <6>1
        <5>4. QED
          BY <5>2, <5>3
      <4>9. DOMAIN q = 1..(c + 1)
        OBVIOUS
      <4> HIDE DEF q
      <4>10. QED
        BY <4>6, <4>7, <4>8, <4>9
    <3>3. QED
      BY <3>1, <3>2
  <2>2. QED
    BY <2>1
<1> HIDE DEF A
<1>3. Nat \subseteq A
  BY <1>1, <1>2, Inductive
<1>4. QED
  BY <1>3 DEF A

(* ByArrival does.                                                         *)
LEMMA ByArrivalLists ==
  ASSUME NEW n \in Nat, NEW S \in SUBSET (1..n)
  PROVE  Lists(ByArrival(S), S)
<1> DEFINE c == Cardinality(S)
           q == ByArrival(S)
<1>1. IsFiniteSet(S) /\ c \in Nat
      /\ \E p \in [1..c -> S] : \A i, j \in DOMAIN p : i < j => p[i] < p[j]
  BY ListsExist, FS_CardinalityType
<1>2. q \in [1..c -> S] /\ \A i, j \in DOMAIN q : i < j => q[i] < q[j]
  BY <1>1 DEF ByArrival
<1> HIDE DEF q
<1>3. DOMAIN q = 1..c
  BY <1>2
<1>4. Len(q) = c
  BY <1>1, <1>2, <1>3
<1> DEFINE R == {q[i] : i \in 1..c}
<1>5. R = S
  <2>1. R \in SUBSET S
    BY <1>2
  <2>2. q \in [1..c -> R]
    BY <1>2
  <2>3. IsFiniteSet(R) /\ Cardinality(R) <= c /\ (Cardinality(R) = c => R = S)
    <3> HIDE DEF R
    <3>1. QED
      BY <1>1, <2>1, FS_Subset
  <2>4. \A i, j \in 1..c : i # j => q[i] # q[j]
    <3>1. ASSUME NEW i \in 1..c, NEW j \in 1..c, i # j PROVE q[i] # q[j]
      <4>1. q[i] \in 1..n /\ q[j] \in 1..n
        BY <1>2
      <4>2. i < j \/ j < i
        BY <1>1, <3>1
      <4>3. QED
        BY <1>2, <1>3, <4>1, <4>2
    <3>2. QED
      BY <3>1
  <2>5. IsFiniteSet(1..c) /\ Cardinality(1..c) = c
    BY <1>1, FS_Interval
  <2>6. ~(Cardinality(R) < c)
    <3> HIDE DEF R, c
    <3>1. QED
      BY <2>2, <2>3, <2>4, <2>5, FS_PigeonHole
  <2>7. Cardinality(R) \in Nat
    BY <2>3, FS_CardinalityType
  <2>8. QED
    BY <1>1, <2>3, <2>6, <2>7
<1>6. Lists(q, S)
  BY <1>1, <1>2, <1>3, <1>4, <1>5 DEF Lists
<1>7. QED
  BY <1>6 DEF q

-----------------------------------------------------------------------------
(* The application of Mirror and its copy.                                 *)

(* A step of Mirror is one of Session's.                                   *)
LEMMA MirrorOverSession ==
  /\ MirrorInit => Init
  /\ [MirrorNext]_allVars => [Next]_vars
<1>1. MirrorInit => Init
  BY DEF MirrorInit
<1>2. MirrorNext => Next
  BY DEF MirrorNext, MirrorIssue, MirrorReceive, MirrorReturn, MirrorTake, Next
<1>3. UNCHANGED allVars => UNCHANGED vars
  BY DEF allVars
<1>4. QED
  BY <1>1, <1>2, <1>3

(* What it needs of Session.                                               *)
SessionOK == DataOK /\ UpdatesOrdered /\ Numbered /\ OnceOnly /\ OneStyle /\ ReplyOK

(* Session keeps it.                                                       *)
LEMMA SessionOKHolds ==
  /\ Init => SessionOK
  /\ SessionOK /\ [Next]_vars => SessionOK'
<1>1. Init => DataOK
  <2> SUFFICES ASSUME Init PROVE DataOK
    OBVIOUS
  <2>1. unsolicited \in Seq(1..MaxResponses) /\ taken \in Seq(1..MaxResponses)
        /\ received \in Seq([kind : Kinds, cmd : Commands, call : 1..MaxCalls])
        /\ Len(received) = 0
    BY EmptySeq DEF Init
  <2>2. QED
    BY <2>1, Bounds DEF Init, DataOK, Verdicts
<1>2. Init => UpdatesOrdered /\ Numbered /\ OnceOnly /\ OneStyle /\ ReplyOK
  BY DEF Init, UpdatesOrdered, Updates, Increasing, Numbered, OnceOnly, Queued, Range,
         OneStyle, ReplyOK
<1>3. QED
  BY <1>1, <1>2, DataOKStep, UpdatesOrderedStep, OnceOnlyStep, OneStyleStep, ReplyOKStep
  DEF SessionOK

(* The queue is a list of responses received.                              *)
LEMMA QueueLists ==
  ASSUME DataOK, UpdatesOrdered
  PROVE  /\ Lists(unsolicited, Range(unsolicited))
         /\ Range(unsolicited) \in SUBSET (1..Len(received))
<1> DEFINE t == taken
           u == unsolicited
<1>1. t \in Seq(1..MaxResponses) /\ u \in Seq(1..MaxResponses)
  BY DEF DataOK
<1>2. /\ Len(t) \in Nat /\ Len(u) \in Nat /\ DOMAIN u = 1..Len(u)
      /\ Len(t \o u) = Len(t) + Len(u)
      /\ DOMAIN (t \o u) = 1..(Len(t) + Len(u))
      /\ \A i \in 1..Len(u) : (t \o u)[Len(t) + i] = u[i]
  <2> HIDE DEF t, u
  <2>1. t \o u \in Seq(1..MaxResponses) /\ Len(t \o u) = Len(t) + Len(u)
    BY <1>1, ConcatProperties
  <2>2. /\ Len(t) \in Nat /\ Len(u) \in Nat /\ DOMAIN u = 1..Len(u)
        /\ DOMAIN (t \o u) = 1..Len(t \o u)
    BY <1>1, <2>1, LenProperties
  <2>3. ASSUME NEW i \in 1..Len(u) PROVE (t \o u)[Len(t) + i] = u[i]
    BY <1>1, <2>2
  <2>4. QED
    BY <2>1, <2>2, <2>3
<1>3. Increasing(t \o u, Len(received))
  BY DEF UpdatesOrdered, Updates
<1>4. Range(u) = {u[i] : i \in DOMAIN u}
  BY DEF Range
<1> HIDE DEF t, u
<1>5. ASSUME NEW i \in DOMAIN u PROVE Len(t) + i \in DOMAIN (t \o u) /\ u[i] \in 1..Len(received)
  <2>1. Len(t) + i \in DOMAIN (t \o u)
    BY <1>2
  <2>2. QED
    BY <1>2, <1>3, <2>1 DEF Increasing
<1>6. ASSUME NEW i \in DOMAIN u, NEW j \in DOMAIN u, i < j PROVE u[i] < u[j]
  <2>1. Len(t) + i < Len(t) + j
    BY <1>2, <1>6
  <2>2. (t \o u)[Len(t) + i] < (t \o u)[Len(t) + j]
    BY <1>3, <1>5, <2>1 DEF Increasing
  <2>3. QED
    BY <1>2, <2>2
<1>7. Lists(u, Range(u)) /\ Range(u) \in SUBSET (1..Len(received))
  BY <1>2, <1>4, <1>5, <1>6 DEF Lists
<1>8. QED
  BY <1>7 DEF u

-----------------------------------------------------------------------------
(* What a response tells.                                                  *)
News == [kind : Kinds, number : Nat, box : Seq(Nat)]

(* The history of what was told matches the history of what was received.  *)
MailboxOK ==
    /\ box \in Seq(Nat)
    /\ told \in Seq(News)
    /\ Len(told) = Len(received)
    /\ \A n \in DOMAIN received : told[n].kind = received[n].kind

(* A mailbox without one of its messages.                                  *)
LEMMA RemoveAtType ==
  ASSUME NEW s \in Seq(Nat), NEW n \in DOMAIN s
  PROVE  RemoveAt(s, n) \in Seq(Nat)
BY DEF RemoveAt

(* The last of a sequence, alone.                                          *)
LEMMA SubSeqOne ==
  ASSUME NEW S, NEW s, NEW n \in Int, s[n] \in S
  PROVE  SubSeq(s, n, n) = <<s[n]>>
<1> DEFINE m == n
<1>1. m \in Int /\ n = m /\ \A i \in n..m : s[i] \in S
  OBVIOUS
<1> HIDE DEF m
<1>2. SubSeq(s, n, m) \in Seq(S) /\ Len(SubSeq(s, n, m)) = IF n <= m THEN m - n + 1 ELSE 0
  BY <1>1, SubSeqProperties, Zenon
<1>3. \A i \in 1..(m - n + 1) : SubSeq(s, n, m)[i] = s[n + i - 1]
  BY <1>1, SubSeqProperties
<1> DEFINE w == SubSeq(s, n, m)
           v == <<s[n]>>
<1>4. v \in Seq(S) /\ Len(v) = 1 /\ v[1] = s[n]
  OBVIOUS
<1> HIDE DEF w, v
<1>5. w \in Seq(S) /\ Len(w) = 1 /\ w[1] = s[n]
  BY <1>1, <1>2, <1>3 DEF w
<1>6. \A i \in 1..Len(w) : w[i] = v[i]
  BY <1>4, <1>5
<1>7. w = v
  BY <1>4, <1>5, <1>6, SeqEqual
<1>8. QED
  BY <1>7 DEF w, v, m

(* A mailbox with one more, which is what a copy lacks.                    *)
LEMMA GrownByOne ==
  ASSUME NEW s \in Seq(Nat), NEW uid \in Nat
  PROVE  Grown(s, Len(s) + 1, Append(s, uid)) = Append(s, uid)
<1> DEFINE n == Len(s) + 1
           t == Append(s, uid)
<1>1. Len(s) \in Nat /\ t \in Seq(Nat) /\ Len(t) = n /\ t[n] = uid
  BY AppendProperties, LenProperties
<1>2. t = s \o <<uid>>
  BY AppendIsConcat
<1> HIDE DEF t
<1>3. SubSeq(t, n, n) = <<uid>>
  <2>1. n \in Int /\ t[n] \in Nat /\ t[n] = uid
    BY <1>1
  <2> HIDE DEF n
  <2>2. SubSeq(t, n, n) = <<t[n]>>
    BY <2>1, SubSeqOne, Zenon
  <2>3. QED
    BY <2>1, <2>2
<1>4. Grown(s, n, t) = s \o SubSeq(t, n, n)
  BY <1>1 DEF Grown
<1>5. Grown(s, n, t) = t
  BY <1>2, <1>3, <1>4
<1>6. QED
  BY <1>5 DEF t

(* A response tells how the server's mailbox changed.                      *)
LEMMA Told ==
  ASSUME MailboxOK, NEW kind \in Kinds, MirrorReceive(kind)
  PROVE  /\ box' \in Seq(Nat)
         /\ kind \notin About => box' = box
         /\ \E r \in News : r.kind = kind /\ told' = Append(told, r) /\ box' = Applied(box, r)
<1>0. box \in Seq(Nat) /\ Len(box) \in Nat /\ DOMAIN box = 1..Len(box) /\ <<>> \in Seq(Nat)
  BY LenProperties, EmptySeq DEF MailboxOK
<1>1. CASE kind = "exists"
  <2> DEFINE r == [kind |-> "exists", number |-> Len(box'), box |-> box']
  <2>1. Exists
    BY <1>1 DEF MirrorReceive
  <2>2. told' = Append(told, r)
    BY <2>1 DEF Exists, Tell
  <2>3. box' = box \/ \E uid \in Nat : box' = Append(box, uid)
    BY <2>1, MirrorAssumption DEF Exists, Fresh, MirrorAssumption
  <2>4. box' \in Seq(Nat) /\ Len(box') \in Nat /\ Applied(box, r) = box'
    <3>1. CASE box' = box
      BY <1>0, <3>1 DEF Applied, Grown
    <3>2. CASE \E uid \in Nat : box' = Append(box, uid)
      <4>1. PICK uid \in Nat : box' = Append(box, uid)
        BY <3>2
      <4>2. box' \in Seq(Nat) /\ Len(box') = Len(box) + 1 /\ box'[Len(box) + 1] = uid
        BY <1>0, <4>1, AppendProperties
      <4>3. Applied(box, r) = Grown(box, Len(box) + 1, Append(box, uid))
        BY <4>1, <4>2 DEF Applied
      <4>4. Applied(box, r) = box'
        BY <1>0, <4>1, <4>3, GrownByOne
      <4> HIDE DEF r
      <4>5. QED
        BY <1>0, <4>2, <4>4
    <3>3. QED
      BY <2>3, <3>1, <3>2
  <2>5. r \in News /\ r.kind = kind
    BY <1>1, <2>4 DEF News
  <2>6. kind \in About
    BY <1>1 DEF About
  <2> HIDE DEF r
  <2>7. QED
    BY <2>2, <2>4, <2>5, <2>6
<1>2. CASE kind = "expunge"
  <2>1. Expunge
    BY <1>2 DEF MirrorReceive
  <2>2. PICK n \in DOMAIN box : box' = RemoveAt(box, n) /\ Tell("expunge", n, <<>>)
    BY <2>1 DEF Expunge
  <2> DEFINE r == [kind |-> "expunge", number |-> n, box |-> <<>>]
  <2>3. told' = Append(told, r)
    BY <2>2 DEF Tell
  <2>4. r \in News /\ r.kind = kind
    BY <1>0, <1>2 DEF News
  <2>5. box' \in Seq(Nat)
    BY <1>0, <2>2, RemoveAtType
  <2>6. Applied(box, r) = box'
    BY <2>2 DEF Applied
  <2>7. kind \in About
    BY <1>2 DEF About
  <2> HIDE DEF r
  <2>8. QED
    BY <2>3, <2>4, <2>5, <2>6, <2>7
<1>3. CASE kind = "vanished"
  <2>1. Vanish
    BY <1>3 DEF MirrorReceive
  <2>2. PICK uid \in ToSet(box) : box' = Without(box, uid) /\ Tell("vanished", uid, <<>>)
    BY <2>1 DEF Vanish
  <2> DEFINE r == [kind |-> "vanished", number |-> uid, box |-> <<>>]
             n == CHOOSE n \in DOMAIN box : box[n] = uid
  <2>3. told' = Append(told, r)
    BY <2>2 DEF Tell
  <2>4. uid \in Nat /\ n \in DOMAIN box
    BY <1>0 DEF ToSet
  <2>5. r \in News /\ r.kind = kind
    BY <1>0, <1>3, <2>4 DEF News
  <2>6. box' = RemoveAt(box, n)
    BY <2>2 DEF Without
  <2>7. Applied(box, r) = box'
    BY <2>2 DEF Applied
  <2>8. kind \in About
    BY <1>3 DEF About
  <2> HIDE DEF r, n
  <2>9. box' \in Seq(Nat)
    BY <1>0, <2>4, <2>6, RemoveAtType
  <2>10. QED
    BY <2>3, <2>5, <2>7, <2>8, <2>9
<1>4. CASE kind \notin About
  <2> DEFINE r == [kind |-> kind, number |-> 0, box |-> <<>>]
  <2>1. told' = Append(told, r) /\ box' = box
    BY <1>4 DEF MirrorReceive, Tell, About
  <2>2. r \in News /\ r.kind = kind
    BY <1>0 DEF News
  <2>3. Applied(box, r) = box
    BY <1>4 DEF Applied, About
  <2> HIDE DEF r
  <2>4. QED
    BY <1>0, <2>1, <2>2, <2>3
<1>5. QED
  BY <1>1, <1>2, <1>3, <1>4 DEF About

(* So what was told stays in line with what was received.                  *)
LEMMA MailboxOKStep == DataOK /\ MailboxOK /\ [MirrorNext]_allVars => MailboxOK'
<1> SUFFICES ASSUME DataOK, MailboxOK, [MirrorNext]_allVars PROVE MailboxOK'
  OBVIOUS
<1>1. ASSUME NEW kind \in Kinds, MirrorReceive(kind) PROVE MailboxOK'
  <2>1. Receive(kind)
    BY <1>1 DEF MirrorReceive
  <2>2. PICK r \in News : r.kind = kind /\ told' = Append(told, r)
    BY <1>1, Told
  <2>3. told \in Seq(News) /\ Len(told) = Len(received)
    BY DEF MailboxOK
  <2>4. told' \in Seq(News) /\ Len(told') = Len(told) + 1 /\ told'[Len(told) + 1] = r
        /\ \A n \in 1..Len(told) : told'[n] = told[n]
    BY <2>2, <2>3, AppendProperties
  <2>5. /\ DOMAIN received = 1..Len(received) /\ Len(received') = Len(received) + 1
        /\ DOMAIN received' = DOMAIN received \cup {Len(received) + 1}
        /\ \A i \in DOMAIN received : received'[i] = received[i]
        /\ received'[Len(received) + 1] = [kind |-> kind, cmd |-> cmd, call |-> call]
    BY <2>1, ReceivedStep, ReceiveRecord, LenProperties DEF DataOK
  <2>6. \A n \in DOMAIN received' : told'[n].kind = received'[n].kind
    BY <2>2, <2>3, <2>4, <2>5 DEF MailboxOK
  <2>7. QED
    BY <1>1, <2>3, <2>4, <2>5, <2>6, Told DEF MailboxOK
<1>2. CASE MirrorIssue \/ MirrorReturn \/ MirrorTake \/ UNCHANGED allVars
  BY <1>2
  DEF MirrorIssue, MirrorReturn, MirrorTake, Issue, Return, Take, mirrorVars, allVars, vars,
      MailboxOK
<1>3. QED
  BY <1>1, <1>2 DEF MirrorNext

-----------------------------------------------------------------------------
(* The inductive invariant of Mirror: between calls, or when nothing of    *)
(* this call is about the mailbox, the queue leads from the copy to the    *)
(* mailbox; during a call, the queue and its result do.                    *)
Mirrored ==
    trusted =>
        /\ cmd = "none" \/ Relevant(OfThisCall) = {}
              => Leads(told, Range(unsolicited), mirror, box)
        /\ cmd \notin {"none", "check", "select"} /\ verdict = "ok"
              => Leads(told, Range(unsolicited) \cup result, mirror, box)

(* A response that is queued, collected or not about the mailbox keeps     *)
(* what leads from the copy to the mailbox.                                *)
LEMMA LeadsReceive ==
  ASSUME MailboxOK, DataOK, NEW kind \in Kinds, MirrorReceive(kind),
         NEW S, NEW S2, Leads(told, S, mirror, box),
         \A k \in 1..Len(received) : k \in S2 <=> k \in S,
         kind \in About => Len(received) + 1 \in S2
  PROVE  Leads(told', S2, mirror', box')
<1>1. PICK r \in News : r.kind = kind /\ told' = Append(told, r) /\ box' = Applied(box, r)
  BY Told
<1>2. kind \notin About => box' = box
  BY Told
<1>3. told \in Seq(News) /\ Len(told) = Len(received) /\ mirror' = mirror
  BY DEF MailboxOK, MirrorReceive
<1>4. box' = IF Len(told) + 1 \in S2 THEN Applied(box, r) ELSE box
  BY <1>1, <1>2, <1>3
<1>5. \A k \in 1..Len(told) : k \in S2 <=> k \in S
  BY <1>3
<1>6. Leads(Append(told, r), S2, mirror, box')
  BY <1>3, <1>4, <1>5, LeadsOn, Zenon
<1>7. QED
  BY <1>1, <1>3, <1>6

(* Every reply places its responses so.                                    *)
LEMMA MirroredReceive ==
  ASSUME SessionOK, MailboxOK, Mirrored, NEW kind \in Kinds, MirrorReceive(kind)
  PROVE  Mirrored'
<1> DEFINE n == Len(received) + 1
<1>1. Receive(kind) /\ trusted' = trusted /\ DataOK /\ UpdatesOrdered
  BY DEF MirrorReceive, SessionOK
<1>2. /\ DOMAIN received' = DOMAIN received \cup {n}
      /\ \A i \in DOMAIN received : received'[i] = received[i]
      /\ received'[n] = [kind |-> kind, cmd |-> cmd, call |-> call]
  BY <1>1, ReceivedStep
<1>3. Len(received) \in Nat /\ DOMAIN received = 1..Len(received)
  BY LenProperties, <1>1 DEF DataOK
<1>4. cmd # "none" /\ UNCHANGED <<cmd, call, taken>>
  BY <1>1 DEF Receive
<1>5. unsolicited' = IF verdict = "ok" /\ Queues(cmd, kind)
                     THEN Append(unsolicited, n) ELSE unsolicited
  BY <1>1 DEF Receive, PushBack
<1>6. /\ Range(unsolicited') \subseteq Range(unsolicited) \cup {n}
      /\ Range(unsolicited) \subseteq Range(unsolicited')
  <2> DEFINE Numbers == 1..MaxResponses
  <2>1. unsolicited \in Seq(Numbers) /\ n \in Numbers
    BY <1>1, ReceiveRecord DEF DataOK
  <2> HIDE DEF n, Numbers
  <2>2. Range(Append(unsolicited, n)) = Range(unsolicited) \cup {n}
    BY <2>1, RangeAppend
  <2>3. QED
    BY <1>5, <2>2
<1>7. result' \subseteq result \cup {n} /\ result \subseteq result'
  BY <1>1 DEF Receive
<1>8. n \notin 1..Len(received)
  BY <1>3
<1> HIDE DEF n
<1>9. ASSUME trusted, Relevant(OfThisCall)' = {}
      PROVE  Leads(told', Range(unsolicited'), mirror', box')
  <2>1. kind \notin About
    BY <1>2, <1>4, <1>9 DEF Relevant, OfThisCall
  <2>2. Relevant(OfThisCall) = {}
    BY <1>2, <1>4, <1>9 DEF Relevant, OfThisCall
  <2>3. Leads(told, Range(unsolicited), mirror, box)
    BY <1>9, <2>2 DEF Mirrored
  <2>4. \A k \in 1..Len(received) : k \in Range(unsolicited') <=> k \in Range(unsolicited)
    BY <1>6, <1>8
  <2>5. QED
    BY <1>1, <2>1, <2>3, <2>4, LeadsReceive
<1>10. ASSUME trusted, cmd \notin {"none", "check", "select"}, verdict' = "ok"
       PROVE  Leads(told', Range(unsolicited') \cup result', mirror', box')
  <2>1. verdict = "ok" /\ (Ignores(cmd, kind) \/ n \in result' \cup Queued')
    BY <1>1, <1>10, Placed DEF n
  <2>2. ~Ignores(cmd, kind)
    BY <1>10 DEF Ignores
  <2>3. Leads(told, Range(unsolicited) \cup result, mirror, box)
    BY <1>10, <2>1 DEF Mirrored
  <2>4. n \notin Range(taken)
    BY <1>8 DEF SessionOK, Numbered, Queued
  <2>5. n \in Range(unsolicited') \cup result'
    BY <1>4, <2>1, <2>2, <2>4 DEF Queued
  <2>6. \A k \in 1..Len(received) :
            k \in Range(unsolicited') \cup result' <=> k \in Range(unsolicited) \cup result
    BY <1>6, <1>7, <1>8
  <2>7. QED
    BY <1>1, <2>3, <2>5, <2>6, LeadsReceive DEF n
<1>11. QED
  BY <1>1, <1>4, <1>9, <1>10 DEF Mirrored

(* Taking the queue brings the copy up to date.                            *)
LEMMA MirroredTake ==
  ASSUME SessionOK, MailboxOK, Mirrored, MirrorTake
  PROVE  Mirrored'
<1> SUFFICES ASSUME trusted PROVE Mirrored'
  BY DEF MirrorTake, Mirrored
<1>1. Take /\ mirror' = AppliedAll(mirror, unsolicited) /\ UNCHANGED <<box, told, trusted>>
  BY DEF MirrorTake
<1>2. cmd = "none" /\ cmd' = "none" /\ unsolicited' = <<>>
  BY <1>1 DEF Take
<1>3. Leads(told, Range(unsolicited), mirror, box)
  BY <1>2 DEF Mirrored
<1>4. told \in Seq(News) /\ Len(told) = Len(received)
  BY DEF MailboxOK
<1>5. Lists(unsolicited, Range(unsolicited)) /\ Range(unsolicited) \in SUBSET (1..Len(told))
  BY <1>4, QueueLists DEF SessionOK
<1>6. Folded(mirror, Picked(told, unsolicited)) = box
  BY <1>3, <1>4, <1>5, LeadsFold
<1>7. mirror' = box
  BY <1>1, <1>6 DEF AppliedAll, Folded, Picked
<1>8. Range(<<>>) = {}
  BY DEF Range
<1>9. Leads(told, {}, box, box)
  BY <1>4, LeadsNowhere
<1>10. QED
  BY <1>1, <1>2, <1>7, <1>8, <1>9 DEF Mirrored

(* A result is applied in full or not at all.                              *)
LEMMA MirroredReturn ==
  ASSUME SessionOK, MailboxOK, Mirrored, MirrorReturn
  PROVE  Mirrored'
<1>1. SUFFICES ASSUME trusted' PROVE Leads(told, Range(unsolicited), mirror', box)
  BY DEF MirrorReturn, Return, Mirrored
<1>2. Return /\ UNCHANGED <<box, told, unsolicited, received>> /\ cmd # "none" /\ DataOK
  BY DEF MirrorReturn, Return, SessionOK
<1>3. told \in Seq(News) /\ Len(told) = Len(received) /\ DOMAIN received = 1..Len(received)
      /\ \A n \in DOMAIN received : told[n].kind = received[n].kind
  BY <1>2, LenProperties DEF MailboxOK, DataOK
<1>4. Collected = result
  BY <1>2, CollectedAll DEF SessionOK
<1>5. Range(unsolicited) \subseteq 1..Len(told) /\ result \in SUBSET (1..Len(told))
  BY <1>2, <1>3, QueueLists DEF SessionOK, Numbered
<1>6. ASSUME NEW a, NEW b, NEW S, Leads(told, S, a, b), NEW S2,
             \A k \in 1..Len(told) : received[k].kind \in About => (k \in S2 <=> k \in S)
      PROVE  Leads(told, S2, a, b)
  BY <1>3, <1>6, LeadsAlike
<1>7. CASE cmd = "select" /\ verdict' = "ok"
  <2>1. mirror' = box /\ Relevant(Range(unsolicited)) = {}
    BY <1>1, <1>7 DEF MirrorReturn
  <2>2. Leads(told, {}, box, box)
    BY <1>3, LeadsNowhere
  <2>3. \A k \in 1..Len(told) : received[k].kind \in About
                                  => (k \in Range(unsolicited) <=> k \in {})
    BY <2>1 DEF Relevant
  <2>4. QED
    BY <1>6, <2>1, <2>2, <2>3
<1>8. CASE ~(cmd = "select" /\ verdict' = "ok")
  <2>1. /\ trusted /\ ~Unordered /\ ~(Dropped /\ Relevant(OfThisCall) # {})
        /\ mirror' = IF verdict' = "ok" THEN AppliedAll(mirror, ByArrival(result)) ELSE mirror
    BY <1>1, <1>4, <1>8 DEF MirrorReturn
  <2>2. CASE verdict' # "ok"
    BY <2>1, <2>2 DEF Dropped, Mirrored
  <2>3. CASE verdict' = "ok"
    <3>1. Lists(ByArrival(result), result)
      <4>1. Len(told) \in Nat
        BY <1>3, LenProperties
      <4>2. QED
        BY <1>5, <4>1, ByArrivalLists
    <3>2. ASSUME NEW b, Leads(told, result, mirror, b) PROVE mirror' = b
      <4>1. Folded(mirror, Picked(told, ByArrival(result))) = b
        BY <1>3, <1>5, <3>1, <3>2, LeadsFold
      <4>2. QED
        BY <2>1, <2>3, <4>1 DEF AppliedAll, Folded, Picked
    <3>3. ASSUME Relevant(result) = {}, Leads(told, Range(unsolicited), mirror, box)
          PROVE  Leads(told, Range(unsolicited), mirror', box)
      <4>1. Leads(told, {}, mirror, mirror)
        BY <1>3, LeadsNowhere
      <4>2. \A k \in 1..Len(told) : received[k].kind \in About => (k \in result <=> k \in {})
        BY <3>3 DEF Relevant
      <4>3. Leads(told, result, mirror, mirror)
        BY <1>6, <4>1, <4>2
      <4>4. QED
        BY <3>2, <3>3, <4>3
    <3>4. CASE cmd = "check"
      <4>1. result = {}
        BY <1>2, <3>4 DEF SessionOK, ReplyOK, Wanted
      <4>2. Relevant(OfThisCall) = {} /\ Relevant(result) = {}
        BY <2>1, <3>4, <4>1 DEF Dropped, Relevant
      <4>3. QED
        BY <2>1, <3>3, <4>2 DEF Mirrored
    <3>5. CASE cmd # "check"
      <4>1. verdict = "ok" /\ cmd \notin {"none", "check", "select"}
        BY <1>2, <1>8, <2>3, <3>5 DEF Return
      <4>2. Leads(told, Range(unsolicited) \cup result, mirror, box)
        BY <2>1, <4>1 DEF Mirrored
      <4>3. CASE Relevant(result) = {}
        <5>1. \A k \in 1..Len(told) : received[k].kind \in About
                  => (k \in Range(unsolicited) <=> k \in Range(unsolicited) \cup result)
          BY <4>3 DEF Relevant
        <5>2. QED
          BY <1>6, <3>3, <4>2, <4>3, <5>1
      <4>4. CASE Relevant(Range(unsolicited)) = {}
        <5>1. \A k \in 1..Len(told) : received[k].kind \in About
                  => (k \in result <=> k \in Range(unsolicited) \cup result)
          BY <4>4 DEF Relevant
        <5>2. mirror' = box
          BY <1>6, <3>2, <4>2, <5>1
        <5>3. Leads(told, {}, box, box)
          BY <1>3, LeadsNowhere
        <5>4. \A k \in 1..Len(told) : received[k].kind \in About
                  => (k \in Range(unsolicited) <=> k \in {})
          BY <4>4 DEF Relevant
        <5>5. QED
          BY <1>6, <5>2, <5>3, <5>4
      <4>5. QED
        BY <1>4, <2>1, <4>3, <4>4 DEF Unordered
    <3>6. QED
      BY <3>4, <3>5
  <2>4. QED
    BY <2>2, <2>3
<1>9. QED
  BY <1>7, <1>8

(* A call starts with nothing of its own.                                  *)
LEMMA MirroredIssue ==
  ASSUME SessionOK, Mirrored, MirrorIssue
  PROVE  Mirrored'
<1>1. /\ cmd = "none" /\ result' = {}
      /\ UNCHANGED <<unsolicited, box, told, mirror, trusted>>
  BY DEF MirrorIssue, Issue, mirrorVars
<1>2. trusted => Leads(told, Range(unsolicited), mirror, box)
  BY <1>1 DEF Mirrored
<1>3. Range(unsolicited) \cup {} = Range(unsolicited)
  OBVIOUS
<1>4. QED
  BY <1>1, <1>2, <1>3, Zenon DEF Mirrored

(* Once it has taken the queue, the application's copy is the server's     *)
(* mailbox, across calls and whichever of them a response comes with,      *)
(* unless a reply was dropped, a result and the queue both tell of the     *)
(* mailbox, or the queue of one mailbox was left when another is selected  *)
(* (the parsers of parse.rs, take_all_unsolicited), for any number of      *)
(* calls and responses.                                                    *)
THEOREM MirrorsServer == MirrorSpec => []InStepWithServer
<1>1. MirrorInit => SessionOK /\ MailboxOK /\ Mirrored
  <2> SUFFICES ASSUME MirrorInit PROVE SessionOK /\ MailboxOK /\ Mirrored
    OBVIOUS
  <2>1. SessionOK
    BY MirrorOverSession, SessionOKHolds
  <2>2. MailboxOK
    BY EmptySeq DEF MirrorInit, Init, MailboxOK
  <2>3. Range(<<>>) = {}
    BY DEF Range
  <2>4. Leads(told, {}, mirror, box)
    BY <2>2, LeadsNowhere DEF MirrorInit, MailboxOK
  <2>5. Mirrored
    BY <2>3, <2>4 DEF MirrorInit, Init, Mirrored
  <2>6. QED
    BY <2>1, <2>2, <2>5
<1>2. SessionOK /\ MailboxOK /\ Mirrored /\ [MirrorNext]_allVars
        => (SessionOK /\ MailboxOK /\ Mirrored)'
  <2> SUFFICES ASSUME SessionOK, MailboxOK, Mirrored, [MirrorNext]_allVars
               PROVE  SessionOK' /\ MailboxOK' /\ Mirrored'
    OBVIOUS
  <2>1. SessionOK' /\ MailboxOK'
    BY MirrorOverSession, SessionOKHolds, MailboxOKStep DEF SessionOK
  <2>2. ASSUME UNCHANGED allVars PROVE Mirrored'
    <3>1. /\ UNCHANGED <<told, mirror, box, unsolicited, cmd, verdict, result, trusted>>
          /\ UNCHANGED <<received, call>>
      BY <2>2 DEF allVars, vars, mirrorVars
    <3>2. Relevant(OfThisCall)' = Relevant(OfThisCall)
      BY <3>1 DEF Relevant, OfThisCall
    <3>3. QED
      BY <3>1, <3>2, Zenon DEF Mirrored
  <2>3. Mirrored'
    BY <2>2, MirroredReceive, MirroredTake, MirroredReturn, MirroredIssue DEF MirrorNext
  <2>4. QED
    BY <2>1, <2>3
<1>3. SessionOK /\ MailboxOK /\ Mirrored => InStepWithServer
  <2> SUFFICES ASSUME SessionOK, MailboxOK, Mirrored, cmd = "none", trusted,
                      Relevant(Range(unsolicited)) = {}
               PROVE  mirror = box
    BY DEF InStepWithServer
  <2>1. told \in Seq(News) /\ Len(told) = Len(received) /\ DOMAIN received = 1..Len(received)
        /\ \A n \in DOMAIN received : told[n].kind = received[n].kind
    BY LenProperties DEF MailboxOK, SessionOK, DataOK
  <2>2. Leads(told, Range(unsolicited), mirror, box)
    BY DEF Mirrored
  <2>3. \A k \in 1..Len(told) : told[k].kind \in About => (k \in {} <=> k \in Range(unsolicited))
    BY <2>1 DEF Relevant
  <2>4. Leads(told, {}, mirror, box)
    BY <2>1, <2>2, <2>3, LeadsAlike
  <2>5. Leads(told, {}, mirror, mirror)
    BY <2>1, LeadsNowhere
  <2>6. Lists(<<>>, {}) /\ {} \in SUBSET (1..Len(told))
    BY DEF Lists
  <2>7. Folded(mirror, Picked(told, <<>>)) = box /\ Folded(mirror, Picked(told, <<>>)) = mirror
    BY <2>1, <2>4, <2>5, <2>6, LeadsFold
  <2>8. QED
    BY <2>7
<1>4. QED
  BY <1>1, <1>2, <1>3, PTL DEF MirrorSpec
=============================================================================
