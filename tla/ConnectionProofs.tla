-------------------------- MODULE ConnectionProofs --------------------------
(***************************************************************************)
(* Proofs about Connection, for every value of its constants, and about    *)
(* what IDLE, APPEND and AUTHENTICATE share over it (Continuation): the    *)
(* types of the server's side, the numbers on commands and answers, the    *)
(* effect of each kind of step on what is on the wire, and whose turn it   *)
(* is as long as nothing goes wrong.                                       *)
(***************************************************************************)
EXTENDS Continuation, SequenceTheorems, FunctionTheorems, FiniteSetTheorems, TLAPS

(* The bounds are numbers, apart from the assumption that gives them.      *)
LEMMA Bounds == MaxTag \in Nat /\ MaxCalls \in Nat /\ MaxChatter \in Nat
  BY ConnectionAssumption DEF ConnectionAssumption

-----------------------------------------------------------------------------
(* The text of a literal is made of lines.                                 *)
LEMMA LiteralsAreLines == LiteralText \subseteq Line
  BY ConnectionAssumption DEF ConnectionAssumption

(* What a failed readline leaves of a line is a line.                      *)
LEMMA RestsAreLines == \A line \in Line : Rests(line) \subseteq Line
<1> SUFFICES ASSUME NEW line \in Line, NEW rest \in Rests(line) PROVE rest \in Line
  OBVIOUS
<1>1. CASE rest = [line EXCEPT !.kind = "junk"]
  BY <1>1 DEF Line, LineKinds
<1>2. CASE rest = [line EXCEPT !.tag = 0]
  BY <1>2 DEF Line
<1>3. QED
  BY <1>1, <1>2 DEF Rests

(* Type correctness, the flags apart from the rest: no one prover handles  *)
(* both.                                                                   *)

FlagsOK ==
    /\ pending \in BOOLEAN
    /\ up \in BOOLEAN
    /\ rolledBack \in BOOLEAN
    /\ broken \in BOOLEAN
    /\ faulted \in BOOLEAN

(* The types of the data; with the flags above, TypeOK.                    *)
DataOK ==
    /\ tag \in 0..MaxTag
    /\ pc \in {"ready", "reading"}
    /\ wbuf \in Seq(Command)
    /\ toServer \in Seq(Command)
    /\ toClient \in Seq(Line)
    /\ chatter \in 0..MaxChatter
    /\ call \in 0..MaxCalls
    /\ ret \in [outcome : Outcomes, by : Nat]
    /\ answers \subseteq [id : Nat, status : Statuses]

(* The two halves of the type invariant.                                   *)
LEMMA TypeSplit == TypeOK <=> FlagsOK /\ DataOK
  BY Zenon DEF TypeOK, FlagsOK, DataOK

(* A new Connection has the types of the second half ...                   *)
LEMMA InitData == Init => DataOK
<1> SUFFICES ASSUME Init PROVE DataOK
  OBVIOUS
<1>1. /\ tag = 0 /\ pc = "ready" /\ wbuf = <<>> /\ toServer = <<>> /\ toClient = <<>>
      /\ chatter = 0 /\ call = 0 /\ ret = [outcome |-> "none", by |-> 0] /\ answers = {}
  BY DEF Init
<1>2. QED
  BY <1>1, Bounds DEF DataOK, Outcomes

(* Every step keeps the flags Boolean.                                     *)
LEMMA FlagsStep == FlagsOK /\ [Next]_vars => FlagsOK'
<1> SUFFICES ASSUME FlagsOK, [Next]_vars PROVE FlagsOK'
  OBVIOUS
<1> USE DEF FlagsOK
<1>1. CASE RunCommand
  BY <1>1, Zenon DEF RunCommand, TagReused
<1>2. CASE RunCommandFails
  BY <1>2, Zenon DEF RunCommandFails, TagReused, Return
<1>3. CASE SkipTag
  BY <1>3, Zenon DEF SkipTag, wire
<1>4. CASE ReadLine
  BY <1>4, Zenon DEF ReadLine, OnLine, Return, history
<1>5. CASE ReadFails
  BY <1>5, Zenon DEF ReadFails, DropInput, Return
<1>6. CASE ReadEof
  BY <1>6, Zenon DEF ReadEof, Return, wire, history
<1>7. CASE Answer
  BY <1>7, Zenon DEF Answer, client
<1>8. CASE Push
  BY <1>8, Zenon DEF Push, client, history
<1>9. CASE HangUp
  BY <1>9, Zenon DEF HangUp, client, history
<1>10. CASE UNCHANGED vars
  BY <1>10, Zenon DEF vars, client, wire, history
<1>11. QED
  BY <1>1, <1>2, <1>3, <1>4, <1>5, <1>6, <1>7, <1>8, <1>9, <1>10, Zenon
  DEF Next, Caller, Reader, Server

(* ... and every step keeps them.                                          *)
LEMMA DataStep == DataOK /\ [Next]_vars => DataOK'
<1> SUFFICES ASSUME DataOK, [Next]_vars PROVE DataOK'
  OBVIOUS
<1> USE Bounds
<1>1. CASE RunCommand
  <2>1. NewCommand \in Command
    BY DEF DataOK, Command, NewCommand, NextTag
  <2>2. toServer \o Append(wbuf, NewCommand) \in Seq(Command)
    BY <2>1 DEF DataOK
  <2>3. QED
    BY <1>1, <2>2 DEF RunCommand, Send, CanIssue, TagReused, NextTag, DataOK, Outcomes
<1>2. CASE RunCommandFails
  <2> DEFINE buffered == Append(wbuf, NewCommand)
  <2>1. NewCommand \in Command
    BY DEF DataOK, Command, NewCommand, NextTag
  <2>2. buffered \in Seq(Command)
    BY <2>1 DEF DataOK
  <2>3. PICK n \in 0..Len(buffered) :
           /\ toServer' = toServer \o SubSeq(buffered, 1, n)
           /\ wbuf' = SubSeq(buffered, n + 1, Len(buffered))
    BY <1>2 DEF RunCommandFails, SendFails
  <2> HIDE DEF buffered
  <2>4. /\ SubSeq(buffered, 1, n) \in Seq(Command)
        /\ SubSeq(buffered, n + 1, Len(buffered)) \in Seq(Command)
    BY <2>2
  <2>5. toServer' \in Seq(Command) /\ wbuf' \in Seq(Command)
    BY <2>3, <2>4 DEF DataOK
  <2>6. QED
    BY <1>2, <2>5 DEF RunCommandFails, CanIssue, TagReused, RolledBackTag, NextTag, Return, DataOK, Outcomes
<1>3. CASE SkipTag
  BY <1>3 DEF SkipTag, wire, DataOK
<1>4. CASE ReadLine
  <2>1. Head(toClient) \in Line /\ Tail(toClient) \in Seq(Line)
    BY <1>4 DEF ReadLine, DataOK
  <2>2. QED
    BY <1>4, <2>1, SMTT(30) DEF ReadLine, OnLine, Outcome, ParseResponse, Return, history, DataOK, Line,
                      Statuses, Outcomes
<1>5. CASE ReadFails
  <2>1. CASE UNCHANGED toClient
    BY <1>5, <2>1 DEF ReadFails, DropInput, Return, DataOK, Outcomes
  <2>2. CASE toClient # <<>> /\ \E rest \in Rests(Head(toClient)) :
                                   toClient' = <<rest>> \o Tail(toClient)
    <3>1. Head(toClient) \in Line /\ Tail(toClient) \in Seq(Line)
      BY <2>2 DEF DataOK
    <3>2. PICK rest \in Rests(Head(toClient)) : toClient' = <<rest>> \o Tail(toClient)
      BY <2>2
    <3>3. rest \in Line
      BY <3>1, <3>2, RestsAreLines
    <3>4. toClient' \in Seq(Line)
      BY <3>1, <3>2, <3>3
    <3>5. QED
      BY <1>5, <3>4 DEF ReadFails, DropInput, Return, DataOK, Outcomes
  <2>3. QED
    BY <1>5, <2>1, <2>2 DEF ReadFails, DropInput
<1>6. CASE ReadEof
  BY <1>6 DEF ReadEof, Return, wire, history, DataOK, Outcomes
<1>7. CASE Answer
  <2>1. Head(toServer) \in Command /\ Tail(toServer) \in Seq(Command)
    BY <1>7 DEF Answer, DataOK
  <2>2. PICK s \in Statuses :
           /\ toClient' = Append(toClient, DoneLine(Head(toServer).tag, s, Head(toServer).id))
           /\ answers' = answers \cup {[id |-> Head(toServer).id, status |-> s]}
    BY <1>7 DEF Answer
  <2>3. DoneLine(Head(toServer).tag, s, Head(toServer).id) \in Line
    BY <2>1 DEF DoneLine, Line, LineKinds, Command
  <2>4. toClient' \in Seq(Line)
    BY <2>2, <2>3 DEF DataOK
  <2>5. answers' \subseteq [id : Nat, status : Statuses]
    BY <2>1, <2>2 DEF DataOK, Command
  <2>6. QED
    BY <1>7, <2>1, <2>4, <2>5 DEF Answer, client, DataOK
<1>8. CASE Push
  <2>1. \A k \in LineKinds : Plain(k) \in Line
    BY DEF Plain, Line, Statuses
  <2>2. Append(toClient, Plain("data")) \in Seq(Line)
    BY <2>1 DEF LineKinds, DataOK
  <2>3. ASSUME NEW text \in LiteralText
        PROVE  toClient \o <<Plain("open"), text, Plain("close")>> \in Seq(Line)
    <3>1. text \in Line /\ Plain("open") \in Line /\ Plain("close") \in Line
      BY <2>1, LiteralsAreLines DEF LineKinds
    <3>2. <<Plain("open"), text, Plain("close")>> \in Seq(Line)
      BY <3>1
    <3>3. QED
      BY <3>2 DEF DataOK
  <2>4. toClient' \in Seq(Line)
    BY <1>8, <2>2, <2>3 DEF Push
  <2>5. chatter' \in 0..MaxChatter
    BY <1>8 DEF Push, DataOK
  <2>6. QED
    BY <1>8, <2>4, <2>5 DEF Push, client, DataOK, history
<1>9. CASE HangUp
  BY <1>9 DEF HangUp, client, history, DataOK
<1>10. CASE UNCHANGED vars
  BY <1>10 DEF vars, client, wire, history, DataOK
<1>11. QED
  BY <1>1, <1>2, <1>3, <1>4, <1>5, <1>6, <1>7, <1>8, <1>9, <1>10
  DEF Next, Caller, Reader, Server

(* Every variable keeps its type in every behaviour of the connection: in  *)
(* particular the tag never passes u32::MAX, and the write buffer and both *)
(* directions of the wire hold whole commands and lines only.              *)
THEOREM TypeCorrect == Spec => []TypeOK
<1>1. Init => TypeOK
  <2>1. Init => FlagsOK
    BY Zenon DEF Init, FlagsOK
  <2>2. QED
    BY <2>1, InitData, TypeSplit
<1>2. TypeOK /\ [Next]_vars => TypeOK'
  <2>1. TypeOK' <=> FlagsOK' /\ DataOK'
    BY Zenon DEF TypeOK, FlagsOK, DataOK
  <2>2. QED
    BY <2>1, FlagsStep, DataStep, TypeSplit
<1>3. QED
  BY <1>1, <1>2, PTL DEF Spec

-----------------------------------------------------------------------------
(* How the wire changes what is in flight.                                 *)

(* Append adds one element to the range of a sequence.                     *)
LEMMA RangeAppend ==
  ASSUME NEW S, NEW s \in Seq(S), NEW e \in S
  PROVE  Range(Append(s, e)) = Range(s) \cup {e}
<1>1. /\ Len(Append(s, e)) = Len(s) + 1
      /\ \A i \in 1..Len(s) : Append(s, e)[i] = s[i]
      /\ Append(s, e)[Len(s) + 1] = e
      /\ Append(s, e) \in Seq(S)
  BY AppendProperties
<1>2. /\ Range(s) = {s[i] : i \in 1..Len(s)}
      /\ Range(Append(s, e)) = {Append(s, e)[i] : i \in 1..Len(Append(s, e))}
  BY <1>1, RangeEquality
<1>3. QED
  BY <1>1, <1>2

(* A sequence ranges over its head and its tail.                           *)
LEMMA RangeHeadTail ==
  ASSUME NEW S, NEW s \in Seq(S), s # <<>>
  PROVE  Range(s) = {Head(s)} \cup Range(Tail(s))
<1>1. /\ Tail(s) \in Seq(S)
      /\ Len(Tail(s)) = Len(s) - 1
      /\ \A i \in 1..Len(Tail(s)) : Tail(s)[i] = s[i + 1]
      /\ Len(s) \in Nat /\ Len(s) >= 1 /\ Head(s) = s[1]
  BY HeadTailProperties
<1>2. /\ Range(s) = {s[i] : i \in 1..Len(s)}
      /\ Range(Tail(s)) = {Tail(s)[i] : i \in 1..Len(Tail(s))}
  BY <1>1, RangeEquality
<1>3. ASSUME NEW i \in 1..Len(s) PROVE s[i] \in {Head(s)} \cup Range(Tail(s))
  <2>1. CASE i = 1
    BY <2>1, <1>1
  <2>2. CASE i # 1
    <3>1. i - 1 \in 1..Len(Tail(s)) /\ Tail(s)[i - 1] = s[i]
      BY <2>2, <1>1
    <3>2. QED
      BY <3>1, <1>2
  <2>3. QED
    BY <2>1, <2>2
<1>4. ASSUME NEW i \in 1..Len(Tail(s)) PROVE Tail(s)[i] \in Range(s)
  BY <1>1, <1>2
<1>5. Head(s) \in Range(s)
  BY <1>1, <1>2
<1>6. QED
  BY <1>2, <1>3, <1>4, <1>5

(* Cutting a sequence in two loses none of its elements.                   *)
LEMMA RangeCut ==
  ASSUME NEW S, NEW s \in Seq(S), NEW n \in 0..Len(s)
  PROVE  /\ SubSeq(s, 1, n) \in Seq(S) /\ SubSeq(s, n + 1, Len(s)) \in Seq(S)
         /\ Range(SubSeq(s, 1, n)) \cup Range(SubSeq(s, n + 1, Len(s))) = Range(s)
<1> DEFINE a == SubSeq(s, 1, n)
           b == SubSeq(s, n + 1, Len(s))
<1>1. Len(s) \in Nat /\ \A i \in 1..Len(s) : s[i] \in S
  OBVIOUS
<1>2. /\ a \in Seq(S) /\ Len(a) = n
      /\ \A i \in 1..n : a[i] = s[i]
  BY <1>1, SubSeqProperties
<1>3. /\ b \in Seq(S) /\ Len(b) = Len(s) - n
      /\ \A i \in 1..(Len(s) - n) : b[i] = s[n + i]
  BY <1>1, SubSeqProperties
<1> HIDE DEF a, b
<1>4. /\ Range(s) = {s[i] : i \in 1..Len(s)}
      /\ Range(a) = {a[i] : i \in 1..n}
      /\ Range(b) = {b[i] : i \in 1..(Len(s) - n)}
  <2>1. Range(s) = {s[i] : i \in 1..Len(s)}
    BY RangeEquality
  <2>2. Range(a) = {a[i] : i \in 1..Len(a)}
    BY <1>2, RangeEquality
  <2>3. Range(b) = {b[i] : i \in 1..Len(b)}
    BY <1>3, RangeEquality
  <2>4. QED
    BY <1>2, <1>3, <2>1, <2>2, <2>3
<1>5. Range(a) \subseteq Range(s) /\ Range(b) \subseteq Range(s)
  <2>1. ASSUME NEW i \in 1..n PROVE a[i] \in Range(s)
    <3>1. i \in 1..Len(s) /\ a[i] = s[i]
      BY <1>1, <1>2
    <3>2. QED
      BY <3>1, <1>4
  <2>2. ASSUME NEW i \in 1..(Len(s) - n) PROVE b[i] \in Range(s)
    <3>1. n + i \in 1..Len(s) /\ b[i] = s[n + i]
      BY <1>1, <1>3
    <3>2. QED
      BY <3>1, <1>4
  <2>3. QED
    BY <1>4, <2>1, <2>2
<1>6. ASSUME NEW i \in 1..Len(s) PROVE s[i] \in Range(a) \cup Range(b)
  <2>1. CASE i <= n
    BY <2>1, <1>1, <1>2, <1>4
  <2>2. CASE i > n
    <3>1. i - n \in 1..(Len(s) - n) /\ b[i - n] = s[i]
      BY <2>2, <1>1, <1>3
    <3>2. QED
      BY <3>1, <1>4
  <2>3. QED
    BY <1>1, <2>1, <2>2
<1>7. Range(a) \cup Range(b) = Range(s)
  BY <1>4, <1>5, <1>6
<1>8. QED
  BY <1>2, <1>3, <1>7 DEF a, b

(* A command that is written is in flight, and nothing else changes.       *)
LEMMA RunInFlight ==
  ASSUME DataOK, RunCommand
  PROVE  InFlight' = InFlight \cup {NewCommand}
<1> DEFINE buffered == Append(wbuf, NewCommand)
<1>1. NewCommand \in Command
  BY Bounds DEF NewCommand, NextTag, Command, DataOK
<1>2. wbuf \in Seq(Command) /\ toServer \in Seq(Command)
  BY DEF DataOK
<1>3. buffered \in Seq(Command) /\ Range(buffered) = Range(wbuf) \cup {NewCommand}
  BY <1>1, <1>2, RangeAppend
<1>4. toServer' = toServer \o buffered /\ wbuf' = <<>> /\ UNCHANGED toClient
  BY DEF RunCommand, Send
<1> HIDE DEF buffered
<1>5. Range(toServer') = Range(toServer) \cup Range(buffered)
  BY <1>2, <1>3, <1>4, RangeConcatenation
<1>6. Range(wbuf') = {}
  BY <1>4 DEF Range
<1>7. Answered(Range(toClient))' = Answered(Range(toClient))
  BY <1>4 DEF Answered, IsTagged
<1>8. QED
  BY <1>3, <1>5, <1>6, <1>7 DEF InFlight

(* So is one whose write failed: on the wire or in the buffer.             *)
LEMMA RunFailsInFlight ==
  ASSUME DataOK, RunCommandFails
  PROVE  InFlight' = InFlight \cup {NewCommand}
<1> DEFINE buffered == Append(wbuf, NewCommand)
<1>1. NewCommand \in Command
  BY Bounds DEF NewCommand, NextTag, Command, DataOK
<1>2. wbuf \in Seq(Command) /\ toServer \in Seq(Command)
  BY DEF DataOK
<1>3. buffered \in Seq(Command) /\ Range(buffered) = Range(wbuf) \cup {NewCommand}
  BY <1>1, <1>2, RangeAppend
<1>4. PICK n \in 0..Len(buffered) :
         /\ toServer' = toServer \o SubSeq(buffered, 1, n)
         /\ wbuf' = SubSeq(buffered, n + 1, Len(buffered))
  BY DEF RunCommandFails, SendFails
<1>5. UNCHANGED toClient
  BY DEF RunCommandFails
<1> DEFINE sent == SubSeq(buffered, 1, n)
<1> HIDE DEF buffered
<1>6. sent \in Seq(Command) /\ Range(sent) \cup Range(wbuf') = Range(buffered)
  BY <1>3, <1>4, RangeCut
<1> HIDE DEF sent
<1>7. Range(toServer') = Range(toServer) \cup Range(sent)
  <2>1. toServer' = toServer \o sent
    BY <1>4 DEF sent
  <2>2. QED
    BY <1>2, <1>6, <2>1, RangeConcatenation
<1>8. Answered(Range(toClient))' = Answered(Range(toClient))
  BY <1>5 DEF Answered, IsTagged
<1>9. QED
  BY <1>3, <1>6, <1>7, <1>8 DEF InFlight

(* Reading a line puts no command in flight.                               *)
LEMMA ReadInFlight ==
  ASSUME DataOK, ReadLine
  PROVE  InFlight' \subseteq InFlight
<1>1. toClient \in Seq(Line) /\ toClient # <<>> /\ toClient' = Tail(toClient)
  BY DEF ReadLine, DataOK
<1>2. Range(toClient') \subseteq Range(toClient)
  BY <1>1, RangeHeadTail
<1>3. Answered(Range(toClient)') \subseteq Answered(Range(toClient))
  BY <1>2 DEF Answered
<1>4. UNCHANGED <<wbuf, toServer>>
  BY DEF ReadLine
<1>5. QED
  BY <1>3, <1>4 DEF InFlight, Answered, IsTagged

(* A command stays in flight as its answer does.                           *)
LEMMA AnswerInFlight ==
  ASSUME DataOK, Answer
  PROVE  InFlight' = InFlight
<1> DEFINE c == Head(toServer)
<1>1. /\ toServer \in Seq(Command) /\ toServer # <<>> /\ toServer' = Tail(toServer)
      /\ toClient \in Seq(Line) /\ c \in Command
  BY DEF Answer, DataOK
<1>2. PICK s \in Statuses : toClient' = Append(toClient, DoneLine(c.tag, s, c.id))
  BY DEF Answer
<1>3. DoneLine(c.tag, s, c.id) \in Line
  BY <1>1 DEF DoneLine, Line, LineKinds, Command
<1>4. Range(toClient') = Range(toClient) \cup {DoneLine(c.tag, s, c.id)}
  BY <1>1, <1>2, <1>3, RangeAppend
<1>5. Answered({DoneLine(c.tag, s, c.id)}) = {c}
  <2> DEFINE line == DoneLine(c.tag, s, c.id)
  <2>1. IsTagged(line) /\ line.tag = c.tag /\ line.id = c.id
    BY DEF IsTagged, DoneLine
  <2>2. [tag |-> c.tag, id |-> c.id] = c
    BY <1>1 DEF Command
  <2> HIDE DEF line
  <2>3. {m \in {line} : IsTagged(m)} = {line}
    BY <2>1
  <2>4. QED
    BY <2>1, <2>2, <2>3 DEF Answered, line
<1>6. Answered(Range(toClient')) = Answered(Range(toClient)) \cup {c}
  BY <1>4, <1>5 DEF Answered
<1>7. Range(toServer) = {c} \cup Range(toServer')
  BY <1>1, RangeHeadTail
<1>8. UNCHANGED wbuf
  BY DEF Answer, client
<1>9. InFlight' = Range(wbuf') \cup Range(toServer') \cup Answered(Range(toClient'))
  BY DEF InFlight, Answered, IsTagged
<1>10. QED
  BY <1>6, <1>7, <1>8, <1>9 DEF InFlight

(* Untagged data, literals included, put nothing in flight.                *)
LEMMA PushInFlight ==
  ASSUME DataOK, Push
  PROVE  InFlight' = InFlight
<1>1. toClient \in Seq(Line)
  BY DEF DataOK
<1>2. \A k \in LineKinds : Plain(k) \in Line /\ Plain(k).kind = k
  BY DEF Plain, Line, Statuses
<1>3. Answered(Range(toClient')) = Answered(Range(toClient))
  <2>1. CASE toClient' = Append(toClient, Plain("data"))
    <3>1. Range(toClient') = Range(toClient) \cup {Plain("data")}
      BY <1>1, <1>2, <2>1, RangeAppend DEF LineKinds
    <3>2. QED
      BY <3>1 DEF Answered, IsTagged, Plain
  <2>2. ASSUME NEW text \in LiteralText,
               toClient' = toClient \o <<Plain("open"), text, Plain("close")>>
        PROVE  Answered(Range(toClient')) = Answered(Range(toClient))
    <3> DEFINE block == <<Plain("open"), text, Plain("close")>>
    <3>1. text \in Line /\ text.lit
      BY ConnectionAssumption DEF ConnectionAssumption
    <3>2. block \in Seq(Line)
      BY <1>2, <3>1 DEF LineKinds
    <3>3. Range(block) = {Plain("open"), text, Plain("close")}
      BY DEF Range
    <3>4. Range(toClient') = Range(toClient) \cup Range(block)
      BY <1>1, <2>2, <3>2, RangeConcatenation
    <3>5. \A l \in Range(block) : ~IsTagged(l)
      BY <3>1, <3>3 DEF IsTagged, Plain
    <3>6. QED
      BY <3>4, <3>5 DEF Answered
  <2>3. QED
    BY <2>1, <2>2 DEF Push
<1>4. UNCHANGED <<wbuf, toServer>>
  BY DEF Push, client
<1>5. QED
  BY <1>3, <1>4 DEF InFlight, Answered, IsTagged

-----------------------------------------------------------------------------
(* The inductive step, one half of the invariant at a time.                *)

(* The provisos of ReplyIsMine are never restored.                         *)
LEMMA BrokenForGood == broken /\ [Next]_vars => broken'
BY Zenon DEF Next, Caller, Reader, Server, RunCommand, RunCommandFails, TagReused, SkipTag,
      ReadLine, ReadFails, DropInput, ReadEof, Answer, Push, HangUp, vars, wire, history

(* What is in flight has the shape of a command.                           *)
LEMMA InFlightAreCommands == DataOK => InFlight \subseteq Command
<1> SUFFICES ASSUME DataOK PROVE InFlight \subseteq Command
  OBVIOUS
<1>1. Range(wbuf) \subseteq Command /\ Range(toServer) \subseteq Command
  BY RangeOfSeq DEF DataOK
<1>2. Range(toClient) \subseteq Line
  BY RangeOfSeq DEF DataOK
<1>3. Answered(Range(toClient)) \subseteq Command
  BY <1>2 DEF Answered, Line, Command
<1>4. QED
  BY <1>1, <1>3 DEF InFlight

(* Steps that leave the buffers alone leave alone what is in flight.       *)
LEMMA SameInFlight ==
  ASSUME DataOK, UNCHANGED <<wbuf, toServer, toClient>>
  PROVE  InFlight' = InFlight
BY DEF InFlight, Answered, IsTagged

(* No step gives a tag to two commands in flight, short of reuse.          *)
LEMMA TagsStep == DataOK /\ TagsMatch /\ [Next]_vars /\ ~broken' => TagsMatch'
<1> SUFFICES ASSUME DataOK, TagsMatch, [Next]_vars, ~broken' PROVE TagsMatch'
  OBVIOUS
<1>0. /\ InFlight \subseteq Command
      /\ \A c \in Command : c.tag \in Nat
      /\ tag \in Nat /\ call \in Nat
  BY InFlightAreCommands, Bounds DEF Command, DataOK
<1>1. CASE RunCommand
  <2>1. ~rolledBack /\ ~rolledBack'
    BY <1>1, Zenon DEF RunCommand, TagReused
  <2>2. \A c \in InFlight : c.tag <= tag
    BY <2>1 DEF TagsMatch
  <2>3. InFlight' = InFlight \cup {NewCommand}
    BY <1>1, RunInFlight
  <2>4. tag' = tag + 1 /\ call' = call + 1
    BY <1>1 DEF RunCommand, NextTag
  <2>5. \A c \in InFlight' : c.tag <= tag' /\ (c.tag = tag' => c.id = call')
    BY <1>0, <2>2, <2>3, <2>4 DEF NewCommand, NextTag
  <2>6. QED
    BY <2>1, <2>5 DEF TagsMatch
<1>2. CASE RunCommandFails
  <2>1. ~rolledBack /\ rolledBack' /\ pc' = "ready"
    BY <1>2, Zenon DEF RunCommandFails, TagReused, Return
  <2>2. \A c \in InFlight : c.tag <= tag
    BY <2>1 DEF TagsMatch
  <2>3. InFlight' = InFlight \cup {NewCommand}
    BY <1>2, RunFailsInFlight
  <2>4. tag' = tag
    BY <1>0, <1>2 DEF RunCommandFails, RolledBackTag, NextTag
  <2>5. \A c \in InFlight' : c.tag <= tag' + 1
    BY <1>0, <2>2, <2>3, <2>4 DEF NewCommand, NextTag
  <2>6. QED
    BY <2>1, <2>5 DEF TagsMatch
<1>3. CASE SkipTag
  <2>1. ~rolledBack' /\ pc' = "ready"
    BY <1>3, Zenon DEF SkipTag
  <2>2. InFlight' = InFlight /\ tag' = tag + 1
    BY <1>3, SameInFlight DEF SkipTag, wire
  <2>3. \A c \in InFlight : c.tag <= tag + 1
    <3>1. CASE rolledBack
      BY <3>1 DEF TagsMatch
    <3>2. CASE ~rolledBack
      <4>1. \A c \in InFlight : c.tag <= tag
        BY <3>2 DEF TagsMatch
      <4>2. QED
        BY <1>0, <4>1
    <3>3. QED
      BY <3>1, <3>2
  <2>4. QED
    BY <2>1, <2>2, <2>3 DEF TagsMatch
<1>4. CASE ReadLine
  <2>1. InFlight' \subseteq InFlight
    BY <1>4, ReadInFlight
  <2>2. UNCHANGED <<tag, call, rolledBack>> /\ (pc' = "reading" => pc = "reading")
    BY <1>4 DEF ReadLine, history
  <2>3. QED
    BY <2>1, <2>2 DEF TagsMatch
<1>5. CASE ReadFails
  <2>1. UNCHANGED <<wbuf, toServer, toClient, tag, call, rolledBack>> /\ pc' = "ready"
    BY <1>5 DEF ReadFails, DropInput, Return
  <2>2. InFlight' = InFlight
    BY <2>1, SameInFlight
  <2>3. QED
    BY <2>1, <2>2 DEF TagsMatch
<1>6. CASE ReadEof
  <2>1. UNCHANGED <<wbuf, toServer, toClient, tag, call, rolledBack>> /\ pc' = "ready"
    BY <1>6 DEF ReadEof, Return, wire, history
  <2>2. InFlight' = InFlight
    BY <2>1, SameInFlight
  <2>3. QED
    BY <2>1, <2>2 DEF TagsMatch
<1>7. CASE Answer
  <2>1. UNCHANGED <<tag, pc, call, rolledBack>>
    BY <1>7 DEF Answer, client
  <2>2. QED
    BY <1>7, <2>1, AnswerInFlight DEF TagsMatch
<1>8. CASE Push
  <2>1. UNCHANGED <<tag, pc, call, rolledBack>>
    BY <1>8 DEF Push, client, history
  <2>2. QED
    BY <1>8, <2>1, PushInFlight DEF TagsMatch
<1>9. CASE HangUp
  <2>1. UNCHANGED <<wbuf, toServer, toClient, tag, pc, call, rolledBack>>
    BY <1>9 DEF HangUp, client, history
  <2>2. QED
    BY <2>1, SameInFlight DEF TagsMatch
<1>10. CASE UNCHANGED vars
  <2>1. UNCHANGED <<wbuf, toServer, toClient, tag, pc, call, rolledBack>>
    BY <1>10 DEF vars, client, wire, history
  <2>2. QED
    BY <2>1, SameInFlight DEF TagsMatch
<1>11. QED
  BY <1>1, <1>2, <1>3, <1>4, <1>5, <1>6, <1>7, <1>8, <1>9, <1>10
  DEF Next, Caller, Reader, Server

(* Lines that belong to no literal may be appended at any time.            *)
LEMMA FramedAppend ==
  ASSUME DataOK, Framed, NEW line \in Line, ~line.lit,
         toClient' = Append(toClient, line), UNCHANGED pending
  PROVE  Framed'
<1>1. toClient \in Seq(Line)
  BY DEF DataOK
<1>2. /\ Len(toClient') = Len(toClient) + 1
      /\ \A i \in 1..Len(toClient) : toClient'[i] = toClient[i]
      /\ toClient'[Len(toClient) + 1] = line
  BY <1>1, AppendProperties
<1>3. toClient' # <<>> /\ toClient'[1].lit => pending'
  <2>1. CASE toClient = <<>>
    BY <2>1, <1>2
  <2>2. CASE toClient # <<>>
    BY <2>2, <1>1, <1>2 DEF Framed
  <2>3. QED
    BY <2>1, <2>2
<1>4. \A i \in 2..Len(toClient') : toClient'[i].lit => toClient'[i-1].kind = "open"
  BY <1>1, <1>2 DEF Framed
<1>5. QED
  BY <1>3, <1>4 DEF Framed

(* A pushed literal is framed by its own first line.                       *)
LEMMA FramedPush == DataOK /\ Framed /\ Push => Framed'
<1> SUFFICES ASSUME DataOK, Framed, Push PROVE Framed'
  OBVIOUS
<1>1. UNCHANGED pending /\ toClient \in Seq(Line)
  BY DEF Push, client, DataOK
<1>2. \A k \in LineKinds : Plain(k) \in Line /\ Plain(k).kind = k /\ ~Plain(k).lit
  BY DEF Plain, Line, Statuses
<1>3. CASE toClient' = Append(toClient, Plain("data"))
  BY <1>1, <1>2, <1>3, FramedAppend DEF LineKinds
<1>4. ASSUME NEW text \in LiteralText,
             toClient' = toClient \o <<Plain("open"), text, Plain("close")>>
      PROVE  Framed'
  <2> DEFINE block == <<Plain("open"), text, Plain("close")>>
             n == Len(toClient)
  <2>1. /\ text \in Line /\ block \in Seq(Line) /\ Len(block) = 3
        /\ block[1].kind = "open" /\ ~block[1].lit /\ ~block[3].lit
    BY <1>2, LiteralsAreLines DEF LineKinds
  <2> HIDE DEF block
  <2>2. /\ Len(toClient') = n + 3
        /\ \A i \in 1..n + 3 : toClient'[i] = IF i <= n THEN toClient[i] ELSE block[i - n]
    BY <1>1, <1>4, <2>1, ConcatProperties DEF block
  <2>3. n \in Nat /\ (toClient # <<>> => n >= 1)
    BY <1>1
  <2>4. toClient'[1].lit => pending'
    <3>1. CASE n = 0
      BY <3>1, <2>1, <2>2
    <3>2. CASE n >= 1
      BY <3>2, <1>1, <2>2, <2>3 DEF Framed
    <3>3. QED
      BY <2>3, <3>1, <3>2
  <2>5. ASSUME NEW i \in 2..n + 3, toClient'[i].lit
        PROVE  toClient'[i-1].kind = "open"
    <3>1. CASE i <= n
      BY <2>2, <2>3, <2>5, <3>1 DEF Framed
    <3>2. CASE i > n
      <4>1. toClient'[i] = block[i - n] /\ i - n \in {1, 2, 3}
        BY <2>2, <2>3, <3>2
      <4>2. i - n = 2
        BY <2>1, <2>5, <4>1
      <4>3. toClient'[i-1] = block[1]
        BY <2>2, <2>3, <4>2
      <4>4. QED
        BY <2>1, <4>3
    <3>3. QED
      BY <2>3, <3>1, <3>2
  <2>6. QED
    BY <2>2, <2>4, <2>5 DEF Framed
<1>5. QED
  BY <1>3, <1>4 DEF Push

(* The line after an opening one is read as its continuation.              *)
LEMMA FramedRead == DataOK /\ Framed /\ ReadLine => Framed'
<1> SUFFICES ASSUME DataOK, Framed, ReadLine PROVE Framed'
  OBVIOUS
<1>1. toClient \in Seq(Line) /\ toClient # <<>> /\ toClient' = Tail(toClient)
  BY DEF DataOK, ReadLine
<1>2. /\ Len(toClient) >= 1 /\ Len(toClient) \in Nat
      /\ Len(toClient') = Len(toClient) - 1
      /\ \A i \in 1..Len(toClient') : toClient'[i] = toClient[i + 1]
      /\ toClient' \in Seq(Line)
  BY <1>1, HeadTailProperties
<1>3. ASSUME toClient' # <<>>, toClient'[1].lit PROVE pending'
  <2>1. Len(toClient) >= 2 /\ toClient'[1] = toClient[2]
    BY <1>2, <1>3
  <2>2. toClient[1].kind = "open"
    BY <1>3, <2>1, <1>2 DEF Framed
  <2>3. ParseResponse(pending, Head(toClient)) = "incomplete"
    <3>1. Head(toClient).kind = "open"
      BY <1>1, <2>2
    <3>2. QED
      BY <3>1 DEF ParseResponse
  <2>4. OnLine(Head(toClient))
    BY DEF ReadLine
  <2>5. QED
    BY <2>3, <2>4, Zenon DEF OnLine
<1>4. ASSUME NEW i \in 2..Len(toClient'), toClient'[i].lit PROVE toClient'[i-1].kind = "open"
  <2>1. /\ toClient'[i] = toClient[i + 1] /\ toClient'[i - 1] = toClient[i]
        /\ i + 1 \in 2..Len(toClient)
    BY <1>2
  <2>2. QED
    BY <1>4, <2>1 DEF Framed
<1>5. QED
  BY <1>3, <1>4 DEF Framed

(* No step separates a literal from the line that opens it.                *)
LEMMA FramedStep ==
  DataOK /\ Framed /\ (pc = "ready" => ~pending) /\ [Next]_vars /\ ~broken' => Framed'
<1> SUFFICES ASSUME DataOK, Framed, pc = "ready" => ~pending, [Next]_vars, ~broken'
             PROVE  Framed'
  OBVIOUS
<1>0. ASSUME UNCHANGED toClient, pending => pending' PROVE Framed'
  BY <1>0 DEF Framed
<1>1. CASE RunCommand
  BY <1>0, <1>1, Zenon DEF RunCommand, CanIssue
<1>2. CASE RunCommandFails
  BY <1>0, <1>2, Zenon DEF RunCommandFails, CanIssue
<1>3. CASE SkipTag
  BY <1>0, <1>3, Zenon DEF SkipTag, wire
<1>4. CASE ReadLine
  BY <1>4, FramedRead
<1>5. CASE ReadFails
  <2>1. UNCHANGED toClient /\ ~pending
    BY <1>5, Zenon DEF ReadFails, DropInput
  <2>2. QED
    BY <1>0, <2>1
<1>6. CASE ReadEof
  <2>1. toClient = <<>> /\ toClient' = <<>>
    BY <1>6 DEF ReadEof, wire
  <2>2. QED
    BY <2>1 DEF Framed
<1>7. CASE Answer
  <2>1. /\ UNCHANGED pending /\ toServer \in Seq(Command) /\ toServer # <<>>
        /\ Head(toServer) \in Command
    BY <1>7 DEF Answer, client, DataOK
  <2>2. PICK s \in Statuses :
           toClient' = Append(toClient, DoneLine(Head(toServer).tag, s, Head(toServer).id))
    BY <1>7 DEF Answer
  <2>3. /\ DoneLine(Head(toServer).tag, s, Head(toServer).id) \in Line
        /\ ~DoneLine(Head(toServer).tag, s, Head(toServer).id).lit
    BY <2>1 DEF DoneLine, Line, LineKinds, Command
  <2>4. QED
    BY <2>1, <2>2, <2>3, FramedAppend
<1>8. CASE Push
  BY <1>8, FramedPush
<1>9. CASE HangUp
  BY <1>0, <1>9, Zenon DEF HangUp, client
<1>10. CASE UNCHANGED vars
  BY <1>0, <1>10, Zenon DEF vars, client, wire
<1>11. QED
  BY <1>1, <1>2, <1>3, <1>4, <1>5, <1>6, <1>7, <1>8, <1>9, <1>10
  DEF Next, Caller, Reader, Server

(* What a call returns when its tagged line arrives. *)
LEMMA ReadIsMine ==
  ASSUME DataOK, Framed, TagsMatch, ReplyIsMine, ReadLine, ~broken, Replied'
  PROVE  ret'.by = call'
<1> DEFINE line == Head(toClient)
           parsed == ParseResponse(pending, line)
<1>1. /\ toClient \in Seq(Line) /\ toClient # <<>> /\ line = toClient[1] /\ line \in Line
      /\ pc = "reading" /\ UNCHANGED call
  BY DEF DataOK, ReadLine
<1>2. OnLine(line)
  BY DEF ReadLine
<1>3. CASE parsed \in {"data", "incomplete"}
  <2>1. UNCHANGED <<pc, ret>>
    BY <1>2, <1>3 DEF OnLine
  <2>2. Replied
    BY <2>1 DEF Replied
  <2>3. QED
    BY <1>1, <2>1, <2>2 DEF ReplyIsMine
<1>4. CASE parsed = "done" /\ ~TagMatches(line)
  <2>1. ret'.outcome = "mismatch"
    BY <1>2, <1>4 DEF OnLine, Return
  <2>2. QED
    BY <2>1 DEF Replied, Statuses
<1>5. CASE parsed = "done" /\ TagMatches(line)
  <2>1. ret'.by = line.id
    BY <1>2, <1>5 DEF OnLine, Return
  <2>2. ~pending /\ line.kind = "done"
    BY <1>5 DEF ParseResponse
  <2>3. ~line.lit
    BY <1>1, <2>2 DEF Framed
  <2>4. line \in Range(toClient)
    BY <1>1, RangeHeadTail
  <2>5. [tag |-> line.tag, id |-> line.id] \in InFlight
    BY <2>2, <2>3, <2>4 DEF InFlight, Answered, IsTagged
  <2>6. line.id = call
    BY <1>1, <1>5, <2>5 DEF TagsMatch, TagMatches
  <2>7. QED
    BY <1>1, <2>1, <2>6
<1>6. CASE parsed = "invalid"
  <2>1. ret'.by = 0
    BY <1>2, <1>6 DEF OnLine, Return
  <2>2. QED
    BY <2>1 DEF Replied
<1>7. QED
  BY <1>3, <1>4, <1>5, <1>6 DEF ParseResponse

(* Every step keeps the inductive invariant.                               *)
LEMMA MatchingStep == TypeOK /\ Matching /\ [Next]_vars => Matching'
<1> SUFFICES ASSUME TypeOK, Matching, [Next]_vars PROVE Matching'
  OBVIOUS
<1>0. DataOK /\ ReplyIsMine /\ (pc = "ready" => ~pending)
      /\ (~broken => Framed /\ TagsMatch)
  BY TypeSplit DEF Matching
<1>1. pc' = "ready" => ~pending'
  <2>1. pc = "ready" => ~pending
    BY <1>0
  <2>2. CASE RunCommand
    BY <2>2, Zenon DEF RunCommand
  <2>3. CASE RunCommandFails
    BY <2>3, Zenon DEF RunCommandFails, Return
  <2>4. CASE SkipTag
    BY <2>1, <2>4, Zenon DEF SkipTag
  <2>5. CASE ReadLine
    <3>1. pc = "reading" /\ OnLine(Head(toClient))
      BY <2>5 DEF ReadLine
    <3>2. pc # "ready"
      BY <3>1
    <3>3. QED
      BY <3>1, <3>2, Zenon DEF OnLine, Return
  <2>6. CASE ReadFails
    BY <2>6, Zenon DEF ReadFails, DropInput, Return
  <2>7. CASE ReadEof
    BY <2>7, Zenon DEF ReadEof, Return
  <2>8. CASE Answer \/ Push \/ HangUp \/ UNCHANGED vars
    BY <2>1, <2>8, Zenon DEF Answer, Push, HangUp, client, vars
  <2>9. QED
    BY <2>2, <2>3, <2>4, <2>5, <2>6, <2>7, <2>8, Zenon DEF Next, Caller, Reader, Server
<1>2. ~broken' => Framed' /\ TagsMatch'
  <2>1. SUFFICES ASSUME ~broken' PROVE Framed' /\ TagsMatch'
    OBVIOUS
  <2>2. ~broken
    BY <2>1, BrokenForGood
  <2>3. QED
    BY <1>0, <2>1, <2>2, FramedStep, TagsStep
<1>3. ReplyIsMine'
  <2>1. SUFFICES ASSUME Replied', ~broken' PROVE ret'.by = call'
    BY DEF ReplyIsMine
  <2>2. ~broken
    BY <2>1, BrokenForGood
  <2>3. CASE RunCommand
    BY <2>1, <2>3 DEF RunCommand, Replied, Statuses
  <2>4. CASE RunCommandFails
    BY <2>1, <2>4 DEF RunCommandFails, Return, Replied, Statuses
  <2>5. CASE ReadLine
    BY <1>0, <2>1, <2>2, <2>5, ReadIsMine
  <2>6. CASE ReadFails
    BY <2>1, <2>6 DEF ReadFails, DropInput, Return, Replied, Statuses
  <2>7. CASE ReadEof
    BY <2>1, <2>7 DEF ReadEof, Return, Replied, Statuses
  <2>8. CASE UNCHANGED <<call, ret>>
    <3>1. Replied
      BY <2>1, <2>8 DEF Replied
    <3>2. QED
      BY <1>0, <2>2, <2>8, <3>1 DEF ReplyIsMine
  <2>9. CASE SkipTag \/ Answer \/ Push \/ HangUp \/ UNCHANGED vars
    BY <2>8, <2>9, Zenon DEF SkipTag, Answer, Push, HangUp, vars
  <2>10. QED
    BY <2>3, <2>4, <2>5, <2>6, <2>7, <2>9, Zenon DEF Next, Caller, Reader, Server
<1>4. QED
  BY <1>1, <1>2, <1>3 DEF Matching

(* A new Connection satisfies it.                                          *)
LEMMA MatchingInit == Init => Matching
<1> SUFFICES ASSUME Init PROVE Matching
  OBVIOUS
<1>1. ~pending /\ ~rolledBack
  BY Zenon DEF Init
<1>2. /\ toClient = <<>> /\ wbuf = <<>> /\ toServer = <<>> /\ pc = "ready"
      /\ ret.by = 0
  BY DEF Init
<1>3. InFlight = {}
  BY <1>2 DEF InFlight, Answered, Range
<1>4. QED
  BY <1>1, <1>2, <1>3 DEF Matching, ReplyIsMine, Replied, Framed, TagsMatch

(* The inductive invariant holds: literals stay framed, and no command in  *)
(* flight has a tag that run_command could give out again.                 *)
THEOREM MatchingHolds == Spec => []Matching
<1>1. TypeOK /\ Matching /\ [Next]_vars => Matching'
  BY MatchingStep
<1>2. QED
  BY <1>1, MatchingInit, TypeCorrect, PTL DEF Spec

(* Whatever is timed out, retried or skipped, the response a call of run   *)
(* returns answers the command that very call wrote, until a tag is used   *)
(* twice or a response is cut by a read error.                             *)
THEOREM ReplyMatches == Spec => []ReplyIsMine
<1>1. Matching => ReplyIsMine
  BY DEF Matching
<1>2. QED
  BY <1>1, MatchingHolds, PTL

-----------------------------------------------------------------------------
(* What the server is still to answer, and what it has answered.           *)

(* The commands on their way, in the order they were issued. *)
Outgoing == toServer \o wbuf

(* Calls are issued in order, and the server takes them in that order: it  *)
(* answered only those before the ones on their way.                       *)
TakenInOrder ==
    /\ \A k \in 1..Len(Outgoing) : Outgoing[k].id \in 1..call
    /\ \A k, l \in 1..Len(Outgoing) : k < l => Outgoing[k].id < Outgoing[l].id
    /\ \A a \in answers :
          a.id \in 1..call /\ \A k \in 1..Len(Outgoing) : a.id < Outgoing[k].id

(* A tagged line tells what the server answered, and such lines arrive in  *)
(* the order of the calls.                                                 *)
HeardInOrder ==
    /\ \A i \in 1..Len(toClient) :
          IsTagged(toClient[i])
              => [id |-> toClient[i].id, status |-> toClient[i].status] \in answers
    /\ \A i, j \in 1..Len(toClient) :
          i < j /\ IsTagged(toClient[i]) /\ IsTagged(toClient[j])
              => toClient[i].id < toClient[j].id

(* What the server does in its turn, and the client hears in its.          *)
Served == TakenInOrder /\ HeardInOrder

(* Concatenation is associative.                                           *)
LEMMA Regroup ==
  ASSUME NEW S, NEW s \in Seq(S), NEW t \in Seq(S), NEW u \in Seq(S)
  PROVE  (s \o t) \o u = s \o (t \o u)
  BY ConcatAssociative

(* The first element of two sequences in a row is that of the first.       *)
LEMMA TailConcat ==
  ASSUME NEW S, NEW s \in Seq(S), NEW t \in Seq(S), s # <<>>
  PROVE  /\ s \o t \in Seq(S) /\ s \o t # <<>>
         /\ Head(s) = (s \o t)[1]
         /\ Tail(s \o t) = Tail(s) \o t
<1> DEFINE c == s \o t
           m == Len(s)
           n == Len(t)
<1>1. m \in Nat /\ n \in Nat /\ m >= 1
  OBVIOUS
<1>2. /\ c \in Seq(S) /\ Len(c) = m + n
      /\ \A i \in 1..m + n : c[i] = IF i <= m THEN s[i] ELSE t[i - m]
  BY ConcatProperties
<1>3. /\ Tail(s) \in Seq(S) /\ Len(Tail(s)) = m - 1
      /\ \A i \in 1..m - 1 : Tail(s)[i] = s[i + 1]
      /\ Head(s) = s[1]
  BY HeadTailProperties
<1> DEFINE u == Tail(s)
           d == u \o t
<1> HIDE DEF u
<1>4. /\ d \in Seq(S) /\ Len(d) = Len(u) + n
      /\ \A i \in 1..Len(u) + n : d[i] = IF i <= Len(u) THEN u[i] ELSE t[i - Len(u)]
  <2>1. u \in Seq(S)
    BY <1>3 DEF u
  <2>2. QED
    BY <2>1, ConcatProperties
<1> HIDE DEF c, d
<1>5. /\ Len(d) = m + n - 1
      /\ \A i \in 1..m + n - 1 : d[i] = IF i <= m - 1 THEN s[i + 1] ELSE t[i - (m - 1)]
  BY <1>1, <1>3, <1>4 DEF u
<1>6. c # <<>> /\ c[1] = s[1]
  BY <1>1, <1>2
<1>7. /\ Tail(c) \in Seq(S) /\ Len(Tail(c)) = m + n - 1
      /\ \A i \in 1..m + n - 1 : Tail(c)[i] = c[i + 1]
  BY <1>1, <1>2, <1>6, HeadTailProperties
<1>8. \A i \in 1..m + n - 1 : Tail(c)[i] = d[i]
  <2> TAKE i \in 1..m + n - 1
  <2>1. Tail(c)[i] = c[i + 1] /\ i + 1 \in 1..m + n /\ (i + 1) - m = i - (m - 1)
    BY <1>1, <1>7
  <2>2. c[i + 1] = IF i + 1 <= m THEN s[i + 1] ELSE t[(i + 1) - m]
    BY <1>2, <2>1
  <2>3. d[i] = IF i <= m - 1 THEN s[i + 1] ELSE t[i - (m - 1)]
    BY <1>5
  <2>4. i \in Nat /\ m \in Nat /\ (i + 1 <= m <=> i <= m - 1)
    BY <1>1
  <2> HIDE DEF m
  <2>5. QED
    BY <2>1, <2>2, <2>3, <2>4, Zenon
<1>9. Tail(c) = d
  BY <1>4, <1>5, <1>7, <1>8, SeqEqual
<1>10. QED
  BY <1>2, <1>3, <1>6, <1>9 DEF c, d, u

(* What is written is the last on its way, even when the write fails.      *)
LEMMA OutgoingWritten ==
  ASSUME DataOK, NEW c \in Command, Send(c) \/ SendFails(c)
  PROVE  /\ toServer' \in Seq(Command) /\ wbuf' \in Seq(Command)
         /\ Outgoing \in Seq(Command)
         /\ Outgoing' = Append(Outgoing, c)
<1>1. toServer \in Seq(Command) /\ wbuf \in Seq(Command)
  BY DEF DataOK
<1> DEFINE buffered == Append(wbuf, c)
<1>2. /\ Outgoing \in Seq(Command) /\ buffered \in Seq(Command)
      /\ toServer \o buffered = Append(Outgoing, c)
  <2>1. buffered = wbuf \o <<c>> /\ <<c>> \in Seq(Command)
    BY <1>1, AppendIsConcat
  <2>2. Outgoing \in Seq(Command) /\ Append(Outgoing, c) = Outgoing \o <<c>>
    BY <1>1, AppendIsConcat DEF Outgoing
  <2>3. (toServer \o wbuf) \o <<c>> = toServer \o (wbuf \o <<c>>)
    BY <1>1, <2>1, Regroup
  <2>4. QED
    BY <1>1, <2>1, <2>2, <2>3 DEF Outgoing
<1> HIDE DEF buffered
<1>3. CASE Send(c)
  <2>1. toServer' = toServer \o buffered /\ wbuf' = <<>>
    BY <1>3 DEF Send, buffered
  <2>2. (toServer \o buffered) \o <<>> = toServer \o buffered
    BY <1>1, <1>2
  <2>3. Outgoing' = toServer \o buffered
    BY <2>1, <2>2, Zenon DEF Outgoing
  <2>4. toServer' \in Seq(Command) /\ wbuf' \in Seq(Command)
    BY <1>1, <1>2, <2>1
  <2>5. QED
    BY <1>2, <2>3, <2>4
<1>4. CASE SendFails(c)
  <2>1. PICK n \in 0..Len(buffered) :
           /\ toServer' = toServer \o SubSeq(buffered, 1, n)
           /\ wbuf' = SubSeq(buffered, n + 1, Len(buffered))
    BY <1>4 DEF SendFails, buffered
  <2>2. /\ Len(buffered) \in Nat /\ n \in 1 - 1..Len(buffered) /\ 1 \in 1..Len(buffered) + 1
        /\ Len(buffered) \in n..Len(buffered)
        /\ SubSeq(buffered, 1, n) \in Seq(Command)
        /\ SubSeq(buffered, n + 1, Len(buffered)) \in Seq(Command)
        /\ SubSeq(buffered, 1, Len(buffered)) = buffered
    BY <1>2
  <2>3. SubSeq(buffered, 1, n) \o SubSeq(buffered, n + 1, Len(buffered))
          = SubSeq(buffered, 1, Len(buffered))
    BY <1>2, <2>2, ConcatAdjacentSubSeq, Zenon
  <2> DEFINE a == SubSeq(buffered, 1, n)
             b == SubSeq(buffered, n + 1, Len(buffered))
  <2>4. a \o b = buffered /\ toServer' = toServer \o a /\ wbuf' = b
    BY <2>1, <2>2, <2>3, Zenon
  <2>5. a \in Seq(Command) /\ b \in Seq(Command)
    BY <2>2
  <2> HIDE DEF a, b
  <2>6. (toServer \o a) \o b = toServer \o (a \o b)
    BY <1>1, <2>5, Regroup
  <2>7. Outgoing' = toServer \o buffered
    BY <2>4, <2>6, Zenon DEF Outgoing
  <2>8. toServer' \in Seq(Command) /\ wbuf' \in Seq(Command)
    BY <1>1, <2>4, <2>5
  <2>9. QED
    BY <1>2, <2>7, <2>8
<1>5. QED
  BY <1>3, <1>4

(* A command that is issued is the last on its way, written or not.        *)
LEMMA OutgoingIssued ==
  ASSUME DataOK, RunCommand \/ RunCommandFails
  PROVE  /\ Outgoing \in Seq(Command) /\ NewCommand \in Command
         /\ Outgoing' = Append(Outgoing, NewCommand)
<1>1. NewCommand \in Command
  BY Bounds DEF DataOK, Command, NewCommand, NextTag
<1>2. Send(NewCommand) \/ SendFails(NewCommand)
  BY Zenon DEF RunCommand, RunCommandFails
<1>3. QED
  BY <1>1, <1>2, OutgoingWritten

(* The server takes the first of them.                                     *)
LEMMA OutgoingTaken ==
  ASSUME DataOK, toServer # <<>>, toServer' = Tail(toServer), UNCHANGED wbuf
  PROVE  /\ Outgoing \in Seq(Command) /\ Outgoing # <<>>
         /\ Head(toServer) = Outgoing[1] /\ Outgoing' = Tail(Outgoing)
<1>1. toServer \in Seq(Command) /\ wbuf \in Seq(Command)
  BY DEF DataOK
<1>2. /\ toServer \o wbuf \in Seq(Command) /\ toServer \o wbuf # <<>>
      /\ Head(toServer) = (toServer \o wbuf)[1]
      /\ Tail(toServer \o wbuf) = Tail(toServer) \o wbuf
  BY <1>1, TailConcat
<1>3. Outgoing' = Tail(toServer) \o wbuf
  BY DEF Outgoing
<1>4. QED
  BY <1>2, <1>3, Zenon DEF Outgoing

(* What the steps do to the lines on their way to the client.              *)
LEMMA LinesTaken ==
  ASSUME DataOK, toClient # <<>>, toClient' = Tail(toClient)
  PROVE  /\ Len(toClient) \in Nat /\ Len(toClient) >= 1
         /\ Len(toClient') = Len(toClient) - 1
         /\ \A i \in 1..Len(toClient') : toClient'[i] = toClient[i + 1]
         /\ \A i \in 1..Len(toClient) : toClient[i] \in Line
BY HeadTailProperties DEF DataOK

(* A line at the end leaves those before it where they are.                *)
LEMMA LineAdded ==
  ASSUME DataOK, NEW line \in Line, toClient' = Append(toClient, line)
  PROVE  /\ Len(toClient) \in Nat
         /\ Len(toClient') = Len(toClient) + 1
         /\ \A i \in 1..Len(toClient) : toClient'[i] = toClient[i] /\ toClient[i] \in Line
         /\ toClient'[Len(toClient) + 1] = line
BY AppendProperties DEF DataOK

(* A read error leaves the rest of the line it cut in place of it.         *)
LEMMA LineCut ==
  ASSUME DataOK, toClient # <<>>, NEW rest \in Line, toClient' = <<rest>> \o Tail(toClient)
  PROVE  /\ Len(toClient) \in Nat /\ Len(toClient) >= 1
         /\ Len(toClient') = Len(toClient)
         /\ toClient'[1] = rest
         /\ \A i \in 2..Len(toClient) : toClient'[i] = toClient[i]
         /\ \A i \in 1..Len(toClient) : toClient[i] \in Line
<1>1. /\ toClient \in Seq(Line) /\ Tail(toClient) \in Seq(Line) /\ <<rest>> \in Seq(Line)
      /\ Len(<<rest>>) = 1 /\ <<rest>>[1] = rest
      /\ Len(toClient) \in Nat /\ Len(toClient) >= 1
      /\ Len(Tail(toClient)) = Len(toClient) - 1
      /\ \A i \in 1..Len(toClient) - 1 : Tail(toClient)[i] = toClient[i + 1]
  BY HeadTailProperties DEF DataOK
<1> DEFINE first == <<rest>>
           others == Tail(toClient)
<1> HIDE DEF first
<1>2. /\ Len(toClient') = Len(first) + Len(others)
      /\ \A i \in 1..Len(first) + Len(others) :
            toClient'[i] = IF i <= Len(first) THEN first[i] ELSE others[i - Len(first)]
  BY <1>1, ConcatProperties DEF first
<1>3. /\ Len(toClient') = Len(toClient)
      /\ \A i \in 1..Len(toClient) : toClient'[i] = IF i <= 1 THEN rest ELSE others[i - 1]
  BY <1>1, <1>2 DEF first
<1>4. ASSUME NEW i \in 2..Len(toClient) PROVE toClient'[i] = toClient[i]
  <2>1. /\ i \in 1..Len(toClient) /\ ~(i <= 1) /\ i - 1 \in 1..Len(toClient) - 1 /\ (i - 1) + 1 = i
    BY <1>1
  <2>2. toClient'[i] = others[i - 1]
    BY <1>3, <2>1
  <2>3. QED
    BY <1>1, <2>1, <2>2
<1>5. QED
  BY <1>1, <1>3, <1>4

(* A push adds one line, or the three of a literal.                        *)
LEMMA LinesPushed ==
  ASSUME DataOK, Push
  PROVE  /\ Len(toClient) \in Nat
         /\ \A i \in 1..Len(toClient) : toClient'[i] = toClient[i] /\ toClient[i] \in Line
         /\ \/ /\ Len(toClient') = Len(toClient) + 1
               /\ toClient'[Len(toClient) + 1] = Plain("data")
            \/ /\ Len(toClient') = Len(toClient) + 3
               /\ toClient'[Len(toClient) + 1] = Plain("open")
               /\ toClient'[Len(toClient) + 2].lit
               /\ toClient'[Len(toClient) + 3] = Plain("close")
<1>1. \A k \in LineKinds : Plain(k) \in Line
  BY DEF Plain, Line, Statuses
<1>2. toClient \in Seq(Line) /\ Len(toClient) \in Nat
      /\ \A i \in 1..Len(toClient) : toClient[i] \in Line
  BY DEF DataOK
<1>3. CASE toClient' = Append(toClient, Plain("data"))
  <2>1. Plain("data") \in Line
    BY <1>1 DEF LineKinds
  <2> DEFINE line == Plain("data")
  <2> HIDE DEF line
  <2>2. line \in Line /\ toClient' = Append(toClient, line)
    BY <1>3, <2>1 DEF line
  <2>3. /\ Len(toClient') = Len(toClient) + 1
        /\ \A i \in 1..Len(toClient) : toClient'[i] = toClient[i]
        /\ toClient'[Len(toClient) + 1] = line
    BY <2>2, LineAdded
  <2>4. QED
    BY <1>2, <2>3 DEF line
<1>4. ASSUME NEW text \in LiteralText,
             toClient' = toClient \o <<Plain("open"), text, Plain("close")>>
      PROVE  /\ Len(toClient') = Len(toClient) + 3
             /\ \A i \in 1..Len(toClient) : toClient'[i] = toClient[i]
             /\ toClient'[Len(toClient) + 1] = Plain("open")
             /\ toClient'[Len(toClient) + 2].lit
             /\ toClient'[Len(toClient) + 3] = Plain("close")
  <2> DEFINE block == <<Plain("open"), text, Plain("close")>>
             n == Len(toClient)
  <2>1. text \in Line /\ text.lit
    BY ConnectionAssumption DEF ConnectionAssumption
  <2>2. /\ block \in Seq(Line) /\ Len(block) = 3
        /\ block[1] = Plain("open") /\ block[2] = text /\ block[3] = Plain("close")
    BY <1>1, <2>1 DEF LineKinds
  <2> HIDE DEF block
  <2>3. /\ Len(toClient') = n + Len(block)
        /\ \A i \in 1..n + Len(block) :
              toClient'[i] = IF i <= n THEN toClient[i] ELSE block[i - n]
    BY <1>2, <1>4, <2>2, ConcatProperties DEF block
  <2>4. /\ n \in Nat /\ n + Len(block) = n + 3
        /\ \A j \in {1, 2, 3} : n + j \in 1..n + 3 /\ ~(n + j <= n) /\ (n + j) - n = j
        /\ \A i \in 1..n : i \in 1..n + 3 /\ i <= n
    BY <1>2, <2>2
  <2>5. \A j \in {1, 2, 3} : toClient'[n + j] = block[j]
    BY <2>3, <2>4
  <2>6. \A i \in 1..n : toClient'[i] = toClient[i]
    BY <2>3, <2>4
  <2>7. QED
    BY <2>1, <2>2, <2>3, <2>4, <2>5, <2>6
<1>5. \/ toClient' = Append(toClient, Plain("data"))
      \/ \E text \in LiteralText : toClient' = toClient \o <<Plain("open"), text, Plain("close")>>
  BY DEF Push
<1>6. QED
  BY <1>2, <1>3, <1>4, <1>5, Zenon

(* A tagged line was there before a push.                                  *)
LEMMA PushedUntagged ==
  ASSUME DataOK, Push
  PROVE  \A i \in 1..Len(toClient') :
            IsTagged(toClient'[i]) => i \in 1..Len(toClient) /\ toClient'[i] = toClient[i]
<1> DEFINE n == Len(toClient)
<1>1. n \in Nat /\ \A i \in 1..n : toClient'[i] = toClient[i]
  BY LinesPushed
<1>2. \A k \in {"data", "open", "close"} : ~IsTagged(Plain(k))
  BY DEF IsTagged, Plain
<1>3. \A l : l.lit => ~IsTagged(l)
  BY DEF IsTagged
<1>4. \/ /\ Len(toClient') = n + 1 /\ ~IsTagged(toClient'[n + 1])
      \/ /\ Len(toClient') = n + 3
         /\ ~IsTagged(toClient'[n + 1])
         /\ ~IsTagged(toClient'[n + 2])
         /\ ~IsTagged(toClient'[n + 3])
  BY <1>2, <1>3, LinesPushed
<1> HIDE DEF n
<1>5. \A i \in 1..Len(toClient') : i \in 1..n \/ ~IsTagged(toClient'[i])
  BY <1>1, <1>4
<1>6. QED
  BY <1>1, <1>5 DEF n

(* Commands keep going out, and being taken, in the order of their calls.  *)
LEMMA TakenStep == DataOK /\ TakenInOrder /\ [Next]_vars => TakenInOrder'
<1> SUFFICES ASSUME DataOK, TakenInOrder, [Next]_vars PROVE TakenInOrder'
  OBVIOUS
<1> DEFINE n == Len(Outgoing)
<1>0. call \in Nat
  BY Bounds DEF DataOK
<1>1. CASE RunCommand \/ RunCommandFails
  <2>1. /\ Outgoing \in Seq(Command) /\ NewCommand \in Command
        /\ Outgoing' = Append(Outgoing, NewCommand)
    BY <1>1, OutgoingIssued
  <2>2. /\ n \in Nat /\ Len(Outgoing') = n + 1
        /\ \A k \in 1..n : Outgoing'[k] = Outgoing[k]
        /\ Outgoing'[n + 1].id = call + 1
    <3>1. NewCommand.id = call + 1
      BY DEF NewCommand
    <3>2. QED
      BY <2>1, <3>1, AppendProperties
  <2>3. call' = call + 1 /\ UNCHANGED answers
    BY <1>1, Zenon DEF RunCommand, RunCommandFails
  <2>4. \A k \in 1..n : Outgoing[k].id \in 1..call
    BY DEF TakenInOrder
  <2>5. \A k \in 1..n + 1 : k \in 1..n \/ k = n + 1
    BY <2>2
  <2> HIDE DEF n
  <2>6. \A k \in 1..n + 1 : Outgoing'[k].id \in 1..call + 1
    BY <1>0, <2>2, <2>4, <2>5
  <2>7. ASSUME NEW k \in 1..n + 1, NEW l \in 1..n + 1, k < l
        PROVE  Outgoing'[k].id < Outgoing'[l].id
    <3>1. k \in 1..n /\ Outgoing'[k].id \in 1..call
      BY <2>2, <2>4, <2>5, <2>7
    <3>2. CASE l = n + 1
      BY <1>0, <2>2, <3>1, <3>2
    <3>3. CASE l \in 1..n
      BY <2>2, <2>7, <3>1, <3>3 DEF TakenInOrder, n
    <3>4. QED
      BY <2>5, <3>2, <3>3
  <2>8. ASSUME NEW a \in answers
        PROVE  a.id \in 1..call + 1 /\ \A k \in 1..n + 1 : a.id < Outgoing'[k].id
    <3>1. a.id \in 1..call /\ \A k \in 1..n : a.id < Outgoing[k].id
      BY DEF TakenInOrder, n
    <3>2. QED
      BY <1>0, <2>2, <2>5, <3>1
  <2>9. QED
    BY <2>2, <2>3, <2>6, <2>7, <2>8 DEF TakenInOrder
<1>2. CASE Answer
  <2>1. toServer # <<>> /\ toServer' = Tail(toServer) /\ UNCHANGED <<wbuf, call>>
    BY <1>2 DEF Answer, client
  <2>2. /\ Outgoing \in Seq(Command) /\ Outgoing # <<>>
        /\ Head(toServer) = Outgoing[1] /\ Outgoing' = Tail(Outgoing)
    BY <2>1, OutgoingTaken
  <2>3. /\ n \in Nat /\ n >= 1 /\ Len(Outgoing') = n - 1
        /\ \A k \in 1..n - 1 : Outgoing'[k] = Outgoing[k + 1]
    BY <2>2, HeadTailProperties
  <2>4. PICK s \in Statuses : answers' = answers \cup {[id |-> Outgoing[1].id, status |-> s]}
    BY <1>2, <2>2 DEF Answer
  <2> HIDE DEF n
  <2>5. \A k \in 1..n - 1 : k + 1 \in 1..n /\ 1 \in 1..n /\ 1 < k + 1
    BY <2>3
  <2>6. ASSUME NEW k \in 1..n - 1
        PROVE  Outgoing'[k].id \in 1..call /\ Outgoing[1].id < Outgoing'[k].id
    BY <2>3, <2>5 DEF TakenInOrder, n
  <2>7. ASSUME NEW k \in 1..n - 1, NEW l \in 1..n - 1, k < l
        PROVE  Outgoing'[k].id < Outgoing'[l].id
    <3>1. k + 1 < l + 1
      BY <2>3, <2>7
    <3>2. QED
      BY <2>3, <2>5, <3>1 DEF TakenInOrder, n
  <2>8. ASSUME NEW a \in answers'
        PROVE  a.id \in 1..call /\ \A k \in 1..n - 1 : a.id < Outgoing'[k].id
    <3>1. CASE a \in answers
      BY <2>3, <2>5, <3>1 DEF TakenInOrder, n
    <3>2. CASE a = [id |-> Outgoing[1].id, status |-> s]
      <4>1. a.id = Outgoing[1].id /\ 1 \in 1..n
        BY <2>3, <3>2
      <4>2. QED
        BY <2>6, <4>1 DEF TakenInOrder, n
    <3>3. QED
      BY <2>4, <3>1, <3>2
  <2>9. QED
    BY <2>1, <2>3, <2>6, <2>7, <2>8 DEF TakenInOrder
<1>3. CASE UNCHANGED <<toServer, wbuf, call, answers>>
  <2>1. Outgoing' = Outgoing
    BY <1>3 DEF Outgoing
  <2>2. QED
    BY <1>3, <2>1 DEF TakenInOrder
<1>4. CASE SkipTag \/ ReadLine \/ ReadFails \/ ReadEof \/ Push \/ HangUp \/ UNCHANGED vars
  BY <1>3, <1>4, Zenon DEF SkipTag, ReadLine, ReadFails, ReadEof, Push, HangUp, vars, client, wire, history
<1>5. QED
  BY <1>1, <1>2, <1>4, Zenon DEF Next, Caller, Reader, Server

(* No step brings two answers, or an answer and a command, out of order.   *)
LEMMA HeardStep == DataOK /\ TakenInOrder /\ HeardInOrder /\ [Next]_vars => HeardInOrder'
<1> SUFFICES ASSUME DataOK, TakenInOrder, HeardInOrder, [Next]_vars PROVE HeardInOrder'
  OBVIOUS
<1> DEFINE n == Len(toClient)
           InAnswers(l) == [id |-> l.id, status |-> l.status] \in answers
           InAnswersNow(l) == [id |-> l.id, status |-> l.status] \in answers'
<1>0. /\ n \in Nat
      /\ \A i \in 1..n : IsTagged(toClient[i]) => InAnswers(toClient[i])
      /\ \A i, j \in 1..n : i < j /\ IsTagged(toClient[i]) /\ IsTagged(toClient[j])
            => toClient[i].id < toClient[j].id
      /\ \A l : InAnswers(l) => InAnswersNow(l)
  <2>1. answers \subseteq answers'
    BY Zenon DEF Next, Caller, Reader, Server, RunCommand, RunCommandFails, SkipTag, ReadLine,
                 ReadFails, ReadEof, Answer, Push, HangUp, vars, history
  <2>2. QED
    BY <2>1 DEF HeardInOrder, DataOK
<1>1. HeardInOrder' <=>
        /\ \A i \in 1..Len(toClient') : IsTagged(toClient'[i]) => InAnswersNow(toClient'[i])
        /\ \A i, j \in 1..Len(toClient') : i < j /\ IsTagged(toClient'[i]) /\ IsTagged(toClient'[j])
              => toClient'[i].id < toClient'[j].id
  BY DEF HeardInOrder, IsTagged
<1> HIDE DEF InAnswers, InAnswersNow
<1>2. CASE ReadLine
  <2>1. /\ Len(toClient') = n - 1
        /\ \A i \in 1..n - 1 : toClient'[i] = toClient[i + 1] /\ i + 1 \in 1..n
    <3>1. toClient # <<>> /\ toClient' = Tail(toClient)
      BY <1>2 DEF ReadLine
    <3>2. QED
      BY <3>1, LinesTaken
  <2> HIDE DEF n
  <2>2. \A i, j \in 1..n - 1 : i < j => i + 1 < j + 1
    BY <1>0
  <2>3. QED
    BY <1>0, <1>1, <2>1, <2>2
<1>3. CASE ReadFails
  <2>1. CASE UNCHANGED toClient
    BY <1>0, <1>1, <2>1
  <2>2. CASE toClient # <<>> /\ \E rest \in Rests(Head(toClient)) :
                                   toClient' = <<rest>> \o Tail(toClient)
    <3>1. Head(toClient) \in Line /\ Head(toClient) = toClient[1]
      BY <2>2, HeadTailProperties DEF DataOK
    <3>2. PICK rest \in Rests(Head(toClient)) : toClient' = <<rest>> \o Tail(toClient)
      BY <2>2
    <3>3. rest \in Line
      BY <3>1, <3>2, RestsAreLines
    <3>4. IsTagged(rest) => /\ IsTagged(toClient[1]) /\ rest.id = toClient[1].id
                            /\ rest.status = toClient[1].status
      BY <3>1, <3>2 DEF Rests, IsTagged, Line
    <3>5. /\ n >= 1 /\ Len(toClient') = n /\ toClient'[1] = rest
          /\ \A i \in 2..n : toClient'[i] = toClient[i]
      BY <2>2, <3>2, <3>3, LineCut
    <3> HIDE DEF n
    <3>6. \A i \in 1..n : IsTagged(toClient'[i]) => /\ IsTagged(toClient[i])
                                                     /\ toClient'[i].id = toClient[i].id
                                                     /\ toClient'[i].status = toClient[i].status
      <4>1. \A i \in 1..n : i = 1 \/ i \in 2..n
        BY <1>0
      <4>2. QED
        BY <3>4, <3>5, <4>1
    <3>7. \A i \in 1..n : IsTagged(toClient'[i]) => InAnswersNow(toClient'[i])
      BY <1>0, <3>6 DEF InAnswersNow
    <3>8. QED
      BY <1>0, <1>1, <3>5, <3>6, <3>7
  <2>3. QED
    BY <1>3, <2>1, <2>2 DEF ReadFails, DropInput
<1>4. CASE Answer
  <2> DEFINE c == Head(toServer)
  <2>1. /\ toServer \in Seq(Command) /\ toServer # <<>> /\ toServer' = Tail(toServer)
        /\ UNCHANGED wbuf /\ c \in Command
    BY <1>4 DEF Answer, client, DataOK
  <2>2. /\ Outgoing \in Seq(Command) /\ Outgoing # <<>> /\ c = Outgoing[1]
    BY <2>1, OutgoingTaken
  <2>3. PICK s \in Statuses :
           /\ toClient' = Append(toClient, DoneLine(c.tag, s, c.id))
           /\ answers' = answers \cup {[id |-> c.id, status |-> s]}
    BY <1>4 DEF Answer
  <2> DEFINE line == DoneLine(c.tag, s, c.id)
  <2>4. line \in Line /\ line.id = c.id /\ line.status = s
    BY <2>1 DEF DoneLine, Line, LineKinds, Command
  <2>5. InAnswersNow(line)
    BY <2>3, <2>4 DEF InAnswersNow
  <2>6. \A a \in answers : a.id < c.id
    <3>1. 1 \in 1..Len(Outgoing)
      BY <2>2
    <3>2. QED
      BY <2>2, <3>1 DEF TakenInOrder
  <2>7. \A i \in 1..n : IsTagged(toClient[i]) => toClient[i].id < line.id
    <3>1. ASSUME NEW i \in 1..n, IsTagged(toClient[i]) PROVE toClient[i].id < line.id
      <4>1. [id |-> toClient[i].id, status |-> toClient[i].status] \in answers
        BY <1>0, <3>1 DEF InAnswers
      <4>2. [id |-> toClient[i].id, status |-> toClient[i].status].id < c.id
        BY <2>6, <4>1
      <4>3. QED
        BY <2>4, <4>2
    <3>2. QED
      BY <3>1
  <2> HIDE DEF line
  <2>8. /\ Len(toClient') = n + 1
        /\ \A i \in 1..n : toClient'[i] = toClient[i]
        /\ toClient'[n + 1] = line
    BY <2>3, <2>4, LineAdded DEF line
  <2> HIDE DEF n
  <2>9. /\ \A i \in 1..n + 1 : i \in 1..n \/ i = n + 1
        /\ \A i, j \in 1..n + 1 : i < j => i \in 1..n
    BY <1>0
  <2>10. \A i \in 1..n + 1 : IsTagged(toClient'[i]) => InAnswersNow(toClient'[i])
    BY <1>0, <2>5, <2>8, <2>9
  <2>11. QED
    BY <1>0, <1>1, <2>7, <2>8, <2>9, <2>10
<1>5. CASE Push
  <2>1. \A i \in 1..Len(toClient') :
            IsTagged(toClient'[i]) => i \in 1..n /\ toClient'[i] = toClient[i]
    BY <1>5, PushedUntagged
  <2> HIDE DEF n
  <2>2. QED
    BY <1>0, <1>1, <2>1
<1>6. CASE UNCHANGED toClient
  BY <1>0, <1>1, <1>6
<1>7. CASE RunCommand \/ RunCommandFails \/ SkipTag \/ ReadEof \/ HangUp \/ UNCHANGED vars
  BY <1>6, <1>7, Zenon DEF RunCommand, RunCommandFails, SkipTag, ReadEof, HangUp, vars, wire
<1>8. QED
  BY <1>2, <1>3, <1>4, <1>5, <1>7, Zenon DEF Next, Caller, Reader, Server

(* Calls are answered in order, each once, and the answers arrive in that  *)
(* order, whatever fails in between.                                       *)
THEOREM ServedHolds == Spec => []Served
<1>1. Init => Served
  <2> SUFFICES ASSUME Init PROVE Served
    OBVIOUS
  <2>1. toServer = <<>> /\ wbuf = <<>> /\ toClient = <<>> /\ answers = {}
    BY DEF Init
  <2>2. Len(Outgoing) = 0 /\ Len(toClient) = 0
    BY <2>1 DEF Outgoing
  <2>3. QED
    BY <2>1, <2>2 DEF Served, TakenInOrder, HeardInOrder
<1>2. TypeOK /\ Served /\ [Next]_vars => Served'
  BY TypeSplit, TakenStep, HeardStep DEF Served
<1>3. QED
  BY <1>1, <1>2, TypeCorrect, PTL DEF Spec

-----------------------------------------------------------------------------
(* A connection that never met an I/O error.                               *)

(* The line before one that continues a response opened it. *)
Opens(line)     == line.kind = "open" \/ line.lit
(* ... and these are the lines that continue one.                          *)
Continues(line) == line.kind = "close" \/ line.lit

(* The lines of a literal arrive with the lines that open and close it,    *)
(* whole, and the client knows when the next line is inside one.           *)
Blocks ==
    /\ pending <=> toClient # <<>> /\ Continues(toClient[1])
    /\ \A i \in 2..Len(toClient) : Continues(toClient[i]) <=> Opens(toClient[i-1])
    /\ toClient # <<>> => ~Opens(toClient[Len(toClient)])
    /\ \A i \in 1..Len(toClient) : toClient[i].kind = "junk" => toClient[i].lit

(* All that is in flight is the command of the call in progress. *)
OwnOnly ==
    /\ \A i \in 1..Len(toClient) :
          IsTagged(toClient[i])
              => pc = "reading" /\ toClient[i].tag = tag /\ toClient[i].id = call
    /\ up => \A k \in 1..Len(toServer) :
                pc = "reading" /\ toServer[k] = [tag |-> tag, id |-> call]

(* Without a fault, only the call that waits has anything under way.       *)
InStep == ~faulted => ~broken /\ ~rolledBack /\ wbuf = <<>> /\ OwnOnly

(* The inductive invariant of the two properties below. *)
Tidy ==
    /\ ~broken => Blocks
    /\ InStep
    /\ LiteralIsNoResponse

(* What the parser makes of the next line when literals arrive whole: it   *)
(* is never at a loss, and takes only tagged responses for such.           *)
LEMMA ParseInBlocks ==
  ASSUME DataOK, Blocks, toClient # <<>>
  PROVE  /\ ParseResponse(pending, toClient[1]) = "incomplete" <=> Opens(toClient[1])
         /\ ParseResponse(pending, toClient[1]) \in {"data", "incomplete", "done"}
         /\ ParseResponse(pending, toClient[1]) = "done" => IsTagged(toClient[1])
<1> DEFINE line == toClient[1]
<1>1. 1 \in 1..Len(toClient) /\ line \in Line
  BY DEF DataOK
<1>2. /\ pending <=> Continues(line)
      /\ line.kind = "junk" => line.lit
  BY <1>1 DEF Blocks
<1>3. line.kind \in LineKinds
  BY <1>1 DEF Line
<1> HIDE DEF line
<1>4. CASE pending
  BY <1>2, <1>4 DEF ParseResponse, Opens, Continues, IsTagged, line
<1>5. CASE ~pending
  <2>1. ~line.lit /\ line.kind \in {"data", "plus", "open", "done"}
    BY <1>2, <1>3, <1>5 DEF Continues, LineKinds
  <2>2. ParseResponse(pending, line) = CASE line.kind = "done"             -> "done"
                                         [] line.kind \in {"data", "plus"} -> "data"
                                         [] line.kind = "open"             -> "incomplete"
                                         [] OTHER                          -> "invalid"
    BY <1>5, Zenon DEF ParseResponse
  <2>3. QED
    BY <2>1, <2>2 DEF Opens, IsTagged, line
<1>6. QED
  BY <1>4, <1>5

(* What it does with it.                                                   *)
LEMMA ReadInBlocks ==
  ASSUME DataOK, Blocks, ReadLine
  PROVE  /\ pending' <=> Opens(toClient[1])
         /\ \/ /\ UNCHANGED <<pc, ret>>
               /\ ~IsTagged(toClient[1])
            \/ /\ IsTagged(toClient[1]) /\ pc' = "ready"
               /\ ret'.by = toClient[1].id
               /\ IF toClient[1].tag = tag
                  THEN ret'.outcome = Outcome(toClient[1].status)
                  ELSE ret'.outcome = "mismatch"
<1> DEFINE line == toClient[1]
           parsed == ParseResponse(pending, line)
<1>1. toClient # <<>> /\ OnLine(line)
  <2>1. toClient # <<>> /\ OnLine(Head(toClient)) /\ toClient \in Seq(Line)
    BY DEF ReadLine, DataOK
  <2>2. Head(toClient) = toClient[1]
    BY <2>1, HeadTailProperties
  <2>3. QED
    BY <2>1, <2>2
<1>2. /\ parsed = "incomplete" <=> Opens(line)
      /\ parsed \in {"data", "incomplete", "done"}
      /\ parsed = "done" => IsTagged(line)
  BY <1>1, ParseInBlocks
<1>3. CASE parsed = "done"
  <2>1. IsTagged(line) /\ ~Opens(line)
    BY <1>2, <1>3 DEF IsTagged, Opens
  <2>2. /\ pc' = "ready" /\ pending' = FALSE
        /\ ret'.by = line.id
        /\ IF TagMatches(line) THEN ret'.outcome = Outcome(line.status)
                               ELSE ret'.outcome = "mismatch"
    BY <1>1, <1>3 DEF OnLine, Return
  <2>3. QED
    BY <2>1, <2>2 DEF TagMatches
<1>4. CASE parsed # "done"
  <2>1. ~IsTagged(line)
    <3>1. ASSUME IsTagged(line) PROVE FALSE
      <4>1. line.kind = "done" /\ ~line.lit
        BY <3>1 DEF IsTagged
      <4>2. ~pending
        BY <1>1, <4>1 DEF Blocks, Continues
      <4>3. QED
        BY <1>4, <4>1, <4>2 DEF ParseResponse
    <3>2. QED
      BY <3>1
  <2>2. pending' = (parsed = "incomplete") /\ UNCHANGED <<pc, ret>>
    BY <1>1, <1>2, <1>4 DEF OnLine
  <2>3. QED
    BY <1>2, <2>1, <2>2
<1>5. QED
  BY <1>3, <1>4

(* A line that is read leaves whole what comes after it, as long as the    *)
(* client knows whether that line opened a response.                       *)
LEMMA BlocksTaken ==
  ASSUME DataOK, Blocks, toClient # <<>>, toClient' = Tail(toClient),
         pending' <=> Opens(toClient[1])
  PROVE  Blocks'
<1> DEFINE n == Len(toClient)
<1>1. n \in Nat /\ toClient \in Seq(Line)
  BY DEF DataOK
<1>2. /\ n >= 1 /\ Len(toClient') = n - 1
      /\ \A i \in 1..n - 1 : toClient'[i] = toClient[i + 1] /\ i + 1 \in 1..n
      /\ toClient' # <<>> <=> n - 1 >= 1
  <2>1. toClient' \in Seq(Line)
    BY <1>1
  <2>2. /\ n >= 1 /\ Len(toClient') = n - 1
        /\ \A i \in 1..Len(toClient') : toClient'[i] = toClient[i + 1]
    BY LinesTaken
  <2>3. \A i \in 1..n - 1 : i + 1 \in 1..n
    BY <1>1
  <2>4. toClient' # <<>> <=> Len(toClient') >= 1
    BY <2>1
  <2>5. QED
    BY <2>2, <2>3, <2>4
<1> HIDE DEF n
<1>3. \A i \in 2..n : Continues(toClient[i]) <=> Opens(toClient[i - 1])
  BY DEF Blocks, n
<1>4. pending' <=> toClient' # <<>> /\ Continues(toClient'[1])
  <2>1. CASE n = 1
    <3>1. ~Opens(toClient[1])
      BY <2>1 DEF Blocks, n
    <3>2. QED
      BY <1>2, <2>1, <3>1
  <2>2. CASE n >= 2
    <3>1. toClient' # <<>> /\ toClient'[1] = toClient[2]
      BY <1>1, <1>2, <2>2
    <3>2. 2 \in 2..n /\ 2 - 1 = 1
      BY <1>1, <2>2
    <3>3. QED
      BY <1>3, <3>1, <3>2
  <2>3. QED
    BY <1>1, <1>2, <2>1, <2>2
<1>5. ASSUME NEW i \in 2..n - 1 PROVE Continues(toClient'[i]) <=> Opens(toClient'[i - 1])
  <2>1. /\ toClient'[i] = toClient[i + 1] /\ toClient'[i - 1] = toClient[i]
        /\ i + 1 \in 2..n /\ (i + 1) - 1 = i
    BY <1>1, <1>2
  <2>2. QED
    BY <1>3, <2>1
<1>6. toClient' # <<>> => ~Opens(toClient'[n - 1])
  <2>1. ASSUME toClient' # <<>> PROVE toClient'[n - 1] = toClient[n]
    <3>1. n - 1 \in 1..n - 1 /\ (n - 1) + 1 = n
      BY <1>1, <1>2, <2>1
    <3>2. QED
      BY <1>2, <3>1
  <2>2. ~Opens(toClient[n])
    BY DEF Blocks, n
  <2>3. QED
    BY <2>1, <2>2
<1>7. \A i \in 1..n - 1 : toClient'[i].kind = "junk" => toClient'[i].lit
  BY <1>2 DEF Blocks, n
<1>8. QED
  BY <1>2, <1>4, <1>5, <1>6, <1>7 DEF Blocks, Opens, Continues

(* Lines that come with those that open and close them add a whole.        *)
LEMMA BlocksExtended ==
  ASSUME DataOK, Blocks, NEW m \in {1, 2, 3},
         Len(toClient') = Len(toClient) + m, UNCHANGED pending,
         \A i \in 1..Len(toClient) : toClient'[i] = toClient[i],
         ~Continues(toClient'[Len(toClient) + 1]), ~Opens(toClient'[Len(toClient) + m]),
         m # 1 => /\ Opens(toClient'[Len(toClient) + 1])
                  /\ Continues(toClient'[Len(toClient) + 2]),
         m = 3 => /\ Opens(toClient'[Len(toClient) + 2])
                  /\ Continues(toClient'[Len(toClient) + 3]),
         \A i \in Len(toClient) + 1..Len(toClient) + m :
            toClient'[i].kind = "junk" => toClient'[i].lit,
         toClient' # <<>>
  PROVE  Blocks'
<1> DEFINE n == Len(toClient)
<1>1. /\ n \in Nat
      /\ toClient # <<>> <=> n >= 1
  <2>1. toClient \in Seq(Line)
    BY DEF DataOK
  <2>2. QED
    BY <2>1
<1>2. /\ Len(toClient') = n + m
      /\ \A i \in 1..n : toClient'[i] = toClient[i]
      /\ ~Continues(toClient'[n + 1]) /\ ~Opens(toClient'[n + m])
      /\ m # 1 => Opens(toClient'[n + 1]) /\ Continues(toClient'[n + 2])
      /\ m = 3 => Opens(toClient'[n + 2]) /\ Continues(toClient'[n + 3])
      /\ \A i \in n + 1..n + m : toClient'[i].kind = "junk" => toClient'[i].lit
  OBVIOUS
<1> HIDE DEF n
<1>3. pending' <=> Continues(toClient'[1])
  <2>1. CASE n = 0
    <3>1. toClient = <<>>
      BY <1>1, <2>1
    <3>2. ~pending'
      BY <3>1, Zenon DEF Blocks
    <3>3. QED
      BY <1>2, <2>1, <3>2
  <2>2. CASE n >= 1
    <3>1. toClient'[1] = toClient[1]
      BY <1>1, <1>2, <2>2
    <3>2. pending <=> Continues(toClient[1])
      BY <1>1, <2>2 DEF Blocks
    <3>3. QED
      BY <3>1, <3>2
  <2>3. QED
    BY <1>1, <2>1, <2>2
<1>4. ASSUME NEW i \in 2..n + m PROVE Continues(toClient'[i]) <=> Opens(toClient'[i - 1])
  <2>1. CASE i <= n
    <3>1. i \in 1..n /\ i - 1 \in 1..n /\ i \in 2..n
      BY <1>1, <2>1
    <3>2. toClient'[i] = toClient[i] /\ toClient'[i - 1] = toClient[i - 1]
      BY <1>2, <3>1
    <3>3. QED
      BY <3>1, <3>2 DEF Blocks, n
  <2>2. CASE i = n + 1
    <3>1. n \in 1..n /\ i - 1 = n /\ toClient # <<>>
      BY <1>1, <2>2
    <3>2. ~Opens(toClient[n])
      BY <3>1 DEF Blocks, n
    <3>3. ~Opens(toClient'[i - 1])
      BY <1>2, <3>1, <3>2
    <3>4. QED
      BY <1>2, <2>2, <3>3
  <2>3. CASE i = n + 2
    <3>1. m # 1 /\ i - 1 = n + 1
      BY <1>1, <2>3
    <3>2. QED
      BY <1>2, <2>3, <3>1
  <2>4. CASE i > n + 2
    <3>1. m = 3 /\ i = n + 3 /\ i - 1 = n + 2
      BY <1>1, <2>4
    <3>2. QED
      BY <1>2, <3>1
  <2>5. QED
    BY <1>1, <2>1, <2>2, <2>3, <2>4
<1>5. ASSUME NEW i \in 1..n + m PROVE toClient'[i].kind = "junk" => toClient'[i].lit
  <2>1. CASE i \in 1..n
    BY <1>2, <2>1 DEF Blocks, n
  <2>2. CASE i \in n + 1..n + m
    BY <1>2, <2>2
  <2>3. QED
    BY <1>1, <2>1, <2>2
<1>6. QED
  BY <1>2, <1>3, <1>4, <1>5 DEF Blocks, Opens, Continues

(* Literals keep arriving whole while no read error cuts a response.       *)
LEMMA BlocksStep ==
  TypeOK /\ Blocks /\ (pc = "ready" => ~pending) /\ [Next]_vars /\ ~broken' => Blocks'
<1> SUFFICES ASSUME TypeOK, Blocks, pc = "ready" => ~pending, [Next]_vars, ~broken'
             PROVE  Blocks'
  OBVIOUS
<1> DEFINE n == Len(toClient)
<1>0. /\ DataOK /\ n \in Nat /\ toClient \in Seq(Line)
      /\ toClient # <<>> <=> n >= 1
  <2>1. DataOK
    BY TypeSplit
  <2>2. toClient \in Seq(Line)
    BY <2>1 DEF DataOK
  <2>3. QED
    BY <2>1, <2>2
<1>1. ASSUME UNCHANGED toClient, pending' <=> pending PROVE Blocks'
  BY <1>1 DEF Blocks, Opens, Continues
<1>2. CASE RunCommand \/ RunCommandFails \/ SkipTag
  BY <1>1, <1>2, Zenon DEF RunCommand, RunCommandFails, CanIssue, Return, SkipTag, wire
<1>3. CASE ReadLine
  <2>1. toClient # <<>> /\ toClient' = Tail(toClient)
    BY <1>3 DEF ReadLine
  <2>2. pending' <=> Opens(toClient[1])
    BY <1>0, <1>3, ReadInBlocks
  <2>3. QED
    BY <1>0, <2>1, <2>2, BlocksTaken
<1>4. CASE ReadFails
  <2>1. UNCHANGED toClient /\ ~pending /\ ~pending'
    BY <1>4, Zenon DEF ReadFails, DropInput, Return
  <2>2. QED
    BY <1>1, <2>1
<1>5. CASE ReadEof
  <2>1. toClient = <<>> /\ UNCHANGED toClient /\ ~pending'
    BY <1>5 DEF ReadEof, wire, Return
  <2>2. ~pending
    BY <2>1 DEF Blocks
  <2>3. QED
    BY <1>1, <2>1, <2>2
<1>6. CASE Answer
  <2>1. /\ UNCHANGED pending /\ toServer \in Seq(Command) /\ toServer # <<>>
        /\ Head(toServer) \in Command
    BY <1>0, <1>6 DEF Answer, client, DataOK
  <2>2. PICK s \in Statuses :
           toClient' = Append(toClient, DoneLine(Head(toServer).tag, s, Head(toServer).id))
    BY <1>6 DEF Answer
  <2> DEFINE line == DoneLine(Head(toServer).tag, s, Head(toServer).id)
  <2>3. line \in Line /\ line.kind = "done" /\ ~line.lit
    BY <2>1 DEF DoneLine, Line, LineKinds, Command
  <2> HIDE DEF line
  <2>4. /\ Len(toClient') = n + 1
        /\ \A i \in 1..n : toClient'[i] = toClient[i]
        /\ toClient'[n + 1] = line
    BY <1>0, <2>2, <2>3, LineAdded DEF line
  <2>5. toClient' # <<>>
    BY <1>0, <2>4
  <2>6. \A i \in n + 1..n + 1 : toClient'[i].kind # "junk"
    BY <1>0, <2>3, <2>4
  <2>7. QED
    BY <1>0, <2>1, <2>3, <2>4, <2>5, <2>6, BlocksExtended DEF Opens, Continues
<1>7. CASE Push
  <2>1. UNCHANGED pending
    BY <1>7 DEF Push, client
  <2>2. /\ \A i \in 1..n : toClient'[i] = toClient[i]
        /\ \/ Len(toClient') = n + 1 /\ toClient'[n + 1] = Plain("data")
           \/ /\ Len(toClient') = n + 3
              /\ toClient'[n + 1] = Plain("open")
              /\ toClient'[n + 2].lit
              /\ toClient'[n + 3] = Plain("close")
    BY <1>0, <1>7, LinesPushed
  <2>3. /\ \A k \in {"data", "open", "close"} : Plain(k).kind = k /\ ~Plain(k).lit
        /\ toClient' # <<>>
    BY <1>0, <2>2 DEF Plain
  <2>4. CASE Len(toClient') = n + 1 /\ toClient'[n + 1] = Plain("data")
    <3>1. \A i \in n + 1..n + 1 : toClient'[i].kind # "junk"
      BY <1>0, <2>3, <2>4
    <3>2. ~Opens(toClient'[n + 1]) /\ ~Continues(toClient'[n + 1])
      BY <2>3, <2>4 DEF Opens, Continues
    <3>3. QED
      BY <1>0, <2>1, <2>2, <2>3, <2>4, <3>1, <3>2, BlocksExtended
  <2>5. CASE /\ Len(toClient') = n + 3
             /\ toClient'[n + 1] = Plain("open")
             /\ toClient'[n + 2].lit
             /\ toClient'[n + 3] = Plain("close")
    <3>1. \A i \in n + 1..n + 3 : toClient'[i].kind = "junk" => toClient'[i].lit
      <4>1. \A i \in n + 1..n + 3 : i = n + 1 \/ i = n + 2 \/ i = n + 3
        BY <1>0
      <4>2. QED
        BY <2>3, <2>5, <4>1
    <3>2. /\ Opens(toClient'[n + 1]) /\ ~Continues(toClient'[n + 1])
          /\ Continues(toClient'[n + 2]) /\ Opens(toClient'[n + 2])
          /\ Continues(toClient'[n + 3]) /\ ~Opens(toClient'[n + 3])
      BY <2>3, <2>5 DEF Opens, Continues
    <3>3. QED
      BY <1>0, <2>1, <2>2, <2>3, <2>5, <3>1, <3>2, BlocksExtended
  <2>6. QED
    BY <2>2, <2>4, <2>5
<1>8. CASE HangUp \/ UNCHANGED vars
  <2>1. UNCHANGED <<toClient, pending>>
    BY <1>8, Zenon DEF HangUp, vars, client, wire
  <2>2. QED
    BY <1>1, <2>1
<1>9. QED
  BY <1>2, <1>3, <1>4, <1>5, <1>6, <1>7, <1>8, Zenon DEF Next, Caller, Reader, Server

(* An I/O error is remembered.                                             *)
LEMMA FaultedForGood == faulted /\ [Next]_vars => faulted'
BY Zenon DEF Next, Caller, Reader, Server, RunCommand, RunCommandFails, SkipTag,
      ReadLine, ReadFails, ReadEof, Answer, Push, HangUp, vars, wire, history

(* The answer to the call in progress is the last thing in flight.         *)
LEMMA AnswerIsLast ==
  ASSUME DataOK, Served, toClient # <<>>, IsTagged(toClient[1]), toClient[1].id = call
  PROVE  /\ \A i \in 2..Len(toClient) : IsTagged(toClient[i]) => toClient[i].id > call
         /\ [id |-> call, status |-> toClient[1].status] \in answers
         /\ Outgoing = <<>>
<1>1. /\ [id |-> call, status |-> toClient[1].status] \in answers
      /\ \A i \in 2..Len(toClient) : IsTagged(toClient[i]) => toClient[1].id < toClient[i].id
  <2>1. 1 \in 1..Len(toClient) /\ \A i \in 2..Len(toClient) : i \in 1..Len(toClient) /\ 1 < i
    BY DEF DataOK
  <2>2. QED
    BY <2>1 DEF Served, HeardInOrder
<1>2. \A k \in 1..Len(Outgoing) : call < Outgoing[k].id /\ Outgoing[k].id \in 1..call
  <2>1. \A k \in 1..Len(Outgoing) : [id |-> call, status |-> toClient[1].status].id < Outgoing[k].id
    BY <1>1 DEF Served, TakenInOrder
  <2>2. QED
    BY <2>1 DEF Served, TakenInOrder
<1>3. Outgoing \in Seq(Command) /\ call \in Nat
  BY Bounds DEF DataOK, Outgoing
<1>4. ASSUME Outgoing # <<>> PROVE FALSE
  <2>1. 1 \in 1..Len(Outgoing)
    BY <1>3, <1>4
  <2>2. QED
    BY <1>2, <1>3, <2>1
<1>5. \A i \in 2..Len(toClient) : IsTagged(toClient[i]) => toClient[i].id > call
  <2>1. \A i \in 2..Len(toClient) : toClient[i] \in Line
    BY DEF DataOK
  <2>2. QED
    BY <1>1, <1>3, <2>1 DEF Line
<1>6. QED
  BY <1>1, <1>4, <1>5

(* Without I/O errors nothing but the current command is ever in flight.   *)
LEMMA InStepStep ==
  TypeOK /\ Served /\ (~broken => Blocks) /\ InStep /\ [Next]_vars => InStep'
<1> SUFFICES ASSUME TypeOK, Served, ~broken => Blocks, InStep, [Next]_vars, ~faulted'
             PROVE  ~broken' /\ ~rolledBack' /\ wbuf' = <<>> /\ OwnOnly'
  BY Zenon DEF InStep
<1> DEFINE n == Len(toClient)
<1>0. ~faulted /\ ~broken /\ ~rolledBack /\ wbuf = <<>> /\ OwnOnly /\ Blocks
  BY FaultedForGood, Zenon DEF InStep
<1>01. DataOK /\ n \in Nat
  BY TypeSplit DEF DataOK
<1>02. /\ \A i \in 1..n : IsTagged(toClient[i])
             => pc = "reading" /\ toClient[i].tag = tag /\ toClient[i].id = call
       /\ up => \A k \in 1..Len(toServer) :
                   pc = "reading" /\ toServer[k] = [tag |-> tag, id |-> call]
  BY <1>0 DEF OwnOnly
<1>03. OwnOnly' <=>
        /\ \A i \in 1..Len(toClient') : IsTagged(toClient'[i])
             => pc' = "reading" /\ toClient'[i].tag = tag' /\ toClient'[i].id = call'
        /\ up' => \A k \in 1..Len(toServer') :
                   pc' = "reading" /\ toServer'[k] = [tag |-> tag', id |-> call']
  BY DEF OwnOnly, IsTagged
<1>1. CASE RunCommand
  <2>1. ~broken' /\ ~rolledBack' /\ (up' => up)
    BY <1>0, <1>1, Zenon DEF RunCommand, TagReused
  <2>2. /\ pc = "ready" /\ UNCHANGED toClient /\ wbuf' = <<>>
        /\ toServer' = toServer \o Append(wbuf, NewCommand)
        /\ pc' = "reading" /\ tag' = NextTag /\ call' = call + 1
    BY <1>1 DEF RunCommand, CanIssue, Send
  <2>3. \A i \in 1..n : ~IsTagged(toClient[i])
    BY <1>02, <2>2
  <2>4. ASSUME up PROVE toServer' = <<NewCommand>>
    <3>1. toServer \in Seq(Command) /\ Len(toServer) = 0
      <4>1. \A k \in 1..Len(toServer) : FALSE
        BY <1>02, <2>2, <2>4
      <4>2. toServer \in Seq(Command)
        BY <1>01 DEF DataOK
      <4>3. QED
        BY <4>1, <4>2
    <3>2. toServer = <<>> /\ wbuf = <<>>
      BY <1>0, <3>1
    <3>3. Append(wbuf, NewCommand) = <<NewCommand>>
      BY <3>2
    <3>4. <<>> \o <<NewCommand>> = <<NewCommand>>
      OBVIOUS
    <3>5. QED
      BY <2>2, <3>2, <3>3, <3>4
  <2>5. ASSUME up' PROVE \A k \in 1..Len(toServer') : toServer'[k] = [tag |-> tag', id |-> call']
    <3>1. NewCommand = [tag |-> tag', id |-> call']
      BY <2>2 DEF NewCommand
    <3>2. Len(<<NewCommand>>) = 1 /\ <<NewCommand>>[1] = NewCommand
      OBVIOUS
    <3>3. \A k \in 1..1 : k = 1
      OBVIOUS
    <3>4. QED
      BY <2>1, <2>4, <2>5, <3>1, <3>2, <3>3, Zenon
  <2>6. QED
    BY <1>03, <2>1, <2>2, <2>3, <2>5
<1>2. CASE RunCommandFails \/ ReadFails
  BY <1>2, Zenon DEF RunCommandFails, ReadFails
<1>3. CASE SkipTag
  <2>1. ~broken' /\ ~rolledBack' /\ (up' => up)
    BY <1>0, <1>3, Zenon DEF SkipTag, wire
  <2>2. pc = "ready" /\ UNCHANGED <<toClient, toServer, wbuf>>
    BY <1>3 DEF SkipTag, wire
  <2>3. QED
    BY <1>0, <1>02, <1>03, <2>1, <2>2
<1>4. CASE ReadLine
  <2>1. ~broken' /\ ~rolledBack' /\ (up' => up)
    BY <1>0, <1>4, Zenon DEF ReadLine, history
  <2>2. /\ pc = "reading" /\ toClient # <<>> /\ toClient' = Tail(toClient)
        /\ UNCHANGED <<wbuf, toServer, tag, call>>
    BY <1>4 DEF ReadLine
  <2>3. /\ n >= 1 /\ Len(toClient') = n - 1
        /\ \A i \in 1..n - 1 : toClient'[i] = toClient[i + 1] /\ i + 1 \in 1..n /\ i + 1 \in 2..n
    BY <1>01, <2>2, LinesTaken
  <2>4. CASE UNCHANGED pc
    <3> HIDE DEF n
    <3>1. QED
      BY <1>0, <1>02, <1>03, <2>1, <2>2, <2>3, <2>4, ZenonT(30)
  <2>5. CASE IsTagged(toClient[1])
    <3>1. toClient[1].id = call /\ call \in Nat
      BY <1>01, <1>02, <2>3, <2>5, Bounds DEF DataOK
    <3>2. /\ \A i \in 2..n : IsTagged(toClient[i]) => toClient[i].id > call
          /\ Outgoing = <<>>
      BY <1>01, <2>2, <2>5, <3>1, AnswerIsLast
    <3>3. \A i \in 1..n - 1 : ~IsTagged(toClient'[i])
      <4>1. \A i \in 2..n : ~IsTagged(toClient[i])
        <5>1. \A i \in 2..n : i \in 1..n
          BY <1>01
        <5>2. QED
          BY <1>02, <3>1, <3>2, <5>1
      <4>2. QED
        BY <2>3, <4>1
    <3>4. toServer' = <<>>
      <4>1. toServer \in Seq(Command) /\ wbuf = <<>>
        BY <1>0, <1>01 DEF DataOK
      <4>2. toServer \o <<>> = toServer
        BY <4>1
      <4>3. QED
        BY <2>2, <3>2, <4>1, <4>2 DEF Outgoing
    <3>5. \A k \in 1..Len(toServer') : FALSE
      BY <3>4
    <3> HIDE DEF n
    <3>6. QED
      BY <1>0, <1>03, <2>1, <2>2, <2>3, <3>3, <3>5
  <2>6. QED
    BY <1>0, <1>01, <1>4, <2>4, <2>5, ReadInBlocks
<1>5. CASE ReadEof
  <2>1. ~broken' /\ ~rolledBack' /\ ~up'
    BY <1>0, <1>5, Zenon DEF ReadEof, history, wire
  <2>2. toClient' = <<>> /\ UNCHANGED wbuf
    BY <1>5 DEF ReadEof, wire
  <2>3. \A i \in 1..Len(toClient') : FALSE
    BY <2>2
  <2>4. QED
    BY <1>0, <1>03, <2>1, <2>2, <2>3
<1>6. CASE Answer
  <2>1. ~broken' /\ ~rolledBack' /\ up
    BY <1>0, <1>6, Zenon DEF Answer
  <2>2. /\ toServer \in Seq(Command) /\ toServer # <<>> /\ toServer' = Tail(toServer)
        /\ UNCHANGED <<wbuf, pc, tag, call>>
    BY <1>01, <1>6 DEF Answer, client, DataOK
  <2>3. /\ Head(toServer) = toServer[1] /\ 1 \in 1..Len(toServer)
        /\ Len(toServer') = Len(toServer) - 1
        /\ \A k \in 1..Len(toServer') : toServer'[k] = toServer[k + 1] /\ k + 1 \in 1..Len(toServer)
    BY <2>2, HeadTailProperties
  <2>4. pc = "reading" /\ Head(toServer) = [tag |-> tag, id |-> call]
    BY <1>02, <2>1, <2>3
  <2>5. PICK s \in Statuses : toClient' = Append(toClient, DoneLine(tag, s, call))
    BY <1>6, <2>4 DEF Answer
  <2> DEFINE line == DoneLine(tag, s, call)
  <2>6. line \in Line /\ line.tag = tag /\ line.id = call
    <3>1. tag \in Nat /\ call \in Nat
      BY <1>01, Bounds DEF DataOK
    <3>2. QED
      BY <3>1 DEF DoneLine, Line, LineKinds
  <2> HIDE DEF line
  <2>7. /\ Len(toClient') = n + 1
        /\ \A i \in 1..n : toClient'[i] = toClient[i]
        /\ toClient'[n + 1] = line
    BY <1>01, <2>5, <2>6, LineAdded DEF line
  <2> HIDE DEF n
  <2>8. \A i \in 1..n + 1 : i \in 1..n \/ i = n + 1
    BY <1>01
  <2>9. \A i \in 1..Len(toClient') : IsTagged(toClient'[i])
             => pc' = "reading" /\ toClient'[i].tag = tag' /\ toClient'[i].id = call'
    BY <1>02, <2>2, <2>4, <2>6, <2>7, <2>8
  <2>10. \A k \in 1..Len(toServer') :
             pc' = "reading" /\ toServer'[k] = [tag |-> tag', id |-> call']
    BY <1>02, <2>1, <2>2, <2>3
  <2>11. QED
    BY <1>0, <1>03, <2>1, <2>2, <2>9, <2>10
<1>7. CASE Push
  <2>1. ~broken' /\ ~rolledBack' /\ (up' => up)
    BY <1>0, <1>7, Zenon DEF Push, history
  <2>2. UNCHANGED <<wbuf, toServer, pc, tag, call>>
    BY <1>7 DEF Push, client
  <2>3. \A i \in 1..Len(toClient') :
            IsTagged(toClient'[i]) => i \in 1..n /\ toClient'[i] = toClient[i]
    BY <1>01, <1>7, PushedUntagged
  <2> HIDE DEF n
  <2>4. QED
    BY <1>0, <1>02, <1>03, <2>1, <2>2, <2>3
<1>8. CASE HangUp \/ UNCHANGED vars
  <2>1. ~broken' /\ ~rolledBack'
    <3>1. UNCHANGED <<broken, rolledBack>>
      BY <1>8, Zenon DEF HangUp, vars, history
    <3>2. QED
      BY <1>0, <3>1
  <2>2. up' => up
    <3>1. CASE HangUp
      BY <3>1, Zenon DEF HangUp
    <3>2. CASE UNCHANGED vars
      <4>1. UNCHANGED up
        BY <3>2, Zenon DEF vars, wire
      <4>2. QED
        BY <4>1
    <3>3. QED
      BY <1>8, <3>1, <3>2
  <2>3. UNCHANGED <<wbuf, toServer, toClient, pc, tag, call>>
    BY <1>8, Zenon DEF HangUp, vars, client, wire
  <2>4. QED
    BY <1>0, <1>02, <1>03, <2>1, <2>2, <2>3
<1>9. QED
  BY <1>1, <1>2, <1>3, <1>4, <1>5, <1>6, <1>7, <1>8, Zenon DEF Next, Caller, Reader, Server

(* No step takes a literal for a response then.                            *)
LEMMA LiteralStep ==
  TypeOK /\ (~broken => Blocks) /\ InStep /\ LiteralIsNoResponse /\ [Next]_vars
    => LiteralIsNoResponse'
<1> SUFFICES ASSUME TypeOK, ~broken => Blocks, InStep, LiteralIsNoResponse, [Next]_vars, ~faulted'
             PROVE  /\ ret'.outcome # "mismatch"
                    /\ ret'.outcome = "bye" => ret'.by = call'
  BY Zenon DEF LiteralIsNoResponse
<1>0. ~faulted /\ ~broken /\ OwnOnly /\ Blocks /\ DataOK
  BY FaultedForGood, TypeSplit, Zenon DEF InStep
<1>1. /\ ret.outcome # "mismatch"
      /\ ret.outcome = "bye" => ret.by = call
  BY <1>0, Zenon DEF LiteralIsNoResponse
<1>2. CASE RunCommand
  BY <1>2 DEF RunCommand
<1>3. CASE RunCommandFails \/ ReadFails
  BY <1>3, Zenon DEF RunCommandFails, ReadFails
<1>4. CASE ReadLine
  <2>1. toClient # <<>> /\ UNCHANGED call
    BY <1>4 DEF ReadLine
  <2>2. CASE UNCHANGED <<pc, ret>>
    BY <1>1, <2>1, <2>2
  <2>3. CASE /\ IsTagged(toClient[1])
             /\ ret'.by = toClient[1].id
             /\ IF toClient[1].tag = tag
                THEN ret'.outcome = Outcome(toClient[1].status)
                ELSE ret'.outcome = "mismatch"
    <3>1. 1 \in 1..Len(toClient) /\ toClient[1] \in Line
      BY <1>0, <2>1 DEF DataOK
    <3>2. toClient[1].tag = tag /\ toClient[1].id = call
      BY <1>0, <2>3, <3>1 DEF OwnOnly
    <3>3. toClient[1].status \in Statuses
      BY <3>1 DEF Line
    <3>4. Outcome(toClient[1].status) # "mismatch"
      BY <3>3 DEF Outcome, Statuses
    <3>5. QED
      BY <2>1, <2>3, <3>2, <3>4
  <2>4. QED
    BY <1>0, <1>4, <2>2, <2>3, ReadInBlocks
<1>5. CASE ReadEof
  BY <1>5 DEF ReadEof, Return
<1>6. CASE UNCHANGED <<call, ret>>
  BY <1>1, <1>6
<1>7. CASE SkipTag \/ Answer \/ Push \/ HangUp \/ UNCHANGED vars
  BY <1>6, <1>7, Zenon DEF SkipTag, Answer, Push, HangUp, vars
<1>8. QED
  BY <1>2, <1>3, <1>4, <1>5, <1>7, Zenon DEF Next, Caller, Reader, Server

(* The inductive invariant of a connection without I/O errors holds.       *)
THEOREM TidyHolds == Spec => []Tidy
<1>1. Init => Tidy
  <2> SUFFICES ASSUME Init PROVE Tidy
    OBVIOUS
  <2>1. ~pending /\ ~broken /\ ~rolledBack
    BY Zenon DEF Init
  <2>2. /\ toServer = <<>> /\ wbuf = <<>> /\ toClient = <<>>
        /\ ret = [outcome |-> "none", by |-> 0]
    BY DEF Init
  <2>3. Len(toServer) = 0 /\ Len(toClient) = 0
    BY <2>2
  <2>4. Blocks
    <3>1. \A i \in 1..Len(toClient) : FALSE
      BY <2>3
    <3>2. \A i \in 2..Len(toClient) : FALSE
      BY <2>3
    <3>3. QED
      BY <2>1, <2>2, <3>1, <3>2, Zenon DEF Blocks
  <2>5. OwnOnly
    BY <2>3 DEF OwnOnly
  <2>6. LiteralIsNoResponse
    BY <2>2 DEF LiteralIsNoResponse
  <2>7. QED
    BY <2>1, <2>2, <2>4, <2>5, <2>6 DEF Tidy, InStep
<1>2. TypeOK /\ Served /\ Matching /\ Tidy /\ [Next]_vars => Tidy'
  <2> SUFFICES ASSUME TypeOK, Served, Matching, Tidy, [Next]_vars PROVE Tidy'
    OBVIOUS
  <2>1. ~broken' => Blocks'
    <3>1. SUFFICES ASSUME ~broken' PROVE Blocks'
      OBVIOUS
    <3>2. Blocks /\ (pc = "ready" => ~pending)
      BY <3>1, BrokenForGood, Zenon DEF Tidy, Matching
    <3>3. QED
      BY <3>1, <3>2, BlocksStep
  <2>2. InStep'
    BY InStepStep DEF Tidy
  <2>3. LiteralIsNoResponse'
    BY LiteralStep DEF Tidy
  <2>4. QED
    BY <2>1, <2>2, <2>3 DEF Tidy
<1>3. QED
  BY <1>1, <1>2, TypeCorrect, ServedHolds, MatchingHolds, PTL DEF Spec

(* As long as no call has met an I/O error, a call that has returned has   *)
(* left nothing behind: the write buffer is empty, the server has answered *)
(* every command, and every answer was read.                               *)
THEOREM NothingLeftBehind == Spec => []LeavesNothingBehind
<1>1. TypeOK /\ Tidy => LeavesNothingBehind
  <2> SUFFICES ASSUME TypeOK, Tidy, pc = "ready", up, ~faulted PROVE Unanswered = 0
    BY Zenon DEF LeavesNothingBehind
  <2>1. DataOK /\ wbuf = <<>> /\ OwnOnly
    BY TypeSplit, Zenon DEF Tidy, InStep
  <2>2. \A k \in 1..Len(toServer) : FALSE
    BY <2>1 DEF OwnOnly
  <2>3. Len(toServer) = 0 /\ Len(wbuf) = 0
    <3>1. Len(toServer) \in Nat
      BY <2>1 DEF DataOK
    <3>2. QED
      BY <2>1, <2>2, <3>1
  <2>4. {i \in DOMAIN toClient : IsTagged(toClient[i])} = {}
    <3>1. DOMAIN toClient = 1..Len(toClient)
      BY <2>1 DEF DataOK
    <3>2. QED
      BY <2>1, <3>1 DEF OwnOnly
  <2>5. QED
    BY <2>3, <2>4, FS_EmptySet DEF Unanswered
<1>2. QED
  BY <1>1, TypeCorrect, TidyHolds, PTL

(* ... and no text inside a literal is taken for a response: a call then   *)
(* returns neither a mismatch nor a Bye the server never sent.             *)
THEOREM LiteralsAreNoResponses == Spec => []LiteralIsNoResponse
<1>1. Tidy => LiteralIsNoResponse
  BY DEF Tidy
<1>2. QED
  BY <1>1, TidyHolds, PTL

-----------------------------------------------------------------------------
(* The connection implements CommandChannel.                               *)

(* A matching tagged line is the server's answer to the call in progress.  *)
LEMMA MatchIsAnswer ==
  ASSUME DataOK, Served, Framed, TagsMatch, pc = "reading", toClient # <<>>,
         ParseResponse(pending, Head(toClient)) = "done", TagMatches(Head(toClient))
  PROVE  /\ Head(toClient).id = call
         /\ [id |-> call, status |-> Head(toClient).status] \in answers
<1> DEFINE line == Head(toClient)
<1>1. toClient \in Seq(Line) /\ line = toClient[1] /\ 1 \in 1..Len(toClient)
  BY DEF DataOK
<1>2. ~pending /\ line.kind = "done"
  BY DEF ParseResponse
<1>3. IsTagged(line)
  BY <1>1, <1>2 DEF Framed, IsTagged
<1>4. line \in Range(toClient)
  BY <1>1, RangeHeadTail
<1>5. [tag |-> line.tag, id |-> line.id] \in InFlight
  BY <1>3, <1>4 DEF InFlight, Answered
<1>6. line.id = call
  BY <1>5 DEF TagsMatch, TagMatches
<1>7. [id |-> line.id, status |-> line.status] \in answers
  BY <1>1, <1>3 DEF Served, HeardInOrder
<1>8. QED
  BY <1>6, <1>7

(* A step of the connection is a step of the channel, or none.             *)
LEMMA ChannelStep ==
  TypeOK /\ Served /\ Matching /\ [Next]_vars => [Channel!Next]_(Channel!chVars)
<1> SUFFICES ASSUME TypeOK, Served, Matching, [Next]_vars
             PROVE  Channel!Next \/ UNCHANGED Channel!chVars
  OBVIOUS
<1>0. DataOK /\ call \in Nat /\ (~broken => Framed /\ TagsMatch)
  BY TypeSplit, Bounds DEF DataOK, Matching
<1>1. CASE RunCommand
  <2>1. Channel!Distrust
    BY <1>1, Zenon DEF RunCommand, TagReused, Channel!Distrust
  <2>2. Channel!Issue
    BY <1>1, <2>1 DEF RunCommand, CanIssue, Channel!Issue
  <2>3. QED
    BY <2>2 DEF Channel!Next
<1>2. CASE RunCommandFails
  <2>1. Channel!Distrust
    BY <1>2, Zenon DEF RunCommandFails, TagReused, Channel!Distrust
  <2>2. Channel!Refuse
    BY <1>2, <2>1 DEF RunCommandFails, CanIssue, Return, Channel!Refuse
  <2>3. QED
    BY <2>2 DEF Channel!Next
<1>3. CASE UNCHANGED <<pc, ret, call, answers, broken>>
  BY <1>3 DEF Channel!chVars
<1>4. CASE ReadLine
  <2> DEFINE line == Head(toClient)
             parsed == ParseResponse(pending, line)
  <2>1. /\ pc = "reading" /\ toClient # <<>> /\ OnLine(line)
        /\ UNCHANGED <<call, answers>>
    BY <1>4 DEF ReadLine, history
  <2>2. UNCHANGED broken
    BY <1>4, Zenon DEF ReadLine, history
  <2>3. CASE parsed \in {"data", "incomplete"}
    BY <1>3, <2>1, <2>2, <2>3 DEF OnLine
  <2>4. CASE broken /\ parsed \notin {"data", "incomplete"}
    <3>1. pc' = "ready"
      BY <2>1, <2>4 DEF OnLine, Return
    <3>2. Channel!Misread
      BY <2>1, <2>2, <2>4, <3>1 DEF Channel!Misread
    <3>3. QED
      BY <3>2 DEF Channel!Next
  <2>5. CASE parsed = "done" /\ ~TagMatches(line)
    <3>1. pc' = "ready" /\ ret'.outcome = "mismatch"
      BY <2>1, <2>5 DEF OnLine, Return
    <3>2. Channel!GiveUp
      BY <2>1, <2>2, <3>1 DEF Channel!GiveUp, Channel!Distrust
    <3>3. QED
      BY <3>2 DEF Channel!Next
  <2>6. CASE ~broken /\ parsed = "done" /\ TagMatches(line)
    <3>1. pc' = "ready" /\ ret' = [outcome |-> Outcome(line.status), by |-> line.id]
      BY <2>1, <2>6 DEF OnLine, Return
    <3>2. line.id = call /\ [id |-> call, status |-> line.status] \in answers
      BY <1>0, <2>1, <2>6, MatchIsAnswer
    <3> DEFINE a == [id |-> call, status |-> line.status]
    <3>3. a.id = call /\ a.status = line.status
      OBVIOUS
    <3>4. ret' = [outcome |-> IF a.status = "preauth" THEN "invalid" ELSE a.status, by |-> call]
      BY <3>1, <3>2, <3>3 DEF Outcome
    <3> HIDE DEF a
    <3>5. Channel!Reply
      <4>1. a \in answers
        BY <3>2 DEF a
      <4>2. QED
        BY <2>1, <2>2, <3>1, <3>3, <3>4, <4>1 DEF Channel!Reply
    <3>6. QED
      BY <3>5 DEF Channel!Next
  <2>7. CASE parsed = "invalid"
    <3>1. pc' = "ready" /\ ret' = [outcome |-> "bye", by |-> 0]
      BY <2>1, <2>7 DEF OnLine, Return
    <3>2. Channel!GiveUp
      BY <2>1, <2>2, <3>1 DEF Channel!GiveUp, Channel!Distrust
    <3>3. QED
      BY <3>2 DEF Channel!Next
  <2>8. QED
    BY <2>1, <2>3, <2>4, <2>5, <2>6, <2>7 DEF OnLine
<1>5. CASE ReadFails
  <2>1. Channel!Distrust
    BY <1>5, Zenon DEF ReadFails, DropInput, Channel!Distrust
  <2>2. Channel!GiveUp
    BY <1>5, <2>1 DEF ReadFails, Return, Channel!GiveUp
  <2>3. QED
    BY <2>2 DEF Channel!Next
<1>6. CASE ReadEof
  <2>1. Channel!Distrust
    BY <1>6, Zenon DEF ReadEof, history, Channel!Distrust
  <2>2. Channel!GiveUp
    BY <1>6, <2>1 DEF ReadEof, Return, history, Channel!GiveUp
  <2>3. QED
    BY <2>2 DEF Channel!Next
<1>7. CASE Answer
  <2> DEFINE c == Head(toServer)
  <2>1. /\ toServer # <<>> /\ toServer' = Tail(toServer) /\ UNCHANGED <<wbuf, pc, call, ret>>
    BY <1>7 DEF Answer, client
  <2>2. UNCHANGED broken
    BY <1>7, Zenon DEF Answer
  <2>3. c = Outgoing[1] /\ 1 \in 1..Len(Outgoing)
    BY <1>0, <2>1, OutgoingTaken
  <2>4. c.id \in 1..call /\ \A a \in answers : a.id # c.id
    <3>1. c.id \in 1..call /\ \A a \in answers : a.id \in 1..call /\ a.id < c.id
      BY <2>3 DEF Served, TakenInOrder
    <3>2. QED
      BY <1>0, <3>1
  <2>5. PICK s \in Statuses : answers' = answers \cup {[id |-> c.id, status |-> s]}
    BY <1>7 DEF Answer
  <2>6. Channel!Answer
    BY <2>1, <2>2, <2>4, <2>5 DEF Channel!Answer, Channel!Statuses, Statuses
  <2>7. QED
    BY <2>6 DEF Channel!Next
<1>8. CASE SkipTag \/ Push \/ HangUp \/ UNCHANGED vars
  <2>1. UNCHANGED <<pc, ret, call, answers, broken>>
    BY <1>8, Zenon DEF SkipTag, Push, HangUp, vars, client, history
  <2>2. QED
    BY <1>3, <2>1
<1>9. QED
  BY <1>1, <1>2, <1>4, <1>5, <1>6, <1>7, <1>8, Zenon DEF Next, Caller, Reader, Server

(* The connection keeps the promise Session relies on: one command at a    *)
(* time, and a status that comes from the server's own answer to it.       *)
THEOREM ImplementsChannel == Spec => ChannelSpec
<1>1. Init => Channel!Init
  <2> SUFFICES ASSUME Init PROVE Channel!Init
    OBVIOUS
  <2>1. ~broken
    BY Zenon DEF Init
  <2>2. /\ call = 0 /\ pc # "reading" /\ answers = {}
        /\ ret = [outcome |-> "none", by |-> 0]
    BY DEF Init
  <2>3. QED
    BY <2>1, <2>2 DEF Channel!Init
<1>2. QED
  BY <1>1, ChannelStep, TypeCorrect, ServedHolds, MatchingHolds, PTL
  DEF Spec, ChannelSpec, Channel!Spec

-----------------------------------------------------------------------------
(* A connection that fell behind.                                          *)

(* Where the tagged lines among some lines are. *)
TaggedAt(lines) == {i \in DOMAIN lines : IsTagged(lines[i])}

(* There are finitely many.                                                *)
LEMMA TaggedFinite ==
  ASSUME NEW lines \in Seq(Line)
  PROVE  /\ IsFiniteSet(TaggedAt(lines))
         /\ Cardinality(TaggedAt(lines)) \in Nat
         /\ DOMAIN lines = 1..Len(lines)
<1>1. DOMAIN lines = 1..Len(lines) /\ Len(lines) \in Nat
  OBVIOUS
<1>2. IsFiniteSet(1..Len(lines))
  BY <1>1, FS_Interval
<1>3. TaggedAt(lines) \in SUBSET (1..Len(lines))
  BY <1>1 DEF TaggedAt
<1>4. IsFiniteSet(TaggedAt(lines))
  BY <1>2, <1>3, FS_Subset
<1>5. QED
  BY <1>1, <1>4, FS_CardinalityType

(* Taking the first line takes it from those counted if it is tagged.      *)
LEMMA TaggedTail ==
  ASSUME NEW lines \in Seq(Line), lines # <<>>
  PROVE  Cardinality(TaggedAt(Tail(lines)))
           = Cardinality(TaggedAt(lines)) - (IF IsTagged(lines[1]) THEN 1 ELSE 0)
<1> DEFINE S == TaggedAt(lines)
           R == S \ {1}
           T == TaggedAt(Tail(lines))
           f == [i \in R |-> i - 1]
<1>1. /\ Tail(lines) \in Seq(Line) /\ Len(lines) \in Nat /\ Len(lines) >= 1
      /\ Len(Tail(lines)) = Len(lines) - 1
      /\ \A i \in 1..Len(lines) - 1 : Tail(lines)[i] = lines[i + 1]
  BY HeadTailProperties
<1>2. /\ \A i : i \in S <=> i \in 1..Len(lines) /\ IsTagged(lines[i])
      /\ \A i : i \in T <=> i \in 1..Len(lines) - 1 /\ IsTagged(lines[i + 1])
  <2>1. DOMAIN lines = 1..Len(lines) /\ DOMAIN Tail(lines) = 1..Len(lines) - 1
    BY <1>1
  <2>2. QED
    BY <1>1, <2>1 DEF TaggedAt
<1>3. IsFiniteSet(S) /\ Cardinality(S) \in Nat /\ IsFiniteSet(T)
  BY <1>1, TaggedFinite
<1> HIDE DEF S, T
<1>4. /\ IsFiniteSet(R)
      /\ Cardinality(R) = IF 1 \in S THEN Cardinality(S) - 1 ELSE Cardinality(S)
  BY <1>3, FS_RemoveElement
<1>5. \A i \in R : i \in Nat /\ i - 1 \in T
  <2> TAKE i \in R
  <2>1. i \in 2..Len(lines) /\ IsTagged(lines[i])
    BY <1>1, <1>2
  <2>2. i - 1 \in 1..Len(lines) - 1 /\ (i - 1) + 1 = i /\ i \in Nat
    BY <1>1, <2>1
  <2>3. QED
    BY <1>2, <2>1, <2>2
<1>6. \A j \in T : j \in Nat /\ j + 1 \in R /\ (j + 1) - 1 = j
  BY <1>1, <1>2
<1> HIDE DEF R
<1>7. f \in Bijection(R, T)
  <2>1. f \in [R -> T]
    BY <1>5
  <2>2. \A i, j \in R : f[i] = f[j] => i = j
    BY <1>5
  <2>3. \A j \in T : \E i \in R : f[i] = j
    BY <1>6
  <2> HIDE DEF f
  <2>4. QED
    BY <2>1, <2>2, <2>3, Fun_IsBij
<1>8. Cardinality(T) = Cardinality(R)
  BY <1>4, <1>7, FS_Bijection, Fun_ExistsBij
<1>9. 1 \in S <=> IsTagged(lines[1])
  BY <1>1, <1>2
<1>10. QED
  BY <1>3, <1>4, <1>8, <1>9 DEF S, T

(* Appending a tagged line adds one.                                       *)
LEMMA TaggedAppend ==
  ASSUME NEW lines \in Seq(Line), NEW line \in Line, IsTagged(line)
  PROVE  Cardinality(TaggedAt(Append(lines, line))) = Cardinality(TaggedAt(lines)) + 1
<1> DEFINE n == Len(lines)
           S == TaggedAt(lines)
           T == TaggedAt(Append(lines, line))
<1>1. /\ n \in Nat /\ Append(lines, line) \in Seq(Line) /\ Len(Append(lines, line)) = n + 1
      /\ \A i \in 1..n : Append(lines, line)[i] = lines[i]
      /\ Append(lines, line)[n + 1] = line
  BY AppendProperties
<1>2. /\ IsFiniteSet(S) /\ DOMAIN lines = 1..n
      /\ DOMAIN Append(lines, line) = 1..n + 1
  BY <1>1, TaggedFinite
<1>3. T = S \cup {n + 1} /\ n + 1 \notin S
  BY <1>1, <1>2 DEF TaggedAt
<1> HIDE DEF S, T
<1>4. QED
  BY <1>2, <1>3, FS_AddElement DEF S, T

(* Commands on their way, and answers unread.                              *)
LEMMA UnansweredIs ==
  ASSUME DataOK
  PROVE  /\ Len(Outgoing) \in Nat
         /\ Cardinality(TaggedAt(toClient)) \in Nat
         /\ Unanswered = Len(Outgoing) + Cardinality(TaggedAt(toClient))
<1>1. /\ toServer \in Seq(Command) /\ wbuf \in Seq(Command) /\ toClient \in Seq(Line)
  BY DEF DataOK
<1>2. /\ Len(Outgoing) = Len(toServer) + Len(wbuf)
      /\ Len(toServer) \in Nat /\ Len(wbuf) \in Nat
  BY <1>1 DEF Outgoing
<1>3. Cardinality(TaggedAt(toClient)) \in Nat
  BY <1>1, TaggedFinite
<1>4. Unanswered = Len(wbuf) + Len(toServer) + Cardinality(TaggedAt(toClient))
  BY DEF Unanswered, TaggedAt
<1>5. QED
  BY <1>2, <1>3, <1>4

(* The same of the next state.                                             *)
LEMMA UnansweredWillBe ==
  ASSUME DataOK'
  PROVE  /\ Len(Outgoing') \in Nat
         /\ Cardinality(TaggedAt(toClient')) \in Nat
         /\ Unanswered' = Len(Outgoing') + Cardinality(TaggedAt(toClient'))
<1>1. /\ toServer' \in Seq(Command) /\ wbuf' \in Seq(Command) /\ toClient' \in Seq(Line)
  BY DEF DataOK
<1>2. /\ Len(Outgoing') = Len(toServer') + Len(wbuf')
      /\ Len(toServer') \in Nat /\ Len(wbuf') \in Nat
  BY <1>1 DEF Outgoing
<1>3. Cardinality(TaggedAt(toClient')) \in Nat
  BY <1>1, TaggedFinite
<1>4. Unanswered' = Len(wbuf') + Len(toServer') + Cardinality(TaggedAt(toClient'))
  BY DEF Unanswered, TaggedAt, IsTagged
<1>5. QED
  BY <1>2, <1>3, <1>4

(* How a step changes what is unanswered: the caller adds a command, the   *)
(* reader takes an answer, and nothing else makes a difference.            *)
LEMMA UnansweredStep ==
  ASSUME DataOK, DataOK'
  PROVE  /\ RunCommand \/ RunCommandFails => Unanswered' = Unanswered + 1
         /\ ReadLine => Unanswered' = Unanswered - (IF IsTagged(toClient[1]) THEN 1 ELSE 0)
         /\ UNCHANGED <<toServer, wbuf, toClient>> => Unanswered' = Unanswered
         /\ Answer \/ Push => Unanswered' = Unanswered
<1> DEFINE count    == Cardinality(TaggedAt(toClient))
           countNow == Cardinality(TaggedAt(toClient'))
<1>0. /\ Len(Outgoing) \in Nat /\ count \in Nat
      /\ Unanswered = Len(Outgoing) + count
      /\ Len(Outgoing') \in Nat /\ countNow \in Nat
      /\ Unanswered' = Len(Outgoing') + countNow
  BY UnansweredIs, UnansweredWillBe
<1>1. ASSUME RunCommand \/ RunCommandFails PROVE Unanswered' = Unanswered + 1
  <2>1. /\ Outgoing \in Seq(Command) /\ NewCommand \in Command
        /\ Outgoing' = Append(Outgoing, NewCommand)
    BY <1>1, OutgoingIssued
  <2>2. Len(Outgoing') = Len(Outgoing) + 1
    BY <2>1, AppendProperties
  <2>3. toClient' = toClient
    BY <1>1, Zenon DEF RunCommand, RunCommandFails
  <2>4. countNow = count
    BY <2>3
  <2> HIDE DEF count, countNow
  <2>5. QED
    BY <1>0, <2>2, <2>4
<1>2. ASSUME ReadLine
      PROVE  Unanswered' = Unanswered - (IF IsTagged(toClient[1]) THEN 1 ELSE 0)
  <2>1. /\ toClient \in Seq(Line) /\ toClient # <<>> /\ toClient' = Tail(toClient)
        /\ UNCHANGED <<toServer, wbuf>>
    BY <1>2 DEF ReadLine, DataOK
  <2>2. countNow = count - (IF IsTagged(toClient[1]) THEN 1 ELSE 0)
    BY <2>1, TaggedTail
  <2>3. Outgoing' = Outgoing
    BY <2>1 DEF Outgoing
  <2> HIDE DEF count, countNow
  <2>4. QED
    BY <1>0, <2>2, <2>3
<1>3. ASSUME UNCHANGED <<toServer, wbuf, toClient>> PROVE Unanswered' = Unanswered
  BY <1>3 DEF Unanswered, IsTagged
<1>4. ASSUME Answer PROVE Unanswered' = Unanswered
  <2> DEFINE c == Head(toServer)
  <2>1. /\ toServer \in Seq(Command) /\ toServer # <<>> /\ toServer' = Tail(toServer)
        /\ UNCHANGED wbuf /\ toClient \in Seq(Line) /\ c \in Command
    BY <1>4 DEF Answer, client, DataOK
  <2>2. PICK s \in Statuses : toClient' = Append(toClient, DoneLine(c.tag, s, c.id))
    BY <1>4 DEF Answer
  <2> DEFINE line == DoneLine(c.tag, s, c.id)
  <2>3. line \in Line /\ IsTagged(line)
    BY <2>1 DEF DoneLine, Line, LineKinds, Command, IsTagged
  <2> HIDE DEF line
  <2>4. countNow = count + 1
    BY <2>1, <2>2, <2>3, TaggedAppend DEF line
  <2>5. Len(Outgoing') = Len(Outgoing) - 1
    <3>1. Outgoing \in Seq(Command) /\ Outgoing # <<>> /\ Outgoing' = Tail(Outgoing)
      BY <2>1, OutgoingTaken
    <3>2. QED
      BY <3>1, HeadTailProperties
  <2> HIDE DEF count, countNow
  <2>6. QED
    BY <1>0, <2>4, <2>5
<1>5. ASSUME Push PROVE Unanswered' = Unanswered
  <2>1. UNCHANGED <<toServer, wbuf>> /\ toClient \in Seq(Line) /\ toClient' \in Seq(Line)
    BY <1>5 DEF Push, client, DataOK
  <2>2. TaggedAt(toClient') = TaggedAt(toClient)
    <3>1. DOMAIN toClient = 1..Len(toClient) /\ DOMAIN toClient' = 1..Len(toClient')
      BY <2>1
    <3>2. \A i \in 1..Len(toClient) : i \in 1..Len(toClient') /\ toClient'[i] = toClient[i]
      <4>1. /\ Len(toClient) \in Nat /\ \A i \in 1..Len(toClient) : toClient'[i] = toClient[i]
            /\ Len(toClient') = Len(toClient) + 1 \/ Len(toClient') = Len(toClient) + 3
        BY <1>5, LinesPushed
      <4>2. QED
        BY <4>1
    <3>3. \A i \in 1..Len(toClient') :
             IsTagged(toClient'[i]) => i \in 1..Len(toClient) /\ toClient'[i] = toClient[i]
      BY <1>5, PushedUntagged
    <3>4. QED
      BY <3>1, <3>2, <3>3 DEF TaggedAt
  <2>3. Outgoing' = Outgoing
    BY <2>1 DEF Outgoing
  <2>4. QED
    BY <1>0, <2>2, <2>3
<1>6. QED
  BY <1>1, <1>2, <1>3, <1>4, <1>5

(* When the answer to the call in progress is read, no other is to come.   *)
LEMMA LastAnswer ==
  ASSUME DataOK, Served, toClient # <<>>, IsTagged(toClient[1]), toClient[1].id = call
  PROVE  Unanswered = 1
<1>1. Outgoing = <<>> /\ \A i \in 2..Len(toClient) : IsTagged(toClient[i]) => toClient[i].id > call
  BY AnswerIsLast
<1>2. \A i \in 1..Len(toClient) : IsTagged(toClient[i]) => toClient[i].id \in 1..call
  <2>1. ASSUME NEW i \in 1..Len(toClient), IsTagged(toClient[i]) PROVE toClient[i].id \in 1..call
    <3>1. [id |-> toClient[i].id, status |-> toClient[i].status] \in answers
      BY <2>1 DEF Served, HeardInOrder
    <3>2. [id |-> toClient[i].id, status |-> toClient[i].status].id \in 1..call
      BY <3>1 DEF Served, TakenInOrder
    <3>3. QED
      BY <3>2
  <2>2. QED
    BY <2>1
<1>3. toClient \in Seq(Line) /\ call \in Nat
  BY Bounds DEF DataOK
<1>4. TaggedAt(toClient) = {1}
  <2>1. DOMAIN toClient = 1..Len(toClient) /\ 1 \in 1..Len(toClient)
    BY <1>3
  <2>2. \A i \in 1..Len(toClient) : i = 1 \/ i \in 2..Len(toClient)
    BY <1>3
  <2>3. \A i \in 2..Len(toClient) : i \in 1..Len(toClient)
    BY <1>3
  <2>4. \A i \in 2..Len(toClient) : ~IsTagged(toClient[i])
    BY <1>1, <1>2, <1>3, <2>3
  <2>5. QED
    BY <2>1, <2>2, <2>4 DEF TaggedAt
<1>5. Cardinality(TaggedAt(toClient)) = 1
  BY <1>4, FS_Singleton
<1>6. Len(Outgoing) = 0
  BY <1>1
<1>7. QED
  BY <1>5, <1>6, UnansweredIs

(* A step changes neither, or returns no reply and catches up with nothing, *)
(* or returns the reply of a connection that was never behind.             *)
LEMMA BehindStep ==
  ASSUME TypeOK, TypeOK', Served, Matching, Tidy, [Next]_vars, ~broken'
  PROVE  \/ (Behind' <=> Behind) /\ UNCHANGED ret
         \/ (Behind => Behind') /\ ~Replied'
         \/ ~Behind /\ ~Behind'
<1>0. /\ DataOK /\ DataOK' /\ ~broken /\ Framed /\ TagsMatch /\ Blocks
      /\ Unanswered \in Nat
  <2>1. ~broken
    BY BrokenForGood
  <2>2. DataOK /\ DataOK'
    BY TypeSplit, Zenon DEF TypeOK, DataOK
  <2>3. Unanswered \in Nat
    BY <2>2, UnansweredIs
  <2>4. QED
    BY <2>1, <2>2, <2>3 DEF Matching, Tidy
<1>1. /\ Behind <=> Unanswered > IF pc = "reading" THEN 1 ELSE 0
      /\ Behind' <=> Unanswered' > IF pc' = "reading" THEN 1 ELSE 0
  BY DEF Behind
<1>2. \A outcome \in {"none", "io", "lost", "mismatch"} :
         ret'.outcome = outcome => ~Replied'
  BY DEF Replied, Statuses
<1>3. CASE RunCommand
  <2>1. Unanswered' = Unanswered + 1
    BY <1>0, <1>3, UnansweredStep
  <2>2. pc = "ready" /\ pc' = "reading" /\ ret'.outcome = "none"
    BY <1>3 DEF RunCommand, CanIssue
  <2>3. QED
    BY <1>0, <1>1, <1>2, <2>1, <2>2
<1>4. CASE RunCommandFails
  <2>1. Unanswered' = Unanswered + 1
    BY <1>0, <1>4, UnansweredStep
  <2>2. pc = "ready" /\ pc' = "ready" /\ ret'.outcome = "io"
    BY <1>4 DEF RunCommandFails, CanIssue, Return
  <2>3. QED
    BY <1>0, <1>1, <1>2, <2>1, <2>2
<1>5. CASE ReadLine
  <2>1. Unanswered' = Unanswered - (IF IsTagged(toClient[1]) THEN 1 ELSE 0)
    BY <1>0, <1>5, UnansweredStep
  <2>2. pc = "reading" /\ toClient # <<>>
    BY <1>5 DEF ReadLine
  <2>3. CASE UNCHANGED <<pc, ret>> /\ ~IsTagged(toClient[1])
    BY <1>0, <1>1, <2>1, <2>3
  <2>4. CASE IsTagged(toClient[1]) /\ pc' = "ready" /\ toClient[1].tag # tag
             /\ ret'.outcome = "mismatch"
    <3>1. Unanswered' = Unanswered - 1
      BY <2>1, <2>4
    <3>2. QED
      BY <1>0, <1>1, <1>2, <2>2, <2>4, <3>1
  <2>5. CASE IsTagged(toClient[1]) /\ pc' = "ready" /\ toClient[1].tag = tag
    <3>1. toClient[1] \in Range(toClient)
      BY <1>0, <2>2, RangeHeadTail DEF DataOK
    <3>2. [tag |-> toClient[1].tag, id |-> toClient[1].id] \in InFlight
      BY <2>5, <3>1 DEF InFlight, Answered
    <3>3. toClient[1].id = call
      BY <1>0, <2>2, <2>5, <3>2 DEF TagsMatch
    <3>4. Unanswered = 1
      BY <1>0, <2>2, <2>5, <3>3, LastAnswer
    <3>5. Unanswered' = 0
      BY <2>1, <2>5, <3>4
    <3>6. QED
      BY <1>1, <2>2, <2>5, <3>4, <3>5
  <2>6. QED
    BY <1>0, <1>5, <2>3, <2>4, <2>5, ReadInBlocks
<1>6. CASE ReadFails
  <2>1. UNCHANGED toClient
    BY <1>6, Zenon DEF ReadFails, DropInput
  <2>2. /\ pc = "reading" /\ pc' = "ready" /\ ret'.outcome = "io"
        /\ UNCHANGED <<toServer, wbuf>>
    BY <1>6 DEF ReadFails, Return
  <2>3. Unanswered' = Unanswered
    BY <1>0, <2>1, <2>2, UnansweredStep
  <2>4. QED
    BY <1>0, <1>1, <1>2, <2>2, <2>3
<1>7. CASE ReadEof
  <2>1. /\ pc = "reading" /\ pc' = "ready" /\ ret'.outcome = "lost"
        /\ UNCHANGED <<toServer, wbuf, toClient>>
    BY <1>7 DEF ReadEof, Return, wire
  <2>2. Unanswered' = Unanswered
    BY <1>0, <2>1, UnansweredStep
  <2>3. QED
    BY <1>0, <1>1, <1>2, <2>1, <2>2
<1>8. CASE SkipTag \/ Answer \/ Push \/ HangUp \/ UNCHANGED vars
  <2>1. UNCHANGED <<pc, ret>>
    BY <1>8, Zenon DEF SkipTag, Answer, Push, HangUp, vars, client
  <2>2. Unanswered' = Unanswered
    <3>1. CASE Answer \/ Push
      BY <1>0, <3>1, UnansweredStep
    <3>2. CASE SkipTag \/ HangUp \/ UNCHANGED vars
      <4>1. UNCHANGED <<toServer, wbuf, toClient>>
        BY <3>2, Zenon DEF SkipTag, HangUp, vars, client, wire
      <4>2. QED
        BY <1>0, <4>1, UnansweredStep
    <3>3. QED
      BY <1>8, <3>1, <3>2
  <2>3. QED
    BY <1>1, <2>1, <2>2
<1>9. QED
  BY <1>3, <1>4, <1>5, <1>6, <1>7, <1>8, Zenon DEF Next, Caller, Reader, Server

(* A connection that is behind has not just returned a reply. *)
Late == ~broken => (Behind => ~Replied)

(* It holds of a new connection and after every step.                      *)
LEMMA LateHolds == Spec => []Late
<1>1. Init => Late
  <2>1. Init => ret.by = 0
    BY DEF Init
  <2>2. QED
    BY <2>1 DEF Late, Replied
<1>2. ASSUME TypeOK, TypeOK', Served, Matching, Tidy, Late, [Next]_vars PROVE Late'
  <2>1. SUFFICES ASSUME ~broken' PROVE Behind' => ~Replied'
    BY Zenon DEF Late
  <2>2. Behind => ~Replied
    BY <1>2, <2>1, BrokenForGood DEF Late
  <2>3. CASE (Behind' <=> Behind) /\ UNCHANGED ret
    <3>1. Replied' <=> Replied
      BY <2>3 DEF Replied
    <3>2. QED
      BY <2>2, <2>3, <3>1
  <2>4. QED
    BY <1>2, <2>1, <2>3, BehindStep
<1>3. QED
  BY <1>1, <1>2, TypeCorrect, ServedHolds, MatchingHolds, TidyHolds, PTL DEF Spec

(* Whatever the caller does, skip_tag included, a connection that fell     *)
(* behind stays behind, and no later call returns a reply.                 *)
THEOREM NeverCatchesUp == Spec => BehindForGood
<1>1. ASSUME TypeOK, TypeOK', Served, Matching, Tidy, Late, [Next]_vars
      PROVE  [Behind /\ ~broken' => Behind' /\ ~Replied']_vars
  <2>1. SUFFICES ASSUME Behind, ~broken' PROVE Behind' /\ ~Replied'
    OBVIOUS
  <2>2. ~Replied
    BY <1>1, <2>1, BrokenForGood DEF Late
  <2>3. CASE (Behind' <=> Behind) /\ UNCHANGED ret
    <3>1. Replied' <=> Replied
      BY <2>3 DEF Replied
    <3>2. QED
      BY <2>1, <2>2, <2>3, <3>1
  <2>4. QED
    BY <1>1, <2>1, <2>3, BehindStep
<1>2. QED
  BY <1>1, TypeCorrect, ServedHolds, MatchingHolds, TidyHolds, LateHolds, PTL
  DEF Spec, BehindForGood

-----------------------------------------------------------------------------
(* What the server may do with the line it receives, in all of them: send  *)
(* nothing, something untagged, or the answer to that line or to the       *)
(* command it continues.                                                   *)
Remarks ==
    {Plain("plus"), [Plain("plus") EXCEPT !.status = "bad"], StrayBad, DoneLine(0, "bad", 0)}

(* The server takes a line and may answer it or remark on it.              *)
ServerTakes ==
    /\ Takes
    /\ UNCHANGED ClientSide
    /\ \/ UNCHANGED <<toClient, answers>>
       \/ \E line \in Remarks : Sends(line) /\ UNCHANGED answers
       \/ mode = "command" /\ ~IsText(Received) /\ \E s \in Statuses : Answers(Received, s)
       \/ mode = "continuing" /\ \E s \in Statuses : Answers(request, s)
    /\ \/ UNCHANGED server
       \/ /\ mode = "command" /\ mode' = "continuing"
          /\ request' = Received /\ ~IsText(Received) /\ Received.id \in twoPart
       \/ mode' = "command" /\ UNCHANGED request

(* The part of the server the modules share does no more.                  *)
LEMMA ServeTakes == Serve => ServerTakes
<1>1. ASSUME Invite PROVE ServerTakes
  <2>1. Plain("plus") \in Remarks
    BY DEF Remarks
  <2>2. Sends(Plain("plus")) /\ UNCHANGED answers
    BY <1>1 DEF Invite
  <2>3. \E line \in Remarks : Sends(line) /\ UNCHANGED answers
    BY <2>1, <2>2
  <2>4. QED
    BY <1>1, <2>3, Zenon DEF Invite, ServerTakes
<1>2. ASSUME Refuse PROVE ServerTakes
  <2>1. \E s \in Statuses : Answers(Received, s)
    <3>1. {"no", "bad"} \subseteq Statuses
      BY DEF Statuses
    <3>2. QED
      BY <1>2, <3>1, Zenon DEF Refuse
  <2>2. QED
    BY <1>2, <2>1, Zenon DEF Refuse, ServerTakes
<1>3. ASSUME ServeOnePart PROVE ServerTakes
  <2>1. \E s \in Statuses : Answers(Received, s)
    <3>1. {"ok", "no"} \subseteq Statuses
      BY DEF Statuses
    <3>2. QED
      BY <1>3, <3>1, Zenon DEF ServeOnePart
  <2>2. QED
    BY <1>3, <2>1, Zenon DEF ServeOnePart, ServerTakes
<1>4. ASSUME RejectText PROVE ServerTakes
  <2>1. StrayBad \in Remarks /\ DoneLine(0, "bad", 0) \in Remarks
    BY DEF Remarks
  <2>2. \E line \in Remarks : Sends(line) /\ UNCHANGED answers
    BY <1>4, <2>1, Zenon DEF RejectText
  <2>3. QED
    BY <1>4, <2>2, Zenon DEF RejectText, ServerTakes
<1>5. QED
  BY <1>1, <1>2, <1>3, <1>4 DEF Serve

(* Its untagged lines.                                                     *)
LEMMA RemarksAreLines ==
  ASSUME NEW line \in Remarks
  PROVE  /\ line \in Line /\ ~line.lit /\ line.id = 0 /\ line.tag = 0
         /\ IsTagged(line) => line = DoneLine(0, "bad", 0)
<1> USE DEF Plain, DoneLine, IsTagged, Line, LineKinds, Statuses
<1>1. CASE line = Plain("plus")
  BY <1>1
<1>2. CASE line = [Plain("plus") EXCEPT !.status = "bad"]
  BY <1>2
<1>3. CASE line = StrayBad
  BY <1>3 DEF StrayBad
<1>4. CASE line = DoneLine(0, "bad", 0)
  BY <1>4
<1>5. QED
  BY <1>1, <1>2, <1>3, <1>4 DEF Remarks

(* ... and its answers.                                                    *)
LEMMA AnswersAreLines ==
  ASSUME NEW c \in Command, NEW s \in Statuses
  PROVE  /\ DoneLine(c.tag, s, c.id) \in Line
         /\ IsTagged(DoneLine(c.tag, s, c.id))
         /\ ~DoneLine(c.tag, s, c.id).lit
         /\ DoneLine(c.tag, s, c.id).tag = c.tag
         /\ DoneLine(c.tag, s, c.id).id = c.id
         /\ DoneLine(c.tag, s, c.id).status = s
BY DEF DoneLine, IsTagged, Line, LineKinds, Command

(* Where the line it receives comes from.                                  *)
LEMMA ReceivedIsFirst ==
  ASSUME DataOK, Takes, UNCHANGED wbuf
  PROVE  /\ Received \in Command
         /\ toServer \in Seq(Command) /\ toServer # <<>>
         /\ toServer' \in Seq(Command)
         /\ Outgoing \in Seq(Command) /\ Outgoing # <<>>
         /\ Received = Outgoing[1] /\ Outgoing' = Tail(Outgoing)
         /\ Range(Outgoing) = {Received} \cup Range(Outgoing')
<1>1. toServer \in Seq(Command) /\ toServer # <<>> /\ toServer' = Tail(toServer)
  BY DEF DataOK, Takes
<1>2. Received \in Command /\ toServer' \in Seq(Command)
  BY <1>1 DEF Received
<1>3. /\ Outgoing \in Seq(Command) /\ Outgoing # <<>>
      /\ Received = Outgoing[1] /\ Outgoing' = Tail(Outgoing)
  BY <1>1, OutgoingTaken DEF Received
<1>4. Head(Outgoing) = Outgoing[1]
  BY <1>3
<1>5. Range(Outgoing) = {Received} \cup Range(Tail(Outgoing))
  BY <1>3, <1>4, RangeHeadTail
<1>6. QED
  BY <1>1, <1>2, <1>3, <1>5

(* What it appends to the lines on their way, and to the answers it gave.  *)
LEMMA TakesSends ==
  ASSUME DataOK, request \in Command, ServerTakes
  PROVE  \/ UNCHANGED <<toClient, answers>>
         \/ \E line \in Line :
               /\ toClient' = Append(toClient, line)
               /\ \/ line \in Remarks /\ UNCHANGED answers
                  \/ \E c \in Command, s \in Statuses :
                        /\ \/ c = Received /\ mode = "command" /\ ~IsText(c)
                           \/ c = request /\ mode = "continuing"
                        /\ line = DoneLine(c.tag, s, c.id)
                        /\ answers' = answers \cup {[id |-> c.id, status |-> s]}
<1>1. Received \in Command
  BY ReceivedIsFirst, Zenon DEF ServerTakes, ClientSide, client
<1>2. ASSUME NEW line \in Remarks, Sends(line), UNCHANGED answers
      PROVE  \E l \in Line : toClient' = Append(toClient, l) /\ l \in Remarks
  BY <1>2, RemarksAreLines DEF Sends
<1>3. ASSUME NEW c \in Command, NEW s \in Statuses, Answers(c, s)
      PROVE  \E l \in Line :
               /\ toClient' = Append(toClient, l)
               /\ l = DoneLine(c.tag, s, c.id)
               /\ answers' = answers \cup {[id |-> c.id, status |-> s]}
  BY <1>3, AnswersAreLines DEF Answers, Sends
<1>4. CASE \E line \in Remarks : Sends(line) /\ UNCHANGED answers
  BY <1>2, <1>4
<1>5. CASE mode = "command" /\ ~IsText(Received) /\ \E s \in Statuses : Answers(Received, s)
  BY <1>1, <1>3, <1>5
<1>6. CASE mode = "continuing" /\ \E s \in Statuses : Answers(request, s)
  BY <1>3, <1>6
<1>7. QED
  BY <1>4, <1>5, <1>6, Zenon DEF ServerTakes

-----------------------------------------------------------------------------
(* What a step may do, in all three modules: a command is issued, ...      *)
Issues ==
    /\ RunCommand \/ RunCommandFails
    /\ UNCHANGED server
    /\ twoPart' = twoPart \/ twoPart' = twoPart \cup {call + 1}

(* ... a response is read as after any command, ...                        *)
Reads == (ReadLine \/ ReadFails \/ ReadEof) /\ UNCHANGED <<server, twoPart>>

(* ... the dialogue takes a line, writes a second part or gives up, ...    *)
Talks ==
    /\ UNCHANGED <<tag, chatter, call, answers, rolledBack, server, twoPart>>
    /\ broken => broken'
    /\ \/ UNCHANGED toClient
       \/ toClient # <<>> /\ toClient' = Tail(toClient)
       \/ DropInput
    /\ \/ UNCHANGED <<wbuf, toServer>>
       \/ \E i \in 0..call : Send(Text(i)) \/ SendFails(Text(i))
    /\ ret' = ret \/ ret' \in {[outcome |-> o, by |-> 0] : o \in {"io", "append", "invalid"}}
    /\ pc' \in {"ready", "reading"}
    /\ pc' = "reading" => pc = "reading" \/ broken' \/ ~rolledBack

(* ... the server takes a line, or sends something unasked.                *)
News == {line \in Line : ~IsTagged(line) /\ ~line.lit}

(* Only untagged lines are added for the client, or none.                  *)
Tells ==
    /\ UNCHANGED <<client, toServer, call, ret, history, server, twoPart>>
    /\ chatter' \in 0..MaxChatter
    /\ toClient' \in Seq(Line)
    /\ Range(toClient') \subseteq Range(toClient) \cup News

(* Each step of IDLE, APPEND and a login is one of these five.             *)
DialogueStep == Issues \/ Reads \/ Talks \/ ServerTakes \/ Tells

-----------------------------------------------------------------------------
(* The second part of a command is a command on the wire.                  *)
LEMMA TextIsCommand ==
  ASSUME NEW i \in Nat
  PROVE  Text(i) \in Command /\ IsText(Text(i)) /\ Text(i).id = i
BY DEF Text, IsText, Command

(* What a failed read leaves of a line tells nothing new.                  *)
LEMMA RestsTellNothing ==
  ASSUME NEW line \in Line, NEW rest \in Rests(line)
  PROVE  /\ rest \in Line /\ rest.lit = line.lit
         /\ IsTagged(rest) => IsTagged(line) /\ rest.id = line.id /\ rest.status = line.status
<1>1. rest \in Line
  BY RestsAreLines
<1>2. CASE rest = [line EXCEPT !.kind = "junk"]
  BY <1>1, <1>2 DEF Line, IsTagged
<1>3. CASE line.kind = "done" /\ ~line.lit /\ rest = [line EXCEPT !.tag = 0]
  BY <1>1, <1>3 DEF Line, IsTagged
<1>4. QED
  BY <1>2, <1>3 DEF Rests

(* What reading does to the lines on their way.                            *)
LEMMA LinesRead ==
  ASSUME DataOK,
         \/ UNCHANGED toClient
         \/ toClient # <<>> /\ toClient' = Tail(toClient)
         \/ DropInput
  PROVE  /\ toClient' \in Seq(Line)
         /\ \/ Range(toClient') \subseteq Range(toClient)
            \/ /\ broken'
               /\ \E m \in Range(toClient) : \E rest \in Rests(m) :
                     Range(toClient') \subseteq Range(toClient) \cup {rest}
<1>1. toClient \in Seq(Line)
  BY DEF DataOK
<1>2. CASE UNCHANGED toClient
  BY <1>1, <1>2
<1>3. CASE toClient # <<>> /\ toClient' = Tail(toClient)
  <2>1. Range(toClient) = {Head(toClient)} \cup Range(Tail(toClient))
    BY <1>1, <1>3, RangeHeadTail
  <2>2. QED
    BY <1>1, <1>3, <2>1
<1>4. ASSUME toClient # <<>>, NEW rest \in Rests(Head(toClient)), broken',
             toClient' = <<rest>> \o Tail(toClient)
      PROVE  /\ toClient' \in Seq(Line)
             /\ \E m \in Range(toClient) : \E r \in Rests(m) :
                     Range(toClient') \subseteq Range(toClient) \cup {r}
  <2>1. Range(toClient) = {Head(toClient)} \cup Range(Tail(toClient))
    BY <1>1, <1>4, RangeHeadTail
  <2>2. /\ Head(toClient) \in Line /\ Tail(toClient) \in Seq(Line)
        /\ rest \in Line
    BY <1>1, <1>4, RestsAreLines
  <2>3. toClient' \in Seq(Line) /\ toClient' # <<>>
    BY <1>4, <2>2
  <2>4. Head(toClient') = rest /\ Tail(toClient') = Tail(toClient)
    BY <1>4, <2>2
  <2>5. Range(toClient') = {rest} \cup Range(Tail(toClient))
    BY <2>3, <2>4, RangeHeadTail
  <2>6. QED
    BY <1>4, <2>1, <2>3, <2>5
<1>5. CASE DropInput
  <2>1. CASE UNCHANGED toClient
    BY <1>1, <2>1
  <2>2. CASE /\ toClient # <<>>
             /\ \E rest \in Rests(Head(toClient)) : toClient' = <<rest>> \o Tail(toClient)
             /\ broken' = TRUE
    BY <1>4, <2>2
  <2>3. QED
    BY <1>5, <2>1, <2>2, Zenon DEF DropInput
<1>6. QED
  BY <1>2, <1>3, <1>5

(* ... in each of its forms.                                               *)
LEMMA ReadsLines ==
  ASSUME ReadLine \/ ReadFails \/ ReadEof
  PROVE  \/ UNCHANGED toClient
         \/ toClient # <<>> /\ toClient' = Tail(toClient)
         \/ DropInput
BY Zenon DEF ReadLine, ReadFails, ReadEof, wire

(* Every step keeps the types of the data, on both sides.                  *)
LEMMA DialogueData ==
  DataOK /\ ServerTypeOK /\ DialogueStep => DataOK' /\ ServerTypeOK'
<1> SUFFICES ASSUME DataOK, ServerTypeOK, DialogueStep PROVE DataOK' /\ ServerTypeOK'
  OBVIOUS
<1>0. /\ mode \in {"command", "continuing"} /\ request \in Command
      /\ twoPart \subseteq 1..MaxCalls
  BY DEF ServerTypeOK
<1>1. CASE Issues
  <2>1. DataOK'
    BY <1>1, DataStep, Zenon DEF Issues, Next, Caller
  <2>2. call + 1 \in 1..MaxCalls
    BY <1>1, Bounds DEF Issues, RunCommand, RunCommandFails, CanIssue, DataOK
  <2>3. UNCHANGED <<mode, request>> /\ twoPart' \in {twoPart, twoPart \cup {call + 1}}
    BY <1>1 DEF Issues, server
  <2>4. QED
    BY <1>0, <2>1, <2>2, <2>3 DEF ServerTypeOK
<1>2. CASE Reads
  <2>1. DataOK'
    BY <1>2, DataStep, Zenon DEF Reads, Next, Reader
  <2>2. UNCHANGED <<mode, request, twoPart>>
    BY <1>2 DEF Reads, server
  <2>3. QED
    BY <1>0, <2>1, <2>2 DEF ServerTypeOK
<1>3. CASE Talks
  <2>1. toClient' \in Seq(Line)
    BY <1>3, LinesRead, Zenon DEF Talks
  <2>2. wbuf' \in Seq(Command) /\ toServer' \in Seq(Command)
    <3>1. CASE UNCHANGED <<wbuf, toServer>>
      BY <3>1 DEF DataOK
    <3>2. ASSUME NEW i \in 0..call, Send(Text(i)) \/ SendFails(Text(i))
          PROVE  wbuf' \in Seq(Command) /\ toServer' \in Seq(Command)
      <4>1. Text(i) \in Command
        BY TextIsCommand
      <4>2. QED
        BY <3>2, <4>1, OutgoingWritten
    <3>3. QED
      BY <1>3, <3>1, <3>2 DEF Talks
  <2>3. ret' \in [outcome : Outcomes, by : Nat]
    BY <1>3 DEF Talks, DataOK, Outcomes
  <2>4. UNCHANGED <<tag, chatter, call, answers, mode, request, twoPart>> /\ pc' \in {"ready", "reading"}
    BY <1>3 DEF Talks, server
  <2>5. QED
    BY <1>0, <2>1, <2>2, <2>3, <2>4 DEF DataOK, ServerTypeOK
<1>4. CASE ServerTakes
  <2>1. UNCHANGED <<tag, pc, wbuf, chatter, call, ret, twoPart>>
    BY <1>4, Zenon DEF ServerTakes, ClientSide, client
  <2>2. Received \in Command /\ toServer' \in Seq(Command)
    BY <1>4, <2>1, ReceivedIsFirst DEF ServerTakes
  <2>3. toClient' \in Seq(Line) /\ answers' \subseteq [id : Nat, status : Statuses]
    <3>1. CASE UNCHANGED <<toClient, answers>>
      BY <3>1 DEF DataOK
    <3>2. ASSUME NEW line \in Line, toClient' = Append(toClient, line)
          PROVE  toClient' \in Seq(Line)
      BY <3>2 DEF DataOK
    <3>3. ASSUME NEW c \in Command, NEW s \in Statuses,
                 answers' = answers \cup {[id |-> c.id, status |-> s]}
          PROVE  answers' \subseteq [id : Nat, status : Statuses]
      BY <3>3 DEF DataOK, Command
    <3>4. UNCHANGED answers => answers' \subseteq [id : Nat, status : Statuses]
      BY DEF DataOK
    <3>5. QED
      BY <1>0, <1>4, <3>1, <3>2, <3>3, <3>4, TakesSends, Zenon
  <2>4. mode' \in {"command", "continuing"} /\ request' \in Command
    BY <1>0, <1>4, <2>2 DEF ServerTakes, server
  <2>5. QED
    BY <1>0, <2>1, <2>2, <2>3, <2>4 DEF DataOK, ServerTypeOK
<1>5. CASE Tells
  <2>1. /\ UNCHANGED <<tag, pc, wbuf, toServer, call, ret, answers, mode, request, twoPart>>
        /\ chatter' \in 0..MaxChatter /\ toClient' \in Seq(Line)
    BY <1>5 DEF Tells, client, history, server
  <2>2. QED
    BY <1>0, <2>1 DEF DataOK, ServerTypeOK
<1>6. QED
  BY <1>1, <1>2, <1>3, <1>4, <1>5 DEF DialogueStep

-----------------------------------------------------------------------------
(* What the numbers on commands and answers say.                           *)

(* A command carries the number of a call that was made, and so does an    *)
(* answer; the server continues only commands that have two parts.         *)
Numbers ==
    /\ twoPart \subseteq 1..call
    /\ \A c \in Range(Outgoing) : c.id \in 0..call
    /\ \A a \in answers : a.id \in 0..call
    /\ mode = "continuing" => request.id \in twoPart /\ ~IsText(request)

(* A tagged line is an answer the server gave, or its complaint about a    *)
(* stray second part.                                                      *)
HeardAsAnswered ==
    \A l \in Range(toClient) :
        /\ ~l.lit
        /\ IsTagged(l) => \/ [id |-> l.id, status |-> l.status] \in answers
                          \/ l.id = 0 /\ l.status = "bad"

(* Calls and tags are counted together until a write fails, ...            *)
TagIsCall ==
    /\ call = tag + (IF rolledBack THEN 1 ELSE 0)
    /\ pc = "reading" => ~rolledBack
    /\ \A c \in Range(Outgoing) : ~IsText(c) => c.tag = c.id
    /\ mode = "continuing" => request.tag = request.id
    /\ \A l \in Range(toClient) : IsTagged(l) => l.tag = l.id

(* ... so that what a call returns is its own.                             *)
ReplyIsOwn ==
    /\ Replied => ret.by = call
    /\ ret.outcome = "ok" => [id |-> call, status |-> "ok"] \in answers

(* The reply is that of the call, as long as the connection is not broken. *)
Matched ==
    /\ Numbers
    /\ HeardAsAnswered
    /\ ~broken => TagIsCall /\ ReplyIsOwn

(* A new command is no second part.                                        *)
LEMMA NewIsNumbered ==
  ASSUME DataOK
  PROVE  /\ NewCommand \in Command /\ ~IsText(NewCommand)
         /\ NewCommand.id = call + 1 /\ NewCommand.tag = tag + 1
  BY Bounds DEF DataOK, Command, NewCommand, NextTag, IsText

(* What is on its way to the server after each step.                       *)
LEMMA DialogueOutgoing ==
  ASSUME DataOK, ServerTypeOK, DialogueStep
  PROVE  /\ Outgoing \in Seq(Command) /\ Outgoing' \in Seq(Command)
         /\ \/ Issues /\ Range(Outgoing') = Range(Outgoing) \cup {NewCommand}
            \/ Talks /\ \E i \in 0..call : Range(Outgoing') = Range(Outgoing) \cup {Text(i)}
            \/ /\ ServerTakes /\ Received \in Range(Outgoing)
               /\ Range(Outgoing') \subseteq Range(Outgoing)
            \/ /\ Reads \/ Talks \/ Tells
               /\ Range(Outgoing') = Range(Outgoing)
<1>0. Outgoing \in Seq(Command) /\ Outgoing' \in Seq(Command)
  <2>1. DataOK /\ DataOK'
    BY DialogueData
  <2>2. wbuf \in Seq(Command) /\ toServer \in Seq(Command)
        /\ wbuf' \in Seq(Command) /\ toServer' \in Seq(Command)
    BY <2>1 DEF DataOK
  <2>3. QED
    BY <2>2 DEF Outgoing
<1>1. CASE Issues
  <2>1. NewCommand \in Command /\ Outgoing' = Append(Outgoing, NewCommand)
    BY <1>1, OutgoingIssued DEF Issues
  <2>2. QED
    BY <1>0, <1>1, <2>1, RangeAppend
<1>2. CASE UNCHANGED <<wbuf, toServer>> /\ (Reads \/ Talks \/ Tells)
  BY <1>0, <1>2 DEF Outgoing
<1>3. CASE Reads
  <2>1. UNCHANGED <<wbuf, toServer>>
    BY <1>3, Zenon DEF Reads, ReadLine, ReadFails, ReadEof, wire
  <2>2. QED
    BY <1>2, <1>3, <2>1
<1>4. CASE Tells
  <2>1. UNCHANGED <<wbuf, toServer>>
    BY <1>4 DEF Tells, client
  <2>2. QED
    BY <1>2, <1>4, <2>1
<1>5. CASE Talks
  <2>1. ASSUME NEW i \in 0..call, Send(Text(i)) \/ SendFails(Text(i))
        PROVE  Range(Outgoing') = Range(Outgoing) \cup {Text(i)}
    <3>1. Text(i) \in Command
      BY TextIsCommand
    <3>2. Outgoing' = Append(Outgoing, Text(i))
      BY <2>1, <3>1, OutgoingWritten
    <3>3. QED
      BY <1>0, <3>1, <3>2, RangeAppend
  <2>2. QED
    BY <1>0, <1>2, <1>5, <2>1 DEF Talks
<1>6. CASE ServerTakes
  <2>1. UNCHANGED wbuf /\ Takes
    BY <1>6, Zenon DEF ServerTakes, ClientSide, client
  <2>2. Range(Outgoing) = {Received} \cup Range(Outgoing')
    BY <2>1, ReceivedIsFirst
  <2>3. QED
    BY <1>0, <1>6, <2>2
<1>7. QED
  BY <1>1, <1>3, <1>4, <1>5, <1>6 DEF DialogueStep

(* What the server answers, or that it answers nothing.                    *)
LEMMA DialogueAnswers ==
  ASSUME DataOK, ServerTypeOK, DialogueStep
  PROVE  \/ UNCHANGED answers
         \/ /\ ServerTakes
            /\ \E c \in Command, s \in Statuses :
                  /\ \/ c = Received /\ mode = "command" /\ ~IsText(c)
                     \/ c = request /\ mode = "continuing"
                  /\ answers' = answers \cup {[id |-> c.id, status |-> s]}
                  /\ toClient' = Append(toClient, DoneLine(c.tag, s, c.id))
<1>1. CASE Issues \/ Reads \/ Talks \/ Tells
  BY <1>1, Zenon DEF Issues, RunCommand, RunCommandFails, Reads, ReadLine, ReadFails, ReadEof,
                     Talks, Tells, history
<1>2. CASE ServerTakes
  <2>1. request \in Command
    BY DEF ServerTypeOK
  <2>2. QED
    BY <1>2, <2>1, TakesSends
<1>3. QED
  BY <1>1, <1>2 DEF DialogueStep

(* Numbers stay in bounds.                                                 *)
LEMMA NumbersStep ==
  DataOK /\ ServerTypeOK /\ Numbers /\ DialogueStep => Numbers'
<1> SUFFICES ASSUME DataOK, ServerTypeOK, Numbers, DialogueStep PROVE Numbers'
  OBVIOUS
<1>0. /\ twoPart \subseteq 1..call
      /\ \A c \in Range(Outgoing) : c.id \in 0..call
      /\ \A a \in answers : a.id \in 0..call
      /\ mode = "continuing" => request.id \in twoPart /\ ~IsText(request)
      /\ call \in Nat
  BY Bounds DEF Numbers, DataOK
<1>01. \A i \in twoPart : i \in 0..call
  BY <1>0
<1>1. Numbers' <=>
      /\ twoPart' \subseteq 1..call'
      /\ \A c \in Range(Outgoing') : c.id \in 0..call'
      /\ \A a \in answers' : a.id \in 0..call'
      /\ mode' = "continuing" => request'.id \in twoPart' /\ ~IsText(request')
  BY DEF Numbers, IsText
<1>2. CASE Issues
  <2>1. Range(Outgoing') = Range(Outgoing) \cup {NewCommand} /\ NewCommand.id = call + 1
    <3>1. NewCommand \in Command /\ Outgoing \in Seq(Command)
          /\ Outgoing' = Append(Outgoing, NewCommand)
      BY <1>2, OutgoingIssued DEF Issues
    <3>2. QED
      BY <3>1, RangeAppend, NewIsNumbered
  <2>2. /\ call' = call + 1 /\ UNCHANGED <<answers, mode, request>>
        /\ twoPart' = twoPart \/ twoPart' = twoPart \cup {call + 1}
    BY <1>2 DEF Issues, RunCommand, RunCommandFails, server
  <2>3. \A i \in 0..call : i \in 0..call + 1
    BY <1>0
  <2>4. (\A c \in Range(Outgoing') : c.id \in 0..call') /\ (\A a \in answers' : a.id \in 0..call')
    <3>1. call + 1 \in 0..call + 1
      BY <1>0
    <3>2. QED
      BY <1>0, <2>1, <2>2, <2>3, <3>1
  <2>5. twoPart' \subseteq 1..call'
    <3>1. \A i \in twoPart : i \in 1..call + 1
      BY <1>0
    <3>2. call + 1 \in 1..call + 1
      BY <1>0
    <3>3. QED
      BY <2>2, <3>1, <3>2
  <2>6. mode' = "continuing" => request'.id \in twoPart' /\ ~IsText(request')
    BY <1>0, <2>2
  <2>7. QED
    BY <1>1, <2>4, <2>5, <2>6
<1>3. CASE ~Issues
  <2>1. UNCHANGED <<call, twoPart>>
    BY <1>3, Zenon DEF DialogueStep, Reads, ReadLine, ReadFails, ReadEof, Talks, Tells,
                       ServerTakes, ClientSide
  <2>2. \A c \in Range(Outgoing') : c.id \in 0..call
    <3>1. \A i \in 0..call : Text(i).id = i
      BY <1>0, TextIsCommand
    <3>2. \/ Range(Outgoing') \subseteq Range(Outgoing)
          \/ \E i \in 0..call : Range(Outgoing') = Range(Outgoing) \cup {Text(i)}
      BY <1>3, DialogueOutgoing
    <3>3. QED
      BY <1>0, <3>1, <3>2
  <2>3. \A a \in answers' : a.id \in 0..call
    <3>1. ServerTakes => Received.id \in 0..call
      <4>1. ASSUME ServerTakes PROVE Received \in Range(Outgoing)
        <5>1. Takes /\ UNCHANGED wbuf
          BY <4>1, Zenon DEF ServerTakes, ClientSide, client
        <5>2. QED
          BY <5>1, ReceivedIsFirst
      <4>2. QED
        BY <1>0, <4>1
    <3>2. mode = "continuing" => request.id \in 0..call
      BY <1>0, <1>01
    <3>3. ASSUME NEW c \in Command, NEW s, c.id \in 0..call,
                 answers' = answers \cup {[id |-> c.id, status |-> s]}
          PROVE  \A a \in answers' : a.id \in 0..call
      BY <1>0, <3>3
    <3>4. QED
      BY <1>0, <3>1, <3>2, <3>3, DialogueAnswers
  <2>4. mode' = "continuing" => request'.id \in twoPart /\ ~IsText(request')
    <3>1. CASE ServerTakes
      BY <1>0, <3>1 DEF ServerTakes, server
    <3>2. CASE ~ServerTakes
      <4>1. UNCHANGED <<mode, request>>
        BY <1>3, <3>2 DEF DialogueStep, Reads, Talks, Tells, server
      <4>2. QED
        BY <1>0, <4>1
    <3>3. QED
      BY <3>1, <3>2
  <2>5. QED
    BY <1>0, <1>1, <2>1, <2>2, <2>3, <2>4
<1>4. QED
  BY <1>2, <1>3

(* What arrives is what the server said, whatever was cut.                 *)
LEMMA HeardAsAnsweredStep ==
  DataOK /\ ServerTypeOK /\ HeardAsAnswered /\ DialogueStep => HeardAsAnswered'
<1> SUFFICES ASSUME DataOK, ServerTypeOK, HeardAsAnswered, DialogueStep
             PROVE  \A l \in Range(toClient') :
                      /\ ~l.lit
                      /\ IsTagged(l) => \/ [id |-> l.id, status |-> l.status] \in answers'
                                        \/ l.id = 0 /\ l.status = "bad"
  BY DEF HeardAsAnswered, IsTagged
<1> DEFINE Fits(l, as) ==
             /\ ~l.lit
             /\ IsTagged(l) => \/ [id |-> l.id, status |-> l.status] \in as
                               \/ l.id = 0 /\ l.status = "bad"
<1>1. answers \subseteq answers'
  BY DialogueAnswers
<1>2. \A l \in Range(toClient) : Fits(l, answers')
  BY <1>1 DEF HeardAsAnswered
<1>3. toClient \in Seq(Line) /\ Range(toClient) \subseteq Line
  BY RangeEquality DEF DataOK
<1>4. CASE Issues
  <2>1. UNCHANGED toClient
    BY <1>4, Zenon DEF Issues, RunCommand, RunCommandFails
  <2>2. QED
    BY <1>2, <2>1
<1>5. CASE Reads \/ Talks
  <2>1. \/ Range(toClient') \subseteq Range(toClient)
        \/ \E m \in Range(toClient) : \E rest \in Rests(m) :
              Range(toClient') \subseteq Range(toClient) \cup {rest}
    <3>1. \/ UNCHANGED toClient
          \/ toClient # <<>> /\ toClient' = Tail(toClient)
          \/ DropInput
      BY <1>5, ReadsLines, Zenon DEF Reads, Talks
    <3>2. QED
      BY <3>1, LinesRead
  <2>2. ASSUME NEW m \in Range(toClient), NEW rest \in Rests(m) PROVE Fits(rest, answers')
    <3>1. /\ rest.lit = m.lit
          /\ IsTagged(rest) => IsTagged(m) /\ rest.id = m.id /\ rest.status = m.status
      BY <1>3, RestsTellNothing
    <3> HIDE DEF IsTagged
    <3>2. QED
      BY <1>2, <3>1
  <2> HIDE DEF Fits
  <2>3. \A l \in Range(toClient') : Fits(l, answers')
    BY <1>2, <2>1, <2>2
  <2>4. QED
    BY <2>3 DEF Fits
<1>6. CASE ServerTakes
  <2>1. ASSUME UNCHANGED <<toClient, answers>>
        PROVE  \A l \in Range(toClient') : Fits(l, answers')
    BY <1>2, <2>1
  <2>2. ASSUME NEW line \in Line, toClient' = Append(toClient, line), Fits(line, answers')
        PROVE  \A l \in Range(toClient') : Fits(l, answers')
    <3>1. Range(toClient') = Range(toClient) \cup {line}
      BY <1>3, <2>2, RangeAppend
    <3> HIDE DEF Fits
    <3>2. QED
      BY <1>2, <2>2, <3>1
  <2>3. ASSUME NEW line \in Remarks PROVE Fits(line, answers')
    <3>1. ~line.lit /\ (IsTagged(line) => line = DoneLine(0, "bad", 0))
      BY RemarksAreLines
    <3>2. DoneLine(0, "bad", 0).id = 0 /\ DoneLine(0, "bad", 0).status = "bad"
      BY DEF DoneLine
    <3>3. QED
      BY <3>1, <3>2
  <2>4. ASSUME NEW c \in Command, NEW s \in Statuses,
               answers' = answers \cup {[id |-> c.id, status |-> s]}
        PROVE  Fits(DoneLine(c.tag, s, c.id), answers')
    BY <2>4, AnswersAreLines
  <2>5. request \in Command
    BY DEF ServerTypeOK
  <2> HIDE DEF Fits
  <2>6. ASSUME NEW line \in Line, toClient' = Append(toClient, line),
               \/ line \in Remarks /\ UNCHANGED answers
               \/ \E c \in Command, s \in Statuses :
                     /\ line = DoneLine(c.tag, s, c.id)
                     /\ answers' = answers \cup {[id |-> c.id, status |-> s]}
        PROVE  \A l \in Range(toClient') : Fits(l, answers')
    <3>1. Fits(line, answers')
      BY <2>3, <2>4, <2>6, Zenon
    <3>2. QED
      BY <2>2, <2>6, <3>1
  <2>7. \/ UNCHANGED <<toClient, answers>>
         \/ \E line \in Line :
              /\ toClient' = Append(toClient, line)
              /\ \/ line \in Remarks /\ UNCHANGED answers
                 \/ \E c \in Command, s \in Statuses :
                       /\ line = DoneLine(c.tag, s, c.id)
                       /\ answers' = answers \cup {[id |-> c.id, status |-> s]}
    BY <1>6, <2>5, TakesSends, Zenon
  <2>8. \A l \in Range(toClient') : Fits(l, answers')
    <3>1. CASE UNCHANGED <<toClient, answers>>
      BY <2>1, <3>1
    <3>2. CASE ~UNCHANGED <<toClient, answers>>
      <4>1. PICK line \in Line :
              /\ toClient' = Append(toClient, line)
              /\ \/ line \in Remarks /\ UNCHANGED answers
                 \/ \E c \in Command, s \in Statuses :
                       /\ line = DoneLine(c.tag, s, c.id)
                       /\ answers' = answers \cup {[id |-> c.id, status |-> s]}
        BY <2>7, <3>2
      <4>2. QED
        BY <2>6, <4>1, Zenon
    <3>3. QED
      BY <3>1, <3>2
  <2>9. QED
    BY <2>8 DEF Fits
<1>7. CASE Tells
  <2>1. Range(toClient') \subseteq Range(toClient) \cup News
    BY <1>7 DEF Tells
  <2>2. QED
    BY <1>2, <2>1 DEF News
<1>8. QED
  BY <1>4, <1>5, <1>6, <1>7 DEF DialogueStep

(* A call that is trusted was not marked broken before.                    *)
LEMMA DialogueBroken == broken /\ DialogueStep => broken'
BY Zenon DEF DialogueStep, Issues, RunCommand, RunCommandFails, TagReused, Reads, ReadLine,
             ReadFails, DropInput, ReadEof, Talks, Tells, ServerTakes, ClientSide, history

(* Tags stay in step with calls.                                           *)
LEMMA TagIsCallStep ==
  DataOK /\ ServerTypeOK /\ HeardAsAnswered /\ TagIsCall /\ DialogueStep /\ ~broken'
    => TagIsCall'
<1> SUFFICES ASSUME DataOK, ServerTypeOK, HeardAsAnswered, TagIsCall, DialogueStep, ~broken'
             PROVE  TagIsCall'
  OBVIOUS
<1>0. /\ call = tag + (IF rolledBack THEN 1 ELSE 0)
      /\ pc = "reading" => ~rolledBack
      /\ \A c \in Range(Outgoing) : ~IsText(c) => c.tag = c.id
      /\ mode = "continuing" => request.tag = request.id
      /\ \A l \in Range(toClient) : IsTagged(l) => l.tag = l.id
  BY DEF TagIsCall
<1>1. TagIsCall' <=>
        /\ call' = tag' + (IF rolledBack' THEN 1 ELSE 0)
        /\ pc' = "reading" => ~rolledBack'
        /\ \A c \in Range(Outgoing') : ~IsText(c) => c.tag = c.id
        /\ mode' = "continuing" => request'.tag = request'.id
        /\ \A l \in Range(toClient') : IsTagged(l) => l.tag = l.id
  BY DEF TagIsCall, IsText, IsTagged
<1>2. call \in Nat /\ tag \in Nat /\ toClient \in Seq(Line)
  BY Bounds DEF DataOK
<1>3. CASE Issues
  <2>1. ~rolledBack /\ UNCHANGED toClient /\ UNCHANGED <<mode, request>> /\ call' = call + 1
    <3>1. TagReused /\ UNCHANGED <<mode, request>> /\ UNCHANGED toClient /\ call' = call + 1
      BY <1>3, Zenon DEF Issues, RunCommand, RunCommandFails, server
    <3>2. QED
      BY <3>1 DEF TagReused
  <2>2. call = tag
    BY <1>0, <1>2, <2>1
  <2>3. \/ tag' = tag + 1 /\ ~rolledBack'
        \/ tag' = tag /\ pc' = "ready" /\ rolledBack'
    <3>1. CASE RunCommand
      <4>1. tag' = NextTag /\ UNCHANGED rolledBack
        BY <3>1, Zenon DEF RunCommand
      <4>2. QED
        BY <2>1, <4>1 DEF NextTag
    <3>2. CASE RunCommandFails
      <4>1. tag' = RolledBackTag /\ pc' = "ready" /\ rolledBack'
        BY <3>2, Zenon DEF RunCommandFails, Return
      <4>2. RolledBackTag = tag
        BY <1>2 DEF RolledBackTag, NextTag
      <4>3. QED
        BY <4>1, <4>2
    <3>3. QED
      BY <1>3, <3>1, <3>2 DEF Issues
  <2>4. \A c \in Range(Outgoing') : ~IsText(c) => c.tag = c.id
    <3>1. NewCommand \in Command /\ Outgoing \in Seq(Command)
          /\ Outgoing' = Append(Outgoing, NewCommand)
      BY <1>3, OutgoingIssued DEF Issues
    <3>2. Range(Outgoing') = Range(Outgoing) \cup {NewCommand}
      BY <3>1, RangeAppend
    <3>3. NewCommand.tag = NewCommand.id
      BY <2>2, NewIsNumbered
    <3>4. QED
      BY <1>0, <3>2, <3>3
  <2>5. call' = tag' + (IF rolledBack' THEN 1 ELSE 0)
    BY <1>2, <2>1, <2>2, <2>3
  <2>6. QED
    BY <1>0, <1>1, <2>1, <2>3, <2>4, <2>5
<1>4. CASE ~Issues
  <2>1. UNCHANGED <<call, tag, rolledBack>>
    BY <1>4, Zenon DEF DialogueStep, Reads, ReadLine, ReadFails, ReadEof, Talks, Tells,
                       ServerTakes, ClientSide, client, history, wire
  <2>2. pc' = "reading" => ~rolledBack
    <3>1. CASE Talks
      BY <1>0, <3>1, Zenon DEF Talks
    <3>2. CASE Reads
      <4>1. pc = "reading"
        BY <3>2, Zenon DEF Reads, ReadLine, ReadFails, ReadEof
      <4>2. QED
        BY <1>0, <4>1
    <3>3. CASE Tells \/ ServerTakes
      <4>1. UNCHANGED pc
        BY <3>3, Zenon DEF Tells, ServerTakes, ClientSide, client
      <4>2. QED
        BY <1>0, <4>1
    <3>4. QED
      BY <1>4, <3>1, <3>2, <3>3, Zenon DEF DialogueStep
  <2>3. \A c \in Range(Outgoing') : ~IsText(c) => c.tag = c.id
    <3>1. \A i \in 0..call : IsText(Text(i))
      BY <1>2, TextIsCommand
    <3>2. \/ Range(Outgoing') \subseteq Range(Outgoing)
          \/ \E i \in 0..call : Range(Outgoing') = Range(Outgoing) \cup {Text(i)}
      BY <1>4, DialogueOutgoing
    <3>3. QED
      BY <1>0, <3>1, <3>2
  <2>4. ServerTakes => Received \in Range(Outgoing)
    <3>1. ASSUME ServerTakes PROVE Takes /\ UNCHANGED wbuf
      BY <3>1, Zenon DEF ServerTakes, ClientSide, client
    <3>2. QED
      BY <3>1, ReceivedIsFirst
  <2>5. mode' = "continuing" => request'.tag = request'.id
    <3>1. CASE ServerTakes
      BY <1>0, <2>4, <3>1 DEF ServerTakes, server
    <3>2. CASE ~ServerTakes
      <4>1. UNCHANGED <<mode, request>>
        BY <1>4, <3>2 DEF DialogueStep, Reads, Talks, Tells, server
      <4>2. QED
        BY <1>0, <4>1
    <3>3. QED
      BY <3>1, <3>2
  <2>6. \A l \in Range(toClient') : IsTagged(l) => l.tag = l.id
    <3>1. CASE Reads \/ Talks
      <4>1. \/ UNCHANGED toClient
            \/ toClient # <<>> /\ toClient' = Tail(toClient)
            \/ DropInput
        BY <3>1, ReadsLines, Zenon DEF Reads, Talks
      <4>2. Range(toClient') \subseteq Range(toClient)
        BY <4>1, LinesRead
      <4>3. QED
        BY <1>0, <4>2
    <3>2. CASE Tells
      <4>1. Range(toClient') \subseteq Range(toClient) \cup News
        BY <3>2 DEF Tells
      <4>2. QED
        BY <1>0, <4>1 DEF News
    <3>3. CASE ServerTakes
      <4>1. CASE UNCHANGED toClient
        BY <1>0, <4>1
      <4>2. ASSUME NEW line \in Line, toClient' = Append(toClient, line),
                   IsTagged(line) => line.tag = line.id
            PROVE  \A l \in Range(toClient') : IsTagged(l) => l.tag = l.id
        <5>1. Range(toClient') = Range(toClient) \cup {line}
          BY <1>2, <4>2, RangeAppend
        <5> HIDE DEF IsTagged
        <5>2. QED
          BY <1>0, <4>2, <5>1
      <4>3. ASSUME NEW line \in Remarks PROVE line.tag = line.id
        BY RemarksAreLines
      <4>4. ASSUME NEW c \in Command, NEW s \in Statuses, c.tag = c.id
            PROVE  DoneLine(c.tag, s, c.id).tag = DoneLine(c.tag, s, c.id).id
        BY <4>4 DEF DoneLine
      <4>5. /\ mode = "command" /\ ~IsText(Received) => Received.tag = Received.id
            /\ mode = "continuing" => request.tag = request.id
        BY <1>0, <2>4, <3>3
      <4>6. request \in Command
        BY DEF ServerTypeOK
      <4>7. QED
        BY <3>3, <4>1, <4>2, <4>3, <4>4, <4>5, <4>6, TakesSends
    <3>4. QED
      BY <1>4, <3>1, <3>2, <3>3, Zenon DEF DialogueStep
  <2>7. QED
    BY <1>0, <1>1, <2>1, <2>2, <2>3, <2>5, <2>6
<1>5. QED
  BY <1>3, <1>4

(* A call returns what answers it.                                         *)
LEMMA ReplyIsOwnStep ==
  /\ DataOK /\ ServerTypeOK /\ HeardAsAnswered /\ TagIsCall /\ ReplyIsOwn
  /\ DialogueStep /\ ~broken'
  => ReplyIsOwn'
<1> SUFFICES ASSUME DataOK, ServerTypeOK, HeardAsAnswered, TagIsCall, ReplyIsOwn, DialogueStep,
                    ~broken'
             PROVE  ReplyIsOwn'
  OBVIOUS
<1>0. /\ ReplyIsOwn <=>
           /\ ret.outcome \in Statuses \cup {"invalid"} /\ ret.by # 0 => ret.by = call
           /\ ret.outcome = "ok" => [id |-> call, status |-> "ok"] \in answers
      /\ ReplyIsOwn' <=>
           /\ ret'.outcome \in Statuses \cup {"invalid"} /\ ret'.by # 0 => ret'.by = call'
           /\ ret'.outcome = "ok" => [id |-> call', status |-> "ok"] \in answers'
  BY DEF ReplyIsOwn, Replied
<1>1. CASE Issues
  <2>1. ret'.outcome \in {"none", "io"} /\ ret'.by = 0
    BY <1>1 DEF Issues, RunCommand, RunCommandFails, Return
  <2>2. QED
    BY <1>0, <2>1
<1>2. CASE UNCHANGED <<ret, call>>
  <2>1. answers \subseteq answers'
    BY DialogueAnswers
  <2>2. QED
    BY <1>0, <1>2, <2>1
<1>3. CASE Talks
  <2>1. UNCHANGED <<call, answers>>
    BY <1>3 DEF Talks
  <2>2. CASE ret' = ret
    BY <1>2, <2>1, <2>2
  <2>3. CASE ret' \in {[outcome |-> o, by |-> 0] : o \in {"io", "append", "invalid"}}
    BY <1>0, <2>3
  <2>4. QED
    BY <1>3, <2>2, <2>3 DEF Talks
<1>4. CASE Tells \/ ServerTakes
  <2>1. UNCHANGED <<ret, call>>
    BY <1>4, Zenon DEF Tells, ServerTakes, ClientSide
  <2>2. QED
    BY <1>2, <2>1
<1>5. CASE ReadFails \/ ReadEof
  <2>1. ret'.outcome \in {"io", "lost"} /\ ret'.by = 0
    BY <1>5 DEF ReadFails, ReadEof, Return
  <2>2. QED
    BY <1>0, <2>1
<1>6. CASE ReadLine
  <2> DEFINE line == Head(toClient)
             parsed == ParseResponse(pending, line)
  <2>1. pc = "reading" /\ toClient # <<>> /\ OnLine(line) /\ UNCHANGED <<call, tag, answers>>
    BY <1>6 DEF ReadLine, history
  <2>2. line \in Range(toClient) /\ line \in Line
    <3>1. toClient \in Seq(Line)
      BY DEF DataOK
    <3>2. QED
      BY <2>1, <3>1, RangeHeadTail
  <2>3. call = tag
    BY <2>1 DEF TagIsCall, DataOK
  <2>4. CASE UNCHANGED ret
    BY <1>2, <2>1, <2>4
  <2>5. CASE parsed = "done" /\ TagMatches(line) /\ Return(Outcome(line.status), line.id)
    <3>1. IsTagged(line)
      <4>1. line.kind = "done"
        BY <2>5 DEF ParseResponse
      <4>2. ~line.lit
        BY <2>2 DEF HeardAsAnswered
      <4>3. QED
        BY <4>1, <4>2 DEF IsTagged
    <3>2. line.tag = tag /\ line.tag = line.id
      BY <2>2, <2>5, <3>1 DEF TagMatches, TagIsCall
    <3>3. ret'.by = call /\ ret'.outcome = Outcome(line.status)
      BY <2>3, <2>5, <3>2 DEF Return
    <3>4. ret'.outcome = "ok" => line.status = "ok"
      BY <3>3 DEF Outcome
    <3>5. ret'.outcome = "ok" => [id |-> call, status |-> "ok"] \in answers
      BY <2>2, <2>3, <3>1, <3>2, <3>4 DEF HeardAsAnswered
    <3>6. QED
      BY <1>0, <2>1, <3>3, <3>5
  <2>6. CASE Return("mismatch", line.id) \/ Return("bye", 0)
    <3>1. (ret'.outcome = "mismatch") \/ (ret'.outcome = "bye" /\ ret'.by = 0)
      BY <2>6 DEF Return
    <3>2. QED
      BY <1>0, <3>1 DEF Statuses
  <2>7. QED
    BY <2>1, <2>4, <2>5, <2>6, Zenon DEF OnLine
<1>7. QED
  BY <1>1, <1>3, <1>4, <1>5, <1>6 DEF DialogueStep, Reads

(* Together these facts are inductive in all three modules ...             *)
LEMMA MatchedStep ==
  DataOK /\ ServerTypeOK /\ Matched /\ DialogueStep => Matched'
<1> SUFFICES ASSUME DataOK, ServerTypeOK, Matched, DialogueStep PROVE Matched'
  OBVIOUS
<1>1. Numbers' /\ HeardAsAnswered'
  BY NumbersStep, HeardAsAnsweredStep, Zenon DEF Matched
<1>2. ASSUME ~broken' PROVE TagIsCall' /\ ReplyIsOwn'
  <2>1. ~broken
    BY <1>2, DialogueBroken
  <2>2. QED
    BY <1>2, <2>1, TagIsCallStep, ReplyIsOwnStep, Zenon DEF Matched
<1>3. QED
  BY <1>1, <1>2, Zenon DEF Matched

(* ... and hold of a new connection.                                       *)
LEMMA MatchedInit == Init /\ ServerInit => ServerTypeOK /\ Matched
<1> SUFFICES ASSUME Init, ServerInit PROVE ServerTypeOK /\ Matched
  OBVIOUS
<1>1. /\ tag = 0 /\ call = 0 /\ wbuf = <<>> /\ toServer = <<>> /\ toClient = <<>>
      /\ answers = {} /\ ret = [outcome |-> "none", by |-> 0]
      /\ mode = "command" /\ request = NoCommand /\ twoPart = {} /\ pc = "ready"
  BY DEF Init, ServerInit
<1>2. ~rolledBack
  BY Zenon DEF Init
<1>3. Outgoing = <<>> /\ Range(<<>>) = {}
  <2>1. <<>> \o <<>> = <<>>
    OBVIOUS
  <2>2. QED
    BY <1>1, <2>1 DEF Outgoing, Range
<1>4. ServerTypeOK
  BY <1>1, Bounds DEF ServerTypeOK, NoCommand, Command
<1>5. Numbers /\ HeardAsAnswered
  BY <1>1, <1>3 DEF Numbers, HeardAsAnswered
<1>6. TagIsCall /\ ReplyIsOwn
  BY <1>1, <1>2, <1>3 DEF TagIsCall, ReplyIsOwn, Replied
<1>7. QED
  BY <1>4, <1>5, <1>6 DEF Matched

-----------------------------------------------------------------------------
(* The order of the calls, where second parts carry the number of the call *)
(* that is in progress.                                                    *)
InOrderOfCall(s) == \A k, l \in 1..Len(s) : k < l => s[k].id <= s[l].id

(* The server gets commands and second parts in the order of the calls.    *)
InCallOrder ==
    /\ InOrderOfCall(Outgoing)
    /\ mode = "continuing" => \A c \in Range(Outgoing) : request.id <= c.id

(* A second part carries the number of the call it belongs to.             *)
TalksOfCall ==
    /\ Talks
    /\ UNCHANGED <<wbuf, toServer>> \/ Send(Text(call)) \/ SendFails(Text(call))

(* The steps that keep the order of the calls.                             *)
OrderedStep == Issues \/ Reads \/ TalksOfCall \/ ServerTakes \/ Tells

(* A later command keeps the order ...                                     *)
LEMMA OrderAppended ==
  ASSUME NEW s \in Seq(Command), NEW c \in Command, InOrderOfCall(s),
         \A d \in Range(s) : d.id <= c.id
  PROVE  InOrderOfCall(Append(s, c))
<1> DEFINE t == Append(s, c)
           n == Len(s)
<1>1. /\ Len(t) = n + 1 /\ t[n + 1] = c /\ n \in Nat
      /\ \A k \in 1..n : t[k] = s[k] /\ s[k] \in Range(s)
  BY AppendProperties, RangeEquality
<1>2. \A k, l \in 1..n : k < l => s[k].id <= s[l].id
  BY DEF InOrderOfCall
<1> HIDE DEF t, n
<1>3. SUFFICES ASSUME NEW k \in 1..n + 1, NEW l \in 1..n + 1, k < l PROVE t[k].id <= t[l].id
  BY <1>1 DEF InOrderOfCall, t
<1>4. k \in 1..n
  BY <1>1, <1>3
<1>5. CASE l \in 1..n
  BY <1>1, <1>2, <1>3, <1>4, <1>5
<1>6. CASE l = n + 1
  BY <1>1, <1>4, <1>6
<1>7. QED
  BY <1>1, <1>5, <1>6

(* ... and so does the loss of the first, which precedes all others.       *)
LEMMA OrderTaken ==
  ASSUME NEW s \in Seq(Command), s # <<>>, InOrderOfCall(s)
  PROVE  InOrderOfCall(Tail(s)) /\ \A d \in Range(Tail(s)) : s[1].id <= d.id
<1> DEFINE t == Tail(s)
           n == Len(s)
<1>1. /\ t \in Seq(Command) /\ n \in Nat /\ n >= 1 /\ Len(t) = n - 1
      /\ \A k \in 1..n - 1 : t[k] = s[k + 1]
  BY HeadTailProperties
<1>2. \A k, l \in 1..n : k < l => s[k].id <= s[l].id
  BY DEF InOrderOfCall
<1>3. Range(t) = {t[k] : k \in 1..Len(t)}
  BY <1>1, RangeEquality
<1> HIDE DEF t, n
<1>4. ASSUME NEW k \in 1..n - 1, NEW l \in 1..n - 1, k < l PROVE t[k].id <= t[l].id
  <2>1. k + 1 \in 1..n /\ l + 1 \in 1..n /\ k + 1 < l + 1
    BY <1>1, <1>4
  <2>2. QED
    BY <1>1, <1>2, <2>1
<1>5. ASSUME NEW k \in 1..n - 1 PROVE s[1].id <= t[k].id
  <2>1. 1 \in 1..n /\ k + 1 \in 1..n /\ 1 < k + 1
    BY <1>1
  <2>2. QED
    BY <1>1, <1>2, <2>1
<1>6. QED
  BY <1>1, <1>3, <1>4, <1>5 DEF InOrderOfCall, t

(* It is a dialogue of the kind above ...                                  *)
LEMMA OrderedIsDialogue == OrderedStep => DialogueStep
BY DEF OrderedStep, TalksOfCall, DialogueStep

(* ... whose steps all keep the order.                                     *)
LEMMA InCallOrderStep ==
  /\ DataOK /\ ServerTypeOK /\ Numbers /\ InCallOrder
  /\ OrderedStep
  => InCallOrder'
<1> SUFFICES ASSUME DataOK, ServerTypeOK, Numbers, InCallOrder, OrderedStep
             PROVE  InCallOrder'
  OBVIOUS
<1>0. /\ InOrderOfCall(Outgoing) /\ Outgoing \in Seq(Command)
      /\ mode = "continuing" => \A c \in Range(Outgoing) : request.id <= c.id
      /\ \A c \in Range(Outgoing) : c.id \in 0..call
      /\ mode = "continuing" => request.id \in 0..call
      /\ call \in Nat
  <2>1. Outgoing \in Seq(Command)
    BY DialogueOutgoing, OrderedIsDialogue
  <2>2. call \in Nat
    BY Bounds DEF DataOK
  <2>3. \A i \in twoPart : i \in 0..call
    BY <2>2 DEF Numbers
  <2>4. QED
    BY <2>1, <2>2, <2>3 DEF InCallOrder, Numbers
<1>1. InCallOrder' <=>
        /\ InOrderOfCall(Outgoing')
        /\ mode' = "continuing" => \A c \in Range(Outgoing') : request'.id <= c.id
  BY DEF InCallOrder, InOrderOfCall
<1>2. ASSUME NEW c \in Command, c.id \in {call, call + 1}, Outgoing' = Append(Outgoing, c),
             UNCHANGED <<mode, request>>
      PROVE  InCallOrder'
  <2>1. \A d \in Range(Outgoing) : d.id <= c.id
    BY <1>0, <1>2
  <2>2. InOrderOfCall(Outgoing')
    BY <1>0, <1>2, <2>1, OrderAppended
  <2>3. Range(Outgoing') = Range(Outgoing) \cup {c}
    BY <1>0, <1>2, RangeAppend
  <2>4. mode = "continuing" => request.id <= c.id
    BY <1>0, <1>2
  <2>5. QED
    BY <1>0, <1>1, <1>2, <2>2, <2>3, <2>4
<1>3. CASE UNCHANGED <<wbuf, toServer, mode, request>>
  BY <1>0, <1>1, <1>3 DEF Outgoing
<1>4. CASE Issues
  <2>1. NewCommand \in Command /\ Outgoing' = Append(Outgoing, NewCommand)
        /\ NewCommand.id = call + 1
    BY <1>4, OutgoingIssued, NewIsNumbered DEF Issues
  <2>2. UNCHANGED <<mode, request>>
    BY <1>4 DEF Issues, server
  <2>3. QED
    BY <1>2, <2>1, <2>2
<1>5. CASE TalksOfCall
  <2>1. UNCHANGED <<mode, request>>
    BY <1>5 DEF TalksOfCall, Talks, server
  <2>2. CASE UNCHANGED <<wbuf, toServer>>
    BY <1>3, <2>1, <2>2
  <2>3. CASE Send(Text(call)) \/ SendFails(Text(call))
    <3>1. Text(call) \in Command /\ Text(call).id = call
      BY <1>0, TextIsCommand
    <3>2. Outgoing' = Append(Outgoing, Text(call))
      BY <2>3, <3>1, OutgoingWritten
    <3>3. QED
      BY <1>2, <2>1, <3>1, <3>2
  <2>4. QED
    BY <1>5, <2>2, <2>3 DEF TalksOfCall
<1>6. CASE Reads \/ Tells
  <2>1. UNCHANGED <<wbuf, toServer, mode, request>>
    BY <1>6, Zenon DEF Reads, ReadLine, ReadFails, ReadEof, Tells, client, wire, server
  <2>2. QED
    BY <1>3, <2>1
<1>7. CASE ServerTakes
  <2>1. Takes /\ UNCHANGED wbuf
    BY <1>7, Zenon DEF ServerTakes, ClientSide, client
  <2>2. /\ Outgoing # <<>> /\ Received = Outgoing[1] /\ Outgoing' = Tail(Outgoing)
        /\ Range(Outgoing) = {Received} \cup Range(Outgoing')
    BY <2>1, ReceivedIsFirst
  <2>3. InOrderOfCall(Outgoing') /\ \A d \in Range(Outgoing') : Received.id <= d.id
    BY <1>0, <2>2, OrderTaken
  <2>4. \/ UNCHANGED <<mode, request>>
        \/ request' = Received
        \/ mode' = "command"
    BY <1>7 DEF ServerTakes, server
  <2>5. mode' = "continuing" => \A c \in Range(Outgoing') : request'.id <= c.id
    BY <1>0, <2>2, <2>3, <2>4
  <2>6. QED
    BY <1>1, <2>3, <2>5
<1>8. QED
  BY <1>4, <1>5, <1>6, <1>7 DEF OrderedStep

-----------------------------------------------------------------------------
(* What the server says unasked.                                           *)

(* An update comes in a line of its own, or in one that opens a response   *)
(* and one that closes it.                                                 *)
LEMMA AnnouncedLines ==
  ASSUME DataOK, Announce
  PROVE  \/ \E line \in News :
               /\ line.kind = "data" /\ line.id = chatter + 1
               /\ toClient' = Append(toClient, line)
         \/ \E first, last \in News :
               /\ first.kind = "open" /\ last.kind = "close" /\ last.id = chatter + 1
               /\ toClient' = Append(Append(toClient, first), last)
<1> DEFINE update(kind) == [Plain(kind) EXCEPT !.id = chatter + 1]
<1>1. toClient \in Seq(Line) /\ chatter + 1 \in Nat
  BY Bounds DEF DataOK
<1>2. ASSUME NEW k \in {"data", "open", "close"}
      PROVE  update(k) \in News /\ update(k).kind = k /\ update(k).id = chatter + 1
  BY <1>1, <1>2 DEF News, Plain, Line, LineKinds, Statuses, IsTagged
<1> HIDE DEF update
<1>3. toClient' \in {toClient \o <<update("data")>>, toClient \o <<Plain("open"), update("close")>>}
  BY Zenon DEF Announce, update
<1>4. /\ update("data") \in Line /\ Plain("open") \in Line /\ update("close") \in Line
      /\ update("data") \in News /\ Plain("open") \in News /\ update("close") \in News
      /\ update("data").kind = "data" /\ Plain("open").kind = "open"
      /\ update("close").kind = "close"
      /\ update("data").id = chatter + 1 /\ update("close").id = chatter + 1
  <2>1. Plain("open") \in News /\ Plain("open").kind = "open"
    BY DEF News, Plain, Line, LineKinds, Statuses, IsTagged
  <2>2. QED
    BY <1>2, <2>1 DEF News
<1>5. ASSUME NEW a \in Line, NEW b \in Line
      PROVE  /\ toClient \o <<a>> = Append(toClient, a)
             /\ toClient \o <<a, b>> = Append(Append(toClient, a), b)
  <2>1. Append(toClient, a) = toClient \o <<a>> /\ <<a>> \in Seq(Line) /\ <<b>> \in Seq(Line)
    BY <1>1, AppendIsConcat
  <2>2. Append(Append(toClient, a), b) = Append(toClient, a) \o <<b>>
    <3>1. Append(toClient, a) \in Seq(Line)
      BY <1>1
    <3>2. QED
      BY <3>1, AppendIsConcat
  <2>3. (toClient \o <<a>>) \o <<b>> = toClient \o (<<a>> \o <<b>>)
    BY <1>1, <2>1, Regroup
  <2>4. <<a>> \o <<b>> = <<a, b>>
    <3> DEFINE s == <<a>> \o <<b>>
               t == <<a, b>>
    <3>1. /\ <<a>> \in Seq(Line) /\ <<b>> \in Seq(Line) /\ Len(<<a>>) = 1 /\ Len(<<b>>) = 1
          /\ <<a>>[1] = a /\ <<b>>[1] = b
      OBVIOUS
    <3>2. /\ s \in Seq(Line) /\ Len(s) = 2
          /\ \A i \in 1..2 : s[i] = IF i <= 1 THEN <<a>>[i] ELSE <<b>>[i - 1]
      BY <3>1, ConcatProperties
    <3>3. t \in Seq(Line) /\ Len(t) = 2 /\ t[1] = a /\ t[2] = b
      OBVIOUS
    <3> HIDE DEF s, t
    <3>4. \A i \in 1..2 : s[i] = t[i]
      <4>1. s[1] = a /\ s[2] = b
        BY <3>1, <3>2
      <4>2. QED
        BY <3>3, <4>1
    <3>5. s = t
      BY <3>2, <3>3, <3>4, SeqEqual
    <3>6. QED
      BY <3>5 DEF s, t
  <2>5. QED
    BY <2>1, <2>2, <2>3, <2>4, Zenon
<1>6. QED
  BY <1>3, <1>4, <1>5

(* It tells nothing about any command.                                     *)
LEMMA AnnounceTells ==
  DataOK /\ Announce => Tells
<1> SUFFICES ASSUME DataOK, Announce PROVE Tells
  OBVIOUS
<1>1. toClient \in Seq(Line)
  BY DEF DataOK
<1>2. toClient' \in Seq(Line) /\ Range(toClient') \subseteq Range(toClient) \cup News
  <2>1. News \subseteq Line
    BY DEF News
  <2>2. ASSUME NEW line \in News, toClient' = Append(toClient, line)
        PROVE  toClient' \in Seq(Line) /\ Range(toClient') \subseteq Range(toClient) \cup News
    <3>1. Range(Append(toClient, line)) = Range(toClient) \cup {line}
      BY <1>1, <2>1, RangeAppend
    <3>2. QED
      BY <1>1, <2>1, <2>2, <3>1
  <2>3. ASSUME NEW first \in News, NEW last \in News,
               toClient' = Append(Append(toClient, first), last)
        PROVE  toClient' \in Seq(Line) /\ Range(toClient') \subseteq Range(toClient) \cup News
    <3> DEFINE mid == Append(toClient, first)
    <3>1. mid \in Seq(Line) /\ Range(mid) = Range(toClient) \cup {first}
      BY <1>1, <2>1, RangeAppend
    <3> HIDE DEF mid
    <3>2. Range(Append(mid, last)) = Range(mid) \cup {last}
      BY <2>1, <3>1, RangeAppend
    <3>3. toClient' = Append(mid, last)
      BY <2>3 DEF mid
    <3>4. QED
      BY <2>1, <3>1, <3>2, <3>3
  <2>4. QED
    BY <2>2, <2>3, AnnouncedLines
<1>3. chatter' \in 0..MaxChatter
  BY Bounds DEF Announce, DataOK
<1>4. QED
  BY <1>2, <1>3, Zenon DEF Announce, Tells

(* Neither does hanging up.                                                *)
LEMMA LeaveTells ==
  DataOK /\ Leave => Tells
BY DEF DataOK, Leave, HangUp, Tells

(* Neither does it when nothing happens.                                   *)
LEMMA NothingTells ==
  DataOK /\ UNCHANGED <<vars, mode, request, twoPart>> => Tells
<1> SUFFICES ASSUME DataOK, UNCHANGED <<vars, mode, request, twoPart>> PROVE Tells
  OBVIOUS
<1>1. UNCHANGED vars /\ UNCHANGED <<mode, request, twoPart>>
  OBVIOUS
<1>2. chatter' \in 0..MaxChatter /\ toClient' \in Seq(Line)
      /\ Range(toClient') \subseteq Range(toClient) \cup News
  BY <1>1 DEF DataOK, vars, wire
<1>3. QED
  BY <1>1, <1>2, Zenon DEF Tells, vars, wire, server

-----------------------------------------------------------------------------
(* A dialogue in which nothing went wrong: the client and the server take  *)
(* turns.                                                                  *)

(* What a call waits for: its answer, or the "+" for its second part. *)
IsReply(line) == IsTagged(line) \/ line.kind = "plus"

(* No reply waits to be read ...                                           *)
NoReply(lines) == \A i \in 1..Len(lines) : ~IsReply(lines[i])

(* ... or this one and no other.                                           *)
OnlyReply(lines, line) ==
    \E k \in 1..Len(lines) :
        /\ lines[k] = line /\ IsReply(line)
        /\ \A i \in 1..Len(lines) : IsReply(lines[i]) => i = k

(* The command of the latest call. *)
Own == [tag |-> tag, id |-> call]

(* Nobody owes anything, ... *)
Rest == NoReply(toClient) /\ (up => toServer = <<>>)

(* ... or the server was sent one line, ... *)
Asked ==
    /\ pc = "reading" /\ NoReply(toClient)
    /\ up => \/ toServer = <<Own>> /\ tag # 0
             \/ toServer = <<Text(call)>> /\ mode = "continuing" /\ request = Own

(* ... or the client, and the server knows whose turn it is. *)
Told ==
    /\ pc = "reading" /\ toServer = <<>>
    /\ \E line \in Line :
          /\ OnlyReply(toClient, line)
          /\ IF line.kind = "plus" THEN mode = "continuing" /\ request = Own
                                   ELSE mode = "command"

(* At most one side is to move.                                            *)
Turn == Rest \/ Asked \/ Told

(* No write and no read failed. *)
Still == ~broken /\ ~rolledBack /\ wbuf = <<>> /\ (pc = "ready" => ~pending)

(* The dialogue in a connection without a fault.                           *)
Steady == Still /\ Blocks /\ Turn

(* A line that is read leaves the other replies.                           *)
LEMMA RepliesTail ==
  ASSUME NEW s \in Seq(Line), s # <<>>
  PROVE  /\ NoReply(s) => NoReply(Tail(s)) /\ ~IsReply(s[1])
         /\ \A line \in Line : OnlyReply(s, line) =>
               IF IsReply(s[1]) THEN s[1] = line /\ NoReply(Tail(s)) ELSE OnlyReply(Tail(s), line)
<1>1. /\ Len(s) \in Nat /\ Len(s) >= 1 /\ Len(Tail(s)) = Len(s) - 1
      /\ \A i \in 1..Len(Tail(s)) : Tail(s)[i] = s[i + 1] /\ i + 1 \in 1..Len(s)
      /\ 1 \in 1..Len(s)
  OBVIOUS
<1>2. NoReply(s) => NoReply(Tail(s)) /\ ~IsReply(s[1])
  BY <1>1 DEF NoReply
<1>3. ASSUME NEW line \in Line, OnlyReply(s, line)
      PROVE  IF IsReply(s[1]) THEN s[1] = line /\ NoReply(Tail(s)) ELSE OnlyReply(Tail(s), line)
  <2>1. PICK k \in 1..Len(s) : /\ s[k] = line /\ IsReply(line)
                               /\ \A i \in 1..Len(s) : IsReply(s[i]) => i = k
    BY <1>3 DEF OnlyReply
  <2>2. CASE IsReply(s[1])
    <3>1. k = 1
      BY <1>1, <2>1, <2>2
    <3>2. ASSUME NEW i \in 1..Len(Tail(s)) PROVE ~IsReply(Tail(s)[i])
      <4>1. IsReply(s[i + 1]) => i + 1 = 1
        BY <1>1, <2>1, <3>1
      <4>2. QED
        BY <1>1, <4>1
    <3>3. QED
      BY <2>1, <2>2, <3>1, <3>2 DEF NoReply
  <2>3. CASE ~IsReply(s[1])
    <3>1. k # 1 /\ k - 1 \in 1..Len(Tail(s)) /\ Tail(s)[k - 1] = line
      BY <1>1, <2>1, <2>3
    <3>2. ASSUME NEW i \in 1..Len(Tail(s)), IsReply(Tail(s)[i]) PROVE i = k - 1
      BY <1>1, <2>1, <3>2
    <3>3. QED
      BY <2>1, <2>3, <3>1, <3>2 DEF OnlyReply
  <2>4. QED
    BY <2>2, <2>3
<1>4. QED
  BY <1>2, <1>3

(* A line that is sent is one, or changes none.                            *)
LEMMA RepliesAppend ==
  ASSUME NEW s \in Seq(Line), NEW new \in Line
  PROVE  /\ NoReply(s) => IF IsReply(new) THEN OnlyReply(Append(s, new), new)
                                          ELSE NoReply(Append(s, new))
         /\ \A line \in Line :
               OnlyReply(s, line) /\ ~IsReply(new) => OnlyReply(Append(s, new), line)
<1>1. /\ Len(s) \in Nat /\ Len(Append(s, new)) = Len(s) + 1
      /\ \A i \in 1..Len(s) : Append(s, new)[i] = s[i] /\ i \in 1..Len(s) + 1
      /\ Append(s, new)[Len(s) + 1] = new
      /\ Len(s) + 1 \in 1..Len(s) + 1
      /\ \A i \in 1..Len(s) + 1 : i \in 1..Len(s) \/ i = Len(s) + 1
  OBVIOUS
<1>2. ASSUME NoReply(s), IsReply(new) PROVE OnlyReply(Append(s, new), new)
  <2>1. ASSUME NEW i \in 1..Len(s) + 1, IsReply(Append(s, new)[i]) PROVE i = Len(s) + 1
    BY <1>1, <1>2, <2>1 DEF NoReply
  <2>2. QED
    BY <1>1, <1>2, <2>1 DEF OnlyReply
<1>3. ASSUME NoReply(s), ~IsReply(new) PROVE NoReply(Append(s, new))
  BY <1>1, <1>3 DEF NoReply
<1>4. ASSUME NEW line \in Line, OnlyReply(s, line), ~IsReply(new)
      PROVE  OnlyReply(Append(s, new), line)
  <2>1. PICK k \in 1..Len(s) : /\ s[k] = line /\ IsReply(line)
                               /\ \A i \in 1..Len(s) : IsReply(s[i]) => i = k
    BY <1>4 DEF OnlyReply
  <2>2. ASSUME NEW i \in 1..Len(s) + 1, IsReply(Append(s, new)[i]) PROVE i = k
    BY <1>1, <1>4, <2>1, <2>2
  <2>3. QED
    BY <1>1, <2>1, <2>2 DEF OnlyReply
<1>5. QED
  BY <1>2, <1>3, <1>4

(* A line is read: if it is a reply the call may return.                   *)
LEMMA TurnTaken ==
  ASSUME DataOK, Turn, toClient # <<>>, toClient' = Tail(toClient),
         UNCHANGED <<tag, call, toServer, up, mode, request>>,
         pc' = pc \/ IsReply(toClient[1])
  PROVE  Turn'
<1>0. toClient \in Seq(Line) /\ toClient' = Tail(toClient)
  BY DEF DataOK
<1>1. Own' = Own
  BY DEF Own
<1>2. ASSUME NoReply(toClient) PROVE NoReply(toClient') /\ pc' = pc
  BY <1>0, <1>2, RepliesTail
<1>3. CASE Rest
  BY <1>2, <1>3 DEF Rest, Turn
<1>4. CASE Asked
  BY <1>1, <1>2, <1>4 DEF Asked, Turn
<1>5. CASE Told
  <2>1. PICK line \in Line :
           /\ OnlyReply(toClient, line)
           /\ IF line.kind = "plus" THEN mode = "continuing" /\ request = Own
                                    ELSE mode = "command"
    BY <1>5 DEF Told
  <2>2. CASE IsReply(toClient[1])
    <3>1. NoReply(toClient')
      BY <1>0, <2>1, <2>2, RepliesTail
    <3>2. toServer' = <<>>
      BY <1>5 DEF Told
    <3>3. QED
      BY <3>1, <3>2 DEF Rest, Turn
  <2>3. CASE ~IsReply(toClient[1])
    <3>1. OnlyReply(toClient', line)
      BY <1>0, <2>1, <2>3, RepliesTail
    <3>2. pc' = "reading" /\ toServer' = <<>>
      BY <1>5, <2>3 DEF Told
    <3>3. Told'
      BY <1>1, <2>1, <3>1, <3>2 DEF Told
    <3>4. QED
      BY <3>3 DEF Turn
  <2>4. QED
    BY <2>2, <2>3
<1>6. QED
  BY <1>3, <1>4, <1>5 DEF Turn

(* When a reply is read it is known whose turn it was.                     *)
LEMMA ReplyHeard ==
  ASSUME DataOK, Turn, toClient # <<>>, IsReply(toClient[1])
  PROVE  /\ pc = "reading" /\ toServer = <<>> /\ NoReply(Tail(toClient))
         /\ IF toClient[1].kind = "plus" THEN mode = "continuing" /\ request = Own
                                         ELSE mode = "command"
<1>0. toClient \in Seq(Line)
  BY DEF DataOK
<1>1. Told
  <2>1. ~NoReply(toClient)
    BY <1>0, RepliesTail
  <2>2. QED
    BY <2>1, Zenon DEF Turn, Rest, Asked
<1>2. PICK line \in Line :
         /\ OnlyReply(toClient, line)
         /\ IF line.kind = "plus" THEN mode = "continuing" /\ request = Own
                                  ELSE mode = "command"
  BY <1>1 DEF Told
<1>3. toClient[1] = line /\ NoReply(Tail(toClient))
  BY <1>0, <1>2, RepliesTail
<1>4. QED
  BY <1>1, <1>2, <1>3 DEF Told

(* A "+" is read and the second part is written.                           *)
LEMMA TurnWritten ==
  ASSUME DataOK, Turn, toClient # <<>>, toClient[1].kind = "plus", toClient' = Tail(toClient),
         wbuf = <<>>, Send(Text(call)), UNCHANGED <<tag, pc, call, up, mode, request>>
  PROVE  Turn' /\ wbuf' = <<>>
<1>1. Own' = Own /\ Text(call)' = Text(call)
  BY DEF Own, Text
<1>2. IsReply(toClient[1])
  BY DEF IsReply
<1>3. /\ mode = "continuing" /\ request = Own /\ pc = "reading" /\ toServer = <<>>
      /\ NoReply(toClient')
  BY <1>2, ReplyHeard
<1>4. toServer' = <<Text(call)>> /\ wbuf' = <<>>
  <2>1. Append(<<>>, Text(call)) = <<Text(call)>>
    OBVIOUS
  <2>2. <<>> \o <<Text(call)>> = <<Text(call)>>
    OBVIOUS
  <2>3. QED
    BY <1>3, <2>1, <2>2 DEF Send
<1>5. Asked'
  BY <1>1, <1>3, <1>4 DEF Asked
<1>6. QED
  BY <1>4, <1>5 DEF Turn

(* What the server does when it is its turn. *)
TakesTurn ==
    /\ Takes /\ UNCHANGED ClientSide
    /\ \/ /\ mode = "command" /\ ~IsText(Received)
          /\ \E s \in Statuses : Answers(Received, s)
          /\ UNCHANGED server
       \/ /\ mode = "continuing" /\ \E s \in Statuses : Answers(request, s)
          /\ mode' = "command" /\ UNCHANGED request
       \/ /\ \E line \in {Plain("plus"), [Plain("plus") EXCEPT !.status = "bad"]} : Sends(line)
          /\ UNCHANGED answers /\ mode' = "continuing"
          /\ \/ mode = "command" /\ ~IsText(Received) /\ request' = Received
             \/ mode = "continuing" /\ IsText(Received) /\ UNCHANGED request

(* Who was asked, then.                                                    *)
LEMMA AskedIsReceived ==
  ASSUME DataOK, Turn, Takes
  PROVE  /\ pc = "reading" /\ NoReply(toClient) /\ toServer' = <<>> /\ up
         /\ \/ Received = Own /\ ~IsText(Received)
            \/ /\ Received = Text(call) /\ IsText(Received)
               /\ mode = "continuing" /\ request = Own
<1>0. toServer # <<>> /\ up /\ toServer' = Tail(toServer)
  BY DEF Takes
<1>1. Asked
  BY <1>0 DEF Turn, Rest, Told
<1>2. toServer = <<Received>> /\ toServer' = <<>>
  <2>1. \A c : Head(<<c>>) = c /\ Tail(<<c>>) = <<>>
    OBVIOUS
  <2>2. QED
    BY <1>0, <1>1, <2>1 DEF Asked, Received
<1>3. \/ Received = Own /\ tag # 0
      \/ Received = Text(call) /\ mode = "continuing" /\ request = Own
  <2>1. \A c : Head(<<c>>) = c
    OBVIOUS
  <2>2. QED
    BY <1>0, <1>1, <2>1 DEF Asked, Received
<1>4. IsText(Text(call)) /\ (IsText(Own) <=> tag = 0)
  BY DEF IsText, Text, Own
<1>5. QED
  BY <1>0, <1>1, <1>2, <1>3, <1>4 DEF Asked

(* The server's turn becomes the client's.                                 *)
LEMMA TurnServed ==
  ASSUME DataOK, ServerTypeOK, Turn, TakesTurn
  PROVE  Turn'
<1>0. /\ Takes /\ UNCHANGED <<tag, pc, call, up>>
      /\ toClient \in Seq(Line)
  BY Zenon DEF DataOK, TakesTurn, ClientSide, client
<1>1. Own' = Own
  BY <1>0 DEF Own
<1>2. /\ pc' = "reading" /\ NoReply(toClient) /\ toServer' = <<>>
      /\ \/ Received = Own /\ ~IsText(Received)
         \/ Received = Text(call) /\ IsText(Received) /\ mode = "continuing" /\ request = Own
  BY <1>0, AskedIsReceived
<1>3. ASSUME NEW line \in Line, IsReply(line), Sends(line),
             IF line.kind = "plus" THEN mode' = "continuing" /\ request' = Own
                                   ELSE mode' = "command"
      PROVE  Turn'
  <2>1. OnlyReply(toClient', line)
    BY <1>0, <1>2, <1>3, RepliesAppend DEF Sends
  <2>2. Told'
    BY <1>1, <1>2, <1>3, <2>1 DEF Told
  <2>3. QED
    BY <2>2 DEF Turn
<1>4. ASSUME NEW c \in Command, NEW s \in Statuses, Answers(c, s), mode' = "command"
      PROVE  Turn'
  <2>1. DoneLine(c.tag, s, c.id) \in Line /\ IsTagged(DoneLine(c.tag, s, c.id))
    BY AnswersAreLines
  <2>2. IsReply(DoneLine(c.tag, s, c.id)) /\ DoneLine(c.tag, s, c.id).kind # "plus"
    BY <2>1 DEF IsReply, IsTagged
  <2>3. QED
    BY <1>3, <1>4, <2>1, <2>2 DEF Answers
<1>5. CASE /\ mode = "command" /\ ~IsText(Received)
           /\ \E s \in Statuses : Answers(Received, s)
           /\ UNCHANGED server
  <2>1. Received \in Command
    BY <1>0, ReceivedIsFirst, Zenon DEF TakesTurn, ClientSide, client
  <2>2. mode' = "command"
    BY <1>5 DEF server
  <2>3. QED
    BY <1>4, <1>5, <2>1, <2>2
<1>6. CASE /\ mode = "continuing" /\ \E s \in Statuses : Answers(request, s)
           /\ mode' = "command" /\ UNCHANGED request
  BY <1>4, <1>6 DEF ServerTypeOK
<1>7. CASE /\ \E line \in {Plain("plus"), [Plain("plus") EXCEPT !.status = "bad"]} : Sends(line)
           /\ UNCHANGED answers /\ mode' = "continuing"
           /\ \/ mode = "command" /\ ~IsText(Received) /\ request' = Received
              \/ mode = "continuing" /\ IsText(Received) /\ UNCHANGED request
  <2>1. request' = Own
    BY <1>2, <1>7
  <2>2. PICK line \in {Plain("plus"), [Plain("plus") EXCEPT !.status = "bad"]} : Sends(line)
    BY <1>7
  <2>3. line \in Line /\ line.kind = "plus"
    <3>1. line \in Remarks
      BY DEF Remarks
    <3>2. line.kind = "plus"
      BY DEF Plain
    <3>3. QED
      BY <3>1, <3>2, RemarksAreLines
  <2>4. QED
    BY <1>3, <1>7, <2>1, <2>2, <2>3 DEF IsReply
<1>8. QED
  BY <1>5, <1>6, <1>7, Zenon DEF TakesTurn

(* A command is issued when nobody owes anything.                          *)
LEMMA TurnIssued ==
  ASSUME DataOK, Turn, wbuf = <<>>, RunCommand
  PROVE  Turn' /\ wbuf' = <<>>
<1>1. Rest /\ UNCHANGED <<toClient, up>> /\ pc' = "reading"
  BY DEF Turn, Asked, Told, RunCommand, CanIssue
<1>2. NewCommand = Own' /\ tag' # 0
  BY Bounds DEF DataOK, RunCommand, NewCommand, NextTag, Own
<1>3. wbuf' = <<>> /\ (up => toServer' = <<NewCommand>>)
  <2>1. Append(<<>>, NewCommand) = <<NewCommand>>
    OBVIOUS
  <2>2. <<>> \o <<NewCommand>> = <<NewCommand>>
    OBVIOUS
  <2>3. QED
    BY <1>1, <2>1, <2>2 DEF Rest, Send, RunCommand
<1>4. Asked'
  BY <1>1, <1>2, <1>3 DEF Asked, Rest
<1>5. QED
  BY <1>3, <1>4 DEF Turn

(* Updates are no replies.                                                 *)
LEMMA RepliesTold ==
  ASSUME DataOK, Announce \/ Leave \/ UNCHANGED <<vars, server>>
  PROVE  /\ NoReply(toClient) => NoReply(toClient')
         /\ \A line \in Line : OnlyReply(toClient, line) => OnlyReply(toClient', line)
<1>0. toClient \in Seq(Line)
  BY DEF DataOK
<1>1. CASE Announce
  <2>1. ASSUME NEW s \in Seq(Line), NEW line \in News, line.kind # "plus"
        PROVE  /\ Append(s, line) \in Seq(Line)
               /\ NoReply(s) => NoReply(Append(s, line))
               /\ \A l \in Line : OnlyReply(s, l) => OnlyReply(Append(s, line), l)
    <3>1. line \in Line /\ ~IsReply(line)
      BY <2>1 DEF News, IsReply
    <3>2. QED
      BY <3>1, RepliesAppend
  <2>2. CASE \E line \in News : line.kind = "data" /\ toClient' = Append(toClient, line)
    BY <1>0, <2>1, <2>2
  <2>3. CASE \E first, last \in News :
               /\ first.kind = "open" /\ last.kind = "close"
               /\ toClient' = Append(Append(toClient, first), last)
    BY <1>0, <2>1, <2>3
  <2>4. QED
    BY <1>1, <2>2, <2>3, AnnouncedLines
<1>2. CASE Leave \/ UNCHANGED <<vars, server>>
  <2>1. UNCHANGED toClient
    BY <1>2, Zenon DEF Leave, HangUp, vars, wire
  <2>2. QED
    BY <2>1
<1>3. QED
  BY <1>1, <1>2

(* So the turn stays where it is.                                          *)
LEMMA TurnTold ==
  ASSUME DataOK, Turn, Announce \/ Leave \/ UNCHANGED <<vars, server>>
  PROVE  Turn'
<1>0. /\ UNCHANGED <<tag, pc, call, toServer, mode, request>> /\ up' \in {up, FALSE}
      /\ toClient \in Seq(Line)
  BY Zenon DEF Announce, Leave, HangUp, client, server, vars, wire, DataOK
<1>1. Own' = Own /\ Text(call)' = Text(call)
  BY <1>0 DEF Own, Text
<1>2. /\ NoReply(toClient) => NoReply(toClient')
      /\ \A line \in Line : OnlyReply(toClient, line) => OnlyReply(toClient', line)
  BY RepliesTold
<1>3. CASE Rest
  BY <1>0, <1>2, <1>3 DEF Rest, Turn
<1>4. CASE Asked
  BY <1>0, <1>1, <1>2, <1>4 DEF Asked, Turn
<1>5. CASE Told
  BY <1>0, <1>1, <1>2, <1>5 DEF Told, Turn
<1>6. QED
  BY <1>3, <1>4, <1>5 DEF Turn

(* A line of its own leaves literals whole, ...                            *)
LEMMA BlocksAdded ==
  ASSUME DataOK, Blocks, UNCHANGED pending, NEW line \in Line, toClient' = Append(toClient, line),
         ~Continues(line), ~Opens(line), line.kind # "junk"
  PROVE  Blocks'
<1>1. /\ Len(toClient) \in Nat /\ Len(toClient') = Len(toClient) + 1
      /\ \A i \in 1..Len(toClient) : toClient'[i] = toClient[i]
      /\ toClient'[Len(toClient) + 1] = line
  BY LineAdded
<1>2. toClient' # <<>>
  BY <1>1
<1>3. \A i \in Len(toClient) + 1..Len(toClient) + 1 : toClient'[i].kind = "junk" => toClient'[i].lit
  BY <1>1
<1>4. ~Continues(toClient'[Len(toClient) + 1]) /\ ~Opens(toClient'[Len(toClient) + 1])
  BY <1>1
<1>5. 1 \in {1, 2, 3} /\ 1 # 3
  OBVIOUS
<1>6. QED
  BY <1>1, <1>2, <1>3, <1>4, <1>5, BlocksExtended

(* ... and so do updates.                                                  *)
LEMMA BlocksTold ==
  ASSUME DataOK, Blocks, UNCHANGED pending, Announce \/ Leave \/ UNCHANGED <<vars, server>>
  PROVE  Blocks'
<1>1. CASE Announce
  <2>1. toClient \in Seq(Line)
    BY DEF DataOK
  <2>2. CASE \E line \in News : line.kind = "data" /\ toClient' = Append(toClient, line)
    <3>1. PICK line \in News : line.kind = "data" /\ toClient' = Append(toClient, line)
      BY <2>2
    <3>2. line \in Line /\ ~Continues(line) /\ ~Opens(line)
      BY <3>1 DEF News, Continues, Opens
    <3>3. QED
      BY <3>1, <3>2, BlocksAdded
  <2>3. CASE \E first, last \in News :
               /\ first.kind = "open" /\ last.kind = "close"
               /\ toClient' = Append(Append(toClient, first), last)
    <3>1. PICK first \in News, last \in News :
               /\ first.kind = "open" /\ last.kind = "close"
               /\ toClient' = Append(Append(toClient, first), last)
      BY <2>3
    <3>2. /\ first \in Line /\ ~Continues(first) /\ Opens(first)
          /\ last \in Line /\ Continues(last) /\ ~Opens(last)
      BY <3>1 DEF News, Continues, Opens
    <3>3. /\ Len(toClient) \in Nat /\ Len(toClient') = Len(toClient) + 2
          /\ \A i \in 1..Len(toClient) : toClient'[i] = toClient[i]
          /\ toClient'[Len(toClient) + 1] = first
          /\ toClient'[Len(toClient) + 2] = last
      BY <2>1, <3>1, <3>2
    <3>4. \A i \in Len(toClient) + 1..Len(toClient) + 2 : toClient'[i].kind # "junk"
      <4>1. \A i \in Len(toClient) + 1..Len(toClient) + 2 :
               i = Len(toClient) + 1 \/ i = Len(toClient) + 2
        BY <3>3
      <4>2. QED
        BY <3>1, <3>3, <4>1
    <3>5. toClient' # <<>>
      BY <3>3
    <3>6. 2 \in {1, 2, 3} /\ 2 # 3
      OBVIOUS
    <3>7. QED
      BY <3>2, <3>3, <3>4, <3>5, <3>6, BlocksExtended
  <2>4. QED
    BY <1>1, <2>2, <2>3, AnnouncedLines
<1>2. CASE Leave \/ UNCHANGED <<vars, server>>
  <2>1. UNCHANGED toClient
    BY <1>2, Zenon DEF Leave, HangUp, vars, wire
  <2>2. QED
    BY <2>1 DEF Blocks
<1>3. QED
  BY <1>1, <1>2

-----------------------------------------------------------------------------
(* All this together: a command is issued, ...                             *)
LEMMA SteadyIssued ==
  ASSUME DataOK, FlagsOK, Steady, RunCommand
  PROVE  Steady'
<1>1. Turn' /\ wbuf' = <<>>
  BY TurnIssued, Zenon DEF Steady, Still
<1>2. Still /\ Blocks /\ pc = "ready"
  BY Zenon DEF Steady, RunCommand, CanIssue
<1>3. pending = FALSE /\ pending' = FALSE /\ UNCHANGED toClient
  BY <1>2, Zenon DEF Still, RunCommand, FlagsOK
<1>4. Blocks'
  BY <1>2, <1>3 DEF Blocks
<1>5. ~broken' /\ ~rolledBack'
  BY <1>2, Zenon DEF Still, RunCommand, TagReused, FlagsOK
<1>6. pc' = "ready" => ~pending'
  BY <1>3
<1>7. QED
  BY <1>1, <1>4, <1>5, <1>6, Zenon DEF Steady, Still

(* ... a line is read by the dialogue, ...                                 *)
LEMMA SteadyTaken ==
  ASSUME DataOK, FlagsOK, Steady, toClient # <<>>, toClient' = Tail(toClient),
         UNCHANGED <<tag, call, wbuf, toServer, up, mode, request, broken, rolledBack>>,
         UNCHANGED <<pc, pending>> \/ (IsReply(toClient[1]) /\ pc' = "ready" /\ pending' = FALSE),
         ~Opens(toClient[1]), pc = "reading",
         ~pending
  PROVE  Steady'
<1>1. Turn'
  BY TurnTaken, Zenon DEF Steady
<1>2. ~pending'
  BY Zenon DEF FlagsOK
<1>3. pending' <=> Opens(toClient[1])
  BY <1>2, Zenon
<1>4. Blocks'
  BY <1>3, BlocksTaken, Zenon DEF Steady
<1>5. wbuf' = <<>> /\ ~broken' /\ ~rolledBack'
  <2>1. wbuf' = wbuf /\ broken' = broken /\ rolledBack' = rolledBack
    OBVIOUS
  <2>2. wbuf = <<>> /\ ~broken /\ ~rolledBack
    BY Zenon DEF Steady, Still
  <2>3. wbuf' = <<>>
    BY <2>1, <2>2
  <2>4. ~broken' /\ ~rolledBack'
    BY <2>1, <2>2
  <2>5. QED
    BY <2>3, <2>4, Zenon
<1>6. QED
  BY <1>1, <1>2, <1>4, <1>5, Zenon DEF Steady, Still

(* ... or answered, ...                                                    *)
LEMMA SteadyWritten ==
  ASSUME DataOK, FlagsOK, Steady, toClient # <<>>, toClient[1].kind = "plus",
         toClient' = Tail(toClient), Send(Text(call)), ~toClient[1].lit,
         UNCHANGED <<tag, pc, pending, call, up, mode, request, broken, rolledBack>>
  PROVE  Steady'
<1>1. Turn' /\ wbuf' = <<>>
  BY TurnWritten, Zenon DEF Steady, Still
<1>2. ~Opens(toClient[1]) /\ ~Continues(toClient[1])
  BY DEF Opens, Continues
<1>3. ~pending
  BY <1>2, Zenon DEF Steady, Blocks
<1>4. Blocks'
  BY <1>2, <1>3, BlocksTaken, Zenon DEF Steady
<1>5. QED
  BY <1>1, <1>3, <1>4, Zenon DEF Steady, Still

(* ... or a line is read as after any command, ...                         *)
LEMMA SteadyRead ==
  ASSUME DataOK, FlagsOK, Steady, ReadLine, UNCHANGED <<mode, request>>
  PROVE  Steady'
<1>1. /\ toClient # <<>> /\ toClient' = Tail(toClient)
      /\ UNCHANGED <<tag, call, wbuf, toServer, up, mode, request, broken, rolledBack>>
  BY Zenon DEF ReadLine, history
<1>2. /\ pending' <=> Opens(toClient[1])
      /\ \/ UNCHANGED pc
         \/ IsTagged(toClient[1]) /\ pc' = "ready"
  BY ReadInBlocks, Zenon DEF Steady
<1>3. Blocks'
  BY <1>1, <1>2, BlocksTaken, Zenon DEF Steady
<1>4. Turn'
  BY <1>1, <1>2, TurnTaken, Zenon DEF Steady, IsReply
<1>5. pc' = "ready" => ~pending'
  <2>1. pc = "reading"
    BY DEF ReadLine
  <2>2. IsTagged(toClient[1]) => ~Opens(toClient[1])
    BY DEF IsTagged, Opens
  <2>3. QED
    BY <1>2, <2>1, <2>2
<1>6. UNCHANGED <<wbuf, broken, rolledBack>>
  BY <1>1
<1>7. QED
  BY <1>3, <1>4, <1>5, <1>6, Zenon DEF Steady, Still

(* ... or there is none left, ...                                          *)
LEMMA SteadyEof ==
  ASSUME DataOK, FlagsOK, Steady, ReadEof, UNCHANGED <<mode, request>>
  PROVE  Steady'
<1>1. /\ ~up /\ up' = up /\ toClient = <<>> /\ toClient' = <<>>
      /\ UNCHANGED <<wbuf, broken, rolledBack>> /\ pending' = FALSE
  BY Zenon DEF ReadEof, Return, wire, history
<1>2. Rest'
  <2>1. Len(<<>>) = 0
    OBVIOUS
  <2>2. QED
    BY <1>1, <2>1 DEF Rest, NoReply
<1>3. Blocks'
  <2>1. Len(<<>>) = 0
    OBVIOUS
  <2>2. QED
    BY <1>1, <2>1 DEF Blocks
<1>4. QED
  BY <1>1, <1>2, <1>3, Zenon DEF Steady, Still, Turn

(* ... the server takes its turn, ...                                      *)
LEMMA SteadyServed ==
  ASSUME DataOK, FlagsOK, ServerTypeOK, Steady, TakesTurn
  PROVE  Steady'
<1>1. Turn'
  BY TurnServed, Zenon DEF Steady
<1>2. Takes /\ UNCHANGED <<pc, pending, wbuf, broken, rolledBack>>
  BY Zenon DEF TakesTurn, ClientSide, client
<1>3. \E line \in Line : /\ toClient' = Append(toClient, line)
                         /\ ~Continues(line) /\ ~Opens(line) /\ line.kind # "junk"
  <2>1. ASSUME NEW c \in Command, NEW s \in Statuses, Answers(c, s)
        PROVE  \E line \in Line : /\ toClient' = Append(toClient, line)
                                  /\ ~Continues(line) /\ ~Opens(line) /\ line.kind # "junk"
    <3>1. DoneLine(c.tag, s, c.id) \in Line
      BY AnswersAreLines
    <3>2. DoneLine(c.tag, s, c.id).kind = "done" /\ ~DoneLine(c.tag, s, c.id).lit
      BY DEF DoneLine
    <3>3. QED
      BY <2>1, <3>1, <3>2 DEF Answers, Sends, Continues, Opens
  <2>2. ASSUME NEW line \in {Plain("plus"), [Plain("plus") EXCEPT !.status = "bad"]}, Sends(line)
        PROVE  /\ line \in Line /\ toClient' = Append(toClient, line)
               /\ ~Continues(line) /\ ~Opens(line) /\ line.kind # "junk"
    <3>1. line \in Remarks
      BY DEF Remarks
    <3>2. line.kind = "plus" /\ ~line.lit
      BY DEF Plain
    <3>3. QED
      BY <2>2, <3>1, <3>2, RemarksAreLines DEF Sends, Continues, Opens
  <2>3. Received \in Command /\ request \in Command
    BY <1>2, ReceivedIsFirst DEF ServerTypeOK
  <2>4. QED
    BY <2>1, <2>2, <2>3, Zenon DEF TakesTurn
<1>4. Blocks'
  <2>1. Blocks /\ UNCHANGED pending
    BY <1>2, Zenon DEF Steady
  <2>2. QED
    BY <1>3, <2>1, BlocksAdded
<1>5. QED
  BY <1>1, <1>2, <1>4, Zenon DEF Steady, Still

(* ... or speaks out of turn.                                              *)
LEMMA SteadyTold ==
  ASSUME DataOK, FlagsOK, Steady, Announce \/ Leave \/ UNCHANGED <<vars, server>>
  PROVE  Steady'
<1>1. Turn'
  BY TurnTold, Zenon DEF Steady
<1>2. UNCHANGED <<pc, pending, wbuf, broken, rolledBack>>
  BY Zenon DEF Announce, Leave, HangUp, client, history, vars
<1>3. Blocks /\ UNCHANGED pending
  BY <1>2, Zenon DEF Steady
<1>4. Blocks'
  BY <1>3, BlocksTold
<1>5. QED
  BY <1>1, <1>2, <1>4, Zenon DEF Steady, Still

(* Between two calls nothing is unanswered then.                           *)
LEMMA SteadyInStep ==
  ASSUME DataOK, Steady, pc = "ready", up
  PROVE  Unanswered = 0
<1>1. Rest /\ wbuf = <<>> /\ toServer = <<>>
  BY Zenon DEF Steady, Still, Turn, Rest, Asked, Told
<1>2. Outgoing = <<>>
  <2>1. <<>> \o <<>> = <<>>
    OBVIOUS
  <2>2. QED
    BY <1>1, <2>1 DEF Outgoing
<1>3. TaggedAt(toClient) = {}
  <2>1. DOMAIN toClient = 1..Len(toClient)
    BY DEF DataOK
  <2>2. QED
    BY <1>1, <2>1 DEF TaggedAt, Rest, NoReply, IsReply
<1>4. Cardinality(TaggedAt(toClient)) = 0 /\ Len(Outgoing) = 0
  BY <1>2, <1>3, FS_EmptySet
<1>5. QED
  BY <1>4, UnansweredIs

-----------------------------------------------------------------------------
(* When in addition no call has given up on a reply, replies and requests  *)
(* are those of the latest call.                                           *)
OwnTurn ==
    /\ \A i \in 1..Len(toClient) :
          IsTagged(toClient[i]) => toClient[i].tag = tag /\ toClient[i].id = call
    /\ up /\ mode = "continuing" => pc = "reading" /\ request = Own
    /\ up /\ toServer # <<>> /\ ~IsText(Received) => mode = "command"

(* It stays so when a command is issued, ...                               *)
LEMMA OwnIssued ==
  ASSUME DataOK, ServerTypeOK, Turn, OwnTurn, RunCommand, UNCHANGED server
  PROVE  OwnTurn'
<1>1. NoReply(toClient) /\ UNCHANGED <<toClient, up, mode>> /\ pc = "ready"
  BY DEF Turn, Rest, Asked, Told, RunCommand, CanIssue, server
<1>2. \A i \in 1..Len(toClient) : ~IsTagged(toClient[i])
  BY <1>1 DEF NoReply, IsReply
<1>3. up => mode = "command"
  BY <1>1 DEF OwnTurn, ServerTypeOK
<1>4. up' => mode' = "command"
  BY <1>1, <1>3
<1>5. QED
  BY <1>1, <1>2, <1>4 DEF OwnTurn

(* ... when a line other than a "+" is read, ...                           *)
LEMMA OwnTaken ==
  ASSUME DataOK, Turn, OwnTurn, toClient # <<>>, toClient' = Tail(toClient),
         toClient[1].kind # "plus",
         UNCHANGED <<tag, call, toServer, up, mode, request>>,
         pc' = pc \/ IsTagged(toClient[1])
  PROVE  OwnTurn'
<1>0. Own' = Own /\ Received' = Received /\ UNCHANGED <<up, mode, request, toServer, tag, call>>
  BY DEF Own, Received
<1>1. \A i \in 1..Len(toClient') :
         IsTagged(toClient'[i]) => toClient'[i].tag = tag' /\ toClient'[i].id = call'
  <2>1. \A i \in 1..Len(toClient') : toClient'[i] = toClient[i + 1] /\ i + 1 \in 1..Len(toClient)
    BY LinesTaken
  <2>2. QED
    BY <1>0, <2>1 DEF OwnTurn
<1>2. CASE pc' = pc
  BY <1>0, <1>1, <1>2 DEF OwnTurn
<1>3. CASE IsTagged(toClient[1])
  <2>1. mode' = "command"
    BY <1>0, <1>3, ReplyHeard DEF IsReply
  <2>2. QED
    BY <1>1, <2>1 DEF OwnTurn
<1>4. QED
  BY <1>2, <1>3

(* ... or is answered, ...                                                 *)
LEMMA OwnWritten ==
  ASSUME DataOK, Turn, OwnTurn, toClient # <<>>, toClient[1].kind = "plus",
         toClient' = Tail(toClient), wbuf = <<>>, Send(Text(call)),
         UNCHANGED <<tag, pc, call, up, mode, request>>
  PROVE  OwnTurn'
<1>0. Own' = Own /\ UNCHANGED <<pc, up, mode, request, tag, call>>
  BY DEF Own
<1>1. \A i \in 1..Len(toClient') : ~IsTagged(toClient'[i])
  <2>1. NoReply(Tail(toClient))
    BY ReplyHeard DEF IsReply
  <2>2. QED
    BY <2>1 DEF NoReply, IsReply
<1>2. pc = "reading" /\ request = Own /\ toServer = <<>>
  BY ReplyHeard DEF IsReply
<1>3. IsText(Received')
  <2>1. Append(<<>>, Text(call)) = <<Text(call)>>
    OBVIOUS
  <2>2. <<>> \o <<Text(call)>> = <<Text(call)>>
    OBVIOUS
  <2>3. toServer' = <<Text(call)>>
    BY <1>2, <2>1, <2>2 DEF Send
  <2>4. Head(<<Text(call)>>) = Text(call) /\ Text(call).tag = 0
    BY DEF Text
  <2>5. QED
    BY <2>3, <2>4 DEF Received, IsText
<1>4. QED
  BY <1>0, <1>1, <1>2, <1>3 DEF OwnTurn, IsText

(* ... when the connection is closed, ...                                  *)
LEMMA OwnEof ==
  ASSUME ReadEof
  PROVE  OwnTurn'
<1>1. ~up' /\ toClient' = <<>>
  BY Zenon DEF ReadEof, wire
<1>2. Len(<<>>) = 0
  OBVIOUS
<1>3. QED
  BY <1>1, <1>2 DEF OwnTurn

(* ... when the server takes its turn, ...                                 *)
LEMMA OwnServed ==
  ASSUME DataOK, ServerTypeOK, Turn, OwnTurn, TakesTurn
  PROVE  OwnTurn'
<1>0. /\ Takes /\ UNCHANGED <<tag, pc, call, up>>
  BY Zenon DEF TakesTurn, ClientSide, client
<1>1. Own' = Own
  BY <1>0 DEF Own
<1>2. /\ pc' = "reading" /\ NoReply(toClient) /\ toServer' = <<>> /\ up
      /\ \/ Received = Own /\ ~IsText(Received)
         \/ Received = Text(call) /\ IsText(Received) /\ mode = "continuing" /\ request = Own
  BY <1>0, AskedIsReceived
<1>3. mode = "continuing" => request = Own
  BY <1>2 DEF OwnTurn
<1>4. ASSUME NEW line \in Line, Sends(line),
             IsTagged(line) => line.tag = tag /\ line.id = call,
             mode' = "continuing" => request' = Own
      PROVE  OwnTurn'
  <2>1. /\ Len(toClient) \in Nat /\ Len(toClient') = Len(toClient) + 1
        /\ \A i \in 1..Len(toClient) : toClient'[i] = toClient[i]
        /\ toClient'[Len(toClient) + 1] = line
    BY <1>4, LineAdded DEF Sends
  <2>2. \A i \in 1..Len(toClient) : ~IsTagged(toClient[i])
    BY <1>2 DEF NoReply, IsReply
  <2>3. \A i \in 1..Len(toClient') :
           IsTagged(toClient'[i]) => toClient'[i].tag = tag' /\ toClient'[i].id = call'
    <3>1. \A i \in 1..Len(toClient') : i \in 1..Len(toClient) \/ i = Len(toClient) + 1
      BY <2>1
    <3>2. QED
      BY <1>0, <1>4, <2>1, <2>2, <3>1
  <2>4. QED
    BY <1>0, <1>1, <1>2, <1>4, <2>3 DEF OwnTurn
<1>5. ASSUME NEW s \in Statuses, Answers(Own, s), mode' = "command" PROVE OwnTurn'
  <2>1. Own \in Command
    BY Bounds DEF Own, Command, DataOK
  <2>2. /\ DoneLine(Own.tag, s, Own.id) \in Line
        /\ DoneLine(Own.tag, s, Own.id).tag = tag /\ DoneLine(Own.tag, s, Own.id).id = call
    BY <2>1, AnswersAreLines DEF Own
  <2>3. QED
    BY <1>4, <1>5, <2>2 DEF Answers
<1>6. CASE /\ mode = "command" /\ ~IsText(Received)
           /\ \E s \in Statuses : Answers(Received, s)
           /\ UNCHANGED server
  BY <1>2, <1>5, <1>6 DEF server
<1>7. CASE /\ mode = "continuing" /\ \E s \in Statuses : Answers(request, s)
           /\ mode' = "command" /\ UNCHANGED request
  BY <1>3, <1>5, <1>7
<1>8. CASE /\ \E line \in {Plain("plus"), [Plain("plus") EXCEPT !.status = "bad"]} : Sends(line)
           /\ UNCHANGED answers /\ mode' = "continuing"
           /\ \/ mode = "command" /\ ~IsText(Received) /\ request' = Received
              \/ mode = "continuing" /\ IsText(Received) /\ UNCHANGED request
  <2>1. request' = Own
    BY <1>2, <1>3, <1>8
  <2>2. PICK line \in {Plain("plus"), [Plain("plus") EXCEPT !.status = "bad"]} : Sends(line)
    BY <1>8
  <2>3. line \in Line /\ ~IsTagged(line)
    <3>1. line \in Remarks
      BY DEF Remarks
    <3>2. line.kind = "plus"
      BY DEF Plain
    <3>3. QED
      BY <3>1, <3>2, RemarksAreLines DEF IsTagged
  <2>4. QED
    BY <1>4, <2>1, <2>2, <2>3
<1>9. QED
  BY <1>6, <1>7, <1>8, Zenon DEF TakesTurn

(* ... or speaks out of turn.                                              *)
LEMMA OwnTold ==
  ASSUME DataOK, OwnTurn, Announce \/ Leave \/ UNCHANGED <<vars, server>>
  PROVE  OwnTurn'
<1>0. UNCHANGED <<tag, pc, call, toServer, mode, request>> /\ (up' => up)
  <2>1. UNCHANGED <<tag, pc, call, toServer, mode, request>>
    BY Zenon DEF Announce, Leave, HangUp, client, server, vars, wire
  <2>2. up' => up
    <3>1. CASE Announce \/ Leave
      BY <3>1, Zenon DEF Announce, Leave, HangUp
    <3>2. CASE UNCHANGED <<vars, server>>
      <4>1. UNCHANGED vars
        BY <3>2
      <4>2. QED
        BY <4>1, Zenon DEF vars, wire
    <3>3. QED
      BY <3>1, <3>2
  <2>3. QED
    BY <2>1, <2>2, Zenon
<1>1. Own' = Own /\ Received' = Received
  BY <1>0 DEF Own, Received
<1>2. \A l \in Range(toClient') : IsTagged(l) => l \in Range(toClient)
  <2>1. CASE Announce \/ Leave
    BY <2>1, AnnounceTells, LeaveTells DEF Tells, News
  <2>2. CASE UNCHANGED <<vars, server>>
    BY <2>2 DEF vars, wire
  <2>3. QED
    BY <2>1, <2>2
<1>3. toClient \in Seq(Line) /\ toClient' \in Seq(Line)
  <2>1. CASE Announce \/ Leave
    BY <2>1, AnnounceTells, LeaveTells DEF Tells, DataOK
  <2>2. CASE UNCHANGED <<vars, server>>
    BY <2>2 DEF vars, wire, DataOK
  <2>3. QED
    BY <2>1, <2>2
<1>4. ASSUME NEW i \in 1..Len(toClient'), IsTagged(toClient'[i])
      PROVE  toClient'[i].tag = tag /\ toClient'[i].id = call
  <2>1. toClient'[i] \in Range(toClient')
    BY <1>3 DEF Range
  <2>2. PICK k \in DOMAIN toClient : toClient'[i] = toClient[k]
    BY <1>2, <1>4, <2>1 DEF Range
  <2>3. DOMAIN toClient = 1..Len(toClient)
    BY <1>3
  <2>4. QED
    BY <1>4, <2>2, <2>3 DEF OwnTurn
<1>5. /\ up' /\ mode' = "continuing" => pc' = "reading" /\ request' = Own'
      /\ up' /\ toServer' # <<>> /\ ~IsText(Received)' => mode' = "command"
  <2>1. IsText(Received)' <=> IsText(Received)
    BY <1>1 DEF IsText
  <2>2. QED
    BY <1>0, <1>1, <2>1 DEF OwnTurn
<1>6. QED
  BY <1>0, <1>4, <1>5 DEF OwnTurn

(* Lines without a reply, whatever their order.                            *)
LEMMA NoneIsReply ==
  ASSUME NEW s \in Seq(Line), NoReply(s), NEW line \in Range(s)
  PROVE  ~IsReply(line)
<1>1. PICK i \in DOMAIN s : line = s[i]
  BY DEF Range
<1>2. DOMAIN s = 1..Len(s)
  OBVIOUS
<1>3. QED
  BY <1>1, <1>2 DEF NoReply

(* No update is a "+".                                                     *)
LEMMA NoPlusTold ==
  ASSUME DataOK, Announce \/ Leave \/ UNCHANGED <<vars, server>>,
         NEW line \in Range(toClient'), line.kind = "plus"
  PROVE  line \in Range(toClient)
<1>1. CASE Announce
  <2>1. toClient \in Seq(Line) /\ News \subseteq Line
    BY DEF DataOK, News
  <2>2. CASE \E new \in News : new.kind = "data" /\ toClient' = Append(toClient, new)
    BY <2>1, <2>2, RangeAppend
  <2>3. CASE \E first, last \in News :
               /\ first.kind = "open" /\ last.kind = "close"
               /\ toClient' = Append(Append(toClient, first), last)
    <3>1. PICK first \in News, last \in News :
               /\ first.kind = "open" /\ last.kind = "close"
               /\ toClient' = Append(Append(toClient, first), last)
      BY <2>3
    <3>2. Append(toClient, first) \in Seq(Line)
      BY <2>1
    <3>3. \A s \in Seq(Line), l \in Line : Range(Append(s, l)) = Range(s) \cup {l}
      BY RangeAppend
    <3>4. Range(toClient') = Range(toClient) \cup {first} \cup {last}
      BY <2>1, <3>1, <3>2, <3>3
    <3>5. QED
      BY <3>1, <3>4
  <2>4. QED
    BY <1>1, <2>2, <2>3, AnnouncedLines
<1>2. CASE Leave \/ UNCHANGED <<vars, server>>
  <2>1. UNCHANGED toClient
    BY <1>2, Zenon DEF Leave, HangUp, vars, wire
  <2>2. QED
    BY <2>1
<1>3. QED
  BY <1>1, <1>2

(* Updates come after what was said before.                                *)
LEMMA AnnouncedBefore ==
  ASSUME DataOK, Announce
  PROVE  Range(toClient) \subseteq Range(toClient')
<1>1. toClient \in Seq(Line) /\ News \subseteq Line
  BY DEF DataOK, News
<1>2. \A s \in Seq(Line), l \in Line :
         Append(s, l) \in Seq(Line) /\ Range(Append(s, l)) = Range(s) \cup {l}
  BY RangeAppend
<1>3. CASE \E line \in News : toClient' = Append(toClient, line)
  BY <1>1, <1>2, <1>3
<1>4. CASE \E first, last \in News : toClient' = Append(Append(toClient, first), last)
  <2>1. PICK first \in News, last \in News : toClient' = Append(Append(toClient, first), last)
    BY <1>4
  <2>2. Range(toClient') = Range(toClient) \cup {first} \cup {last}
    BY <1>1, <1>2, <2>1
  <2>3. QED
    BY <2>2
<1>5. QED
  BY <1>3, <1>4, AnnouncedLines

(* A dialogue begins in turn.                                              *)
LEMMA SteadyInit ==
  Init /\ ServerInit => Steady /\ OwnTurn
<1> SUFFICES ASSUME Init, ServerInit PROVE Steady /\ OwnTurn
  OBVIOUS
<1>1. /\ toClient = <<>> /\ toServer = <<>> /\ wbuf = <<>> /\ pending = FALSE
      /\ broken = FALSE /\ rolledBack = FALSE /\ mode = "command"
  BY DEF Init, ServerInit
<1>2. Len(<<>>) = 0
  OBVIOUS
<1>3. Still
  BY <1>1, Zenon DEF Still
<1>4. Blocks /\ Turn
  BY <1>1, <1>2 DEF Blocks, Turn, Rest, NoReply
<1>5. OwnTurn
  BY <1>1, <1>2 DEF OwnTurn
<1>6. QED
  BY <1>3, <1>4, <1>5 DEF Steady
=============================================================================
