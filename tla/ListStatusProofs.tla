-------------------------- MODULE ListStatusProofs --------------------------
(***************************************************************************)
(* Proofs about ListStatus, for any set of mailboxes and replies of any    *)
(* length.                                                                 *)
(***************************************************************************)
EXTENDS ListStatus, SequenceTheorems, TLAPS

Response == [kind : {"LIST", "STATUS"}, mailbox : Mailboxes]

(* Type correctness, the flag apart from the rest.                         *)
DataOK ==
    /\ lines \in Seq(Response)
    /\ names \in Seq(Pair)
    /\ currentName \in Mailboxes \cup {None}
    /\ currentMailbox \in Mailboxes \cup {None}

(* None is not a mailbox.                                                  *)
LEMMA NoneIsNoMailbox == None \notin Mailboxes
  BY ListStatusAssumption DEF ListStatusAssumption

(* What reading a response does to the history.                            *)
LEMMA ReadsStep ==
  ASSUME DataOK, NEW kind \in {"LIST", "STATUS"}, NEW m \in Mailboxes, Reads(kind, m)
  PROVE  /\ lines' \in Seq(Response)
         /\ Len(lines) \in Nat /\ Len(lines') = Len(lines) + 1
         /\ DOMAIN lines = 1..Len(lines) /\ DOMAIN lines' = 1..(Len(lines) + 1)
         /\ \A i \in DOMAIN lines : lines'[i] = lines[i]
         /\ lines'[Len(lines) + 1] = [kind |-> kind, mailbox |-> m]
<1> DEFINE r == [kind |-> kind, mailbox |-> m]
<1>1. r \in Response /\ lines \in Seq(Response) /\ lines' = Append(lines, r)
  BY DEF Response, DataOK, Reads
<1> HIDE DEF r
<1>2. QED
  BY <1>1, AppendProperties, LenProperties DEF r

(* The pair (cur_name, current_mailbox).                                   *)
CurrentPair == [name |-> currentName, mailbox |-> currentMailbox]

(* What names.push does: it adds the current pair, if there is a name.     *)
LEMMA PushStep ==
  ASSUME DataOK, Push
  PROVE  /\ names' \in Seq(Pair)
         /\ currentName = None => names' = names
         /\ currentName # None => Range(names') = Range(names) \cup {CurrentPair}
<1>1. CASE currentName = None
  BY <1>1 DEF Push, DataOK
<1>2. CASE currentName # None
  <2>1. CurrentPair \in Pair /\ names \in Seq(Pair) /\ names' = Append(names, CurrentPair)
    BY <1>2 DEF CurrentPair, Pair, Push, DataOK
  <2>2. /\ names' \in Seq(Pair) /\ Len(names) \in Nat /\ Len(names') = Len(names) + 1
        /\ \A i \in 1..Len(names) : names'[i] = names[i]
        /\ names'[Len(names) + 1] = CurrentPair
    BY <2>1, AppendProperties, LenProperties
  <2>3. Range(names) = {names[i] : i \in 1..Len(names)}
    BY <2>1, RangeEquality
  <2>4. Range(names') = {names'[i] : i \in 1..Len(names')}
    BY <2>2, RangeEquality
  <2>5. Range(names') = Range(names) \cup {CurrentPair}
    BY <2>2, <2>3, <2>4
  <2>6. QED
    BY <1>2, <2>2, <2>5
<1>3. QED
  BY <1>1, <1>2

(* Types are kept.                                                         *)
LEMMA DataOKStep == DataOK /\ [Next]_vars => DataOK'
<1> SUFFICES ASSUME DataOK, [Next]_vars PROVE DataOK'
  OBVIOUS
<1>1. ASSUME NEW m \in Mailboxes, OnList(m) PROVE DataOK'
  BY <1>1, ReadsStep, PushStep DEF OnList, ClearMailbox, DataOK
<1>2. ASSUME NEW m \in Mailboxes, OnStatus(m) PROVE DataOK'
  BY <1>2, ReadsStep DEF OnStatus, DataOK
<1>3. CASE End
  BY <1>3, PushStep DEF End, PushLast, DataOK
<1>4. CASE UNCHANGED vars
  BY <1>4 DEF vars, DataOK
<1>5. QED
  BY <1>1, <1>2, <1>3, <1>4 DEF Next

(* The part of type correctness that the other invariants rest on.         *)
LEMMA DataCorrect == Spec => []DataOK
<1>1. Init => DataOK
  BY EmptySeq DEF Init, DataOK
<1>2. QED
  BY <1>1, DataOKStep, PTL DEF Spec

(* The parser's variables keep their types.                                *)
THEOREM TypeCorrect == Spec => []TypeOK
<1>1. Init => done \in BOOLEAN
  BY DEF Init
<1>2. (done \in BOOLEAN) /\ [Next]_vars => (done \in BOOLEAN)'
  <2>1. [Next]_vars => done' \in {done, TRUE}
    BY Zenon DEF Next, vars, OnList, OnStatus, End, PushLast
  <2>2. QED
    BY <2>1, Zenon
<1>3. DataOK /\ done \in BOOLEAN => TypeOK
  BY Zenon DEF DataOK, TypeOK, Response
<1>4. QED
  BY <1>1, <1>2, <1>3, DataCorrect, PTL DEF Spec

-----------------------------------------------------------------------------
(* The pairs.                                                              *)

(* While the server keeps each STATUS next to its LIST, the current name   *)
(* is the mailbox of the latest response, and the current mailbox holds    *)
(* its status as soon as it has come, but never an older one.              *)
CurrentIsLatest ==
    /\ lines = <<>> => currentName = None /\ currentMailbox = None
    /\ lines # <<>> =>
         /\ currentName = lines[Len(lines)].mailbox
         /\ lines[Len(lines)].kind = "LIST" => currentMailbox = None
         /\ lines[Len(lines)].kind = "STATUS" => currentMailbox = currentName

(* The complete pairs are right ... *)
PairsAreOwn == \A p \in Range(names) : p.mailbox \in {p.name, None}

Own(m) == [name |-> m, mailbox |-> m]

(* ... and only the status that came last may not be in one yet.           *)
OthersArePaired ==
    \A i \in DOMAIN lines :
        lines[i].kind = "STATUS" /\ (done \/ i # Len(lines))
            => Own(lines[i].mailbox) \in Range(names)

Pairing == Adjacent => CurrentIsLatest /\ PairsAreOwn /\ OthersArePaired

(* The history only grows, so that a reply in order has been so before.    *)
LEMMA AdjacentBefore ==
  ASSUME DataOK, NEW kind \in {"LIST", "STATUS"}, NEW m \in Mailboxes, Reads(kind, m), Adjacent'
  PROVE  /\ Adjacent
         /\ kind = "STATUS" =>
              lines # <<>> /\ lines[Len(lines)] = [kind |-> "LIST", mailbox |-> m]
<1> DEFINE n == Len(lines)
<1>1. /\ n \in Nat /\ DOMAIN lines = 1..n /\ DOMAIN lines' = 1..(n + 1)
      /\ \A i \in DOMAIN lines : lines'[i] = lines[i]
      /\ lines'[n + 1] = [kind |-> kind, mailbox |-> m]
  BY ReadsStep
<1>2. n = 0 => lines = <<>>
  BY EmptySeq DEF DataOK
<1> HIDE DEF n
<1>3. Adjacent
  BY <1>1 DEF Adjacent
<1>4. ASSUME kind = "STATUS"
      PROVE  n > 0 /\ lines[n] = [kind |-> "LIST", mailbox |-> m]
  <2>1. n + 1 > 1 /\ lines'[(n + 1) - 1]
          = [kind |-> "LIST", mailbox |-> lines'[n + 1].mailbox]
    BY <1>1, <1>4 DEF Adjacent
  <2>2. (n + 1) - 1 = n /\ n \in DOMAIN lines
    BY <1>1, <2>1
  <2>3. QED
    BY <1>1, <2>1, <2>2
<1>5. n > 0 => lines # <<>>
  BY DEF n
<1>6. QED
  BY <1>3, <1>4, <1>5 DEF n

(* One pair is completed: the latest name with its own status, or none.    *)
LEMMA PushIsOwn ==
  ASSUME DataOK, CurrentIsLatest, PairsAreOwn, OthersArePaired, Push
  PROVE  /\ PairsAreOwn'
         /\ \A i \in DOMAIN lines :
              lines[i].kind = "STATUS" => Own(lines[i].mailbox) \in Range(names')
<1>1. lines \in Seq(Response) /\ Len(lines) \in Nat /\ DOMAIN lines = 1..Len(lines)
  BY LenProperties DEF DataOK
<1>2. CASE lines = <<>>
  BY <1>1, <1>2, PushStep DEF CurrentIsLatest, PairsAreOwn
<1>3. CASE lines # <<>>
  <2>1. Len(lines) \in DOMAIN lines
    BY <1>1, <1>3, EmptySeq
  <2> DEFINE last == lines[Len(lines)]
  <2>2. last \in Response
    BY <1>1, <2>1
  <2>3. /\ currentName \in Mailboxes /\ currentName # None
        /\ CurrentPair.mailbox \in {CurrentPair.name, None}
        /\ last.kind = "STATUS" => Own(last.mailbox) = CurrentPair
    BY <1>3, <2>2, NoneIsNoMailbox DEF CurrentIsLatest, CurrentPair, Response, Own
  <2>4. Range(names') = Range(names) \cup {CurrentPair}
    BY <2>3, PushStep
  <2>5. PairsAreOwn'
    BY <2>3, <2>4 DEF PairsAreOwn
  <2>6. ASSUME NEW i \in DOMAIN lines, lines[i].kind = "STATUS"
        PROVE  Own(lines[i].mailbox) \in Range(names')
    BY <2>3, <2>4, <2>6 DEF OthersArePaired
  <2>7. QED
    BY <2>5, <2>6
<1>4. QED
  BY <1>2, <1>3

(* Each step keeps the pairs right.                                        *)
LEMMA PairingStep == DataOK /\ Pairing /\ [Next]_vars => Pairing'
<1> SUFFICES ASSUME DataOK, Pairing, [Next]_vars, Adjacent'
             PROVE  CurrentIsLatest' /\ PairsAreOwn' /\ OthersArePaired'
  BY DEF Pairing
<1>1. ASSUME NEW m \in Mailboxes, OnList(m)
      PROVE  CurrentIsLatest' /\ PairsAreOwn' /\ OthersArePaired'
  <2>1. Reads("LIST", m) /\ Push /\ currentName' = m /\ ClearMailbox /\ done' = done /\ ~done
    BY <1>1, Zenon DEF OnList, Reads
  <2>2. CurrentIsLatest /\ PairsAreOwn /\ OthersArePaired
    BY <2>1, AdjacentBefore DEF Pairing
  <2>3. /\ Len(lines) \in Nat /\ Len(lines') = Len(lines) + 1
        /\ DOMAIN lines = 1..Len(lines) /\ DOMAIN lines' = 1..(Len(lines) + 1)
        /\ \A i \in DOMAIN lines : lines'[i] = lines[i]
        /\ lines'[Len(lines) + 1] = [kind |-> "LIST", mailbox |-> m]
    BY <2>1, ReadsStep
  <2>4. currentMailbox' = None
    <3>1. currentName = None => lines = <<>>
      <4>1. lines # <<>> => lines[Len(lines)] \in Response
        BY ElementOfSeq, EmptySeq, LenProperties DEF DataOK
      <4>2. QED
        BY <2>2, <4>1, NoneIsNoMailbox DEF CurrentIsLatest, Response
    <3>2. QED
      BY <2>1, <2>2, <3>1 DEF ClearMailbox, CurrentIsLatest
  <2>5. lines' # <<>>
    BY <2>3
  <2>6. CurrentIsLatest'
    BY <2>1, <2>3, <2>4, <2>5 DEF CurrentIsLatest
  <2>7. /\ PairsAreOwn'
        /\ \A i \in DOMAIN lines :
             lines[i].kind = "STATUS" => Own(lines[i].mailbox) \in Range(names')
    BY <2>1, <2>2, PushIsOwn
  <2>8. ASSUME NEW i \in DOMAIN lines', lines'[i].kind = "STATUS"
        PROVE  Own(lines'[i].mailbox) \in Range(names')
    <3>1. i \in DOMAIN lines /\ lines'[i] = lines[i]
      BY <2>3, <2>8
    <3>2. QED
      BY <2>7, <2>8, <3>1
  <2>9. QED
    BY <2>6, <2>7, <2>8, Zenon DEF OthersArePaired, Own
<1>2. ASSUME NEW m \in Mailboxes, OnStatus(m)
      PROVE  CurrentIsLatest' /\ PairsAreOwn' /\ OthersArePaired'
  <2>1. Reads("STATUS", m) /\ currentMailbox' = m /\ names' = names
        /\ currentName' = currentName /\ ~done'
    BY <1>2, Zenon DEF OnStatus, Reads
  <2>2. /\ CurrentIsLatest /\ PairsAreOwn /\ OthersArePaired
        /\ lines # <<>> /\ lines[Len(lines)] = [kind |-> "LIST", mailbox |-> m]
    BY <2>1, AdjacentBefore DEF Pairing
  <2>3. /\ Len(lines) \in Nat /\ Len(lines') = Len(lines) + 1
        /\ DOMAIN lines = 1..Len(lines) /\ DOMAIN lines' = 1..(Len(lines) + 1)
        /\ \A i \in DOMAIN lines : lines'[i] = lines[i]
        /\ lines'[Len(lines) + 1] = [kind |-> "STATUS", mailbox |-> m]
    BY <2>1, ReadsStep
  <2>4. lines' # <<>>
    BY <2>3
  <2>5. CurrentIsLatest'
    BY <2>1, <2>2, <2>3, <2>4 DEF CurrentIsLatest
  <2>6. PairsAreOwn'
    BY <2>1, <2>2 DEF PairsAreOwn
  <2>7. ASSUME NEW i \in DOMAIN lines', lines'[i].kind = "STATUS", i # Len(lines')
        PROVE  Own(lines'[i].mailbox) \in Range(names')
    <3>1. i \in DOMAIN lines /\ lines'[i] = lines[i]
      BY <2>3, <2>7
    <3>2. lines[i].kind = "STATUS" /\ i # Len(lines)
      BY <2>2, <2>7, <3>1
    <3>3. QED
      BY <2>1, <2>2, <3>1, <3>2 DEF OthersArePaired
  <2>8. QED
    BY <2>1, <2>5, <2>6, <2>7, Zenon DEF OthersArePaired, Own
<1>3. CASE End
  <2>1. Push /\ UNCHANGED <<lines, currentName, currentMailbox>>
    BY <1>3 DEF End, PushLast
  <2>2. CurrentIsLatest /\ PairsAreOwn /\ OthersArePaired
    BY <2>1 DEF Pairing, Adjacent
  <2>3. CurrentIsLatest'
    BY <2>1, <2>2 DEF CurrentIsLatest
  <2>4. QED
    BY <2>1, <2>2, <2>3, PushIsOwn, Zenon DEF OthersArePaired, Own
<1>4. CASE UNCHANGED vars
  <2>1. Adjacent
    BY <1>4 DEF vars, Adjacent
  <2>2. QED
    BY <1>4, <2>1, Zenon DEF vars, Pairing, CurrentIsLatest, PairsAreOwn, OthersArePaired
<1>5. QED
  BY <1>1, <1>2, <1>3, <1>4 DEF Next

(* The pairs are right in every state.                                     *)
LEMMA PairingHolds == Spec => []Pairing
<1>1. Init => Pairing
  BY EmptySeq DEF Init, Pairing, CurrentIsLatest, PairsAreOwn, OthersArePaired, Range
<1>2. QED
  BY <1>1, PairingStep, DataCorrect, PTL DEF Spec

(* As long as the server sends each STATUS right after its LIST, no name   *)
(* is paired with the status of another mailbox, even when some are        *)
(* missing (current_mailbox is cleared with each push).                    *)
THEOREM NamesArePaired == Spec => []PairedIfAdjacent
<1>1. DataOK /\ Pairing => PairedIfAdjacent
  BY RangeEquality, LenProperties DEF DataOK, Pairing, PairsAreOwn, PairedIfAdjacent
<1>2. QED
  BY <1>1, PairingHolds, DataCorrect, PTL

(* ... and no status it sent is missing from the result, the last one      *)
(* included (the push after lines.is_empty()).                             *)
THEOREM StatusesAreKept == Spec => []NoneDropped
<1>1. DataOK /\ Pairing => NoneDropped
  <2> SUFFICES ASSUME DataOK, Pairing, Adjacent, done,
                      NEW i \in DOMAIN lines, lines[i].kind = "STATUS"
               PROVE  \E j \in DOMAIN names : names[j] = Own(lines[i].mailbox)
    BY DEF NoneDropped, Own
  <2>1. Own(lines[i].mailbox) \in Range(names)
    BY Zenon DEF Pairing, OthersArePaired
  <2>2. Range(names) = {names[j] : j \in 1..Len(names)} /\ DOMAIN names = 1..Len(names)
    BY RangeEquality, LenProperties DEF DataOK
  <2>3. QED
    BY <2>1, <2>2
<1>2. QED
  BY <1>1, PairingHolds, DataCorrect, PTL
=============================================================================
