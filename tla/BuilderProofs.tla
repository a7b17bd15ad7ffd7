---------------------------- MODULE BuilderProofs -----------------------------
(***************************************************************************)
(* Proofs about Builder: every mode, every server, any number of untagged  *)
(* responses.                                                              *)
(***************************************************************************)
EXTENDS Builder, SequenceTheorems, TLAPS

(* Type correctness, the flags apart from the rest: no one prover handles  *)
(* both.                                                                   *)
FlagsOK == {port993, offers, greeted, up} \subseteq BOOLEAN

(* The types of the data; with the flags above, TypeOK.                    *)
DataOK ==
    /\ mode \in Modes
    /\ found \subseteq {"starttls", "warn"}
    /\ step \in Steps
    /\ layer \in {"plain", "tls"}
    /\ buf \in Seq(Piece)
    /\ server \in {"plain", "hello", "tls"}
    /\ asked \in {"none", "CAPABILITY", "STARTTLS"}
    /\ sock \in Seq(Piece)
    /\ chatter \in 0..MaxChatter

-----------------------------------------------------------------------------
(* The inductive invariant: what the client may still find in its input,   *)
(* by how far it is.                                                       *)

Pushed(k) == k \in {"data", "warn"}

(* Nothing here answers a command.                                         *)
AllPushed(s) == \A i \in 1..Len(s) : Pushed(s[i].line)

(* A sequence of whole lines. *)
Whole(s) ==
    /\ s # <<>> => ~s[1].last /\ s[Len(s)].last
    /\ \A i \in 1..Len(s) - 1 :
          IF s[i].last THEN ~s[i+1].last ELSE s[i+1].last /\ s[i+1].line = s[i].line

(* The server sends nothing but untagged responses after a tagged OK. *)
OkIsLast(s) ==
    \A i, j \in 1..Len(s) :
        i < j /\ s[i].line = "ok" /\ s[i].last => Pushed(s[j].line)

(* A tagged OK is here, whole or in part.                                  *)
HasOk(s) == \E i \in 1..Len(s) : s[i].line = "ok"

(* Each OK comes after the line that lists STARTTLS. *)
ListedFirst(s) ==
    \A j \in 1..Len(s) : s[j].line = "ok" => \E i \in 1..j : s[i].line = "starttls"

(* read_greeting is to come, in the layer the builder settled on at once.  *)
BeforeGreeting ==
    /\ asked = "none"
    /\ ~greeted => Input = <<>>
    /\ greeted => server # "hello" /\ Len(Input) >= 2
    /\ Whole(Input)
    /\ \A i \in 3..Len(Input) : Pushed(Input[i].line)

(* Before the greeting is read, over TLS where the mode starts with it.    *)
AtGreeting ==
    /\ BeforeGreeting
    /\ layer = "tls" <=> TlsFirst(mode, port993)

(* Inside capabilities(). *)
AtCapability ==
    /\ Upgrades /\ greeted
    /\ server = "plain" /\ layer = "plain"
    /\ asked # "STARTTLS"
    /\ asked = "CAPABILITY" => AllPushed(Input)
    /\ Whole(Input)
    /\ OkIsLast(Input)
    /\ offers /\ "starttls" \notin found => ListedFirst(Input)

(* Waiting for the reply to STARTTLS. *)
AtStartTls ==
    /\ Upgrades /\ greeted
    /\ layer = "plain"
    /\ asked # "CAPABILITY"
    /\ asked = "STARTTLS" => server = "plain" /\ AllPushed(Input)
    /\ HasOk(Input) => asked = "none" /\ server = "hello"
    /\ Whole(Input)

(* Before the TLS handshake: no command waits and nothing is read ahead.   *)
AtHandshake ==
    /\ layer = "plain" /\ buf = <<>> /\ asked = "none"
    /\ Upgrades => greeted
    /\ ~Upgrades => TlsFirst(mode, port993) /\ BeforeGreeting

(* The Client is handed out: its layer is allowed and no reply is left.    *)
AtReady ==
    /\ NeverDowngraded
    /\ layer = server /\ greeted /\ asked = "none"
    /\ AllPushed(Input)
    /\ ~(mode = "Auto" /\ layer = "plain") => Whole(Input)

(* The inductive invariant: what holds at each step of connect_with.       *)
Negotiating ==
    /\ server = "tls" <=> layer = "tls"
    /\ asked # "none" => server = "plain"
    /\ step = "greeting"   => AtGreeting
    /\ step = "capability" => AtCapability
    /\ step = "starttls"   => AtStartTls
    /\ step = "handshake"  => AtHandshake
    /\ step = "ready"      => AtReady

-----------------------------------------------------------------------------
(* Sequences of pieces.                                                    *)

(* What is left of a sequence after its first n elements.                  *)
LEMMA Suffix ==
  ASSUME NEW s \in Seq(Piece), NEW n \in 0..Len(s)
  PROVE  LET t == SubSeq(s, n + 1, Len(s))
         IN /\ t \in Seq(Piece) /\ Len(t) = Len(s) - n
            /\ \A i \in 1..Len(s) - n : t[i] = s[n + i]
<1>1. Len(s) \in Nat /\ \A i \in n + 1..Len(s) : s[i] \in Piece
  OBVIOUS
<1>2. QED
  BY <1>1, SubSeqProperties

(* The pieces of a line.                                                   *)
LEMMA TwoPieces ==
  ASSUME NEW k \in LineKinds
  PROVE  /\ Pieces(k) \in Seq(Piece) /\ Len(Pieces(k)) = 2
         /\ Pieces(k)[1].line = k /\ ~Pieces(k)[1].last
         /\ Pieces(k)[2].line = k /\ Pieces(k)[2].last
<1>1. [line |-> k, last |-> FALSE] \in Piece /\ [line |-> k, last |-> TRUE] \in Piece
  BY DEF Piece
<1>2. QED
  BY <1>1 DEF Pieces

(* A sequence with a line added.                                           *)
LEMMA LineAdded ==
  ASSUME NEW s \in Seq(Piece), NEW k \in LineKinds
  PROVE  LET t == s \o Pieces(k)
         IN /\ t \in Seq(Piece) /\ Len(t) = Len(s) + 2
            /\ \A i \in 1..Len(s) : t[i] = s[i]
            /\ t[Len(s) + 1].line = k /\ ~t[Len(s) + 1].last
            /\ t[Len(s) + 2].line = k /\ t[Len(s) + 2].last
<1> DEFINE t == s \o Pieces(k)
<1>1. Len(s) \in Nat
  OBVIOUS
<1>2. Pieces(k) \in Seq(Piece) /\ Len(Pieces(k)) = 2
  BY TwoPieces
<1>3. /\ t \in Seq(Piece) /\ Len(t) = Len(s) + Len(Pieces(k))
      /\ \A i \in 1..Len(s) + Len(Pieces(k)) :
            t[i] = IF i <= Len(s) THEN s[i] ELSE Pieces(k)[i - Len(s)]
  BY <1>2, ConcatProperties, Zenon
<1> HIDE DEF t
<1>4. /\ t \in Seq(Piece) /\ Len(t) = Len(s) + 2
      /\ \A i \in 1..Len(s) : t[i] = s[i]
      /\ t[Len(s) + 1] = Pieces(k)[1] /\ t[Len(s) + 2] = Pieces(k)[2]
  BY <1>1, <1>2, <1>3
<1>5. QED
  BY <1>4, TwoPieces, Zenon DEF t

(* The first line of a whole sequence is two pieces.                       *)
LEMMA FirstLine ==
  ASSUME NEW s \in Seq(Piece), Whole(s), Len(s) >= 2
  PROVE  s[2].line = s[1].line /\ s[2].last /\ ~s[1].last
  BY DEF Whole

(* What is left of it after the first line.                                *)
LEMMA SecondLine ==
  ASSUME NEW s \in Seq(Piece), Len(s) >= 2
  PROVE  LET t == SubSeq(s, 3, Len(s))
         IN /\ t \in Seq(Piece) /\ Len(t) = Len(s) - 2 /\ Len(s) \in Nat
            /\ \A i \in 1..Len(s) - 2 : t[i] = s[2 + i]
<1>1. Len(s) \in Nat /\ 2 \in 0..Len(s) /\ 2 + 1 = 3
  OBVIOUS
<1>2. /\ SubSeq(s, 2 + 1, Len(s)) \in Seq(Piece) /\ Len(SubSeq(s, 2 + 1, Len(s))) = Len(s) - 2
      /\ \A i \in 1..Len(s) - 2 : SubSeq(s, 2 + 1, Len(s))[i] = s[2 + i]
  BY <1>1, Suffix, Zenon
<1>3. QED
  BY <1>1, <1>2, Zenon

(* Taking the first line away keeps the others whole ...                   *)
LEMMA WholeRead ==
  ASSUME NEW s \in Seq(Piece), Whole(s), Len(s) >= 2
  PROVE  Whole(SubSeq(s, 3, Len(s)))
<1> DEFINE t == SubSeq(s, 3, Len(s))
<1>1. /\ t \in Seq(Piece) /\ Len(t) = Len(s) - 2 /\ Len(s) \in Nat
      /\ \A i \in 1..Len(s) - 2 : t[i] = s[2 + i]
  BY SecondLine, Zenon
<1>2. s[2].last
  BY <1>1, FirstLine
<1> HIDE DEF t
<1>3. ASSUME t # <<>> PROVE ~t[1].last /\ t[Len(t)].last
  <2>1. Len(t) >= 1 /\ t[1] = s[3] /\ t[Len(t)] = s[Len(s)]
    BY <1>1, <1>3
  <2>2. s # <<>> /\ Len(s) \in Nat /\ 2 \in 1..Len(s) - 1
    BY <1>1, <2>1
  <2>3. ~s[2 + 1].last /\ s[Len(s)].last
    BY <1>2, <2>2 DEF Whole
  <2>4. QED
    BY <2>1, <2>3
<1>4. ASSUME NEW i \in 1..Len(t) - 1
      PROVE  IF t[i].last THEN ~t[i+1].last ELSE t[i+1].last /\ t[i+1].line = t[i].line
  <2>1. t[i] = s[i+2] /\ t[i+1] = s[(i+2)+1] /\ i + 2 \in 1..Len(s) - 1
    BY <1>1
  <2>2. QED
    BY <2>1 DEF Whole
<1>5. Whole(t)
  BY <1>3, <1>4 DEF Whole
<1>6. QED
  BY <1>5 DEF t

(* ... and adding one too.                                                 *)
LEMMA WholeAdded ==
  ASSUME NEW s \in Seq(Piece), Whole(s), NEW k \in LineKinds
  PROVE  Whole(s \o Pieces(k))
<1> DEFINE t == s \o Pieces(k)
           n == Len(s)
<1>1. /\ t \in Seq(Piece) /\ Len(t) = n + 2 /\ n \in Nat
      /\ \A i \in 1..n : t[i] = s[i]
      /\ t[n + 1].line = k /\ ~t[n + 1].last
      /\ t[n + 2].line = k /\ t[n + 2].last
  BY LineAdded
<1>2. n # 0 => ~s[1].last /\ s[n].last
  BY DEF Whole
<1> HIDE DEF t
<1>3. ~t[1].last /\ t[Len(t)].last
  BY <1>1, <1>2
<1>4. ASSUME NEW i \in 1..Len(t) - 1
      PROVE  IF t[i].last THEN ~t[i+1].last ELSE t[i+1].last /\ t[i+1].line = t[i].line
  <2>1. CASE i < n
    <3>1. t[i] = s[i] /\ t[i+1] = s[i+1] /\ i \in 1..n - 1
      BY <1>1, <2>1
    <3>2. QED
      BY <3>1 DEF Whole
  <2>2. CASE i = n
    BY <1>1, <1>2, <2>2
  <2>3. CASE i = n + 1
    BY <1>1, <2>3
  <2>4. QED
    BY <1>1, <2>1, <2>2, <2>3
<1>5. Whole(t)
  BY <1>3, <1>4 DEF Whole
<1>6. QED
  BY <1>5 DEF t

(* What is known of a sequence is known of each of its suffixes.           *)
LEMMA SuffixKeeps ==
  ASSUME NEW s \in Seq(Piece), NEW n \in 0..Len(s)
  PROVE  LET t == SubSeq(s, n + 1, Len(s))
         IN /\ AllPushed(s) => AllPushed(t)
            /\ OkIsLast(s) => OkIsLast(t)
            /\ HasOk(t) => HasOk(s)
<1> DEFINE t == SubSeq(s, n + 1, Len(s))
<1>1. /\ t \in Seq(Piece) /\ Len(t) = Len(s) - n /\ Len(s) \in Nat
      /\ \A i \in 1..Len(s) - n : t[i] = s[n + i] /\ n + i \in 1..Len(s)
  BY Suffix
<1> HIDE DEF t
<1>2. AllPushed(s) => AllPushed(t)
  BY <1>1 DEF AllPushed
<1>3. OkIsLast(s) => OkIsLast(t)
  <2> SUFFICES ASSUME OkIsLast(s), NEW i \in 1..Len(t), NEW j \in 1..Len(t),
                      i < j, t[i].line = "ok", t[i].last
               PROVE  Pushed(t[j].line)
    BY DEF OkIsLast
  <2>1. /\ i \in 1..Len(s) - n /\ j \in 1..Len(s) - n
        /\ n + i < n + j
    BY <1>1
  <2>2. /\ t[i] = s[n + i] /\ n + i \in 1..Len(s)
        /\ t[j] = s[n + j] /\ n + j \in 1..Len(s)
    BY <1>1, <2>1
  <2>3. s[n + i].line = "ok" /\ s[n + i].last
    BY <2>2
  <2>4. QED
    BY <2>1, <2>2, <2>3 DEF OkIsLast
<1>4. HasOk(t) => HasOk(s)
  BY <1>1 DEF HasOk
<1>5. QED
  BY <1>2, <1>3, <1>4 DEF t

(* A pushed line disturbs nothing.                                         *)
LEMMA PushKeeps ==
  ASSUME NEW s \in Seq(Piece), NEW k \in {"data", "warn"}
  PROVE  LET t == s \o Pieces(k)
         IN /\ AllPushed(s) => AllPushed(t)
            /\ OkIsLast(s) => OkIsLast(t)
            /\ HasOk(t) => HasOk(s)
            /\ ListedFirst(s) => ListedFirst(t)
<1> DEFINE t == s \o Pieces(k)
           n == Len(s)
<1>1. /\ t \in Seq(Piece) /\ Len(t) = n + 2 /\ n \in Nat
      /\ \A i \in 1..n : t[i] = s[i]
      /\ t[n + 1].line = k /\ ~t[n + 1].last
      /\ t[n + 2].line = k /\ t[n + 2].last
  <2>1. k \in LineKinds
    BY DEF LineKinds
  <2>2. QED
    BY <2>1, LineAdded
<1> HIDE DEF t
<1>2. \A i \in 1..n + 2 : i \in 1..n \/ (Pushed(t[i].line) /\ t[i].line # "ok")
  BY <1>1 DEF Pushed
<1>3. AllPushed(s) => AllPushed(t)
  BY <1>1, <1>2 DEF AllPushed
<1>4. OkIsLast(s) => OkIsLast(t)
  <2> SUFFICES ASSUME OkIsLast(s), NEW i \in 1..n + 2, NEW j \in 1..n + 2,
                      i < j, t[i].line = "ok", t[i].last
               PROVE  Pushed(t[j].line)
    BY <1>1 DEF OkIsLast
  <2>1. CASE j \in 1..n
    BY <1>1, <2>1 DEF OkIsLast
  <2>2. QED
    BY <1>2, <2>1
<1>5. HasOk(t) => HasOk(s)
  BY <1>1, <1>2 DEF HasOk
<1>6. ListedFirst(s) => ListedFirst(t)
  <2> SUFFICES ASSUME ListedFirst(s), NEW j \in 1..n + 2, t[j].line = "ok"
               PROVE  \E i \in 1..j : t[i].line = "starttls"
    BY <1>1 DEF ListedFirst
  <2>1. j \in 1..n
    BY <1>2
  <2>2. PICK i \in 1..j : s[i].line = "starttls"
    BY <1>1, <2>1 DEF ListedFirst
  <2>3. QED
    BY <1>1, <2>1, <2>2
<1>7. QED
  BY <1>3, <1>4, <1>5, <1>6 DEF t

-----------------------------------------------------------------------------
(* How a step changes the input.                                           *)

(* readline takes the first two pieces, wherever BufStream keeps the rest. *)
LEMMA LineRead ==
  ASSUME DataOK, NEW k, ReadLine(k)
  PROVE  /\ Input \in Seq(Piece) /\ Len(Input) >= 2 /\ Input[1].line = k
         /\ Input' = SubSeq(Input, 3, Len(Input))
         /\ buf' \in Seq(Piece) /\ sock' \in Seq(Piece)
<1>1. Input \in Seq(Piece)
  BY DEF Input, DataOK
<1>2. Len(Input) >= 2 /\ Input[1].line = k
  BY DEF ReadLine
<1>3. PICK n \in 2..Len(Input) :
         /\ buf' = SubSeq(Input, 3, n)
         /\ sock' = SubSeq(Input, n + 1, Len(Input))
  BY DEF ReadLine
<1>4. Input' = buf' \o sock'
  BY DEF Input
<1> HIDE DEF Input
<1>5. /\ Len(Input) \in Nat /\ 3 \in 1..Len(Input) + 1 /\ n \in 3 - 1..Len(Input)
      /\ Len(Input) \in n..Len(Input)
  BY <1>1, <1>2
<1>6. SubSeq(Input, 3, n) \o SubSeq(Input, n + 1, Len(Input)) = SubSeq(Input, 3, Len(Input))
  BY <1>1, <1>5, ConcatAdjacentSubSeq, Zenon
<1>7. /\ SubSeq(Input, 3, n) \in Seq(Piece)
      /\ SubSeq(Input, n + 1, Len(Input)) \in Seq(Piece)
  BY <1>1, <1>5
<1>8. QED
  BY <1>1, <1>2, <1>3, <1>4, <1>6, <1>7

(* into_inner drops some more.                                             *)
LEMMA LineReadAndUnwrapped ==
  ASSUME DataOK, NEW k, ReadAndUnwrap(k)
  PROVE  /\ Input \in Seq(Piece) /\ Len(Input) >= 2 /\ Input[1].line = k
         /\ \E n \in 2..Len(Input) : Input' = SubSeq(Input, n + 1, Len(Input))
         /\ buf' = <<>> /\ buf' \in Seq(Piece) /\ sock' \in Seq(Piece)
<1>1. Input \in Seq(Piece)
  BY DEF Input, DataOK
<1>2. Len(Input) >= 2 /\ Input[1].line = k /\ buf' = <<>>
  BY DEF ReadAndUnwrap
<1>3. PICK n \in 2..Len(Input) : sock' = SubSeq(Input, n + 1, Len(Input))
  BY DEF ReadAndUnwrap
<1>4. Input' = buf' \o sock'
  BY DEF Input
<1> HIDE DEF Input
<1>5. SubSeq(Input, n + 1, Len(Input)) \in Seq(Piece)
  BY <1>1, <1>3
<1>6. Input' = sock'
  BY <1>2, <1>3, <1>4, <1>5
<1>7. QED
  BY <1>1, <1>2, <1>3, <1>5, <1>6

(* Concatenation is associative.                                           *)
LEMMA Regroup ==
  ASSUME NEW s \in Seq(Piece), NEW t \in Seq(Piece), NEW u \in Seq(Piece)
  PROVE  (s \o t) \o u = s \o (t \o u)
  BY ConcatAssociative

(* The server adds lines at the end.                                       *)
LEMMA LineSent ==
  ASSUME DataOK, NEW k \in LineKinds, UNCHANGED buf, sock' = sock \o Pieces(k)
  PROVE  /\ Input \in Seq(Piece) /\ Input' = Input \o Pieces(k)
         /\ sock' \in Seq(Piece)
<1>1. buf \in Seq(Piece) /\ sock \in Seq(Piece) /\ Pieces(k) \in Seq(Piece)
  BY TwoPieces DEF DataOK
<1>2. (buf \o sock) \o Pieces(k) = buf \o (sock \o Pieces(k))
  BY <1>1, Regroup
<1>3. QED
  BY <1>1, <1>2 DEF Input

(* Its reply to CAPABILITY is two of them, unless it is NO.                *)
LEMMA CapabilityAnswered ==
  ASSUME DataOK, AnswerCapability
  PROVE  LET listed == Input \o Pieces(IF offers THEN "starttls" ELSE "caps")
         IN /\ Input \in Seq(Piece) /\ sock' \in Seq(Piece)
            /\ Input' \in {listed \o Pieces("ok"), Input \o Pieces("no")}
<1> DEFINE k == IF offers THEN "starttls" ELSE "caps"
<1>1. /\ buf \in Seq(Piece) /\ sock \in Seq(Piece) /\ UNCHANGED buf
      /\ Input \in Seq(Piece) /\ k \in LineKinds
  BY DEF DataOK, AnswerCapability, ServerState, Input, LineKinds
<1>2. CASE sock' = (sock \o Pieces(k)) \o Pieces("ok")
  <2> HIDE DEF k
  <2>1. /\ Pieces(k) \in Seq(Piece) /\ Pieces("ok") \in Seq(Piece)
        /\ sock \o Pieces(k) \in Seq(Piece)
    BY <1>1, TwoPieces DEF LineKinds
  <2>2. (buf \o (sock \o Pieces(k))) \o Pieces("ok") = buf \o ((sock \o Pieces(k)) \o Pieces("ok"))
    BY <1>1, <2>1, Regroup, ZenonT(30)
  <2>3. (buf \o sock) \o Pieces(k) = buf \o (sock \o Pieces(k))
    BY <1>1, <2>1, Regroup, ZenonT(30)
  <2>4. Input' = buf \o ((sock \o Pieces(k)) \o Pieces("ok"))
    BY <1>1, <1>2, Zenon DEF Input
  <2>5. Input' = (Input \o Pieces(k)) \o Pieces("ok")
    BY <2>2, <2>3, <2>4, Zenon DEF Input
  <2>6. sock' \in Seq(Piece)
    BY <1>2, <2>1
  <2>7. QED
    BY <1>1, <2>5, <2>6, Zenon DEF k
<1>3. CASE sock' = sock \o Pieces("no")
  <2>1. "no" \in LineKinds
    BY DEF LineKinds
  <2>2. QED
    BY <1>1, <1>3, <2>1, LineSent
<1>4. QED
  BY <1>2, <1>3 DEF AnswerCapability

-----------------------------------------------------------------------------
(* Type correctness.                                                       *)

(* The two halves of the type invariant.                                   *)
LEMMA TypeSplit == TypeOK <=> FlagsOK /\ DataOK
  BY Zenon DEF TypeOK, FlagsOK, DataOK

(* Every step keeps the flags Boolean, and never changes how the builder   *)
(* was configured or what the server lists.                                *)
LEMMA FlagsStep == FlagsOK /\ [Next]_vars => FlagsOK' /\ UNCHANGED config
<1> SUFFICES ASSUME FlagsOK, [Next]_vars PROVE FlagsOK' /\ UNCHANGED config
  OBVIOUS
<1> USE DEF FlagsOK, config
<1>1. CASE Client
  BY <1>1 DEF Client, ReadGreeting, ReadUntagged, ReadCapabilityDone, ReadStartTlsDone, ReadNo,
              Handshake, HandshakeFails, TransportFails
<1>2. CASE Answers \/ Push
  BY <1>2 DEF Answers, Greet, AnswerCapability, AnswerStartTls, Push, ServerState
<1>3. CASE HangUp
  BY <1>3 DEF HangUp
<1>4. CASE UNCHANGED vars
  BY <1>4 DEF vars
<1>5. QED
  BY <1>1, <1>2, <1>3, <1>4 DEF Next

(* Every step keeps the rest in their types.                               *)
LEMMA DataStep == DataOK /\ [Next]_vars => DataOK'
<1> SUFFICES ASSUME DataOK, [Next]_vars PROVE DataOK'
  OBVIOUS
<1> USE DEF DataOK, config
<1>1. CASE ReadGreeting
  <2>1. buf' \in Seq(Piece) /\ sock' \in Seq(Piece)
    BY <1>1, LineRead DEF ReadGreeting
  <2>2. QED
    BY <1>1, <2>1 DEF ReadGreeting, AfterGreeting, Steps
<1>2. CASE ReadUntagged
  <2>1. PICK k \in {"caps", "starttls", "data", "warn"} :
           ReadLine(k) /\ found' = found \cup IF step = "capability" THEN Notes(k) ELSE {}
    BY <1>2 DEF ReadUntagged
  <2>2. buf' \in Seq(Piece) /\ sock' \in Seq(Piece)
    BY <2>1, LineRead
  <2>3. QED
    BY <1>2, <2>1, <2>2 DEF ReadUntagged, Notes
<1>3. CASE ReadCapabilityDone
  <2>1. buf' \in Seq(Piece) /\ sock' \in Seq(Piece)
    <3>1. ReadLine("ok") \/ ReadAndUnwrap("ok")
      BY <1>3 DEF ReadCapabilityDone
    <3>2. QED
      BY <3>1, LineRead, LineReadAndUnwrapped
  <2>2. QED
    BY <1>3, <2>1 DEF ReadCapabilityDone, Steps
<1>4. CASE ReadStartTlsDone
  <2>1. buf' \in Seq(Piece) /\ sock' \in Seq(Piece)
    BY <1>4, LineReadAndUnwrapped DEF ReadStartTlsDone
  <2>2. QED
    BY <1>4, <2>1 DEF ReadStartTlsDone, Steps
<1>5. CASE ReadNo
  <2>1. buf' \in Seq(Piece) /\ sock' \in Seq(Piece)
    BY <1>5, LineRead DEF ReadNo
  <2>2. QED
    BY <1>5, <2>1 DEF ReadNo, Steps
<1>6. CASE Handshake \/ HandshakeFails \/ TransportFails \/ HangUp
  BY <1>6 DEF Handshake, AfterHandshake, HandshakeFails, TransportFails, HangUp, Steps
<1>7. CASE Greet
  <2>1. sock' \in Seq(Piece)
    BY <1>7, LineSent DEF Greet, ServerState, LineKinds
  <2>2. QED
    BY <1>7, <2>1 DEF Greet, ServerState
<1>8. CASE AnswerCapability
  <2>1. sock' \in Seq(Piece)
    BY <1>8, CapabilityAnswered
  <2>2. QED
    BY <1>8, <2>1 DEF AnswerCapability, ServerState
<1>9. CASE AnswerStartTls
  <2>1. sock' \in Seq(Piece)
    BY <1>9, LineSent DEF AnswerStartTls, ServerState, LineKinds
  <2>2. QED
    BY <1>9, <2>1 DEF AnswerStartTls, ServerState
<1>10. CASE Push
  <2>1. sock' \in Seq(Piece)
    BY <1>10, LineSent DEF Push, ServerState, LineKinds
  <2>2. QED
    BY <1>10, <2>1, BuilderAssumption DEF Push, ServerState, BuilderAssumption
<1>11. CASE UNCHANGED vars
  BY <1>11 DEF vars
<1>12. QED
  BY <1>1, <1>2, <1>3, <1>4, <1>5, <1>6, <1>7, <1>8, <1>9, <1>10, <1>11
  DEF Next, Client, Answers

(* Every variable of the builder keeps its type.                           *)
THEOREM TypeCorrect == Spec => []TypeOK
<1>1. Init => TypeOK
  <2>1. Init => FlagsOK
    BY DEF Init, FlagsOK
  <2>2. Init => DataOK
    BY BuilderAssumption DEF Init, DataOK, Steps, BuilderAssumption
  <2>3. QED
    BY <2>1, <2>2, TypeSplit
<1>2. TypeOK /\ [Next]_vars => TypeOK'
  <2>1. TypeOK' <=> FlagsOK' /\ DataOK'
    BY Zenon DEF TypeOK, FlagsOK, DataOK
  <2>2. QED
    BY <2>1, FlagsStep, DataStep, TypeSplit, Zenon
<1>3. QED
  BY <1>1, <1>2, PTL DEF Spec

-----------------------------------------------------------------------------
(* The inductive invariant.                                                *)

(* Where all is pushed there is no reply.                                  *)
LEMMA NoReplyPushed ==
  ASSUME NEW s \in Seq(Piece), AllPushed(s)
  PROVE  ~HasOk(s) /\ OkIsLast(s) /\ ListedFirst(s)
<1>1. \A i \in 1..Len(s) : s[i].line # "ok"
  BY DEF AllPushed, Pushed
<1>2. QED
  BY <1>1 DEF HasOk, OkIsLast, ListedFirst

(* Only pushed lines are left once the lines before them are read.         *)
LEMMA PushedAfter ==
  ASSUME NEW s \in Seq(Piece), NEW n \in 2..Len(s),
         \A i \in 3..Len(s) : Pushed(s[i].line)
  PROVE  AllPushed(SubSeq(s, n + 1, Len(s)))
<1> DEFINE t == SubSeq(s, n + 1, Len(s))
<1>1. /\ Len(t) = Len(s) - n /\ Len(s) \in Nat
      /\ \A i \in 1..Len(s) - n : t[i] = s[n + i] /\ n + i \in 3..Len(s)
  BY Suffix
<1> HIDE DEF t
<1>2. AllPushed(t)
  BY <1>1 DEF AllPushed
<1>3. QED
  BY <1>2 DEF t

(* So it is after an OK.                                                   *)
LEMMA PushedAfterOk ==
  ASSUME NEW s \in Seq(Piece), Whole(s), OkIsLast(s), Len(s) >= 2, s[1].line = "ok"
  PROVE  \A i \in 3..Len(s) : Pushed(s[i].line)
<1>1. s[2].line = "ok" /\ s[2].last /\ Len(s) \in Nat
  BY FirstLine
<1>2. QED
  BY <1>1 DEF OkIsLast

(* Reading a line other than the one that lists STARTTLS.                  *)
LEMMA ListedRead ==
  ASSUME NEW s \in Seq(Piece), Whole(s), ListedFirst(s), Len(s) >= 2, s[1].line # "starttls"
  PROVE  ListedFirst(SubSeq(s, 3, Len(s)))
<1> DEFINE t == SubSeq(s, 3, Len(s))
<1>1. /\ Len(t) = Len(s) - 2 /\ Len(s) \in Nat
      /\ \A i \in 1..Len(s) - 2 : t[i] = s[2 + i]
  BY SecondLine, Zenon
<1>2. s[2].line # "starttls"
  BY FirstLine
<1> HIDE DEF t
<1>3. ASSUME NEW j \in 1..Len(t), t[j].line = "ok"
      PROVE  \E i \in 1..j : t[i].line = "starttls"
  <2>1. 2 + j \in 1..Len(s) /\ s[2 + j].line = "ok"
    BY <1>1, <1>3
  <2>2. PICK i \in 1..2 + j : s[i].line = "starttls"
    BY <2>1 DEF ListedFirst
  <2>3. i # 1 /\ i # 2
    BY <1>2, <2>2
  <2>4. i - 2 \in 1..j /\ t[i - 2] = s[2 + (i - 2)] /\ 2 + (i - 2) = i
    BY <1>1, <2>3
  <2>5. QED
    BY <2>2, <2>4
<1>4. ListedFirst(t)
  BY <1>3 DEF ListedFirst
<1>5. QED
  BY <1>4 DEF t

(* What a read line leaves.                                                *)
LEMMA AfterRead ==
  ASSUME NEW s \in Seq(Piece), Len(s) >= 2
  PROVE  LET t == SubSeq(s, 3, Len(s))
         IN /\ AllPushed(s) => AllPushed(t)
            /\ OkIsLast(s) => OkIsLast(t)
            /\ HasOk(t) => HasOk(s)
            /\ (\A i \in 3..Len(s) : Pushed(s[i].line)) => AllPushed(t)
<1>1. 2 \in 0..Len(s) /\ 2 \in 2..Len(s) /\ 2 + 1 = 3
  OBVIOUS
<1>2. LET t == SubSeq(s, 2 + 1, Len(s))
      IN /\ AllPushed(s) => AllPushed(t)
         /\ OkIsLast(s) => OkIsLast(t)
         /\ HasOk(t) => HasOk(s)
  BY <1>1, SuffixKeeps, Zenon
<1>3. (\A i \in 3..Len(s) : Pushed(s[i].line)) => AllPushed(SubSeq(s, 2 + 1, Len(s)))
  BY <1>1, PushedAfter, Zenon
<1>4. QED
  BY <1>1, <1>2, <1>3, Zenon

(* The server's reply to CAPABILITY.                                       *)
LEMMA CapabilityReply ==
  ASSUME NEW s \in Seq(Piece), AllPushed(s), Whole(s), NEW k \in {"starttls", "caps"}
  PROVE  LET t == (s \o Pieces(k)) \o Pieces("ok")
         IN Whole(t) /\ OkIsLast(t) /\ (k = "starttls" => ListedFirst(t))
<1> DEFINE u == s \o Pieces(k)
           t == u \o Pieces("ok")
           n == Len(s)
<1>1. k \in LineKinds /\ "ok" \in LineKinds /\ n \in Nat
  BY DEF LineKinds
<1>2. /\ u \in Seq(Piece) /\ Len(u) = n + 2
      /\ \A i \in 1..n : u[i] = s[i]
      /\ u[n + 1].line = k /\ u[n + 2].line = k
      /\ Whole(u)
  BY <1>1, LineAdded, WholeAdded
<1> HIDE DEF u
<1>3. /\ t \in Seq(Piece) /\ Len(t) = n + 4
      /\ \A i \in 1..n + 2 : t[i] = u[i]
      /\ ~t[n + 3].last
      /\ Whole(t)
  <2>1. /\ t \in Seq(Piece) /\ Len(t) = Len(u) + 2
        /\ \A i \in 1..Len(u) : t[i] = u[i]
        /\ ~t[Len(u) + 1].last
    BY <1>1, <1>2, LineAdded
  <2>2. Whole(t)
    BY <1>1, <1>2, WholeAdded, Zenon
  <2> HIDE DEF t
  <2>3. QED
    BY <1>1, <1>2, <2>1, <2>2
<1> HIDE DEF t
<1>4. \A i \in 1..n + 2 : t[i].line # "ok"
  <2> TAKE i \in 1..n + 2
  <2>1. t[i] = u[i]
    BY <1>3
  <2>2. CASE i \in 1..n
    BY <1>2, <2>1, <2>2 DEF AllPushed, Pushed
  <2>3. CASE i \in {n + 1, n + 2}
    BY <1>2, <2>1, <2>3
  <2>4. QED
    BY <1>1, <2>2, <2>3
<1>5. OkIsLast(t)
  <2> SUFFICES ASSUME NEW i \in 1..n + 4, NEW j \in 1..n + 4,
                      i < j, t[i].line = "ok", t[i].last
               PROVE  FALSE
    BY <1>3 DEF OkIsLast
  <2>1. i # n + 3
    BY <1>3
  <2>2. i \in 1..n + 2
    BY <1>1, <2>1
  <2>3. QED
    BY <1>4, <2>2
<1>6. ASSUME k = "starttls" PROVE ListedFirst(t)
  <2>1. t[n + 1].line = "starttls"
    BY <1>1, <1>2, <1>3, <1>6
  <2>2. ASSUME NEW j \in 1..n + 4, t[j].line = "ok" PROVE n + 1 \in 1..j
    BY <1>1, <1>4, <2>2
  <2>3. QED
    BY <1>3, <2>1, <2>2 DEF ListedFirst
<1>7. QED
  BY <1>3, <1>5, <1>6 DEF t, u

(* A NO to either command.                                                 *)
LEMMA RefusalAdded ==
  ASSUME NEW s \in Seq(Piece), AllPushed(s), Whole(s)
  PROVE  LET t == s \o Pieces("no")
         IN Whole(t) /\ ~HasOk(t) /\ OkIsLast(t) /\ ListedFirst(t)
<1> DEFINE t == s \o Pieces("no")
<1>1. "no" \in LineKinds
  BY DEF LineKinds
<1>2. /\ Len(s) \in Nat /\ Len(t) = Len(s) + 2
      /\ \A i \in 1..Len(s) : t[i] = s[i]
      /\ t[Len(s) + 1].line = "no" /\ t[Len(s) + 2].line = "no"
      /\ Whole(t)
  BY <1>1, LineAdded, WholeAdded
<1> HIDE DEF t
<1>3. \A i \in 1..Len(t) : t[i].line # "ok"
  <2> TAKE i \in 1..Len(t)
  <2>1. CASE i <= Len(s)
    BY <1>2, <2>1 DEF AllPushed, Pushed
  <2>2. CASE i \in {Len(s) + 1, Len(s) + 2}
    BY <1>2, <2>2
  <2>3. QED
    BY <1>2, <2>1, <2>2
<1>4. ~HasOk(t) /\ OkIsLast(t) /\ ListedFirst(t)
  BY <1>3 DEF HasOk, OkIsLast, ListedFirst
<1>5. QED
  BY <1>2, <1>4 DEF t

(* The modes that leave upgrade_tls alone.                                 *)
LEMMA ModeSplit ==
  DataOK => /\ ~Upgrades => mode = "Plaintext" \/ TlsFirst(mode, port993)
            /\ Upgrades => ~TlsFirst(mode, port993)
            /\ Upgrades /\ mode = "Auto" => ~port993
  BY DEF DataOK, Modes, Upgrades, TlsFirst

(* Every action of the client keeps the invariant.                         *)
LEMMA ClientKeeps ==
  ASSUME DataOK, FlagsOK, Negotiating, Client, UNCHANGED config
  PROVE  Negotiating'
<1>0. /\ Upgrades' <=> Upgrades
      /\ TlsFirst(mode, port993)' <=> TlsFirst(mode, port993)
      /\ UNCHANGED <<mode, port993, offers>>
  BY DEF config, Upgrades, TlsFirst
<1>1. CASE ReadGreeting
  <2>1. /\ step = "greeting" /\ AtGreeting /\ AfterGreeting
        /\ UNCHANGED <<layer, found, server, greeted>>
    BY <1>1 DEF ReadGreeting, Negotiating
  <2>2. PICK k : ReadLine(k)
    BY <1>1 DEF ReadGreeting
  <2>3. /\ Input \in Seq(Piece) /\ Len(Input) >= 2
        /\ Input' = SubSeq(Input, 3, Len(Input))
    BY <2>2, LineRead
  <2>4. greeted /\ server # "hello"
    <3>1. Input # <<>>
      BY <2>3
    <3>2. QED
      BY <2>1, <3>1 DEF AtGreeting, BeforeGreeting
  <2>5. Whole(Input) /\ \A i \in 3..Len(Input) : Pushed(Input[i].line)
    BY <2>1 DEF AtGreeting, BeforeGreeting
  <2>6. Whole(Input') /\ AllPushed(Input') /\ Input' \in Seq(Piece)
    BY <2>3, <2>5, WholeRead, AfterRead, SecondLine
  <2>7. OkIsLast(Input') /\ ListedFirst(Input')
    BY <2>6, NoReplyPushed
  <2>8. /\ server = layer
        /\ layer = "plain" => ~TlsFirst(mode, port993)
        /\ Upgrades => layer = "plain"
    BY <2>1, <2>4, ModeSplit DEF DataOK, Negotiating, AtGreeting
  <2>9. CASE Upgrades
    <3>1. step' = "capability" /\ asked' = "CAPABILITY"
      BY <2>1, <2>9 DEF AfterGreeting
    <3>2. AtCapability'
      BY <1>0, <2>1, <2>4, <2>6, <2>7, <2>8, <2>9, <3>1 DEF AtCapability
    <3>3. QED
      BY <2>1, <2>8, <2>9, <3>1, <3>2 DEF Negotiating
  <2>10. CASE ~Upgrades
    <3>1. step' = "ready" /\ asked' = asked /\ asked = "none"
      BY <2>1, <2>10 DEF AfterGreeting, AtGreeting, BeforeGreeting
    <3>2. NeverDowngraded'
      BY <1>0, <2>1, <2>8, <2>10, ModeSplit DEF NeverDowngraded
    <3>3. AtReady'
      BY <2>1, <2>4, <2>6, <2>8, <3>1, <3>2 DEF AtReady
    <3>4. QED
      BY <2>1, <2>8, <3>1, <3>3 DEF Negotiating
  <2>11. QED
    BY <2>9, <2>10
<1>2. CASE ReadUntagged
  <2>1. PICK k \in {"caps", "starttls", "data", "warn"} :
           ReadLine(k) /\ found' = found \cup IF step = "capability" THEN Notes(k) ELSE {}
    BY <1>2 DEF ReadUntagged
  <2>2. /\ Input \in Seq(Piece) /\ Len(Input) >= 2 /\ Input[1].line = k
        /\ Input' = SubSeq(Input, 3, Len(Input))
    BY <2>1, LineRead
  <2>3. /\ AllPushed(Input) => AllPushed(Input')
        /\ OkIsLast(Input) => OkIsLast(Input')
        /\ HasOk(Input') => HasOk(Input)
        /\ Whole(Input) => Whole(Input')
    BY <2>2, AfterRead, WholeRead
  <2>4. UNCHANGED <<step, layer, server, greeted, asked>> /\ step \in {"capability", "starttls"}
    BY <1>2 DEF ReadUntagged
  <2>5. CASE step = "capability"
    <3>1. AtCapability
      BY <2>5 DEF Negotiating
    <3>2. offers /\ "starttls" \notin found' => ListedFirst(Input')
      <4>1. SUFFICES ASSUME offers, "starttls" \notin found' PROVE ListedFirst(Input')
        OBVIOUS
      <4>2. "starttls" \notin found /\ k # "starttls"
        BY <2>1, <2>5, <4>1 DEF Notes
      <4>3. ListedFirst(Input) /\ Whole(Input)
        BY <3>1, <4>1, <4>2 DEF AtCapability
      <4>4. QED
        BY <2>2, <4>2, <4>3, ListedRead
    <3>3. AtCapability'
      BY <1>0, <2>3, <2>4, <3>1, <3>2 DEF AtCapability
    <3>4. QED
      BY <2>4, <2>5, <3>3 DEF Negotiating
  <2>6. CASE step = "starttls"
    <3>1. AtStartTls
      BY <2>6 DEF Negotiating
    <3>2. AtStartTls'
      BY <1>0, <2>3, <2>4, <3>1 DEF AtStartTls
    <3>3. QED
      BY <2>4, <2>6, <3>2 DEF Negotiating
  <2>7. QED
    BY <2>4, <2>5, <2>6
<1>3. CASE ReadCapabilityDone
  <2>1. /\ step = "capability" /\ AtCapability
        /\ UNCHANGED <<layer, found, server, greeted>>
    BY <1>3 DEF ReadCapabilityDone, Negotiating
  <2>2. /\ Input \in Seq(Piece) /\ Len(Input) >= 2 /\ Input[1].line = "ok"
    <3>1. ReadLine("ok") \/ ReadAndUnwrap("ok")
      BY <1>3 DEF ReadCapabilityDone
    <3>2. QED
      BY <3>1, LineRead, LineReadAndUnwrapped
  <2>3. Whole(Input) /\ \A i \in 3..Len(Input) : Pushed(Input[i].line)
    BY <2>1, <2>2, PushedAfterOk DEF AtCapability
  <2>4. CASE "starttls" \in found
    <3>1. /\ ReadLine("ok") /\ step' = "starttls" /\ asked' = "STARTTLS"
      BY <1>3, <2>4 DEF ReadCapabilityDone
    <3>2. Input' = SubSeq(Input, 3, Len(Input))
      BY <3>1, LineRead
    <3>3. Whole(Input') /\ AllPushed(Input') /\ Input' \in Seq(Piece)
      BY <2>2, <2>3, <3>2, WholeRead, AfterRead, SecondLine
    <3>4. ~HasOk(Input')
      BY <3>3, NoReplyPushed
    <3>5. AtStartTls'
      BY <1>0, <2>1, <3>1, <3>3, <3>4 DEF AtStartTls, AtCapability
    <3>6. QED
      BY <2>1, <3>1, <3>5 DEF Negotiating, AtCapability
  <2>5. CASE "starttls" \notin found
    <3>1. /\ ReadAndUnwrap("ok") /\ UNCHANGED asked
          /\ step' = IF AcceptsPlaintext THEN "ready" ELSE "refused"
      BY <1>3, <2>5 DEF ReadCapabilityDone
    <3>2. PICK n \in 2..Len(Input) : Input' = SubSeq(Input, n + 1, Len(Input))
      BY <3>1, LineReadAndUnwrapped
    <3>3. AllPushed(Input')
      BY <2>2, <2>3, <3>2, PushedAfter
    <3>4. ~offers
      <4>1. ListedFirst(Input) => \E i \in 1..1 : Input[i].line = "starttls"
        BY <2>2 DEF ListedFirst
      <4>2. ~ListedFirst(Input)
        BY <2>2, <4>1
      <4>3. QED
        BY <2>1, <2>5, <4>2 DEF AtCapability
    <3>5. asked = "none"
      <4>1. ~AllPushed(Input)
        BY <2>2 DEF AllPushed, Pushed
      <4>2. QED
        BY <2>1, <4>1 DEF AtCapability, DataOK
    <3>6. CASE mode = "Auto"
      <4>1. step' = "ready"
        BY <3>1, <3>6 DEF AcceptsPlaintext
      <4>2. ~port993
        BY <2>1, <3>6, ModeSplit DEF AtCapability
      <4>3. NeverDowngraded'
        BY <1>0, <3>4, <3>6, <4>2 DEF NeverDowngraded
      <4>4. AtReady'
        BY <1>0, <2>1, <3>1, <3>3, <3>5, <3>6, <4>3 DEF AtReady, AtCapability
      <4>5. QED
        BY <2>1, <3>1, <3>5, <4>1, <4>4 DEF Negotiating, AtCapability
    <3>7. CASE mode # "Auto"
      BY <2>1, <3>1, <3>7 DEF AcceptsPlaintext, Negotiating, AtCapability
    <3>8. QED
      BY <3>6, <3>7
  <2>6. QED
    BY <2>4, <2>5
<1>4. CASE ReadStartTlsDone
  <2>1. /\ step = "starttls" /\ AtStartTls /\ ReadAndUnwrap("ok") /\ step' = "handshake"
        /\ UNCHANGED <<layer, found, server, greeted, asked>>
    BY <1>4 DEF ReadStartTlsDone, Negotiating
  <2>2. /\ Input \in Seq(Piece) /\ Len(Input) >= 2 /\ Input[1].line = "ok" /\ buf' = <<>>
    BY <2>1, LineReadAndUnwrapped
  <2>3. HasOk(Input)
    BY <2>2 DEF HasOk
  <2>4. AtHandshake'
    BY <1>0, <2>1, <2>2, <2>3 DEF AtHandshake, AtStartTls
  <2>5. QED
    BY <2>1, <2>3, <2>4 DEF Negotiating, AtStartTls
<1>5. CASE ReadNo \/ HandshakeFails \/ TransportFails
  BY <1>5 DEF ReadNo, HandshakeFails, TransportFails, Negotiating
<1>6. CASE Handshake
  <2>1. /\ step = "handshake" /\ AtHandshake /\ AfterHandshake
        /\ layer' = "tls" /\ server' = "tls"
        /\ UNCHANGED <<found, buf, greeted, asked, sock>>
        /\ sock = <<>>
    BY <1>6 DEF Handshake, Negotiating
  <2>2. Input = <<>> /\ Input' = <<>> /\ asked = "none"
    BY <2>1 DEF Input, AtHandshake
  <2>3. Whole(<<>>) /\ AllPushed(<<>>)
    BY DEF Whole, AllPushed
  <2>4. CASE Upgrades
    <3>1. step' = "ready" /\ greeted
      BY <2>1, <2>4 DEF AfterHandshake, AtHandshake
    <3>2. NeverDowngraded'
      BY <2>1 DEF NeverDowngraded
    <3>3. AtReady'
      BY <2>1, <2>2, <2>3, <3>1, <3>2 DEF AtReady
    <3>4. QED
      BY <2>1, <2>2, <3>1, <3>3 DEF Negotiating
  <2>5. CASE ~Upgrades
    <3>1. step' = "greeting" /\ TlsFirst(mode, port993) /\ BeforeGreeting
      BY <2>1, <2>5 DEF AfterHandshake, AtHandshake
    <3>2. BeforeGreeting'
      BY <2>1, <2>2, <3>1 DEF BeforeGreeting
    <3>3. AtGreeting'
      BY <1>0, <2>1, <3>1, <3>2 DEF AtGreeting
    <3>4. QED
      BY <2>1, <2>2, <3>1, <3>3 DEF Negotiating
  <2>6. QED
    BY <2>4, <2>5
<1>7. QED
  BY <1>1, <1>2, <1>3, <1>4, <1>5, <1>6 DEF Client

(* A line added to the input, whoever adds it.                             *)
LEMMA PushedLineAdded ==
  ASSUME DataOK, NEW k \in {"data", "warn"}, UNCHANGED buf, sock' = sock \o Pieces(k),
         UNCHANGED <<config, step, layer, found, server, greeted, asked>>,
         Negotiating, greeted, server # "hello"
  PROVE  Negotiating'
<1>0. /\ Upgrades' <=> Upgrades
      /\ TlsFirst(mode, port993)' <=> TlsFirst(mode, port993)
      /\ UNCHANGED <<mode, port993, offers>>
  BY DEF config, Upgrades, TlsFirst
<1>1. k \in LineKinds
  BY DEF LineKinds
<1>2. Input \in Seq(Piece) /\ Input' = Input \o Pieces(k)
  BY <1>1, LineSent
<1>3. /\ AllPushed(Input) => AllPushed(Input')
      /\ OkIsLast(Input) => OkIsLast(Input')
      /\ HasOk(Input') => HasOk(Input)
      /\ ListedFirst(Input) => ListedFirst(Input')
      /\ Whole(Input) => Whole(Input')
  BY <1>1, <1>2, PushKeeps, WholeAdded
<1>4. BeforeGreeting => BeforeGreeting'
  <2>1. SUFFICES ASSUME BeforeGreeting PROVE BeforeGreeting'
    OBVIOUS
  <2>2. /\ Len(Input) \in Nat /\ Len(Input') = Len(Input) + 2
        /\ \A i \in 1..Len(Input) : Input'[i] = Input[i]
        /\ Input'[Len(Input) + 1].line = k /\ Input'[Len(Input) + 2].line = k
    BY <1>1, <1>2, LineAdded
  <2>3. \A i \in 3..Len(Input') : Pushed(Input'[i].line)
    <3> TAKE i \in 3..Len(Input')
    <3>1. CASE i <= Len(Input)
      BY <2>1, <2>2, <3>1 DEF BeforeGreeting
    <3>2. CASE i \in {Len(Input) + 1, Len(Input) + 2}
      BY <2>2, <3>2 DEF Pushed
    <3>3. QED
      BY <2>2, <3>1, <3>2
  <2>4. QED
    BY <1>3, <2>1, <2>2, <2>3 DEF BeforeGreeting
<1>5. AtGreeting => AtGreeting'
  BY <1>0, <1>4 DEF AtGreeting
<1>6. AtCapability => AtCapability'
  BY <1>0, <1>3 DEF AtCapability
<1>7. AtStartTls => AtStartTls'
  BY <1>0, <1>3 DEF AtStartTls
<1>8. AtHandshake => AtHandshake'
  BY <1>0, <1>4 DEF AtHandshake
<1>9. AtReady => AtReady'
  BY <1>0, <1>3 DEF AtReady, NeverDowngraded
<1>10. QED
  BY <1>5, <1>6, <1>7, <1>8, <1>9 DEF Negotiating

(* Every action of the server keeps it.                                    *)
LEMMA ServerKeeps ==
  ASSUME DataOK, FlagsOK, Negotiating, Answers \/ Push, UNCHANGED config
  PROVE  Negotiating'
<1>0. /\ Upgrades' <=> Upgrades
      /\ TlsFirst(mode, port993)' <=> TlsFirst(mode, port993)
      /\ UNCHANGED <<mode, port993, offers>>
  BY DEF config, Upgrades, TlsFirst
<1>1. CASE Greet
  <2>1. /\ ~greeted /\ server # "hello" /\ greeted' /\ sock' = sock \o Pieces("greeting")
        /\ UNCHANGED <<step, layer, found, buf, server, asked>> /\ "greeting" \in LineKinds
    BY <1>1 DEF Greet, ServerState, LineKinds
  <2>2. Input \in Seq(Piece) /\ Input' = Input \o Pieces("greeting")
    BY <2>1, LineSent
  <2>3. BeforeGreeting => BeforeGreeting'
    <3>1. SUFFICES ASSUME BeforeGreeting PROVE BeforeGreeting'
      OBVIOUS
    <3>2. Len(Input) = 0 /\ Whole(Input) /\ asked = "none"
      BY <2>1, <3>1 DEF BeforeGreeting
    <3>3. Len(Input') = 2 /\ Whole(Input')
      <4>1. Len(Input') = Len(Input) + 2
        BY <2>1, <2>2, LineAdded
      <4>2. Whole(Input')
        BY <2>1, <2>2, <3>2, WholeAdded
      <4>3. QED
        BY <3>2, <4>1, <4>2
    <3>4. QED
      BY <2>1, <3>2, <3>3 DEF BeforeGreeting
  <2>4. step = "greeting" => AtGreeting'
    BY <1>0, <2>1, <2>3 DEF Negotiating, AtGreeting
  <2>5. step = "handshake" => AtHandshake'
    BY <1>0, <2>1, <2>3 DEF Negotiating, AtHandshake
  <2>6. step \notin {"capability", "starttls", "ready"}
    BY <2>1 DEF Negotiating, AtCapability, AtStartTls, AtReady
  <2>7. QED
    BY <2>1, <2>4, <2>5, <2>6 DEF Negotiating
<1>2. CASE AnswerCapability
  <2>1. /\ asked = "CAPABILITY" /\ asked' = "none"
        /\ UNCHANGED <<step, layer, found, buf, server, greeted>>
    BY <1>2 DEF AnswerCapability, ServerState
  <2>2. step \notin {"greeting", "starttls", "handshake", "ready"}
    BY <2>1 DEF Negotiating, AtGreeting, BeforeGreeting, AtStartTls, AtHandshake, AtReady
  <2>3. CASE step = "capability"
    <3>1. AtCapability /\ AllPushed(Input) /\ Whole(Input)
      BY <2>1, <2>3 DEF Negotiating, AtCapability
    <3>2. /\ Input \in Seq(Piece)
          /\ \/ Input' = (Input \o Pieces(IF offers THEN "starttls" ELSE "caps")) \o Pieces("ok")
             \/ Input' = Input \o Pieces("no")
      BY <1>2, CapabilityAnswered
    <3>3. Whole(Input') /\ OkIsLast(Input') /\ (offers => ListedFirst(Input'))
      <4>1. CASE Input' = (Input \o Pieces(IF offers THEN "starttls" ELSE "caps")) \o Pieces("ok")
        <5>1. CASE offers
          BY <3>1, <3>2, <4>1, <5>1, CapabilityReply
        <5>2. CASE ~offers
          BY <3>1, <3>2, <4>1, <5>2, CapabilityReply
        <5>3. QED
          BY <5>1, <5>2
      <4>2. CASE Input' = Input \o Pieces("no")
        BY <3>1, <3>2, <4>2, RefusalAdded
      <4>3. QED
        BY <3>2, <4>1, <4>2
    <3>4. AtCapability'
      BY <1>0, <2>1, <3>1, <3>3 DEF AtCapability
    <3>5. QED
      BY <2>1, <2>3, <3>4 DEF Negotiating
  <2>4. QED
    BY <2>1, <2>2, <2>3 DEF Negotiating
<1>3. CASE AnswerStartTls
  <2>1. /\ asked = "STARTTLS" /\ asked' = "none"
        /\ UNCHANGED <<step, layer, found, buf, greeted>>
        /\ \/ sock' = sock \o Pieces("ok") /\ server' = "hello"
           \/ sock' = sock \o Pieces("no") /\ server' = server
    BY <1>3 DEF AnswerStartTls, ServerState
  <2>2. step \notin {"greeting", "capability", "handshake", "ready"}
    BY <2>1 DEF Negotiating, AtGreeting, BeforeGreeting, AtCapability, AtHandshake, AtReady
  <2>3. layer # "tls" /\ server' # "tls"
    BY <2>1 DEF Negotiating
  <2>4. CASE step = "starttls"
    <3>1. AtStartTls /\ AllPushed(Input) /\ Whole(Input)
      BY <2>1, <2>4 DEF Negotiating, AtStartTls
    <3>2. Whole(Input') /\ (HasOk(Input') => server' = "hello")
      <4>1. "ok" \in LineKinds /\ "no" \in LineKinds
        BY DEF LineKinds
      <4>2. CASE sock' = sock \o Pieces("ok") /\ server' = "hello"
        BY <2>1, <3>1, <4>1, <4>2, LineSent, WholeAdded
      <4>3. CASE sock' = sock \o Pieces("no")
        <5>1. Input \in Seq(Piece) /\ Input' = Input \o Pieces("no")
          BY <2>1, <4>1, <4>3, LineSent
        <5>2. QED
          BY <3>1, <5>1, RefusalAdded
      <4>4. QED
        BY <2>1, <4>2, <4>3
    <3>3. AtStartTls'
      BY <1>0, <2>1, <3>1, <3>2 DEF AtStartTls
    <3>4. QED
      BY <2>1, <2>3, <2>4, <3>3 DEF Negotiating
  <2>5. QED
    BY <2>1, <2>2, <2>3, <2>4 DEF Negotiating
<1>4. CASE Push
  <2>1. PICK k \in {"data", "warn"} : sock' = sock \o Pieces(k)
    BY <1>4 DEF Push
  <2>2. /\ greeted /\ server # "hello"
        /\ UNCHANGED <<step, layer, found, buf, server, greeted, asked>>
    BY <1>4 DEF Push, ServerState
  <2>3. QED
    BY <2>1, <2>2, PushedLineAdded
<1>5. QED
  BY <1>1, <1>2, <1>3, <1>4 DEF Answers

(* The inductive invariant holds: at each step of the builder the server   *)
(* has been asked what that step waits for, and its replies come in order. *)
THEOREM NegotiatingHolds == Spec => []Negotiating
<1>1. Init => Negotiating
  <2>1. SUFFICES ASSUME Init PROVE Negotiating
    OBVIOUS
  <2>2. /\ buf = <<>> /\ sock = <<>> /\ ~greeted /\ asked = "none" /\ layer = "plain"
        /\ server # "tls" /\ mode \in Modes
        /\ step = IF TlsFirst(mode, port993) THEN "handshake" ELSE "greeting"
    BY <2>1 DEF Init
  <2>3. Input = <<>> /\ Whole(<<>>)
    BY <2>2 DEF Input, Whole
  <2>4. BeforeGreeting
    BY <2>2, <2>3 DEF BeforeGreeting
  <2>5. QED
    BY <2>2, <2>4 DEF Negotiating, AtGreeting, AtHandshake, Upgrades
<1>2. TypeOK /\ Negotiating /\ [Next]_vars => Negotiating'
  <2>1. SUFFICES ASSUME TypeOK, Negotiating, [Next]_vars PROVE Negotiating'
    OBVIOUS
  <2>2. FlagsOK /\ DataOK /\ UNCHANGED config
    BY <2>1, TypeSplit, FlagsStep
  <2>3. CASE Client
    BY <2>1, <2>2, <2>3, ClientKeeps
  <2>4. CASE Answers \/ Push
    BY <2>1, <2>2, <2>4, ServerKeeps
  <2>5. CASE UNCHANGED <<mode, port993, offers, step, layer, found, buf, server, greeted, asked,
                         sock>>
    BY <2>1, <2>5 DEF Negotiating, AtGreeting, BeforeGreeting, AtCapability, AtStartTls,
                      AtHandshake, AtReady, NeverDowngraded, Input, Upgrades, TlsFirst
  <2>6. CASE HangUp \/ UNCHANGED vars
    BY <2>5, <2>6 DEF HangUp, vars, config
  <2>7. QED
    BY <2>1, <2>3, <2>4, <2>6 DEF Next
<1>3. QED
  BY <1>1, <1>2, TypeCorrect, PTL DEF Spec

-----------------------------------------------------------------------------
(* Whatever the server lists, refuses or pushes, a Client comes back       *)
(* without TLS only in Plaintext mode, or in Auto mode off port 993 from a *)
(* server that does not list STARTTLS.                                     *)
THEOREM NotDowngraded == Spec => []NeverDowngraded
<1>1. Negotiating => NeverDowngraded
  BY DEF Negotiating, AtReady, NeverDowngraded
<1>2. QED
  BY <1>1, NegotiatingHolds, PTL

(* A returned Client speaks what the server speaks, after one greeting,    *)
(* with no reply of the negotiation left to be taken for another command's.*)
THEOREM ReadyInStep == Spec => []InStepWhenReady
<1>1. TypeOK /\ Negotiating => InStepWhenReady
  <2>1. SUFFICES ASSUME TypeOK, Negotiating, step = "ready" PROVE InStepWhenReady
    BY DEF InStepWhenReady
  <2>2. AtReady /\ Input \in Seq(Piece)
    BY <2>1 DEF Negotiating, TypeOK, Input
  <2>3. DOMAIN Input = 1..Len(Input)
    BY <2>2
  <2>4. QED
    BY <2>2, <2>3 DEF AtReady, AllPushed, Pushed, InStepWhenReady
<1>2. QED
  BY <1>1, TypeCorrect, NegotiatingHolds, PTL

(* It starts reading at the beginning of a line, except after the          *)
(* plaintext fallback of Auto.                                             *)
THEOREM ReadyOnALine == Spec => []StartsOnALine
<1>1. Negotiating => StartsOnALine
  BY DEF Negotiating, AtReady, StartsOnALine, Whole
<1>2. QED
  BY <1>1, NegotiatingHolds, PTL
=============================================================================
