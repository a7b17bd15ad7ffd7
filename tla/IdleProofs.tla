----------------------------- MODULE IdleProofs -----------------------------
(***************************************************************************)
(* Proofs about Idle. After any history, a reply is that of the call it is *)
(* returned to, the read timeout of a wait ends with it, the               *)
(* unreachable!() of init is only reached when a tag was used twice, and   *)
(* the callback sees updates in the order they were sent. In ordinary use  *)
(* it is known whose turn it is in each phase of a handle: a handle leaves *)
(* the session in step, DONE only ends an IDLE, and a wait that is not     *)
(* renewed misses no update.                                               *)
(***************************************************************************)
EXTENDS Idle, ConnectionProofs

-----------------------------------------------------------------------------
(* What is kept between two steps.                                         *)

(* Where a call is in progress. *)
Placed ==
    /\ phase = "held" => pc = "ready"
    /\ phase \in {"init", "wait", "drop"} => pc = "reading"
    /\ phase = "init" => call \in twoPart

(* The IDLE that init waits for is the last the server receives, so that   *)
(* no DONE can end it.                                                     *)
LastOfAll ==
    phase = "init" =>
        /\ [id |-> call, status |-> "ok"] \notin answers
        /\ mode = "continuing" /\ request.id = call => Outgoing = <<>>
        /\ \A k \in 1..Len(Outgoing) :
              IF k = Len(Outgoing) THEN ~IsText(Outgoing[k]) ELSE Outgoing[k].id # call

(* The commands that are not answered to the client's knowledge, with the  *)
(* one the server continues.                                               *)
Awaited ==
    Range(Outgoing) \cup Answered(Range(toClient))
        \cup IF mode = "continuing" THEN {request} ELSE {}

(* Which tags they have: at most the next one, and that only when a write  *)
(* failed, after which no wait goes on; a renewal has its tag to itself.   *)
TagsInUse ==
    /\ \A c \in Awaited : c.tag <= tag + 1
    /\ phase \in {"init", "wait", "refresh"} => \A c \in Awaited : c.tag <= tag
    /\ phase = "init" => tag # 0
    /\ phase = "init" /\ timed => \A c \in Awaited : c.tag = tag => c.id = call

(* An untagged line that makes an update, and one that makes none. *)
IsNews(line) == line.kind \in {"data", "close"} /\ line.id # 0

(* A line that carries no update to the callback.                          *)
IsQuiet(line) ==
    /\ ~IsNews(line)
    /\ line.kind # "close"
    /\ line.kind = "data" => line = Notice \/ line.status = "bad"

(* Of n updates, those on their way come in order, after those delivered,  *)
(* which came in order too.                                                *)
Sequenced(lines, got, n) ==
    /\ \A i \in 1..Len(lines) : IsNews(lines[i]) \/ IsQuiet(lines[i])
    /\ \A i \in 1..Len(lines) : IsNews(lines[i]) => lines[i].id <= n
    /\ \A i, j \in 1..Len(lines) :
          i < j /\ IsNews(lines[i]) /\ IsNews(lines[j]) => lines[i].id < lines[j].id
    /\ \A k \in 1..Len(got) : got[k] <= n
    /\ \A k, l \in 1..Len(got) : k < l => got[k] < got[l]
    /\ \A k \in 1..Len(got), i \in 1..Len(lines) : IsNews(lines[i]) => got[k] < lines[i].id

(* The updates delivered, those under way and those to come are in order.  *)
InSequence == Sequenced(toClient, delivered, chatter)

-----------------------------------------------------------------------------
(* Every step is one of those ConnectionProofs knows.                      *)

(* The server that idles takes lines as the others do.                     *)
LEMMA IdleServes ==
  ServeIdle => ServerTakes
<1>1. ASSUME EndIdling PROVE ServerTakes
  <2>1. \E s \in Statuses : Answers(request, s)
    <3>1. (IF Received = DONE THEN "ok" ELSE "bad") \in Statuses
      BY DEF Statuses
    <3>2. QED
      BY <1>1, <3>1, Zenon DEF EndIdling
  <2>2. QED
    BY <1>1, <2>1, Zenon DEF EndIdling, ServerTakes
<1>2. QED
  BY <1>1, ServeTakes, Zenon DEF ServeIdle

(* A notice answers nothing.                                               *)
LEMMA NoticeTells ==
  DataOK /\ SendNotice => Tells
<1> SUFFICES ASSUME DataOK, SendNotice PROVE Tells
  OBVIOUS
<1>1. Notice \in News
  BY DEF Notice, News, Plain, Line, LineKinds, Statuses, IsTagged
<1>2. toClient \in Seq(Line) /\ Notice \in Line
  BY <1>1 DEF DataOK, News
<1>3. toClient' = Append(toClient, Notice)
  BY DEF SendNotice, Sends
<1>4. toClient' \in Seq(Line) /\ Range(toClient') = Range(toClient) \cup {Notice}
  BY <1>2, <1>3, RangeAppend
<1>5. chatter' \in 0..MaxChatter
  BY Bounds DEF SendNotice, DataOK
<1>6. Range(toClient') \subseteq Range(toClient) \cup News
  BY <1>1, <1>4
<1>7. QED
  BY <1>4, <1>5, <1>6, Zenon DEF SendNotice, Tells

(* The handle's calls read a line themselves ...                           *)
LEMMA HandleReadsTalks ==
  DataOK /\ (InitPlus \/ WaitLine \/ WaitTimesOut) => Talks
<1> SUFFICES ASSUME DataOK, InitPlus \/ WaitLine \/ WaitTimesOut PROVE Talks
  OBVIOUS
<1>0. pc \in {"ready", "reading"}
  BY DEF DataOK
<1>1. CASE InitPlus
  <2>1. /\ UNCHANGED <<tag, chatter, call, answers, rolledBack, broken, server, twoPart>>
        /\ UNCHANGED <<pc, ret, wbuf, toServer>>
        /\ toClient # <<>> /\ toClient' = Tail(toClient)
    BY <1>1, Zenon DEF InitPlus, history
  <2>2. QED
    BY <1>0, <2>1 DEF Talks
<1>2. CASE WaitLine
  <2>1. /\ UNCHANGED <<tag, chatter, call, answers, rolledBack, broken, server, twoPart>>
        /\ UNCHANGED <<ret, wbuf, toServer>>
        /\ toClient # <<>> /\ toClient' = Tail(toClient)
    BY <1>2, Zenon DEF WaitLine, history
  <2>2. pc' = pc \/ pc' = "ready"
    BY <1>2, Zenon DEF WaitLine
  <2>3. QED
    BY <1>0, <2>1, <2>2 DEF Talks
<1>3. CASE WaitTimesOut
  <2>1. /\ UNCHANGED <<tag, chatter, call, answers, rolledBack, server, twoPart>>
        /\ UNCHANGED <<ret, wbuf, toServer>>
        /\ DropInput /\ pc' = "ready"
    BY <1>3, Zenon DEF WaitTimesOut
  <2>2. broken => broken'
    BY <2>1, Zenon DEF DropInput
  <2>3. QED
    BY <2>1, <2>2 DEF Talks
<1>4. QED
  BY <1>1, <1>2, <1>3

(* ... or write a DONE.                                                    *)
LEMMA DoneTalks ==
  DataOK /\ (phase = "wait" => pc = "reading") /\ (Refresh \/ DropDone \/ DropUnsent)
    => Talks
<1> SUFFICES ASSUME DataOK, phase = "wait" => pc = "reading", Refresh \/ DropDone \/ DropUnsent
             PROVE  Talks
  OBVIOUS
<1>0. 0 \in 0..call /\ DONE = Text(0)
  BY Bounds DEF DataOK, DONE
<1>1. \E i \in 0..call : Send(Text(i)) \/ SendFails(Text(i))
  <2>1. Send(DONE) \/ SendFails(DONE)
    BY Zenon DEF Refresh, DropDone, DropUnsent, SendDone
  <2>2. QED
    BY <1>0, <2>1
<1>2. CASE Refresh
  <2>1. /\ UNCHANGED <<tag, chatter, call, answers, rolledBack, ret, server, twoPart>>
        /\ DropInput /\ pc' = "reading" /\ pc = "reading"
    BY <1>2, Zenon DEF Refresh, SendDone
  <2>2. broken => broken'
    BY <2>1, Zenon DEF DropInput
  <2>3. QED
    BY <1>1, <2>1, <2>2 DEF Talks
<1>3. CASE DropDone
  <2>1. /\ UNCHANGED <<tag, chatter, call, answers, rolledBack, ret, server, twoPart, toClient>>
        /\ pc' = "reading"
    BY <1>3, Zenon DEF DropDone, SendDone
  <2>2. (broken => broken') /\ (broken' \/ ~rolledBack)
    BY <1>3, Zenon DEF DropDone, TagReused
  <2>3. QED
    BY <1>1, <2>1, <2>2 DEF Talks
<1>4. CASE DropUnsent
  <2>1. /\ UNCHANGED <<tag, chatter, call, answers, rolledBack, ret, server, twoPart, toClient>>
        /\ UNCHANGED broken
    BY <1>4, Zenon DEF DropUnsent
  <2>2. UNCHANGED pc /\ phase = "held"
    BY <1>4, Zenon DEF DropUnsent
  <2>3. pc' \in {"ready", "reading"}
    BY <2>2 DEF DataOK
  <2>4. QED
    BY <1>1, <2>1, <2>2, <2>3 DEF Talks
<1>5. QED
  BY <1>2, <1>3, <1>4

(* A renewal that cannot write does one or issues a command in vain.       *)
LEMMA RenewalDialogue ==
  DataOK /\ RenewalUnsent => Issues \/ Talks
<1> SUFFICES ASSUME DataOK, RenewalUnsent PROVE Issues \/ Talks
  OBVIOUS
<1>0. UNCHANGED server /\ UNCHANGED <<chatter, answers>>
  BY Zenon DEF RenewalUnsent
<1>1. CASE FailTwoPart
  <2>1. Issues
    BY <1>0, <1>1, Zenon DEF FailTwoPart, Issues
  <2>2. QED
    BY <2>1
<1>2. CASE /\ DropInput /\ SendFails(DONE) /\ Return("io", 0)
           /\ UNCHANGED <<tag, call, rolledBack, twoPart>>
  <2>1. 0 \in 0..call /\ DONE = Text(0)
    BY Bounds DEF DataOK, DONE
  <2>2. \E i \in 0..call : Send(Text(i)) \/ SendFails(Text(i))
    BY <1>2, <2>1
  <2>3. broken => broken'
    BY <1>2, Zenon DEF DropInput
  <2>4. /\ ret' \in {[outcome |-> o, by |-> 0] : o \in {"io", "append", "invalid"}}
        /\ pc' = "ready"
    BY <1>2 DEF Return
  <2>5. UNCHANGED <<tag, chatter, call, answers, rolledBack, server, twoPart>>
    BY <1>0, <1>2, Zenon
  <2>6. DropInput
    BY <1>2
  <2>7. Talks
    BY <2>2, <2>3, <2>4, <2>5, <2>6 DEF Talks
  <2>8. QED
    BY <2>7
<1>3. QED
  BY <1>1, <1>2, Zenon DEF RenewalUnsent

(* The other steps are those of any command.                               *)
LEMMA HandleCommands ==
  /\ WaitWhile \/ WaitUnsent \/ Reinit => Issues
  /\ InitOther \/ InitRest \/ ReplyTimesOut \/ RefreshRead \/ WaitEof \/ DropRead => Reads
  /\ OtherCommand => Issues \/ Reads
<1>1. ASSUME WaitWhile \/ WaitUnsent \/ Reinit PROVE Issues
  BY <1>1, Zenon
  DEF WaitWhile, WaitUnsent, Reinit, SendIdle, RunTwoPart, FailTwoPart, Issues
<1>2. ASSUME InitOther \/ InitRest \/ ReplyTimesOut \/ RefreshRead \/ WaitEof \/ DropRead
      PROVE  Reads
  BY <1>2, Zenon
  DEF InitOther, InitRest, ReplyTimesOut, RefreshRead, WaitEof, DropRead, Reads
<1>3. ASSUME OtherCommand PROVE Issues \/ Reads
  BY <1>3, Zenon DEF OtherCommand, RunOnePart, Issues, Reads
<1>4. QED
  BY <1>1, <1>2, <1>3

(* All steps together.                                                     *)
LEMMA IdleIsDialogue ==
  DataOK /\ Placed /\ [IdleNext]_idleVars => DialogueStep
<1> SUFFICES ASSUME DataOK, Placed, [IdleNext]_idleVars PROVE DialogueStep
  OBVIOUS
<1>1. CASE Make \/ DropQuietly \/ UNCHANGED idleVars
  <2>1. UNCHANGED <<vars, mode, request, twoPart>>
    BY <1>1 DEF Make, DropQuietly, idleVars, server
  <2>2. QED
    BY <2>1, NothingTells DEF DialogueStep
<1>2. CASE InitPlus \/ WaitLine \/ WaitTimesOut
  BY <1>2, HandleReadsTalks DEF DialogueStep
<1>3. CASE Refresh \/ DropDone \/ DropUnsent
  BY <1>3, DoneTalks DEF DialogueStep, Placed
<1>4. CASE RenewalUnsent
  BY <1>4, RenewalDialogue DEF DialogueStep
<1>5. CASE \/ WaitWhile \/ WaitUnsent \/ Reinit \/ InitOther \/ InitRest \/ ReplyTimesOut
           \/ RefreshRead \/ WaitEof \/ DropRead \/ OtherCommand
  BY <1>5, HandleCommands, Zenon DEF DialogueStep
<1>6. CASE IdleServer
  <2>1. ServerTakes \/ Tells
    BY <1>6, IdleServes, AnnounceTells, NoticeTells, LeaveTells, Zenon DEF IdleServer
  <2>2. QED
    BY <2>1 DEF DialogueStep
<1>7. QED
  BY <1>1, <1>2, <1>3, <1>4, <1>5, <1>6, Zenon DEF IdleNext, Handle

-----------------------------------------------------------------------------
(* The order of the updates.                                               *)

(* A line is read; if it was an update it may be delivered.                *)
LEMMA SequenceTaken ==
  ASSUME NEW s \in Seq(Line), NEW d \in Seq(1..MaxChatter), NEW n \in 0..MaxChatter,
         Sequenced(s, d, n), s # <<>>
  PROVE  /\ Sequenced(Tail(s), d, n)
         /\ IsNews(s[1]) => /\ s[1].id \in 1..MaxChatter
                            /\ Sequenced(Tail(s), Append(d, s[1].id), n)
<1> DEFINE t == Tail(s)
           e == Append(d, s[1].id)
<1>1. /\ Len(s) \in Nat /\ Len(s) >= 1 /\ Len(t) = Len(s) - 1
      /\ \A i \in 1..Len(t) : t[i] = s[i + 1] /\ i + 1 \in 1..Len(s)
      /\ 1 \in 1..Len(s) /\ s[1] \in Line
  OBVIOUS
<1>2. Sequenced(t, d, n)
  <2> HIDE DEF t
  <2>1. \A i \in 1..Len(t) : IsNews(t[i]) \/ IsQuiet(t[i])
    BY <1>1 DEF Sequenced
  <2>2. \A i \in 1..Len(t) : IsNews(t[i]) => t[i].id <= n
    BY <1>1 DEF Sequenced
  <2>3. \A i, j \in 1..Len(t) : i < j /\ IsNews(t[i]) /\ IsNews(t[j]) => t[i].id < t[j].id
    <3>1. SUFFICES ASSUME NEW i \in 1..Len(t), NEW j \in 1..Len(t), i < j,
                          IsNews(t[i]), IsNews(t[j])
                   PROVE  t[i].id < t[j].id
      OBVIOUS
    <3>2. i + 1 \in 1..Len(s) /\ j + 1 \in 1..Len(s) /\ i + 1 < j + 1
      BY <1>1, <3>1
    <3>3. t[i] = s[i + 1] /\ t[j] = s[j + 1]
      BY <1>1
    <3>4. QED
      BY <3>1, <3>2, <3>3 DEF Sequenced
  <2>4. \A k \in 1..Len(d), i \in 1..Len(t) : IsNews(t[i]) => d[k] < t[i].id
    BY <1>1 DEF Sequenced
  <2>5. QED
    BY <2>1, <2>2, <2>3, <2>4 DEF Sequenced
<1>3. ASSUME IsNews(s[1])
      PROVE  s[1].id \in 1..MaxChatter /\ Sequenced(t, e, n)
  <2>1. s[1].id \in Nat /\ s[1].id # 0 /\ s[1].id <= n
    BY <1>1, <1>3 DEF IsNews, Sequenced, Line
  <2>2. s[1].id \in 1..MaxChatter
    BY <2>1, Bounds
  <2>3. /\ Len(d) \in Nat /\ Len(e) = Len(d) + 1 /\ e[Len(d) + 1] = s[1].id
        /\ \A k \in 1..Len(d) : e[k] = d[k]
    BY <2>2, AppendProperties
  <2> HIDE DEF e, t
  <2>4. \A k \in 1..Len(e) : k \in 1..Len(d) \/ k = Len(d) + 1
    BY <2>3
  <2>5. \A k \in 1..Len(e) : e[k] <= n
    BY <2>1, <2>3, <2>4 DEF Sequenced
  <2>6. \A k, l \in 1..Len(e) : k < l => e[k] < e[l]
    <3>1. SUFFICES ASSUME NEW k \in 1..Len(e), NEW l \in 1..Len(e), k < l PROVE e[k] < e[l]
      OBVIOUS
    <3>2. k \in 1..Len(d)
      BY <2>3, <3>1
    <3>3. CASE l \in 1..Len(d)
      BY <2>3, <3>1, <3>2, <3>3 DEF Sequenced
    <3>4. CASE l = Len(d) + 1
      BY <1>1, <1>3, <2>3, <3>2, <3>4 DEF Sequenced
    <3>5. QED
      BY <2>4, <3>3, <3>4
  <2>7. \A k \in 1..Len(e), i \in 1..Len(t) : IsNews(t[i]) => e[k] < t[i].id
    <3>1. SUFFICES ASSUME NEW k \in 1..Len(e), NEW i \in 1..Len(t), IsNews(t[i])
                   PROVE  e[k] < t[i].id
      OBVIOUS
    <3>2. i + 1 \in 1..Len(s) /\ t[i] = s[i + 1] /\ 1 < i + 1
      BY <1>1
    <3>3. CASE k \in 1..Len(d)
      BY <2>3, <3>1, <3>2, <3>3 DEF Sequenced
    <3>4. CASE k = Len(d) + 1
      BY <1>1, <1>3, <2>3, <3>1, <3>2, <3>4 DEF Sequenced
    <3>5. QED
      BY <2>4, <3>3, <3>4
  <2>8. QED
    BY <1>2, <2>2, <2>5, <2>6, <2>7 DEF Sequenced
<1>4. QED
  BY <1>2, <1>3

(* The first line is replaced by one that says nothing.                    *)
LEMMA SequenceCut ==
  ASSUME NEW s \in Seq(Line), NEW d, NEW n, Sequenced(s, d, n), s # <<>>,
         NEW rest \in Line, IsQuiet(rest)
  PROVE  Sequenced(<<rest>> \o Tail(s), d, n)
<1> DEFINE t == <<rest>> \o Tail(s)
<1>1. /\ Tail(s) \in Seq(Line) /\ <<rest>> \in Seq(Line) /\ Len(<<rest>>) = 1
      /\ <<rest>>[1] = rest /\ Len(Tail(s)) = Len(s) - 1 /\ Len(s) \in Nat /\ Len(s) >= 1
      /\ \A i \in 1..Len(Tail(s)) : Tail(s)[i] = s[i + 1]
  OBVIOUS
<1>2. /\ Len(t) = Len(s) /\ t[1] = rest
      /\ \A i \in 2..Len(s) : t[i] = s[i]
  <2>1. /\ Len(t) = 1 + (Len(s) - 1)
        /\ \A i \in 1..(1 + (Len(s) - 1)) :
              t[i] = IF i <= 1 THEN <<rest>>[i] ELSE Tail(s)[i - 1]
    BY <1>1, ConcatProperties
  <2> HIDE DEF t
  <2>2. ASSUME NEW i \in 2..Len(s) PROVE t[i] = s[i]
    <3>1. t[i] = Tail(s)[i - 1] /\ i - 1 \in 1..Len(Tail(s))
      BY <1>1, <2>1
    <3>2. Tail(s)[i - 1] = s[i - 1 + 1] /\ i - 1 + 1 = i
      BY <1>1, <3>1
    <3>3. QED
      BY <3>1, <3>2
  <2>3. QED
    BY <1>1, <2>1, <2>2
<1> HIDE DEF t
<1>3. ~IsNews(t[1]) /\ IsQuiet(t[1])
  BY <1>2 DEF IsQuiet
<1>4. \A i \in 1..Len(t) : i = 1 \/ (i \in 2..Len(s) /\ i \in 1..Len(s) /\ t[i] = s[i])
  BY <1>1, <1>2
<1>5. \A i \in 1..Len(t) : IsNews(t[i]) => i \in 1..Len(s) /\ t[i] = s[i]
  BY <1>3, <1>4
<1>6. \A i \in 1..Len(t) : IsNews(t[i]) \/ IsQuiet(t[i])
  BY <1>3, <1>4 DEF Sequenced
<1>7. QED
  BY <1>5, <1>6 DEF Sequenced, t

(* A line is sent that says nothing, ...                                   *)
LEMMA SequenceQuiet ==
  ASSUME NEW s \in Seq(Line), NEW d, NEW n, Sequenced(s, d, n), NEW line \in Line, IsQuiet(line)
  PROVE  Sequenced(Append(s, line), d, n)
<1> DEFINE t == Append(s, line)
<1>1. /\ Len(s) \in Nat /\ Len(t) = Len(s) + 1 /\ t[Len(s) + 1] = line
      /\ \A i \in 1..Len(s) : t[i] = s[i]
  BY AppendProperties
<1> HIDE DEF t
<1>2. \A i \in 1..Len(t) : i \in 1..Len(s) \/ i = Len(s) + 1
  BY <1>1
<1>3. ~IsNews(line)
  BY DEF IsQuiet
<1>4. \A i \in 1..Len(t) : IsNews(t[i]) => i \in 1..Len(s) /\ t[i] = s[i]
  BY <1>1, <1>2, <1>3
<1>5. \A i \in 1..Len(t) : IsNews(t[i]) \/ IsQuiet(t[i])
  BY <1>1, <1>2 DEF Sequenced
<1>6. QED
  BY <1>4, <1>5 DEF Sequenced, t

(* ... a later update, ...                                                 *)
LEMMA SequenceNews ==
  ASSUME NEW s \in Seq(Line), NEW d \in Seq(1..MaxChatter), NEW n \in Nat, Sequenced(s, d, n),
         NEW line \in Line, IsNews(line), line.id = n + 1
  PROVE  Sequenced(Append(s, line), d, n + 1)
<1> DEFINE t == Append(s, line)
<1>1. /\ Len(s) \in Nat /\ Len(t) = Len(s) + 1 /\ t[Len(s) + 1] = line
      /\ \A i \in 1..Len(s) : t[i] = s[i] /\ s[i] \in Line /\ s[i].id \in Nat
  <2>1. \A i \in 1..Len(s) : s[i] \in Line
    OBVIOUS
  <2>2. \A l \in Line : l.id \in Nat
    BY DEF Line
  <2>3. QED
    BY <2>1, <2>2, AppendProperties
<1>2. \A k \in 1..Len(d) : d[k] \in Nat
  BY Bounds
<1> HIDE DEF t
<1>3. \A i \in 1..Len(t) : i \in 1..Len(s) \/ i = Len(s) + 1
  BY <1>1
<1>4. \A i \in 1..Len(s) : IsNews(t[i]) => t[i].id <= n
  BY <1>1 DEF Sequenced
<1>5. \A i \in 1..Len(t) : IsNews(t[i]) \/ IsQuiet(t[i])
  BY <1>1, <1>3 DEF Sequenced
<1>6. \A i \in 1..Len(t) : IsNews(t[i]) => t[i].id <= n + 1
  BY <1>1, <1>3, <1>4
<1>7. \A i, j \in 1..Len(t) : i < j /\ IsNews(t[i]) /\ IsNews(t[j]) => t[i].id < t[j].id
  <2>1. SUFFICES ASSUME NEW i \in 1..Len(t), NEW j \in 1..Len(t), i < j, IsNews(t[i]), IsNews(t[j])
                 PROVE  t[i].id < t[j].id
    OBVIOUS
  <2>2. i \in 1..Len(s)
    BY <1>1, <2>1
  <2>3. CASE j \in 1..Len(s)
    BY <1>1, <2>1, <2>2, <2>3 DEF Sequenced
  <2>4. CASE j = Len(s) + 1
    BY <1>1, <1>4, <2>1, <2>2, <2>4
  <2>5. QED
    BY <1>3, <2>3, <2>4
<1>8. \A k \in 1..Len(d) : d[k] <= n + 1
  BY <1>2 DEF Sequenced
<1>9. \A k \in 1..Len(d), i \in 1..Len(t) : IsNews(t[i]) => d[k] < t[i].id
  <2>1. SUFFICES ASSUME NEW k \in 1..Len(d), NEW i \in 1..Len(t), IsNews(t[i])
                 PROVE  d[k] < t[i].id
    OBVIOUS
  <2>2. CASE i \in 1..Len(s)
    BY <1>1, <2>1, <2>2 DEF Sequenced
  <2>3. CASE i = Len(s) + 1
    <3>1. d[k] <= n /\ t[i].id = n + 1
      BY <1>1, <2>3 DEF Sequenced
    <3>2. QED
      BY <1>2, <3>1
  <2>4. QED
    BY <1>3, <2>2, <2>3
<1>10. \A k, l \in 1..Len(d) : k < l => d[k] < d[l]
  BY DEF Sequenced
<1>11. Sequenced(t, d, n + 1)
  BY <1>5, <1>6, <1>7, <1>8, <1>9, <1>10 DEF Sequenced
<1>12. QED
  BY <1>11 DEF t

(* ... or more are counted than are sent.                                  *)
LEMMA SequenceLater ==
  ASSUME NEW s \in Seq(Line), NEW d \in Seq(1..MaxChatter), NEW n \in Nat, Sequenced(s, d, n)
  PROVE  Sequenced(s, d, n + 1) /\ Sequenced(s, <<>>, n)
<1>1. \A i \in 1..Len(s) : s[i].id \in Nat
  <2>1. \A i \in 1..Len(s) : s[i] \in Line
    OBVIOUS
  <2>2. \A l \in Line : l.id \in Nat
    BY DEF Line
  <2>3. QED
    BY <2>1, <2>2
<1>2. \A k \in 1..Len(d) : d[k] \in Nat
  BY Bounds
<1>3. \A i \in 1..Len(s) : IsNews(s[i]) => s[i].id <= n + 1
  BY <1>1 DEF Sequenced
<1>4. \A k \in 1..Len(d) : d[k] <= n + 1
  BY <1>2 DEF Sequenced
<1>5. QED
  BY <1>3, <1>4 DEF Sequenced

-----------------------------------------------------------------------------
(* Types.                                                                  *)

(* What Idle adds: flags ...                                               *)
IdleFlagsOK ==
    /\ first \in BOOLEAN
    /\ done \in BOOLEAN
    /\ keepalive \in BOOLEAN
    /\ timed \in BOOLEAN
    /\ panicked \in BOOLEAN
    /\ waited \in BOOLEAN

(* ... and data.                                                           *)
IdleDataOK ==
    /\ phase \in Phases
    /\ made \in 0..MaxHandles
    /\ announced \subseteq 1..MaxChatter
    /\ delivered \in Seq(1..MaxChatter)
    /\ trouble \subseteq Troubles

(* The parts of the type invariant.                                        *)
LEMMA IdleTypeSplit ==
  IdleTypeOK <=> FlagsOK /\ IdleFlagsOK /\ DataOK /\ ServerTypeOK /\ IdleDataOK
<1>1. {first, done, keepalive, timed, panicked, waited} \subseteq BOOLEAN <=> IdleFlagsOK
  BY Zenon DEF IdleFlagsOK
<1>2. QED
  BY <1>1, TypeSplit, Zenon DEF IdleTypeOK, IdleDataOK

(* The flags of the connection, ...                                        *)
LEMMA ConnectionFlags ==
  FlagsOK /\ [IdleNext]_idleVars => FlagsOK'
<1> SUFFICES ASSUME FlagsOK, [IdleNext]_idleVars PROVE FlagsOK'
  OBVIOUS
<1>1. CASE WaitWhile \/ WaitUnsent \/ Reinit
  BY <1>1, FlagsStep, Zenon
  DEF WaitWhile, WaitUnsent, Reinit, SendIdle, RunTwoPart, FailTwoPart, Next, Caller
<1>2. CASE InitOther \/ InitRest \/ ReplyTimesOut \/ RefreshRead \/ WaitEof \/ DropRead
  BY <1>2, FlagsStep, Zenon
  DEF InitOther, InitRest, ReplyTimesOut, RefreshRead, WaitEof, DropRead, Next, Reader
<1>3. CASE OtherCommand
  BY <1>3, FlagsStep, Zenon DEF OtherCommand, RunOnePart, Next, Caller, Reader
<1>4. CASE Make \/ DropQuietly \/ UNCHANGED idleVars
  BY <1>4, Zenon DEF Make, DropQuietly, idleVars, vars, client, wire, history, FlagsOK
<1>5. CASE InitPlus
  BY <1>5, Zenon DEF InitPlus, history, FlagsOK
<1>6. CASE WaitLine
  <2>1. UNCHANGED <<up, rolledBack, broken, faulted>>
    BY <1>6, Zenon DEF WaitLine, history
  <2>2. pending' \in BOOLEAN
    <3>1. (ParseResponse(pending, Head(toClient)) = "incomplete") \in BOOLEAN
      OBVIOUS
    <3>2. QED
      BY <1>6, <3>1, Zenon DEF WaitLine
  <2>3. QED
    BY <2>1, <2>2, Zenon DEF FlagsOK
<1>7. CASE WaitTimesOut
  BY <1>7, Zenon DEF WaitTimesOut, DropInput, FlagsOK
<1>8. CASE Refresh
  BY <1>8, Zenon DEF Refresh, DropInput, FlagsOK
<1>9. CASE RenewalUnsent
  <2>1. CASE FailTwoPart
    BY <2>1, FlagsStep, Zenon DEF FailTwoPart, Next, Caller
  <2>2. CASE DropInput /\ Return("io", 0) /\ UNCHANGED rolledBack
    BY <1>9, <2>2, Zenon DEF RenewalUnsent, DropInput, Return, FlagsOK
  <2>3. QED
    BY <1>9, <2>1, <2>2, Zenon DEF RenewalUnsent
<1>10. CASE DropDone
  BY <1>10, Zenon DEF DropDone, TagReused, FlagsOK
<1>11. CASE DropUnsent
  BY <1>11, Zenon DEF DropUnsent, FlagsOK
<1>12. CASE ServeIdle
  BY <1>12, IdleServes, Zenon DEF ServerTakes, ClientSide, client, FlagsOK
<1>13. CASE Announce \/ SendNotice \/ Leave
  BY <1>13, Zenon DEF Announce, SendNotice, Leave, HangUp, FlagsOK, client, history
<1>14. QED
  BY <1>1, <1>2, <1>3, <1>4, <1>5, <1>6, <1>7, <1>8, <1>9, <1>10, <1>11, <1>12, <1>13, Zenon
  DEF IdleNext, Handle, IdleServer

(* ... those of the handle, ...                                            *)
LEMMA HandleFlags ==
  IdleFlagsOK /\ [IdleNext]_idleVars => IdleFlagsOK'
<1> SUFFICES ASSUME IdleFlagsOK, [IdleNext]_idleVars PROVE IdleFlagsOK'
  OBVIOUS
<1>1. CASE Make
  BY <1>1, Zenon DEF Make, record, IdleFlagsOK
<1>2. CASE WaitWhile \/ Reinit
  BY <1>2, Zenon DEF WaitWhile, Reinit, SendIdle, IdleFlagsOK
<1>3. CASE WaitUnsent
  BY <1>3, Zenon DEF WaitUnsent, handle, IdleFlagsOK
<1>4. CASE InitPlus
  BY <1>4, Zenon DEF InitPlus, DoneIsDue, record, IdleFlagsOK
<1>5. CASE InitOther
  BY <1>5, Zenon DEF InitOther, InitReturns, EndWait, EndTimeout, IdleFlagsOK
<1>6. CASE InitRest
  BY <1>6, Zenon DEF InitRest, InitReturns, EndWait, EndTimeout, record, IdleFlagsOK
<1>7. CASE ReplyTimesOut
  BY <1>7, Zenon DEF ReplyTimesOut, EndWait, EndTimeout, IdleFlagsOK
<1>8. CASE WaitLine
  BY <1>8, Zenon DEF WaitLine, EndWait, EndTimeout, IdleFlagsOK
<1>9. CASE WaitTimesOut
  BY <1>9, Zenon DEF WaitTimesOut, EndWait, EndTimeout, record, IdleFlagsOK
<1>10. CASE Refresh
  BY <1>10, Zenon DEF Refresh, SendDone, IdleFlagsOK
<1>11. CASE RenewalUnsent
  BY <1>11, Zenon DEF RenewalUnsent, EndWait, EndTimeout, IdleFlagsOK
<1>12. CASE RefreshRead
  BY <1>12, Zenon DEF RefreshRead, EndWait, EndTimeout, record, IdleFlagsOK
<1>13. CASE WaitEof
  BY <1>13, Zenon DEF WaitEof, EndWait, EndTimeout, record, IdleFlagsOK
<1>14. CASE DropQuietly \/ DropRead
  BY <1>14, Zenon DEF DropQuietly, DropRead, record, IdleFlagsOK
<1>15. CASE DropDone \/ DropUnsent
  BY <1>15, Zenon DEF DropDone, SendDone, DropUnsent, IdleFlagsOK
<1>16. CASE OtherCommand
  BY <1>16, Zenon DEF OtherCommand, handle, record, IdleFlagsOK
<1>17. CASE IdleServer
  BY <1>17, Zenon DEF IdleServer, handle, record, IdleFlagsOK
<1>18. CASE UNCHANGED idleVars
  BY <1>18, Zenon DEF idleVars, handle, record, IdleFlagsOK
<1>19. QED
  BY <1>1, <1>2, <1>3, <1>4, <1>5, <1>6, <1>7, <1>8, <1>9, <1>10, <1>11, <1>12, <1>13, <1>14,
     <1>15, <1>16, <1>17, <1>18, Zenon
  DEF IdleNext, Handle

(* ... and where its calls are.                                            *)
LEMMA PlacedStep ==
  DataOK /\ DataOK' /\ phase \in Phases /\ Placed /\ [IdleNext]_idleVars
    => Placed' /\ phase' \in Phases
<1> SUFFICES ASSUME DataOK, DataOK', phase \in Phases, Placed, [IdleNext]_idleVars
             PROVE  Placed' /\ phase' \in Phases
  OBVIOUS
<1>0. pc \in {"ready", "reading"} /\ pc' \in {"ready", "reading"}
  BY DEF DataOK
<1> USE DEF Phases
<1>1. ASSUME phase' \in {"none", "refresh"} PROVE Placed' /\ phase' \in Phases
  BY <1>1 DEF Placed
<1>2. ASSUME phase' = "held", pc' = "ready" PROVE Placed' /\ phase' \in Phases
  BY <1>2 DEF Placed
<1>3. ASSUME UNCHANGED <<phase, pc, call, twoPart>> PROVE Placed' /\ phase' \in Phases
  BY <1>3 DEF Placed
<1>4. CASE Make
  BY <1>2, <1>4 DEF Make, vars, client
<1>5. CASE WaitWhile \/ Reinit
  <2>1. phase' = "init" /\ pc' = "reading" /\ call' \in twoPart'
    BY <1>5 DEF WaitWhile, Reinit, SendIdle, RunTwoPart, RunCommand
  <2>2. QED
    BY <2>1 DEF Placed
<1>6. CASE WaitUnsent
  BY <1>2, <1>6 DEF WaitUnsent, FailTwoPart, RunCommandFails, Return, handle
<1>7. CASE InitPlus
  <2>1. phase' = "wait" /\ pc' = "reading"
    BY <1>7 DEF InitPlus, Placed
  <2>2. QED
    BY <2>1 DEF Placed
<1>8. CASE InitOther \/ InitRest
  <2>1. UNCHANGED <<call, twoPart>> /\ phase = "init" /\ InitReturns
    BY <1>8 DEF InitOther, InitRest, ReadLine
  <2>2. CASE pc' = "reading" /\ UNCHANGED phase
    BY <2>1, <2>2 DEF Placed
  <2>3. CASE pc' = "ready" /\ phase' = "held"
    BY <1>2, <2>3
  <2>4. QED
    BY <2>1, <2>2, <2>3, Zenon DEF InitReturns, EndWait
<1>9. CASE ReplyTimesOut \/ WaitEof \/ WaitTimesOut \/ RenewalUnsent
  <2>1. phase' = "held"
    BY <1>9, Zenon DEF ReplyTimesOut, WaitEof, WaitTimesOut, RenewalUnsent, EndWait
  <2>2. pc' = "ready"
    BY <1>9, Zenon DEF ReplyTimesOut, WaitEof, WaitTimesOut, RenewalUnsent, ReadFails, ReadEof,
                       Return, FailTwoPart, RunCommandFails
  <2>3. QED
    BY <1>2, <2>1, <2>2
<1>10. CASE WaitLine
  <2>1. UNCHANGED <<call, twoPart>>
    BY <1>10, Zenon DEF WaitLine
  <2>2. UNCHANGED <<pc, phase>> \/ (pc' = "ready" /\ phase' = "held")
    BY <1>10, Zenon DEF WaitLine, EndWait
  <2>3. QED
    BY <1>2, <1>3, <2>1, <2>2
<1>11. CASE Refresh
  BY <1>1, <1>11 DEF Refresh
<1>12. CASE RefreshRead
  <2>1. CASE pc' = "ready" /\ phase' = "held"
    BY <1>2, <2>1
  <2>2. CASE phase' = "refresh"
    BY <1>1, <2>2
  <2>3. QED
    BY <1>12, <2>1, <2>2 DEF RefreshRead, EndWait
<1>13. CASE DropQuietly \/ DropUnsent
  BY <1>1, <1>13 DEF DropQuietly, DropUnsent
<1>14. CASE DropDone
  <2>1. phase' = "drop" /\ pc' = "reading"
    BY <1>14 DEF DropDone, SendDone
  <2>2. QED
    BY <2>1 DEF Placed
<1>15. CASE DropRead
  BY <1>0, <1>15 DEF DropRead, Placed
<1>16. CASE OtherCommand
  BY <1>1, <1>16 DEF OtherCommand, handle
<1>17. CASE IdleServer
  <2>1. UNCHANGED <<pc, call, twoPart>>
    BY <1>17, IdleServes, Zenon DEF IdleServer, ServerTakes, ClientSide, client, Announce,
                                    SendNotice, Leave, HangUp
  <2>2. UNCHANGED phase
    BY <1>17, Zenon DEF IdleServer, handle
  <2>3. QED
    BY <1>3, <2>1, <2>2
<1>18. CASE UNCHANGED idleVars
  BY <1>3, <1>18 DEF idleVars, vars, client, handle
<1>19. QED
  BY <1>4, <1>5, <1>6, <1>7, <1>8, <1>9, <1>10, <1>11, <1>12, <1>13, <1>14, <1>15, <1>16, <1>17,
     <1>18, Zenon
  DEF IdleNext, Handle

(* The parser's verdict on a line that the callback is given.              *)
LEMMA DeliveredIsNews ==
  ASSUME DataOK, InSequence, toClient # <<>>,
         ParseResponse(pending, Head(toClient)) = "data", IsUpdate(Head(toClient)),
         pending \/ ~IsNotice(Head(toClient))
  PROVE  IsNews(toClient[1])
<1> DEFINE line == toClient[1]
<1>1. Head(toClient) = line /\ 1 \in 1..Len(toClient)
  BY DEF DataOK
<1>2. IsNews(line) \/ IsQuiet(line)
  BY <1>1 DEF InSequence, Sequenced
<1> HIDE DEF line
<1>3. CASE pending
  <2>1. line.kind = "close"
    BY <1>1, <1>3 DEF ParseResponse
  <2>2. QED
    BY <1>2, <2>1 DEF IsQuiet, line
<1>4. CASE ~pending
  <2>1. line.kind = "data" /\ line.status # "bad" /\ line # Notice
    BY <1>1, <1>4 DEF ParseResponse, IsUpdate, IsNotice
  <2>2. QED
    BY <1>2, <2>1 DEF IsQuiet, line
<1>5. QED
  BY <1>3, <1>4

(* What a cut line leaves makes no update.                                 *)
LEMMA RestsAreQuiet ==
  ASSUME NEW line \in Line, NEW rest \in Rests(line)
  PROVE  rest \in Line /\ IsQuiet(rest)
<1>1. rest \in Line
  BY RestsAreLines
<1>2. rest.kind \in {"junk", "done"}
  BY DEF Rests, Line
<1>3. QED
  BY <1>1, <1>2 DEF IsQuiet, IsNews

(* Lines that are read or cut keep their order, whatever is forgotten of   *)
(* those delivered.                                                        *)
LEMMA SequenceRead ==
  ASSUME DataOK, delivered \in Seq(1..MaxChatter), InSequence, UNCHANGED chatter,
         \/ UNCHANGED toClient
         \/ toClient # <<>> /\ toClient' = Tail(toClient)
         \/ DropInput,
         delivered' = delivered \/ delivered' = <<>>
  PROVE  InSequence'
<1>1. /\ toClient \in Seq(Line) /\ chatter \in 0..MaxChatter /\ chatter \in Nat
      /\ Sequenced(toClient, delivered, chatter)
  BY DEF DataOK, InSequence
<1>2. Sequenced(toClient', delivered, chatter) /\ toClient' \in Seq(Line)
  <2>1. CASE UNCHANGED toClient
    BY <1>1, <2>1
  <2>2. CASE toClient # <<>> /\ toClient' = Tail(toClient)
    BY <1>1, <2>2, SequenceTaken
  <2>3. ASSUME toClient # <<>>, NEW rest \in Rests(Head(toClient)),
               toClient' = <<rest>> \o Tail(toClient)
        PROVE  Sequenced(toClient', delivered, chatter) /\ toClient' \in Seq(Line)
    <3>1. Head(toClient) \in Line
      BY <1>1, <2>3
    <3>2. rest \in Line /\ IsQuiet(rest)
      BY <2>3, <3>1, RestsAreQuiet
    <3>3. QED
      BY <1>1, <2>3, <3>2, SequenceCut
  <2>4. QED
    BY <2>1, <2>2, <2>3, Zenon DEF DropInput
<1>3. Sequenced(toClient', delivered', chatter)
  BY <1>1, <1>2, SequenceLater
<1>4. QED
  BY <1>3 DEF InSequence

(* The server's replies make no update.                                    *)
LEMMA SequenceServed ==
  ASSUME DataOK, ServerTypeOK, InSequence, ServerTakes, UNCHANGED delivered
  PROVE  InSequence'
<1>1. toClient \in Seq(Line) /\ Sequenced(toClient, delivered, chatter) /\ request \in Command
  BY DEF DataOK, InSequence, ServerTypeOK
<1>2. UNCHANGED chatter
  BY Zenon DEF ServerTakes, ClientSide
<1>3. \/ UNCHANGED toClient
      \/ \E line \in Line : toClient' = Append(toClient, line) /\ IsQuiet(line)
  <2>1. ASSUME NEW line \in Remarks PROVE IsQuiet(line)
    BY DEF Remarks, Plain, StrayBad, DoneLine, IsQuiet, IsNews
  <2>2. ASSUME NEW c \in Command, NEW s \in Statuses PROVE IsQuiet(DoneLine(c.tag, s, c.id))
    BY DEF DoneLine, IsQuiet, IsNews
  <2>3. QED
    BY <1>1, <2>1, <2>2, TakesSends
<1>4. Sequenced(toClient', delivered, chatter)
  BY <1>1, <1>3, SequenceQuiet
<1>5. QED
  BY <1>2, <1>4 DEF InSequence

(* What it says unasked makes the next one or none.                        *)
LEMMA SequenceTold ==
  ASSUME DataOK, delivered \in Seq(1..MaxChatter), InSequence,
         Announce \/ SendNotice \/ Leave, UNCHANGED delivered
  PROVE  InSequence'
<1>1. /\ toClient \in Seq(Line) /\ Sequenced(toClient, delivered, chatter) /\ chatter \in Nat
      /\ chatter \in 0..MaxChatter
  BY DEF DataOK, InSequence
<1>2. CASE Announce
  <2>1. chatter' = chatter + 1
    BY <1>2 DEF Announce
  <2>2. ASSUME NEW line \in News, line.kind = "data", line.id = chatter + 1,
               toClient' = Append(toClient, line)
        PROVE  Sequenced(toClient', delivered, chatter + 1)
    <3>1. line \in Line /\ IsNews(line)
      BY <1>1, <2>2 DEF News, IsNews
    <3>2. QED
      BY <1>1, <2>2, <3>1, SequenceNews
  <2>3. ASSUME NEW open \in News, NEW last \in News, open.kind = "open", last.kind = "close",
               last.id = chatter + 1, toClient' = Append(Append(toClient, open), last)
        PROVE  Sequenced(toClient', delivered, chatter + 1)
    <3> DEFINE mid == Append(toClient, open)
    <3>1. open \in Line /\ IsQuiet(open) /\ last \in Line /\ IsNews(last)
      BY <1>1, <2>3 DEF News, IsNews, IsQuiet
    <3>2. mid \in Seq(Line) /\ Sequenced(mid, delivered, chatter)
      BY <1>1, <3>1, SequenceQuiet
    <3> HIDE DEF mid
    <3>3. Sequenced(Append(mid, last), delivered, chatter + 1)
      BY <1>1, <2>3, <3>1, <3>2, SequenceNews
    <3>4. QED
      BY <2>3, <3>3 DEF mid
  <2>4. Sequenced(toClient', delivered, chatter + 1)
    BY <1>2, <2>2, <2>3, AnnouncedLines, Zenon
  <2>5. QED
    BY <2>1, <2>4 DEF InSequence
<1>3. CASE SendNotice
  <2>1. chatter' = chatter + 1 /\ toClient' = Append(toClient, Notice)
    BY <1>3 DEF SendNotice, Sends
  <2>2. Notice \in Line /\ IsQuiet(Notice)
    BY DEF Notice, Plain, Line, LineKinds, Statuses, IsQuiet, IsNews
  <2>3. Append(toClient, Notice) \in Seq(Line) /\ Sequenced(Append(toClient, Notice), delivered, chatter)
    BY <1>1, <2>2, SequenceQuiet
  <2>4. QED
    BY <1>1, <2>1, <2>3, SequenceLater DEF InSequence
<1>4. CASE Leave
  BY <1>4 DEF Leave, HangUp, InSequence
<1>5. QED
  BY <1>2, <1>3, <1>4

(* Updates stay in order, and only they are delivered.                     *)
LEMMA InSequenceStep ==
  ASSUME DataOK, ServerTypeOK, delivered \in Seq(1..MaxChatter), InSequence,
         [IdleNext]_idleVars
  PROVE  InSequence' /\ delivered' \in Seq(1..MaxChatter)
<1>0. chatter \in 0..MaxChatter /\ toClient \in Seq(Line)
  BY DEF DataOK
<1>1. ASSUME UNCHANGED chatter,
             \/ UNCHANGED toClient
             \/ toClient # <<>> /\ toClient' = Tail(toClient)
             \/ DropInput,
             delivered' = delivered \/ delivered' = <<>>
      PROVE  InSequence' /\ delivered' \in Seq(1..MaxChatter)
  <2>1. delivered' \in Seq(1..MaxChatter)
    <3>1. delivered' = delivered \/ delivered' = <<>>
      BY <1>1, Zenon
    <3>2. <<>> \in Seq(1..MaxChatter)
      OBVIOUS
    <3>3. QED
      BY <3>1, <3>2
  <2>2. QED
    BY <1>1, <2>1, SequenceRead, Zenon
<1>2. CASE Make \/ DropQuietly \/ DropDone \/ DropUnsent
  BY <1>1, <1>2, Zenon DEF Make, DropQuietly, DropDone, DropUnsent, record, vars, wire
<1>3. CASE WaitWhile \/ WaitUnsent \/ Reinit
  BY <1>1, <1>3, Zenon DEF WaitWhile, WaitUnsent, Reinit, SendIdle, RunTwoPart, FailTwoPart,
                           RunCommand, RunCommandFails
<1>4. CASE InitPlus \/ WaitTimesOut \/ Refresh
  BY <1>1, <1>4, Zenon DEF InitPlus, WaitTimesOut, Refresh, record
<1>5. CASE InitOther \/ InitRest \/ RefreshRead
  BY <1>1, <1>5, Zenon DEF InitOther, InitRest, RefreshRead, ReadLine, record
<1>6. CASE ReplyTimesOut \/ WaitEof
  BY <1>1, <1>6, Zenon DEF ReplyTimesOut, WaitEof, ReadFails, ReadEof, record, wire
<1>7. CASE DropRead \/ OtherCommand
  BY <1>1, <1>7, Zenon DEF DropRead, OtherCommand, RunOnePart, RunCommand, ReadLine, ReadEof,
                           record, wire
<1>8. CASE RenewalUnsent
  BY <1>1, <1>8, Zenon DEF RenewalUnsent
<1>9. CASE WaitLine
  <2>1. UNCHANGED chatter /\ toClient # <<>> /\ toClient' = Tail(toClient)
    BY <1>9, Zenon DEF WaitLine
  <2>2. CASE UNCHANGED delivered
    BY <1>1, <2>1, <2>2
  <2>3. CASE /\ ParseResponse(pending, Head(toClient)) = "data" /\ IsUpdate(Head(toClient))
             /\ pending \/ ~IsNotice(Head(toClient))
             /\ Deliver(Head(toClient))
    <3>1. IsNews(toClient[1]) /\ Head(toClient) = toClient[1]
      BY <2>1, <2>3, DeliveredIsNews
    <3>2. delivered' = Append(delivered, toClient[1].id)
      BY <2>3, <3>1 DEF Deliver
    <3>3. toClient[1].id \in 1..MaxChatter
          /\ Sequenced(Tail(toClient), Append(delivered, toClient[1].id), chatter)
      BY <1>0, <2>1, <3>1, SequenceTaken DEF InSequence
    <3>4. QED
      BY <2>1, <3>2, <3>3 DEF InSequence
  <2>4. QED
    BY <1>9, <2>2, <2>3, Zenon DEF WaitLine
<1>10. CASE IdleServer
  <2>1. UNCHANGED delivered
    BY <1>10, Zenon DEF IdleServer, record
  <2>2. ServerTakes \/ Announce \/ SendNotice \/ Leave
    BY <1>10, IdleServes, Zenon DEF IdleServer
  <2>3. InSequence'
    BY <2>1, <2>2, SequenceServed, SequenceTold, Zenon
  <2>4. QED
    BY <2>1, <2>3
<1>11. CASE UNCHANGED idleVars
  BY <1>1, <1>11, Zenon DEF idleVars, vars, wire, record
<1>12. QED
  BY <1>2, <1>3, <1>4, <1>5, <1>6, <1>7, <1>8, <1>9, <1>10, <1>11, Zenon DEF IdleNext, Handle

(* The data of Idle keep their types.                                      *)
LEMMA IdleDataStep ==
  ASSUME DataOK, DataOK', IdleDataOK, phase' \in Phases, delivered' \in Seq(1..MaxChatter),
         [IdleNext]_idleVars
  PROVE  IdleDataOK'
<1>0. /\ made \in 0..MaxHandles /\ announced \subseteq 1..MaxChatter /\ trouble \subseteq Troubles
      /\ chatter' \in 0..MaxChatter /\ chatter \in 0..MaxChatter
  BY DEF IdleDataOK, DataOK
<1>1. made' \in 0..MaxHandles
  <2>1. CASE Make
    BY <1>0, <2>1, IdleAssumption DEF Make
  <2>2. CASE UNCHANGED made
    BY <1>0, <2>2
  <2>3. QED
    BY <2>1, <2>2, Zenon
    DEF IdleNext, Handle, WaitWhile, WaitUnsent, InitPlus, InitOther, InitRest, ReplyTimesOut,
        WaitLine, WaitTimesOut, Refresh, RefreshRead, Reinit, RenewalUnsent, WaitEof, DropQuietly,
        DropDone, DropUnsent, DropRead, OtherCommand, IdleServer, idleVars, handle
<1>2. announced' \subseteq 1..MaxChatter
  <2>1. CASE Announce /\ announced' = announced \cup IF mode = "continuing" THEN {chatter'} ELSE {}
    BY <1>0, <2>1 DEF Announce
  <2>2. CASE announced' = announced \/ announced' = {}
    BY <1>0, <2>2
  <2>3. QED
    BY <2>1, <2>2, Zenon
    DEF IdleNext, Handle, Make, WaitWhile, WaitUnsent, InitPlus, InitOther, InitRest,
        ReplyTimesOut, WaitLine, WaitTimesOut, Refresh, RefreshRead, Reinit, RenewalUnsent,
        WaitEof, DropQuietly, DropDone, DropUnsent, DropRead, OtherCommand, IdleServer, idleVars,
        record
<1>3. trouble' \subseteq Troubles
  <2>1. \/ UNCHANGED trouble
        \/ \E t \in Troubles : trouble' = trouble \cup {t}
        \/ \E t \in Troubles, b \in BOOLEAN : trouble' = trouble \cup IF b THEN {t} ELSE {}
    <3>0. /\ {"refused", "early", "again", "unused", "slow", "unsent", "stopped", "refreshed"}
                \subseteq Troubles
      BY DEF Troubles
    <3>1. CASE WaitWhile
      BY <1>0, <3>0, <3>1 DEF WaitWhile
    <3>2. CASE InitOther
      BY <1>0, <3>0, <3>2 DEF InitOther
    <3>3. CASE DropDone
      BY <1>0, <3>0, <3>3 DEF DropDone
    <3>4. CASE IdleServer
      <4>1. \/ UNCHANGED trouble
            \/ trouble' = trouble \cup IF Refuse THEN {"refused"} ELSE {}
        BY <3>4, Zenon DEF IdleServer, record
      <4>2. QED
        BY <1>0, <3>0, <4>1
    <3>5. CASE \/ Make \/ WaitUnsent \/ InitPlus \/ InitRest \/ ReplyTimesOut \/ WaitLine
               \/ WaitTimesOut \/ Refresh \/ RefreshRead \/ Reinit \/ RenewalUnsent \/ WaitEof
               \/ DropQuietly \/ DropUnsent \/ DropRead \/ OtherCommand \/ UNCHANGED idleVars
      <4>1. \/ UNCHANGED trouble
            \/ \E t \in {"slow", "unsent", "stopped", "refreshed"} : trouble' = trouble \cup {t}
        BY <3>5, Zenon
        DEF Make, WaitUnsent, InitPlus, InitRest, ReplyTimesOut, WaitLine, WaitTimesOut, Refresh,
            RefreshRead, Reinit, RenewalUnsent, WaitEof, DropQuietly, DropUnsent, DropRead,
            OtherCommand, idleVars, record
      <4>2. QED
        BY <3>0, <4>1
    <3>6. QED
      BY <3>1, <3>2, <3>3, <3>4, <3>5, Zenon DEF IdleNext, Handle
  <2>2. QED
    BY <1>0, <2>1
<1>4. QED
  BY <1>1, <1>2, <1>3 DEF IdleDataOK

-----------------------------------------------------------------------------
(* The IDLE of init is the last the server hears.                          *)

(* It is when it is written, ...                                           *)
LEMMA LastIssued ==
  ASSUME DataOK, ServerTypeOK, Numbers, RunCommand, UNCHANGED server
  PROVE  LastOfAll'
<1>0. /\ call' = call + 1 /\ call \in Nat /\ UNCHANGED <<answers, mode, request>>
      /\ \A a \in answers : a.id \in 0..call
      /\ mode = "continuing" => request.id \in 1..call
      /\ \A c \in Range(Outgoing) : c.id \in 0..call
  <2>1. call' = call + 1 /\ UNCHANGED answers
    BY DEF RunCommand
  <2>2. call \in Nat
    BY Bounds DEF DataOK
  <2>3. UNCHANGED <<mode, request>>
    BY DEF server
  <2>4. mode = "continuing" => request.id \in 1..call
    BY DEF Numbers
  <2>5. /\ \A a \in answers : a.id \in 0..call
        /\ \A c \in Range(Outgoing) : c.id \in 0..call
    BY DEF Numbers
  <2>6. QED
    BY <2>1, <2>2, <2>3, <2>4, <2>5
<1>1. [id |-> call', status |-> "ok"] \notin answers'
  <2>1. [id |-> call', status |-> "ok"].id \notin 0..call
    BY <1>0
  <2>2. QED
    BY <1>0, <2>1
<1>2. ~(mode' = "continuing" /\ request'.id = call')
  BY <1>0
<1>3. ASSUME NEW k \in 1..Len(Outgoing')
      PROVE  IF k = Len(Outgoing') THEN ~IsText(Outgoing'[k]) ELSE Outgoing'[k].id # call'
  <2>1. /\ Outgoing \in Seq(Command) /\ NewCommand \in Command
        /\ Outgoing' = Append(Outgoing, NewCommand) /\ ~IsText(NewCommand)
    BY OutgoingIssued, NewIsNumbered
  <2> DEFINE s == Outgoing
             t == Outgoing'
  <2>2. /\ Len(t) = Len(s) + 1 /\ t[Len(s) + 1] = NewCommand /\ Len(s) \in Nat
        /\ \A i \in 1..Len(s) : t[i] = s[i]
    BY <2>1, AppendProperties
  <2>3. \A i \in 1..Len(s) : s[i] \in Range(s)
    BY <2>1, RangeEquality
  <2> HIDE DEF s, t
  <2>4. k \in 1..Len(t)
    BY <1>3 DEF t
  <2>5. CASE k = Len(t)
    <3>1. ~IsText(t[k])
      BY <2>1, <2>2, <2>5
    <3>2. QED
      BY <2>5, <3>1 DEF t
  <2>6. CASE k # Len(t)
    <3>1. k \in 1..Len(s)
      BY <2>2, <2>4, <2>6
    <3>2. t[k] \in Range(s)
      BY <2>2, <2>3, <3>1
    <3>3. t[k].id \in 0..call
      BY <1>0, <3>2 DEF s
    <3>4. t[k].id # call'
      BY <1>0, <3>3
    <3>5. QED
      BY <2>6, <3>4 DEF t
  <2>7. QED
    BY <2>5, <2>6
<1>4. QED
  BY <1>1, <1>2, <1>3 DEF LastOfAll

(* ... and stays so when the server takes its lines.                       *)
LEMMA LastServed ==
  ASSUME DataOK, ServerTypeOK, Numbers, Placed, LastOfAll, ServeIdle, UNCHANGED phase
  PROVE  LastOfAll'
<1>1. SUFFICES ASSUME phase = "init" PROVE LastOfAll'
  BY DEF LastOfAll
<1>2. /\ [id |-> call, status |-> "ok"] \notin answers
      /\ mode = "continuing" /\ request.id = call => Outgoing = <<>>
      /\ \A k \in 1..Len(Outgoing) :
            IF k = Len(Outgoing) THEN ~IsText(Outgoing[k]) ELSE Outgoing[k].id # call
      /\ call \in twoPart
  BY <1>1 DEF LastOfAll, Placed
<1>3. Takes /\ UNCHANGED wbuf /\ UNCHANGED call
  BY IdleServes, Zenon DEF ServerTakes, ClientSide, client
<1>4. /\ Outgoing \in Seq(Command) /\ Outgoing # <<>> /\ Received = Outgoing[1]
      /\ Outgoing' = Tail(Outgoing)
  BY <1>3, ReceivedIsFirst
<1> DEFINE s == Outgoing
           t == Outgoing'
<1>5. /\ Len(s) \in Nat /\ Len(s) >= 1 /\ Len(t) = Len(s) - 1
      /\ \A k \in 1..Len(t) : t[k] = s[k + 1]
      /\ Received = s[1] /\ 1 \in 1..Len(s)
      /\ Len(t) = 0 => t = <<>>
  <2>1. s \in Seq(Command) /\ s # <<>> /\ t = Tail(s) /\ Received = s[1]
    BY <1>4
  <2> HIDE DEF s, t
  <2>2. QED
    BY <2>1
<1>6. ~(mode = "continuing" /\ request.id = call)
  BY <1>2, <1>4
<1> HIDE DEF s, t
<1>7. \A k \in 1..Len(s) : IF k = Len(s) THEN ~IsText(s[k]) ELSE s[k].id # call
  BY <1>2 DEF s
<1>8. \A k \in 1..Len(t) : IF k = Len(t) THEN ~IsText(t[k]) ELSE t[k].id # call
  <2>1. ASSUME NEW k \in 1..Len(t) PROVE IF k = Len(t) THEN ~IsText(t[k]) ELSE t[k].id # call
    <3>1. k + 1 \in 1..Len(s) /\ t[k] = s[k + 1] /\ (k = Len(t) <=> k + 1 = Len(s))
      BY <1>5
    <3>2. IF k + 1 = Len(s) THEN ~IsText(s[k + 1]) ELSE s[k + 1].id # call
      BY <1>7, <3>1
    <3>3. QED
      BY <3>1, <3>2
  <2>2. QED
    BY <2>1
<1>9. Received.id = call => t = <<>>
  <2>1. ASSUME Received.id = call PROVE t = <<>>
    <3>1. s[1].id = call
      BY <1>5, <2>1
    <3>2. 1 = Len(s)
      BY <1>5, <1>7, <3>1
    <3>3. QED
      BY <1>5, <3>2
  <2>2. QED
    BY <2>1
<1>10. mode' = "continuing" /\ request'.id = call => t = <<>>
  <2>1. UNCHANGED <<mode, request>> \/ (request' = Received) \/ mode' = "command"
    BY DEF ServeIdle, Serve, Invite, Refuse, ServeOnePart, RejectText, EndIdling, server
  <2>2. QED
    BY <1>6, <1>9, <2>1
<1>11. [id |-> call, status |-> "ok"] \notin answers'
  <2>1. \/ UNCHANGED answers
        \/ \E x \in {"no", "bad"} : answers' = answers \cup {[id |-> Received.id, status |-> x]}
        \/ /\ Received.id \notin twoPart
           /\ \E x \in Statuses : answers' = answers \cup {[id |-> Received.id, status |-> x]}
        \/ /\ mode = "continuing"
           /\ \E x \in Statuses : answers' = answers \cup {[id |-> request.id, status |-> x]}
    BY DEF ServeIdle, Serve, Invite, Refuse, ServeOnePart, RejectText, EndIdling, Answers, Statuses
  <2>2. QED
    BY <1>2, <1>6, <2>1
<1>12. QED
  BY <1>3, <1>8, <1>10, <1>11 DEF LastOfAll, t

(* A step that writes and takes nothing leaves it last.                    *)
LEMMA LastKept ==
  ASSUME LastOfAll, UNCHANGED <<call, answers, mode, request, toServer, wbuf>>,
         phase' = "init" => phase = "init"
  PROVE  LastOfAll'
BY DEF LastOfAll, Outgoing

(* All steps together.                                                     *)
LEMMA LastOfAllStep ==
  ASSUME DataOK, ServerTypeOK, Numbers, Placed, LastOfAll, [IdleNext]_idleVars
  PROVE  LastOfAll'
<1>1. ASSUME phase' # "init" PROVE LastOfAll'
  BY <1>1 DEF LastOfAll
<1>2. CASE WaitWhile \/ Reinit
  BY <1>2, LastIssued, Zenon DEF WaitWhile, Reinit, SendIdle, RunTwoPart
<1>3. CASE Make \/ DropQuietly \/ DropUnsent \/ DropDone \/ Refresh \/ InitPlus
  BY <1>1, <1>3 DEF Make, DropQuietly, DropUnsent, DropDone, Refresh, InitPlus
<1>4. CASE WaitUnsent \/ OtherCommand
  BY <1>1, <1>4 DEF WaitUnsent, OtherCommand, handle
<1>5. CASE WaitTimesOut \/ RenewalUnsent \/ ReplyTimesOut \/ WaitEof
  BY <1>1, <1>5 DEF WaitTimesOut, RenewalUnsent, ReplyTimesOut, WaitEof, EndWait
<1>6. CASE WaitLine \/ RefreshRead
  BY <1>1, <1>6 DEF WaitLine, RefreshRead, EndWait
<1>7. CASE DropRead
  BY <1>1, <1>7 DEF DropRead
<1>8. CASE InitOther \/ InitRest
  <2>1. UNCHANGED <<call, answers, mode, request, toServer, wbuf>> /\ phase = "init"
    BY <1>8 DEF InitOther, InitRest, ReadLine, history, server
  <2>2. QED
    BY <2>1, LastKept
<1>9. CASE IdleServer
  <2>1. UNCHANGED phase
    BY <1>9, Zenon DEF IdleServer, handle
  <2>2. CASE ServeIdle
    BY <2>1, <2>2, LastServed
  <2>3. CASE Announce \/ SendNotice \/ Leave
    <3>1. UNCHANGED <<call, answers, mode, request, toServer, wbuf>>
      BY <2>3 DEF Announce, SendNotice, Leave, HangUp, client, history, server
    <3>2. QED
      BY <2>1, <3>1, LastKept
  <2>4. QED
    BY <1>9, <2>2, <2>3, Zenon DEF IdleServer
<1>10. CASE UNCHANGED idleVars
  <2>1. UNCHANGED <<call, answers, mode, request, toServer, wbuf, phase>>
    BY <1>10 DEF idleVars, vars, client, wire, history, server, handle
  <2>2. QED
    BY <2>1, LastKept
<1>11. QED
  BY <1>2, <1>3, <1>4, <1>5, <1>6, <1>7, <1>8, <1>9, <1>10, Zenon DEF IdleNext, Handle

-----------------------------------------------------------------------------
(* The tags that are awaited.                                              *)

(* A line on its way is one of those before, or what was cut from one, or  *)
(* news from the server.                                                   *)
LEMMA HeardBefore ==
  ASSUME DataOK, ServerTypeOK, DialogueStep, NEW l \in Range(toClient'), IsTagged(l)
  PROVE  \/ l \in Range(toClient) \/ l.tag = 0
         \/ /\ ServerTakes
            /\ \E c \in Command, s \in Statuses :
                  /\ \/ c = Received /\ mode = "command"
                     \/ c = request /\ mode = "continuing"
                  /\ l = DoneLine(c.tag, s, c.id)
<1>0. toClient \in Seq(Line)
  BY DEF DataOK
<1>1. CASE Issues \/ Reads \/ Talks
  <2>1. \/ UNCHANGED toClient
        \/ toClient # <<>> /\ toClient' = Tail(toClient)
        \/ DropInput
    <3>1. CASE Issues
      BY <3>1, Zenon DEF Issues, RunCommand, RunCommandFails
    <3>2. CASE Reads
      BY <3>2, ReadsLines, Zenon DEF Reads
    <3>3. CASE Talks
      BY <3>3, Zenon DEF Talks
    <3>4. QED
      BY <1>1, <3>1, <3>2, <3>3
  <2>2. ASSUME NEW m \in Range(toClient), NEW rest \in Rests(m), l = rest
        PROVE  l.tag = 0
    <3>1. m \in Line
      BY <1>0, <2>2, RangeOfSeq
    <3>2. rest.kind = "done"
      BY <2>2 DEF IsTagged
    <3>3. rest = [m EXCEPT !.tag = 0]
      BY <2>2, <3>1, <3>2 DEF Rests, Line
    <3>4. QED
      BY <2>2, <3>1, <3>3 DEF Line
  <2>3. QED
    BY <2>1, <2>2, LinesRead
<1>2. CASE ServerTakes
  <2>1. request \in Command
    BY DEF ServerTypeOK
  <2>2. CASE UNCHANGED <<toClient, answers>>
    BY <2>2
  <2>3. ASSUME NEW line \in Line, toClient' = Append(toClient, line),
               \/ line \in Remarks
               \/ \E c \in Command, s \in Statuses :
                     /\ \/ c = Received /\ mode = "command"
                        \/ c = request /\ mode = "continuing"
                     /\ line = DoneLine(c.tag, s, c.id)
        PROVE  \/ l \in Range(toClient) \/ l.tag = 0
               \/ \E c \in Command, s \in Statuses :
                     /\ \/ c = Received /\ mode = "command"
                        \/ c = request /\ mode = "continuing"
                     /\ l = DoneLine(c.tag, s, c.id)
    <3>1. Range(toClient') = Range(toClient) \cup {line}
      BY <1>0, <2>3, RangeAppend
    <3>2. line \in Remarks => line.tag = 0
      BY RemarksAreLines
    <3>3. QED
      BY <2>3, <3>1, <3>2
  <2>4. QED
    BY <1>2, <2>1, <2>2, <2>3, TakesSends, Zenon
<1>3. CASE Tells
  BY <1>3 DEF Tells, News
<1>4. QED
  BY <1>1, <1>2, <1>3 DEF DialogueStep

(* No command is awaited that was not, but a new one or one without a tag. *)
LEMMA AwaitedStep ==
  ASSUME DataOK, ServerTypeOK, DialogueStep, NEW c \in Awaited'
  PROVE  c \in Awaited \/ c.tag = 0 \/ (Issues /\ c = NewCommand)
<1>1. CASE c \in Range(Outgoing')
  <2>1. c \in Range(Outgoing) \/ (Issues /\ c = NewCommand) \/ \E i \in 0..call : c = Text(i)
    BY <1>1, DialogueOutgoing, Zenon
  <2>2. \A i \in 0..call : Text(i).tag = 0
    BY DEF Text
  <2>3. QED
    BY <2>1, <2>2 DEF Awaited
<1>2. ASSUME NEW l \in Range(toClient'), IsTagged(l), c = [tag |-> l.tag, id |-> l.id]
      PROVE  c \in Awaited \/ c.tag = 0
  <2>1. CASE l \in Range(toClient)
    BY <1>2, <2>1 DEF Awaited, Answered
  <2>2. CASE l.tag = 0
    BY <1>2, <2>2
  <2>3. ASSUME ServerTakes, NEW d \in Command, NEW s \in Statuses,
               \/ d = Received /\ mode = "command"
               \/ d = request /\ mode = "continuing",
               l = DoneLine(d.tag, s, d.id)
        PROVE  c \in Awaited
    <3>1. c = d
      <4>1. c = [tag |-> d.tag, id |-> d.id]
        BY <1>2, <2>3 DEF DoneLine
      <4>2. QED
        BY <4>1 DEF Command
    <3>2. Received \in Range(Outgoing)
      <4>1. UNCHANGED wbuf /\ Takes
        BY <2>3, Zenon DEF ServerTakes, ClientSide, client
      <4>2. QED
        BY <4>1, ReceivedIsFirst
    <3>3. QED
      BY <2>3, <3>1, <3>2 DEF Awaited
  <2>4. QED
    BY <1>2, <2>1, <2>2, <2>3, HeardBefore, Zenon
<1>3. CASE mode' = "continuing" /\ c = request'
  <2>1. CASE ServerTakes
    <3>1. Received \in Range(Outgoing)
      <4>1. UNCHANGED wbuf /\ Takes
        BY <2>1, Zenon DEF ServerTakes, ClientSide, client
      <4>2. QED
        BY <4>1, ReceivedIsFirst
    <3>2. UNCHANGED server \/ request' = Received \/ mode' = "command"
      BY <2>1, Zenon DEF ServerTakes
    <3>3. QED
      BY <1>3, <3>1, <3>2 DEF Awaited, server
  <2>2. CASE UNCHANGED server
    BY <1>3, <2>2 DEF Awaited, server
  <2>3. QED
    BY <2>1, <2>2, Zenon DEF DialogueStep, Issues, Reads, Talks, Tells
<1>4. QED
  BY <1>1, <1>2, <1>3 DEF Awaited, Answered

(* All that is awaited after a step has a tag.                             *)
LEMMA AwaitedAreCommands ==
  DataOK' /\ ServerTypeOK' => \A c \in Awaited' : c.tag \in Nat
<1> SUFFICES ASSUME DataOK', ServerTypeOK', NEW c \in Awaited' PROVE c.tag \in Nat
  OBVIOUS
<1>1. \A d \in Command : d.tag \in Nat
  BY DEF Command
<1>2. CASE c \in Range(Outgoing')
  <2>1. Outgoing' \in Seq(Command)
    BY DEF DataOK, Outgoing
  <2>2. QED
    BY <1>1, <1>2, <2>1, RangeOfSeq
<1>3. ASSUME NEW l \in Range(toClient'), c = [tag |-> l.tag, id |-> l.id] PROVE c.tag \in Nat
  <2>1. l \in Line
    BY <1>3, RangeOfSeq DEF DataOK
  <2>2. QED
    BY <1>3, <2>1 DEF Line
<1>4. CASE mode' = "continuing" /\ c = request'
  BY <1>1, <1>4 DEF ServerTypeOK
<1>5. QED
  BY <1>2, <1>3, <1>4 DEF Awaited, Answered

(* The tags stay within what was given out.                                *)
LEMMA TagsKept ==
  ASSUME DataOK, ServerTypeOK, DialogueStep, ~Issues, TagsInUse, UNCHANGED <<tag, call>>,
         phase' \in {"init", "wait", "refresh"} => phase \in {"init", "wait", "refresh"},
         phase' = "init" => phase = "init" /\ (timed' => timed)
  PROVE  TagsInUse'
<1>1. tag \in Nat
  BY Bounds DEF DataOK
<1>2. \A c \in Awaited' : c \in Awaited \/ c.tag = 0
  BY AwaitedStep
<1>3. \A c \in Awaited' : c.tag <= tag + 1
  BY <1>1, <1>2 DEF TagsInUse
<1>4. phase' \in {"init", "wait", "refresh"} => \A c \in Awaited' : c.tag <= tag
  BY <1>1, <1>2 DEF TagsInUse
<1>5. phase' = "init" => tag # 0
  BY DEF TagsInUse
<1>6. phase' = "init" /\ timed' => \A c \in Awaited' : c.tag = tag => c.id = call
  <2>1. SUFFICES ASSUME phase' = "init", timed', NEW c \in Awaited', c.tag = tag
                 PROVE  c.id = call
    OBVIOUS
  <2>2. c \in Awaited
    BY <1>2, <1>5, <2>1
  <2>3. QED
    BY <2>1, <2>2 DEF TagsInUse
<1>7. QED
  BY <1>3, <1>4, <1>5, <1>6 DEF TagsInUse

(* ... also when a command is issued, be it in vain.                       *)
LEMMA TagsIssued ==
  ASSUME DataOK, ServerTypeOK, TagsInUse, Issues,
         \/ RunCommand /\ (phase' = "init" /\ timed' => phase = "refresh")
         \/ RunCommandFails /\ phase' \notin {"init", "wait", "refresh"}
  PROVE  TagsInUse'
<1>0. DialogueStep
  BY DEF DialogueStep
<1>1. tag \in Nat
  BY Bounds DEF DataOK
<1>2. NewCommand.tag = tag + 1 /\ NewCommand.id = call + 1
  BY NewIsNumbered
<1>3. \A c \in Awaited' : c \in Awaited \/ c.tag = 0 \/ c = NewCommand
  BY <1>0, AwaitedStep
<1>4. \A c \in Awaited' : c.tag <= tag + 1
  BY <1>1, <1>2, <1>3 DEF TagsInUse
<1>5. CASE RunCommandFails /\ phase' \notin {"init", "wait", "refresh"}
  <2>1. tag' = tag
    BY <1>1, <1>5 DEF RunCommandFails, RolledBackTag, NextTag
  <2>2. QED
    BY <1>4, <1>5, <2>1 DEF TagsInUse
<1>6. CASE RunCommand /\ (phase' = "init" /\ timed' => phase = "refresh")
  <2>1. tag' = tag + 1 /\ call' = call + 1
    BY <1>6 DEF RunCommand, NextTag
  <2>2. \A c \in Awaited' : c.tag <= tag' /\ c.tag <= tag' + 1
    <3>1. \A c \in Awaited' : c.tag \in Nat
      BY <1>0, DialogueData, AwaitedAreCommands
    <3>2. QED
      BY <1>1, <1>4, <2>1, <3>1
  <2>3. phase' = "init" /\ timed' => \A c \in Awaited' : c.tag = tag' => c.id = call'
    <3>1. SUFFICES ASSUME phase' = "init", timed', NEW c \in Awaited', c.tag = tag'
                   PROVE  c.id = call'
      OBVIOUS
    <3>2. c \notin Awaited
      BY <1>1, <1>6, <2>1, <3>1 DEF TagsInUse
    <3>3. c = NewCommand
      BY <1>1, <1>3, <2>1, <3>1, <3>2
    <3>4. QED
      BY <1>2, <2>1, <3>3
  <2>4. tag' # 0
    BY <1>1, <2>1
  <2>5. QED
    BY <2>2, <2>3, <2>4 DEF TagsInUse
<1>7. QED
  BY <1>5, <1>6

(* All steps together.                                                     *)
LEMMA TagsInUseStep ==
  ASSUME DataOK, ServerTypeOK, Placed, TagsInUse, TimeoutIsTaken, [IdleNext]_idleVars
  PROVE  TagsInUse'
<1>0. DialogueStep
  BY IdleIsDialogue
<1>1. ASSUME WaitWhile \/ Reinit PROVE TagsInUse'
  <2>1. Issues /\ RunCommand
    BY <1>1, HandleCommands, Zenon DEF WaitWhile, Reinit, SendIdle, RunTwoPart
  <2>2. timed' => phase = "refresh"
    BY <1>1, Zenon DEF WaitWhile, Reinit, TimeoutIsTaken
  <2>3. QED
    BY <2>1, <2>2, TagsIssued
<1>2. CASE WaitUnsent
  <2>1. Issues /\ RunCommandFails /\ phase' = "held"
    BY <1>2, HandleCommands DEF WaitUnsent, FailTwoPart, handle
  <2>2. QED
    BY <2>1, TagsIssued
<1>3. CASE OtherCommand
  <2>1. phase' = "none"
    BY <1>3 DEF OtherCommand, handle
  <2>2. CASE RunOnePart
    <3>1. Issues /\ RunCommand
      BY <1>3, <2>2, Zenon DEF OtherCommand, RunOnePart, Issues
    <3>2. QED
      BY <2>1, <3>1, TagsIssued
  <2>3. CASE ReadLine \/ ReadEof
    <3>1. UNCHANGED <<tag, call>> /\ ~Issues
      <4>1. pc = "reading" /\ UNCHANGED <<tag, call>>
        BY <2>3, Zenon DEF ReadLine, ReadEof
      <4>2. QED
        BY <4>1 DEF Issues, RunCommand, RunCommandFails, CanIssue
    <3>2. QED
      BY <1>0, <2>1, <3>1, TagsKept
  <2>4. QED
    BY <1>3, <2>2, <2>3, Zenon DEF OtherCommand
<1>4. CASE RenewalUnsent
  <2>1. phase' = "held"
    BY <1>4 DEF RenewalUnsent, EndWait
  <2>2. CASE FailTwoPart
    <3>1. Issues /\ RunCommandFails
      BY <1>4, <2>2, Zenon DEF RenewalUnsent, FailTwoPart, Issues
    <3>2. QED
      BY <2>1, <3>1, TagsIssued
  <2>3. CASE phase = "wait" /\ UNCHANGED <<tag, call>>
    <3>1. ~Issues
      BY <2>3 DEF Issues, RunCommand, RunCommandFails, CanIssue, Placed
    <3>2. QED
      BY <1>0, <2>1, <2>3, <3>1, TagsKept
  <2>4. QED
    BY <1>4, <2>2, <2>3, Zenon DEF RenewalUnsent
<1>5. ASSUME UNCHANGED <<tag, call>>, UNCHANGED phase, UNCHANGED timed PROVE TagsInUse'
  <2>1. call \in Nat /\ ~Issues
    BY <1>5, Bounds DEF DataOK, Issues, RunCommand, RunCommandFails
  <2>2. QED
    BY <1>0, <1>5, <2>1, TagsKept
<1>6. ASSUME UNCHANGED <<tag, call>>, phase' # "init",
             phase' \in {"init", "wait", "refresh"} => phase \in {"init", "wait", "refresh"}
      PROVE  TagsInUse'
  <2>1. call \in Nat /\ ~Issues
    BY <1>6, Bounds DEF DataOK, Issues, RunCommand, RunCommandFails
  <2>2. QED
    BY <1>0, <1>6, <2>1, TagsKept
<1>7. CASE Make \/ DropQuietly \/ DropUnsent \/ DropDone \/ Refresh \/ InitPlus
  <2>1. UNCHANGED <<tag, call>>
    BY <1>7, Zenon DEF Make, DropQuietly, DropUnsent, DropDone, Refresh, InitPlus, vars, client
  <2>2. QED
    BY <1>6, <1>7, <2>1 DEF Make, DropQuietly, DropUnsent, DropDone, Refresh, InitPlus
<1>8. CASE WaitTimesOut \/ ReplyTimesOut \/ WaitEof
  <2>1. UNCHANGED <<tag, call>>
    BY <1>8, Zenon DEF WaitTimesOut, ReplyTimesOut, WaitEof, ReadFails, ReadEof
  <2>2. QED
    BY <1>6, <1>8, <2>1 DEF WaitTimesOut, ReplyTimesOut, WaitEof, EndWait
<1>9. CASE WaitLine \/ RefreshRead
  <2>1. UNCHANGED <<tag, call>>
    BY <1>9, Zenon DEF WaitLine, RefreshRead, ReadLine
  <2>2. phase' # "init" /\ phase \in {"wait", "refresh"}
    BY <1>9 DEF WaitLine, RefreshRead, EndWait
  <2>3. QED
    BY <1>6, <2>1, <2>2
<1>10. CASE DropRead
  <2>1. UNCHANGED <<tag, call>>
    BY <1>10, Zenon DEF DropRead, ReadLine, ReadEof
  <2>2. QED
    BY <1>6, <1>10, <2>1 DEF DropRead
<1>11. CASE InitOther \/ InitRest
  <2>1. UNCHANGED <<tag, call>>
    BY <1>11, Zenon DEF InitOther, InitRest, ReadLine
  <2>2. \/ UNCHANGED <<phase, timed>>
        \/ phase' = "held"
    BY <1>11, Zenon DEF InitOther, InitRest, InitReturns, EndWait
  <2>3. QED
    BY <1>5, <1>6, <2>1, <2>2
<1>12. CASE IdleServer
  <2>1. UNCHANGED <<tag, call>>
    BY <1>12, IdleServes, Zenon DEF IdleServer, ServerTakes, ClientSide, client, Announce,
                                    SendNotice, Leave, HangUp
  <2>2. UNCHANGED phase /\ UNCHANGED timed
    BY <1>12, Zenon DEF IdleServer, handle
  <2>3. QED
    BY <1>5, <2>1, <2>2
<1>13. CASE UNCHANGED idleVars
  <2>1. UNCHANGED <<tag, call>> /\ UNCHANGED phase /\ UNCHANGED timed
    BY <1>13, Zenon DEF idleVars, vars, client, handle
  <2>2. QED
    BY <1>5, <2>1
<1>14. QED
  BY <1>1, <1>2, <1>3, <1>4, <1>7, <1>8, <1>9, <1>10, <1>11, <1>12, <1>13, Zenon
  DEF IdleNext, Handle

-----------------------------------------------------------------------------
(* How a wait ends.                                                        *)

(* init does not read "OK" when its command is the last one sent, and the  *)
(* only one with its tag.                                                  *)
LEMMA NoOkInInit ==
  ASSUME DataOK, HeardAsAnswered, LastOfAll, TagsInUse, phase = "init", timed, ReadLine,
         pc' = "ready"
  PROVE  ret'.outcome # "ok"
<1> DEFINE line == Head(toClient)
<1>1. toClient \in Seq(Line) /\ toClient # <<>>
  BY DEF DataOK, ReadLine
<1>2. line \in Line /\ line \in Range(toClient)
  <2>1. line = toClient[1] /\ 1 \in 1..Len(toClient) /\ line \in Line
    BY <1>1
  <2>2. QED
    BY <1>1, <2>1, RangeEquality
<1>3. ~line.lit
  BY <1>2 DEF HeardAsAnswered
<1> HIDE DEF line
<1>4. \/ ret'.outcome \in {"mismatch", "bye"}
      \/ /\ ParseResponse(pending, line) = "done" /\ line.tag = tag
         /\ ret'.outcome = Outcome(line.status)
  <2>1. pc = "reading" /\ OnLine(line)
    BY DEF ReadLine, line
  <2>2. QED
    BY <2>1 DEF OnLine, Return, TagMatches
<1>5. SUFFICES ASSUME ParseResponse(pending, line) = "done", line.tag = tag,
                      Outcome(line.status) = "ok"
               PROVE  FALSE
  BY <1>4
<1>6. IsTagged(line) /\ line.status = "ok"
  <2>1. line.kind = "done"
    BY <1>2, <1>5 DEF ParseResponse, Line, LineKinds
  <2>2. line.status = "ok"
    BY <1>5 DEF Outcome
  <2>3. QED
    BY <1>3, <2>1, <2>2 DEF IsTagged
<1>7. [tag |-> line.tag, id |-> line.id] \in Awaited
  BY <1>2, <1>6 DEF Awaited, Answered
<1>8. line.id = call
  BY <1>5, <1>7 DEF TagsInUse
<1>9. [id |-> call, status |-> "ok"] \in answers
  BY <1>2, <1>6, <1>8 DEF HeardAsAnswered
<1>10. QED
  BY <1>9 DEF LastOfAll

(* The timeout is taken off, ...                                           *)
LEMMA TimeoutStep ==
  ASSUME DataOK, HeardAsAnswered, LastOfAll, TagsInUse, IdleFlagsOK, TimeoutIsTaken,
         [IdleNext]_idleVars
  PROVE  TimeoutIsTaken'
<1>1. ASSUME ~timed' PROVE TimeoutIsTaken'
  BY <1>1 DEF TimeoutIsTaken
<1>2. ASSUME phase' \in {"init", "wait", "refresh"} PROVE TimeoutIsTaken'
  BY <1>2 DEF TimeoutIsTaken
<1>3. ASSUME UNCHANGED timed, phase \in {"none", "held", "drop"} PROVE TimeoutIsTaken'
  <2>1. ~timed
    BY <1>3 DEF TimeoutIsTaken
  <2>2. ~timed'
    BY <1>3, <2>1, Zenon
  <2>3. QED
    BY <1>1, <2>2
<1>4. CASE Make \/ WaitUnsent \/ DropQuietly \/ DropDone \/ DropUnsent \/ DropRead \/ OtherCommand
  <2>1. UNCHANGED timed
    BY <1>4, Zenon DEF Make, WaitUnsent, DropQuietly, DropDone, DropUnsent, DropRead,
                       OtherCommand, handle
  <2>2. phase \in {"none", "held", "drop"}
    BY <1>4 DEF Make, WaitUnsent, DropQuietly, DropDone, DropUnsent, DropRead, OtherCommand
  <2>3. QED
    BY <1>3, <2>1, <2>2
<1>5. CASE WaitWhile \/ InitPlus \/ Refresh \/ Reinit
  BY <1>2, <1>5 DEF WaitWhile, InitPlus, Refresh, Reinit, SendIdle
<1>6. CASE ReplyTimesOut \/ WaitTimesOut \/ RenewalUnsent \/ WaitEof
  <2>1. EndTimeout
    BY <1>6, Zenon DEF ReplyTimesOut, WaitTimesOut, RenewalUnsent, WaitEof, EndWait
  <2>2. QED
    BY <1>1, <2>1, Zenon DEF EndTimeout
<1>7. CASE WaitLine \/ RefreshRead
  <2>1. EndTimeout \/ UNCHANGED phase
    BY <1>7, Zenon DEF WaitLine, RefreshRead, EndWait
  <2>2. phase \in {"wait", "refresh"}
    BY <1>7 DEF WaitLine, RefreshRead
  <2>3. CASE EndTimeout
    BY <1>1, <2>3, Zenon DEF EndTimeout
  <2>4. CASE UNCHANGED phase
    BY <1>2, <2>2, <2>4
  <2>5. QED
    BY <2>1, <2>3, <2>4
<1>8. CASE InitOther \/ InitRest
  <2>1. phase = "init" /\ ReadLine /\ InitReturns
    BY <1>8, Zenon DEF InitOther, InitRest
  <2>2. CASE UNCHANGED phase
    BY <1>2, <2>1, <2>2
  <2>3. CASE EndTimeout
    BY <1>1, <2>3, Zenon DEF EndTimeout
  <2>4. CASE pc' = "ready" /\ ret'.outcome = "ok" /\ UNCHANGED timed
    <3>1. ~timed
      BY <2>1, <2>4, NoOkInInit, Zenon
    <3>2. ~timed'
      BY <2>4, <3>1, Zenon
    <3>3. QED
      BY <1>1, <3>2
  <2>5. QED
    BY <2>1, <2>2, <2>3, <2>4, Zenon DEF InitReturns, EndWait
<1>9. CASE IdleServer \/ UNCHANGED idleVars
  <2>1. UNCHANGED timed /\ UNCHANGED phase
    BY <1>9, Zenon DEF IdleServer, idleVars, handle
  <2>2. CASE phase \in {"none", "held", "drop"}
    BY <1>3, <2>1, <2>2, Zenon
  <2>3. CASE phase \notin {"none", "held", "drop"}
    <3>1. phase' \notin {"none", "held", "drop"}
      BY <2>1, <2>3, Zenon
    <3>2. QED
      BY <3>1, Zenon DEF TimeoutIsTaken
  <2>4. QED
    BY <2>2, <2>3
<1>10. QED
  BY <1>4, <1>5, <1>6, <1>7, <1>8, <1>9, Zenon DEF IdleNext, Handle

(* ... and the unreachable!() is not reached.                              *)
LEMMA PanicStep ==
  ASSUME DataOK, Placed, LastOfAll, ~broken' => ReplyIsOwn', NeverPanics, [IdleNext]_idleVars
  PROVE  NeverPanics'
<1>1. ASSUME UNCHANGED panicked PROVE NeverPanics'
  <2>1. DialogueStep
    BY IdleIsDialogue
  <2>2. broken => broken'
    BY <2>1, DialogueBroken, Zenon
  <2>3. QED
    BY <1>1, <2>2, Zenon DEF NeverPanics
<1>2. CASE InitOther \/ InitRest
  <2>1. phase = "init" /\ ReadLine /\ InitReturns
    BY <1>2, Zenon DEF InitOther, InitRest
  <2>2. CASE pc' = "ready" /\ ret'.outcome = "ok"
    <3>1. [id |-> call, status |-> "ok"] \notin answers /\ UNCHANGED <<call, answers>>
      BY <2>1 DEF LastOfAll, ReadLine, history
    <3>2. ~ReplyIsOwn'
      BY <2>2, <3>1 DEF ReplyIsOwn
    <3>3. QED
      BY <3>2, Zenon DEF NeverPanics
  <2>3. QED
    BY <1>1, <2>1, <2>2, Zenon DEF InitReturns
<1>3. CASE ~(InitOther \/ InitRest)
  <2>1. UNCHANGED panicked
    BY <1>3, Zenon
    DEF IdleNext, Handle, Make, WaitWhile, WaitUnsent, InitPlus, ReplyTimesOut, WaitLine,
        WaitTimesOut, Refresh, RefreshRead, Reinit, SendIdle, RenewalUnsent, WaitEof, DropQuietly,
        DropDone, DropUnsent, DropRead, OtherCommand, IdleServer, idleVars, handle
  <2>2. QED
    BY <1>1, <2>1
<1>4. QED
  BY <1>2, <1>3

-----------------------------------------------------------------------------
(* The inductive invariant.                                                *)
Idling ==
    /\ IdleTypeOK /\ Matched /\ Placed
    /\ InSequence /\ LastOfAll /\ TagsInUse
    /\ TimeoutIsTaken /\ NeverPanics

(* It is inductive ...                                                     *)
LEMMA IdlingStep ==
  Idling /\ [IdleNext]_idleVars => Idling'
<1> SUFFICES ASSUME Idling, [IdleNext]_idleVars PROVE Idling'
  OBVIOUS
<1>0. /\ FlagsOK /\ IdleFlagsOK /\ DataOK /\ ServerTypeOK /\ IdleDataOK
      /\ Matched /\ Numbers /\ HeardAsAnswered /\ Placed
      /\ InSequence /\ LastOfAll /\ TagsInUse /\ TimeoutIsTaken /\ NeverPanics
  BY IdleTypeSplit, Zenon DEF Idling, Matched
<1>1. DataOK' /\ ServerTypeOK' /\ Matched'
  <2>1. DialogueStep
    BY <1>0, IdleIsDialogue
  <2>2. QED
    BY <1>0, <2>1, DialogueData, MatchedStep
<1>2. FlagsOK' /\ IdleFlagsOK'
  BY <1>0, ConnectionFlags, HandleFlags, Zenon
<1>3. phase \in Phases /\ delivered \in Seq(1..MaxChatter)
  BY <1>0 DEF IdleDataOK
<1>4. Placed' /\ phase' \in Phases
  BY <1>0, <1>1, <1>3, PlacedStep
<1>5. InSequence' /\ delivered' \in Seq(1..MaxChatter)
  BY <1>0, <1>3, InSequenceStep
<1>6. IdleDataOK'
  BY <1>0, <1>1, <1>4, <1>5, IdleDataStep
<1>7. LastOfAll' /\ TagsInUse' /\ TimeoutIsTaken'
  BY <1>0, LastOfAllStep, TagsInUseStep, TimeoutStep
<1>8. NeverPanics'
  <2>1. ~broken' => ReplyIsOwn'
    BY <1>1, Zenon DEF Matched
  <2>2. QED
    BY <1>0, <2>1, PanicStep
<1>9. IdleTypeOK'
  <2>1. TypeOK'
    BY <1>1, <1>2, Zenon DEF TypeOK, FlagsOK, DataOK
  <2>2. {first', done', keepalive', timed', panicked', waited'} \subseteq BOOLEAN
    BY <1>2, Zenon DEF IdleFlagsOK
  <2>3. QED
    BY <1>1, <1>6, <2>1, <2>2, Zenon DEF IdleTypeOK, IdleDataOK
<1>10. QED
  BY <1>1, <1>4, <1>5, <1>7, <1>8, <1>9, Zenon DEF Idling

(* ... and holds of a new session.                                         *)
LEMMA IdlingInit ==
  IdleInit => Idling
<1> SUFFICES ASSUME IdleInit PROVE Idling
  OBVIOUS
<1>1. Init /\ ServerInit
  BY DEF IdleInit
<1>2. FlagsOK /\ IdleFlagsOK
  BY <1>1, Zenon DEF IdleInit, Init, FlagsOK, IdleFlagsOK
<1>3. DataOK /\ ServerTypeOK /\ Matched
  BY <1>1, InitData, MatchedInit, Zenon
<1>4. IdleDataOK
  BY IdleAssumption, Bounds DEF IdleInit, IdleDataOK, Phases
<1>5. Placed /\ LastOfAll
  BY DEF IdleInit, Placed, LastOfAll
<1>6. InSequence
  BY DEF IdleInit, Init, InSequence, Sequenced
<1>7. TagsInUse
  <2>1. Awaited = {}
    <3>1. toServer = <<>> /\ wbuf = <<>> /\ toClient = <<>> /\ mode = "command"
      BY <1>1 DEF Init, ServerInit
    <3>2. Outgoing = <<>>
      BY <3>1 DEF Outgoing
    <3>3. Range(<<>>) = {}
      BY DEF Range
    <3>4. QED
      BY <3>1, <3>2, <3>3 DEF Awaited, Answered
  <2>2. phase = "none"
    BY DEF IdleInit
  <2>3. QED
    BY <2>1, <2>2 DEF TagsInUse
<1>8. TimeoutIsTaken /\ NeverPanics
  BY Zenon DEF IdleInit, TimeoutIsTaken, NeverPanics
<1>9. QED
  BY <1>2, <1>3, <1>4, <1>5, <1>6, <1>7, <1>8, IdleTypeSplit, Zenon DEF Idling

(* So it always holds.                                                     *)
LEMMA IdlingHolds == IdleSpec => []Idling
BY IdlingInit, IdlingStep, PTL DEF IdleSpec

(* Every variable keeps its type.                                          *)
THEOREM IdleTypeCorrect == IdleSpec => []IdleTypeOK
<1>1. Idling => IdleTypeOK
  BY Zenon DEF Idling
<1>2. QED
  BY <1>1, IdlingHolds, PTL

(* A reply is that of the call it is returned to, although DONE carries no *)
(* tag and a wait may be given up with its IDLE unanswered (terminate,     *)
(* read_response_onto).                                                    *)
THEOREM IdleReplyMatches == IdleSpec => []ReplyIsMine
<1>1. Idling => ReplyIsMine
  BY Zenon DEF Idling, Matched, ReplyIsOwn, ReplyIsMine
<1>2. QED
  BY <1>1, IdlingHolds, PTL

(* The read timeout that a wait sets ends with it, on each of the ways out *)
(* of wait_while, whatever the server does and even if a tag was reused.   *)
THEOREM TimeoutTaken == IdleSpec => []TimeoutIsTaken
<1>1. Idling => TimeoutIsTaken
  BY Zenon DEF Idling
<1>2. QED
  BY <1>1, IdlingHolds, PTL

(* The unreachable!() of init is not reached unless a tag was used twice   *)
(* or a response was cut: no "OK" can come while the IDLE is the last line *)
(* the server was sent.                                                    *)
THEOREM PanicsNever == IdleSpec => []NeverPanics
<1>1. Idling => NeverPanics
  BY Zenon DEF Idling
<1>2. QED
  BY <1>1, IdlingHolds, PTL

(* The callback of one wait_while sees the updates of that wait in the     *)
(* order they were sent and each once, through timeouts and renewals.      *)
THEOREM DeliveredInOrder == IdleSpec => []InOrder
<1>1. Idling => InOrder
  <2>1. SUFFICES ASSUME Idling PROVE InOrder
    OBVIOUS
  <2>2. delivered \in Seq(1..MaxChatter)
    BY <2>1, IdleTypeSplit DEF Idling, IdleDataOK
  <2>3. \A k, l \in 1..Len(delivered) : k < l => delivered[k] < delivered[l]
    BY <2>1, Zenon DEF Idling, InSequence, Sequenced
  <2>4. DOMAIN delivered = 1..Len(delivered)
    BY <2>2
  <2>5. QED
    BY <2>3, <2>4 DEF InOrder
<1>2. QED
  BY <1>1, IdlingHolds, PTL
-----------------------------------------------------------------------------
(* A handle in ordinary use: the client and the server take turns, and     *)
(* DONE is the client's.                                                   *)

(* No write failed, ... *)
Written == "unsent" \notin trouble => wbuf = <<>> /\ ~rolledBack

(* ... and a response is only read in parts by a call that reads one.      *)
Unread == pc = "ready" \/ (phase = "init" /\ first) => ~pending

(* A handle that is there was made.                                        *)
Made == phase # "none" => made # 0

(* What a step that writes nothing leaves alone.                           *)
Untouched ==
    (up' <=> up) /\ (broken' <=> broken) /\ wbuf' = wbuf /\ (rolledBack' <=> rolledBack)

(* What the calls of the handle have in common.                            *)
LEMMA CallsKeep ==
  /\ ReadLine \/ ReadEof => Untouched
  /\ RunCommand => /\ (up' <=> up) /\ (rolledBack' <=> rolledBack)
                    /\ wbuf' = <<>> /\ (broken' <=> broken \/ rolledBack)
  /\ ServeIdle => Untouched /\ UNCHANGED <<pc, pending>>
  /\ Announce \/ SendNotice \/ Leave
        => /\ (broken' <=> broken) /\ wbuf' = wbuf /\ (rolledBack' <=> rolledBack) /\ (up' => up)
           /\ UNCHANGED <<pc, pending>>
<1>1. ReadLine \/ ReadEof => Untouched
  BY DEF ReadLine, ReadEof, wire, history, Untouched
<1>2. RunCommand => /\ (up' <=> up) /\ (rolledBack' <=> rolledBack)
                    /\ wbuf' = <<>> /\ (broken' <=> broken \/ rolledBack)
  <2>1. TagReused => (broken' <=> broken \/ rolledBack)
    BY DEF TagReused
  <2>2. RunCommand => TagReused /\ wbuf' = <<>> /\ (up' <=> up) /\ (rolledBack' <=> rolledBack)
    BY DEF RunCommand, Send
  <2>3. QED
    BY <2>1, <2>2, Zenon
<1>3. ServerTakes => UNCHANGED ClientSide
  BY Zenon DEF ServerTakes
<1>4. ServeIdle => Untouched /\ UNCHANGED <<pc, pending>>
  BY <1>3, IdleServes, Zenon DEF ClientSide, client, Untouched
<1>5. Announce \/ SendNotice \/ Leave
        => /\ (broken' <=> broken) /\ wbuf' = wbuf /\ (rolledBack' <=> rolledBack) /\ (up' => up)
           /\ UNCHANGED <<pc, pending>>
  BY DEF Announce, SendNotice, Leave, HangUp, history, client
<1>6. QED
  BY <1>1, <1>2, <1>4, <1>5, Zenon

(* What is out of the ordinary remains so.                                 *)
LEMMA TroubleStays ==
  ASSUME DataOK, [IdleNext]_idleVars
  PROVE  /\ trouble \subseteq trouble' /\ (broken => broken') /\ (up' => up)
         /\ made' = made \/ (Make /\ made' = made + 1)
<1>1. CASE Make
  BY <1>1, Zenon DEF Make, vars, history, wire
<1>2. CASE WaitWhile \/ Reinit
  <2>1. RunCommand /\ UNCHANGED made /\ trouble \subseteq trouble'
    BY <1>2, Zenon DEF WaitWhile, Reinit, SendIdle, RunTwoPart
  <2>2. QED
    BY <2>1, CallsKeep, Zenon DEF Untouched
<1>3. CASE WaitUnsent
  BY <1>3, Zenon DEF WaitUnsent, FailTwoPart, RunCommandFails, TagReused, handle
<1>4. CASE InitPlus
  BY <1>4, Zenon DEF InitPlus, history, record
<1>5. CASE InitOther \/ InitRest \/ RefreshRead
  <2>1. ReadLine /\ UNCHANGED made /\ trouble \subseteq trouble'
    BY <1>5, Zenon DEF InitOther, InitRest, RefreshRead, record
  <2>2. QED
    BY <2>1, CallsKeep, Zenon DEF Untouched
<1>6. CASE ReplyTimesOut
  BY <1>6, Zenon DEF ReplyTimesOut, ReadFails, DropInput
<1>7. CASE WaitLine
  BY <1>7, Zenon DEF WaitLine, history
<1>8. CASE WaitTimesOut
  BY <1>8, Zenon DEF WaitTimesOut, DropInput, record
<1>9. CASE Refresh
  BY <1>9, Zenon DEF Refresh, DropInput
<1>10. CASE RenewalUnsent
  BY <1>10, Zenon DEF RenewalUnsent, DropInput, FailTwoPart, RunCommandFails, TagReused
<1>11. CASE WaitEof
  BY <1>11, Zenon DEF WaitEof, ReadEof, history, wire, record
<1>12. CASE DropQuietly
  BY <1>12, Zenon DEF DropQuietly, vars, history, wire, record
<1>13. CASE DropDone
  BY <1>13, Zenon DEF DropDone, TagReused
<1>14. CASE DropUnsent
  BY <1>14, Zenon DEF DropUnsent
<1>15. CASE DropRead
  <2>1. (ReadLine \/ ReadEof) /\ UNCHANGED <<made, trouble>>
    BY <1>15, Zenon DEF DropRead, record
  <2>2. QED
    BY <2>1, CallsKeep, Zenon DEF Untouched
<1>16. CASE OtherCommand
  <2>1. (RunCommand \/ ReadLine \/ ReadEof) /\ UNCHANGED <<made, trouble>>
    BY <1>16, Zenon DEF OtherCommand, RunOnePart, handle, record
  <2>2. QED
    BY <2>1, CallsKeep, Zenon DEF Untouched
<1>17. CASE IdleServer
  <2>1. UNCHANGED made /\ trouble \subseteq trouble'
    BY <1>17, Zenon DEF IdleServer, handle, record
  <2>2. ServeIdle \/ Announce \/ SendNotice \/ Leave
    BY <1>17, Zenon DEF IdleServer
  <2>3. QED
    BY <2>1, <2>2, CallsKeep, Zenon DEF Untouched
<1>18. CASE UNCHANGED idleVars
  BY <1>18, Zenon DEF idleVars, vars, history, wire, handle, record
<1>19. QED
  BY <1>1, <1>2, <1>3, <1>4, <1>5, <1>6, <1>7, <1>8, <1>9, <1>10, <1>11, <1>12, <1>13, <1>14,
     <1>15, <1>16, <1>17, <1>18, Zenon
  DEF IdleNext, Handle

(* What is written goes out at once.                                       *)
LEMMA WrittenStep ==
  ASSUME DataOK, Written, [IdleNext]_idleVars
  PROVE  Written'
<1>0. SUFFICES ASSUME "unsent" \notin trouble' PROVE wbuf' = <<>> /\ ~rolledBack'
  BY Zenon DEF Written
<1>0a. "unsent" \notin trouble /\ wbuf = <<>> /\ ~rolledBack
  BY <1>0, TroubleStays, Zenon DEF Written
<1>1. CASE Make
  BY <1>0a, <1>1, Zenon DEF Make, vars, history, client
<1>2. CASE WaitWhile \/ Reinit
  <2>1. RunCommand
    BY <1>2, Zenon DEF WaitWhile, Reinit, SendIdle, RunTwoPart
  <2>2. QED
    BY <1>0a, <2>1, CallsKeep, Zenon DEF Untouched
<1>3. CASE WaitUnsent \/ RenewalUnsent \/ DropUnsent
  BY <1>0, <1>3, Zenon DEF WaitUnsent, RenewalUnsent, DropUnsent
<1>4. CASE InitPlus
  BY <1>0a, <1>4, Zenon DEF InitPlus, history
<1>5. CASE InitOther \/ InitRest \/ RefreshRead
  <2>1. ReadLine
    BY <1>5, Zenon DEF InitOther, InitRest, RefreshRead
  <2>2. QED
    BY <1>0a, <2>1, CallsKeep, Zenon DEF Untouched
<1>6. CASE ReplyTimesOut
  BY <1>0a, <1>6, Zenon DEF ReplyTimesOut, ReadFails
<1>7. CASE WaitLine
  BY <1>0a, <1>7, Zenon DEF WaitLine, history
<1>8. CASE WaitTimesOut
  BY <1>0a, <1>8, Zenon DEF WaitTimesOut
<1>9. CASE Refresh
  BY <1>0a, <1>9, Zenon DEF Refresh, SendDone, Send
<1>10. CASE WaitEof
  BY <1>0a, <1>10, Zenon DEF WaitEof, ReadEof, history
<1>11. CASE DropQuietly
  BY <1>0a, <1>11, Zenon DEF DropQuietly, vars, history, client
<1>12. CASE DropDone
  BY <1>0a, <1>12, Zenon DEF DropDone, SendDone, Send
<1>13. CASE DropRead
  <2>1. ReadLine \/ ReadEof
    BY <1>13, Zenon DEF DropRead
  <2>2. QED
    BY <1>0a, <2>1, CallsKeep, Zenon DEF Untouched
<1>14. CASE OtherCommand
  <2>1. RunCommand \/ ReadLine \/ ReadEof
    BY <1>14, Zenon DEF OtherCommand, RunOnePart
  <2>2. QED
    BY <1>0a, <2>1, CallsKeep, Zenon DEF Untouched
<1>15. CASE IdleServer
  <2>1. ServeIdle \/ Announce \/ SendNotice \/ Leave
    BY <1>15, Zenon DEF IdleServer
  <2>2. QED
    BY <1>0a, <2>1, CallsKeep, Zenon DEF Untouched
<1>16. CASE UNCHANGED idleVars
  BY <1>0a, <1>16, Zenon DEF idleVars, vars, history, client
<1>17. QED
  BY <1>1, <1>2, <1>3, <1>4, <1>5, <1>6, <1>7, <1>8, <1>9, <1>10, <1>11, <1>12,
     <1>13, <1>14, <1>15, <1>16, Zenon
  DEF IdleNext, Handle

(* A call that returns has no part of a response left, nor has one that    *)
(* has read nothing.                                                       *)
LEMMA UnreadStep ==
  ASSUME DataOK, Placed, Unread, [IdleNext]_idleVars
  PROVE  Unread'
<1>0. "ready" # "reading" /\ "init" # "wait" /\ "init" # "held" /\ "init" # "refresh" /\ "init" # "none"
      /\ "init" # "drop" /\ pc \in {"ready", "reading"}
  BY DEF DataOK
<1>1. ASSUME ~pending' PROVE Unread'
  BY <1>1 DEF Unread
<1>2. ASSUME UNCHANGED <<pc, pending>>, ~(phase' = "init" /\ first') PROVE Unread'
  BY <1>2, Zenon DEF Unread
<1>3. ASSUME UNCHANGED <<pc, pending, phase, first>> PROVE Unread'
  BY <1>3, Zenon DEF Unread
<1>4. ASSUME ReadLine, ~(phase' = "init" /\ first') PROVE Unread'
  <2>1. pc' = "reading" \/ ~pending'
    BY <1>4 DEF ReadLine, OnLine, Return
  <2>2. QED
    BY <1>0, <1>4, <2>1, Zenon DEF Unread
<1>5. ASSUME RunCommand \/ ReadEof \/ ReadFails \/ RunCommandFails PROVE Unread'
  <2>1. ~pending'
    BY <1>5 DEF RunCommand, ReadEof, ReadFails, RunCommandFails, Return
  <2>2. QED
    BY <1>1, <2>1
<1>6. CASE Make \/ DropQuietly
  <2>1. UNCHANGED <<pc, pending>> /\ ~(phase' = "init" /\ first')
    BY <1>6 DEF Make, DropQuietly, vars, client
  <2>2. QED
    BY <1>2, <2>1
<1>7. CASE WaitWhile \/ Reinit \/ WaitUnsent
  BY <1>5, <1>7, Zenon DEF WaitWhile, Reinit, SendIdle, RunTwoPart, WaitUnsent, FailTwoPart
<1>8. CASE InitPlus
  <2>1. phase = "init" /\ first /\ UNCHANGED pending
    BY <1>8, Zenon DEF InitPlus
  <2>2. QED
    BY <1>1, <2>1, Zenon DEF Unread
<1>9. CASE InitOther \/ InitRest
  <2>1. ReadLine /\ ~first'
    <3>1. CASE InitOther
      BY <3>1 DEF InitOther
    <3>2. CASE InitRest
      BY <3>2 DEF InitRest
    <3>3. QED
      BY <1>9, <3>1, <3>2
  <2>2. QED
    BY <1>4, <2>1
<1>10. CASE ReplyTimesOut \/ WaitEof
  BY <1>5, <1>10, Zenon DEF ReplyTimesOut, WaitEof
<1>11. CASE WaitLine
  <2>1. ~pending' \/ (pc' = pc /\ phase' = phase)
    BY <1>11, Zenon DEF WaitLine
  <2>2. phase = "wait" /\ pc = "reading"
    BY <1>11 DEF WaitLine, Placed
  <2>3. QED
    BY <2>1, <2>2 DEF Unread
<1>12. CASE WaitTimesOut \/ Refresh
  BY <1>1, <1>12, Zenon DEF WaitTimesOut, Refresh
<1>13. CASE RenewalUnsent
  <2>1. Return("io", 0) \/ RunCommandFails
    BY <1>13, Zenon DEF RenewalUnsent, FailTwoPart
  <2>2. QED
    BY <1>1, <1>5, <2>1 DEF Return
<1>14. CASE RefreshRead
  <2>1. ReadLine /\ phase' \in {"held", phase} /\ phase = "refresh"
    BY <1>14, Zenon DEF RefreshRead, EndWait
  <2>2. QED
    BY <1>0, <1>4, <2>1
<1>15. CASE DropDone \/ DropUnsent
  <2>1. CASE DropDone
    BY <2>1 DEF DropDone, SendDone, Unread
  <2>2. CASE DropUnsent
    BY <1>2, <2>2 DEF DropUnsent
  <2>3. QED
    BY <1>15, <2>1, <2>2
<1>16. CASE DropRead
  <2>1. (ReadLine \/ ReadEof) /\ phase' \in {"drop", "none"}
    BY <1>16, Zenon DEF DropRead
  <2>2. QED
    BY <1>0, <1>4, <1>5, <2>1
<1>17. CASE OtherCommand
  <2>1. (RunCommand \/ ReadLine \/ ReadEof) /\ phase = "none" /\ phase' = phase
    BY <1>17, Zenon DEF OtherCommand, RunOnePart, handle
  <2>2. QED
    BY <1>0, <1>4, <1>5, <2>1
<1>18. CASE IdleServer
  <2>1. UNCHANGED handle
    BY <1>18, Zenon DEF IdleServer
  <2>2. UNCHANGED <<pc, pending>>
    <3>1. ServeIdle \/ Announce \/ SendNotice \/ Leave
      BY <1>18, Zenon DEF IdleServer
    <3>2. QED
      BY <3>1, CallsKeep
  <2>3. QED
    BY <1>3, <2>1, <2>2, Zenon DEF handle
<1>19. CASE UNCHANGED idleVars
  BY <1>3, <1>19, Zenon DEF idleVars, vars, client, handle
<1>20. QED
  BY <1>6, <1>7, <1>8, <1>9, <1>10, <1>11, <1>12, <1>13, <1>14,
     <1>15, <1>16, <1>17, <1>18, <1>19, Zenon
  DEF IdleNext, Handle

(* The line that is read next.                                             *)
LEMMA FirstInRange ==
  ASSUME DataOK, toClient # <<>>
  PROVE  /\ Head(toClient) = toClient[1] /\ toClient[1] \in Line
         /\ toClient[1] \in Range(toClient) /\ 1 \in 1..Len(toClient)
<1>1. toClient \in Seq(Line)
  BY DEF DataOK
<1>2. Head(toClient) = toClient[1] /\ toClient[1] \in Line /\ 1 \in 1..Len(toClient)
  BY <1>1
<1>3. QED
  BY <1>1, <1>2, RangeEquality

(* The handles there are were made.                                        *)
LEMMA MadeStep ==
  ASSUME DataOK, IdleDataOK, Made, [IdleNext]_idleVars
  PROVE  Made'
<1>1. CASE Make
  BY <1>1, IdleAssumption DEF Make, Made, IdleDataOK
<1>2. ASSUME ~Make PROVE UNCHANGED made
  BY <1>2, TroubleStays
<1>3. CASE phase = "none" /\ ~Make
  <2>1. OtherCommand \/ IdleServer \/ UNCHANGED idleVars
    BY <1>3, Zenon DEF IdleNext, Handle, WaitWhile, WaitUnsent, InitPlus, InitOther, InitRest,
       ReplyTimesOut, WaitLine, WaitTimesOut, Refresh, RenewalUnsent, RefreshRead, Reinit, WaitEof,
       DropQuietly, DropDone, DropUnsent, DropRead
  <2>2. UNCHANGED phase
    BY <2>1, Zenon DEF OtherCommand, IdleServer, idleVars, handle
  <2>3. QED
    BY <1>3, <2>2 DEF Made
<1>4. QED
  BY <1>1, <1>2, <1>3 DEF Made

(* As long as no response is cut, literals arrive whole: the client stops  *)
(* between responses, ...                                                  *)
LEMMA DropsWhole ==
  ASSUME DataOK, Blocks, DropInput, ~broken', ~pending'
  PROVE  Blocks'
<1>1. UNCHANGED toClient /\ ~pending
  BY Zenon DEF DropInput
<1>2. QED
  BY <1>1 DEF Blocks

(* ... reads what it reads to the end, ...                                 *)
LEMMA WaitsWhole ==
  ASSUME DataOK, Blocks, WaitLine
  PROVE  Blocks'
<1> DEFINE line == toClient[1]
           parsed == ParseResponse(pending, line)
<1>1. toClient # <<>> /\ toClient' = Tail(toClient) /\ Head(toClient) = line
  BY DEF WaitLine, DataOK
<1>2. (parsed = "incomplete" <=> Opens(line)) /\ parsed \in {"data", "incomplete", "done"}
  BY <1>1, ParseInBlocks
<1>3. \/ pending' = (parsed = "incomplete")
      \/ ~pending' /\ parsed \in {"data", "done", "invalid"}
  BY <1>1 DEF WaitLine
<1>4. pending' <=> Opens(line)
  BY <1>2, <1>3
<1>5. QED
  BY <1>1, <1>4, BlocksTaken

(* ... and the server writes them so.                                      *)
LEMMA ServedWhole ==
  ASSUME DataOK, ServerTypeOK, Blocks, IdleServer
  PROVE  Blocks'
<1>1. CASE ServeIdle
  <2>1. ServerTakes /\ UNCHANGED pending /\ request \in Command
    BY <1>1, IdleServes, CallsKeep DEF ServerTypeOK
  <2>2. ASSUME NEW line \in Remarks PROVE line \in Line /\ line.kind \in {"plus", "data", "done"} /\ ~line.lit
    <3>1. line \in Line /\ ~line.lit
      BY RemarksAreLines
    <3>2. line.kind \in {"plus", "data", "done"}
      <4>1. /\ Plain("plus").kind = "plus" /\ [Plain("plus") EXCEPT !.status = "bad"].kind = "plus"
            /\ StrayBad.kind = "data" /\ DoneLine(0, "bad", 0).kind = "done"
        BY DEF Plain, StrayBad, DoneLine
      <4>2. QED
        BY <4>1 DEF Remarks
    <3>3. QED
      BY <3>1, <3>2
  <2>3. ASSUME NEW c \in Command, NEW s \in Statuses
        PROVE  /\ DoneLine(c.tag, s, c.id) \in Line
               /\ DoneLine(c.tag, s, c.id).kind = "done" /\ ~DoneLine(c.tag, s, c.id).lit
    BY AnswersAreLines DEF DoneLine
  <2>4. \/ UNCHANGED toClient
        \/ \E line \in Line : /\ toClient' = Append(toClient, line)
                              /\ line.kind \in {"plus", "data", "done"} /\ ~line.lit
    BY <2>1, <2>2, <2>3, TakesSends
  <2>5. CASE UNCHANGED toClient
    BY <2>1, <2>5 DEF Blocks
  <2>6. CASE ~UNCHANGED toClient
    <3>1. PICK line \in Line : /\ toClient' = Append(toClient, line)
                               /\ line.kind \in {"plus", "data", "done"} /\ ~line.lit
      BY <2>4, <2>6
    <3>2. ~Continues(line) /\ ~Opens(line) /\ line.kind # "junk"
      BY <3>1 DEF Continues, Opens
    <3>3. QED
      BY <2>1, <3>1, <3>2, BlocksAdded
  <2>7. QED
    BY <2>5, <2>6
<1>2. CASE SendNotice
  <2>1. Notice \in Line /\ ~Continues(Notice) /\ ~Opens(Notice) /\ Notice.kind # "junk"
    BY DEF Notice, Plain, Line, LineKinds, Statuses, Continues, Opens
  <2>2. toClient' = Append(toClient, Notice) /\ UNCHANGED pending
    BY <1>2, CallsKeep DEF SendNotice, Sends
  <2>3. QED
    BY <2>1, <2>2, BlocksAdded
<1>3. CASE Announce \/ Leave
  <2>1. UNCHANGED pending
    BY <1>3, CallsKeep
  <2>2. QED
    BY <1>3, <2>1, BlocksTold
<1>4. QED
  BY <1>1, <1>2, <1>3, Zenon DEF IdleServer

(* In each step.                                                           *)
LEMMA WholeStep ==
  ASSUME DataOK, ServerTypeOK, Unread, ~broken => Blocks, HeardAsAnswered, [IdleNext]_idleVars
  PROVE  ~broken' => Blocks'
<1>0. SUFFICES ASSUME ~broken', Blocks PROVE Blocks'
  BY TroubleStays, Zenon
<1>1. ASSUME UNCHANGED toClient, pending' <=> pending PROVE Blocks'
  BY <1>0, <1>1 DEF Blocks
<1>2. ASSUME ReadLine PROVE Blocks'
  <2>1. toClient # <<>> /\ toClient' = Tail(toClient) /\ (pending' <=> Opens(toClient[1]))
    BY <1>0, <1>2, ReadInBlocks DEF ReadLine
  <2>2. QED
    BY <1>0, <2>1, BlocksTaken
<1>3. ASSUME RunCommand \/ RunCommandFails PROVE Blocks'
  <2>1. ~pending /\ ~pending' /\ UNCHANGED toClient
    BY <1>3 DEF RunCommand, RunCommandFails, CanIssue, Return, Unread
  <2>2. QED
    BY <1>1, <2>1
<1>4. ASSUME ReadEof PROVE Blocks'
  <2>1. toClient = <<>> /\ UNCHANGED toClient /\ ~pending'
    BY <1>4 DEF ReadEof, Return, wire
  <2>2. ~pending
    BY <1>0, <2>1 DEF Blocks
  <2>3. QED
    BY <1>1, <2>1, <2>2
<1>5. CASE Make \/ DropQuietly
  <2>1. UNCHANGED <<toClient, pending>>
    BY <1>5 DEF Make, DropQuietly, vars, client, wire
  <2>2. QED
    BY <1>1, <2>1
<1>6. CASE WaitWhile \/ Reinit \/ WaitUnsent
  BY <1>3, <1>6, Zenon DEF WaitWhile, Reinit, SendIdle, RunTwoPart, WaitUnsent, FailTwoPart
<1>7. CASE InitPlus
  <2>1. toClient # <<>> /\ toClient' = Tail(toClient) /\ Head(toClient).kind = "plus"
        /\ UNCHANGED pending
    BY <1>7, Zenon DEF InitPlus
  <2>2. Head(toClient) = toClient[1] /\ toClient[1] \in Range(toClient)
    BY <2>1, FirstInRange DEF DataOK
  <2>3. ~Opens(toClient[1]) /\ ~pending
    <3>1. ~toClient[1].lit
      BY <2>2 DEF HeardAsAnswered
    <3>2. ~pending
      BY <1>0, <2>1, <2>2, <3>1 DEF Blocks, Continues
    <3>3. QED
      BY <2>1, <2>2, <3>1, <3>2 DEF Opens
  <2>4. QED
    BY <1>0, <2>1, <2>3, BlocksTaken
<1>8. CASE InitOther \/ InitRest \/ RefreshRead
  BY <1>2, <1>8, Zenon DEF InitOther, InitRest, RefreshRead
<1>9. CASE ReplyTimesOut \/ WaitTimesOut \/ Refresh
  <2>1. DropInput /\ ~pending'
    BY <1>9 DEF ReplyTimesOut, ReadFails, Return, WaitTimesOut, Refresh
  <2>2. QED
    BY <1>0, <2>1, DropsWhole
<1>10. CASE WaitLine
  BY <1>0, <1>10, WaitsWhole
<1>11. CASE RenewalUnsent
  <2>1. (DropInput /\ ~pending') \/ RunCommandFails
    BY <1>11 DEF RenewalUnsent, Return, FailTwoPart
  <2>2. QED
    BY <1>0, <1>3, <2>1, DropsWhole
<1>12. CASE WaitEof
  BY <1>4, <1>12, Zenon DEF WaitEof
<1>13. CASE DropDone \/ DropUnsent
  <2>1. UNCHANGED <<toClient, pending>>
    BY <1>13, Zenon DEF DropDone, DropUnsent
  <2>2. QED
    BY <1>1, <2>1
<1>14. CASE DropRead
  BY <1>2, <1>4, <1>14, Zenon DEF DropRead
<1>15. CASE OtherCommand
  BY <1>2, <1>3, <1>4, <1>15, Zenon DEF OtherCommand, RunOnePart
<1>16. CASE IdleServer
  BY <1>0, <1>16, ServedWhole
<1>17. CASE UNCHANGED idleVars
  <2>1. UNCHANGED <<toClient, pending>>
    BY <1>17 DEF idleVars, vars, client, wire
  <2>2. QED
    BY <1>1, <2>1
<1>18. QED
  BY <1>5, <1>6, <1>7, <1>8, <1>9, <1>10, <1>11, <1>12, <1>13, <1>14,
     <1>15, <1>16, <1>17, Zenon
  DEF IdleNext, Handle

-----------------------------------------------------------------------------
(* Where a dialogue may be: the server waits for a command, was sent one,  *)
Free == mode = "command" /\ toServer = <<>> /\ NoReply(toClient)

Requested == tag # 0 /\ mode = "command" /\ toServer = <<Own>> /\ NoReply(toClient)

(* has said "+" to an IDLE, idles after the client has read it, was sent   *)
(* DONE                                                                    *)
Invited ==
    mode = "continuing" /\ request = Own /\ toServer = <<>> /\ OnlyReply(toClient, Plain("plus"))

Idles == mode = "continuing" /\ request = Own /\ toServer = <<>> /\ NoReply(toClient)

Ending == mode = "continuing" /\ request = Own /\ toServer = <<DONE>> /\ NoReply(toClient)

(* or has answered.                                                        *)
AnsweredWith(s) ==
    mode = "command" /\ toServer = <<>> /\ OnlyReply(toClient, DoneLine(tag, s, call))

(* If a call has given up on its reply there is still one DONE at most,    *)
(* and a server that idles reads it.                                       *)
Loose ==
    /\ \A k \in 2..Len(toServer) : ~IsText(toServer[k])
    /\ toServer # <<>> /\ IsText(toServer[1]) => mode = "continuing"

(* The replies there may be.                                               *)
LEMMA RepliesAreLines ==
  ASSUME DataOK, NEW s \in Statuses
  PROVE  /\ Plain("plus") \in Line /\ DoneLine(tag, s, call) \in Line
         /\ IsReply(Plain("plus")) /\ IsReply(DoneLine(tag, s, call))
BY Bounds DEF DataOK, Plain, DoneLine, Line, LineKinds, Statuses, IsReply, IsTagged

(* Nothing is said but updates.                                            *)
LEMMA ShapesKept ==
  ASSUME DataOK, UNCHANGED <<tag, call, toServer, mode, request>>,
         NoReply(toClient) => NoReply(toClient'),
         \A line \in Line : OnlyReply(toClient, line) => OnlyReply(toClient', line)
  PROVE  /\ Free => Free'
         /\ Requested => Requested'
         /\ Invited => Invited'
         /\ Idles => Idles'
         /\ Ending => Ending'
         /\ \A s \in Statuses : AnsweredWith(s) => AnsweredWith(s)'
<1>1. Own' = Own /\ \A s \in Statuses : DoneLine(tag, s, call)' = DoneLine(tag, s, call)
  BY DEF Own, DoneLine
<1>2. /\ Plain("plus") \in Line
      /\ \A s \in Statuses : DoneLine(tag, s, call) \in Line
  BY RepliesAreLines DEF Statuses
<1>3. ASSUME Invited PROVE Invited'
  BY <1>1, <1>2, <1>3 DEF Invited
<1>4. ASSUME NEW s \in Statuses, AnsweredWith(s) PROVE AnsweredWith(s)'
  BY <1>1, <1>2, <1>4 DEF AnsweredWith
<1>5. (Free => Free') /\ (Requested => Requested') /\ (Idles => Idles') /\ (Ending => Ending')
  BY <1>1 DEF Free, Requested, Idles, Ending, DONE, Text
<1>6. QED
  BY <1>3, <1>4, <1>5

(* A line is read.                                                         *)
LEMMA ShapesRead ==
  ASSUME DataOK, toClient # <<>>, toClient' = Tail(toClient),
         UNCHANGED <<tag, call, toServer, mode, request>>
  PROVE  /\ Free => Free' /\ ~IsReply(toClient[1])
         /\ Requested => Requested' /\ ~IsReply(toClient[1])
         /\ Idles => Idles' /\ ~IsReply(toClient[1])
         /\ Ending => Ending' /\ ~IsReply(toClient[1])
         /\ Invited => IF IsReply(toClient[1]) THEN toClient[1] = Plain("plus") /\ Idles' ELSE Invited'
         /\ \A s \in Statuses :
               AnsweredWith(s) => IF IsReply(toClient[1])
                                  THEN toClient[1] = DoneLine(tag, s, call) /\ Free'
                                  ELSE AnsweredWith(s)'
<1>1. Own' = Own /\ \A s \in Statuses : DoneLine(tag, s, call)' = DoneLine(tag, s, call)
  BY DEF Own, DoneLine
<1>2. /\ Plain("plus") \in Line
      /\ \A s \in Statuses : DoneLine(tag, s, call) \in Line
  BY RepliesAreLines DEF Statuses
<1>3. /\ NoReply(toClient) => NoReply(toClient') /\ ~IsReply(toClient[1])
      /\ \A line \in Line : OnlyReply(toClient, line) =>
            IF IsReply(toClient[1]) THEN toClient[1] = line /\ NoReply(toClient')
                                    ELSE OnlyReply(toClient', line)
  BY RepliesTail DEF DataOK
<1>4. ASSUME Invited
      PROVE  IF IsReply(toClient[1]) THEN toClient[1] = Plain("plus") /\ Idles' ELSE Invited'
  BY <1>1, <1>2, <1>3, <1>4 DEF Invited, Idles
<1>5. ASSUME NEW s \in Statuses, AnsweredWith(s)
      PROVE  IF IsReply(toClient[1]) THEN toClient[1] = DoneLine(tag, s, call) /\ Free'
                                     ELSE AnsweredWith(s)'
  BY <1>1, <1>2, <1>3, <1>5 DEF AnsweredWith, Free
<1>6. /\ Free => Free' /\ ~IsReply(toClient[1])
      /\ Requested => Requested' /\ ~IsReply(toClient[1])
      /\ Idles => Idles' /\ ~IsReply(toClient[1])
      /\ Ending => Ending' /\ ~IsReply(toClient[1])
  BY <1>1, <1>3 DEF Free, Requested, Idles, Ending, DONE, Text
<1>7. QED
  BY <1>4, <1>5, <1>6

(* A line that is cut is no reply.                                         *)
LEMMA CutIsNoReply ==
  ASSUME DataOK, DropInput, NoReply(toClient)
  PROVE  NoReply(toClient')
<1>1. CASE UNCHANGED toClient
  BY <1>1
<1>2. CASE ~UNCHANGED toClient
  <2>1. toClient # <<>> /\ \E rest \in Rests(toClient[1]) : toClient' = <<rest>> \o Tail(toClient)
    BY <1>2, FirstInRange, Zenon DEF DropInput
  <2>2. PICK rest \in Rests(toClient[1]) : toClient' = <<rest>> \o Tail(toClient)
    BY <2>1
  <2>3. toClient[1] \in Line /\ 1 \in 1..Len(toClient) /\ ~IsReply(toClient[1])
    BY <2>1, FirstInRange DEF NoReply
  <2>4. rest \in Line /\ ~IsReply(rest)
    BY <2>3 DEF Rests, Line, LineKinds, IsReply, IsTagged
  <2>5. /\ Len(toClient') = Len(toClient) /\ toClient'[1] = rest
        /\ \A i \in 2..Len(toClient) : toClient'[i] = toClient[i]
    BY <2>1, <2>2, <2>4, LineCut
  <2>6. ASSUME NEW i \in 1..Len(toClient) PROVE ~IsReply(toClient'[i])
    <3>1. i = 1 \/ i \in 2..Len(toClient)
      BY DEF DataOK
    <3>2. QED
      BY <2>4, <2>5, <3>1 DEF NoReply
  <2>7. QED
    BY <2>5, <2>6 DEF NoReply
<1>3. QED
  BY <1>1, <1>2

(* What the server was sent it answers in kind, ...                        *)
LEMMA ShapesServed ==
  ASSUME DataOK, ServerTypeOK, ServeIdle
  PROVE  /\ ~Free /\ ~Invited /\ ~Idles /\ \A s \in Statuses : ~AnsweredWith(s)
         /\ Requested /\ call \notin twoPart => \E s \in Statuses : AnsweredWith(s)'
         /\ Requested /\ call \in twoPart => Refuse \/ Invited'
         /\ Ending => AnsweredWith("ok")'
<1>0. Takes /\ UNCHANGED <<tag, call>> /\ toClient \in Seq(Line) /\ toServer \in Seq(Command)
  BY IdleServes, Zenon DEF ServerTakes, ClientSide, client, DataOK
<1>1. Own' = Own /\ \A s \in Statuses : DoneLine(tag, s, call)' = DoneLine(tag, s, call)
  BY <1>0 DEF Own, DoneLine
<1>2. ~Free /\ ~Invited /\ ~Idles /\ \A s \in Statuses : ~AnsweredWith(s)
  BY <1>0 DEF Takes, Free, Invited, Idles, AnsweredWith
<1>3. ASSUME NEW c \in Command, toServer = <<c>>
      PROVE  Received = c /\ toServer' = <<>>
  BY <1>0, <1>3 DEF Takes, Received
<1>4. ASSUME NEW s \in Statuses, NoReply(toClient), Answers(Own, s)
      PROVE  OnlyReply(toClient', DoneLine(tag, s, call)')
  <2>1. DoneLine(tag, s, call) \in Line /\ IsReply(DoneLine(tag, s, call))
    BY RepliesAreLines
  <2>2. toClient' = Append(toClient, DoneLine(tag, s, call))
    BY <1>4 DEF Answers, Sends, Own
  <2>3. QED
    BY <1>0, <1>1, <1>4, <2>1, <2>2, RepliesAppend
<1>5. tag # 0 => Own \in Command /\ ~IsText(Own) /\ Own.id = call
  BY Bounds DEF Own, Command, IsText, DataOK
<1>6. DONE \in Command /\ IsText(DONE)
  BY DEF DONE, Text, Command, IsText
<1>7. ASSUME Requested
      PROVE  /\ Received = Own /\ ~IsText(Received) /\ Received.id = call
             /\ toServer' = <<>> /\ NoReply(toClient) /\ mode = "command"
  BY <1>3, <1>5, <1>7 DEF Requested
<1>8. ASSUME Requested, call \notin twoPart PROVE \E s \in Statuses : AnsweredWith(s)'
  <2>1. ServeOnePart
    BY <1>7, <1>8 DEF ServeIdle, Serve, EndIdling, Invite, Refuse, RejectText
  <2>2. UNCHANGED mode /\ \E s \in {"ok", "no"} : Answers(Received, s)
    BY <2>1, Zenon DEF ServeOnePart, server
  <2>3. PICK s \in {"ok", "no"} : Answers(Own, s)
    BY <1>7, <1>8, <2>2
  <2>4. s \in Statuses
    BY DEF Statuses
  <2>5. OnlyReply(toClient', DoneLine(tag, s, call)')
    BY <1>4, <1>7, <1>8, <2>3, <2>4
  <2>6. AnsweredWith(s)'
    BY <1>7, <1>8, <2>2, <2>5 DEF AnsweredWith
  <2>7. QED
    BY <2>4, <2>6
<1>9. ASSUME Requested, call \in twoPart, ~Refuse PROVE Invited'
  <2>1. Invite
    BY <1>7, <1>9 DEF ServeIdle, Serve, EndIdling, ServeOnePart, RejectText
  <2>2. mode' = "continuing" /\ request' = Own' /\ toClient' = Append(toClient, Plain("plus"))
    BY <1>1, <1>7, <1>9, <2>1 DEF Invite, Sends
  <2>3. Plain("plus") \in Line /\ IsReply(Plain("plus"))
    BY DEF Plain, Line, LineKinds, Statuses, IsReply
  <2>4. OnlyReply(toClient', Plain("plus"))
    BY <1>0, <1>7, <1>9, <2>2, <2>3, RepliesAppend
  <2>5. QED
    BY <1>7, <1>9, <2>2, <2>4 DEF Invited
<1>10. ASSUME Ending PROVE AnsweredWith("ok")'
  <2>1. Received = DONE /\ toServer' = <<>> /\ NoReply(toClient)
        /\ mode = "continuing" /\ request = Own
    BY <1>3, <1>6, <1>10 DEF Ending
  <2>2. EndIdling
    BY <2>1 DEF ServeIdle, Serve, Invite, Refuse, ServeOnePart, RejectText
  <2>3. Answers(Own, "ok") /\ mode' = "command"
    BY <2>1, <2>2 DEF EndIdling
  <2>4. "ok" \in Statuses
    BY DEF Statuses
  <2>5. OnlyReply(toClient', DoneLine(tag, "ok", call)')
    BY <1>4, <2>1, <2>3, <2>4
  <2>6. QED
    BY <2>1, <2>3, <2>5 DEF AnsweredWith
<1>11. QED
  BY <1>2, <1>8, <1>9, <1>10

(* ... and what the client sends is there for it.                          *)
LEMMA ShapesSent ==
  ASSUME DataOK, wbuf = <<>>
  PROVE  /\ Free /\ RunCommand /\ UNCHANGED server => Requested'
         /\ /\ Idles /\ NoReply(toClient') /\ Send(DONE)
            /\ UNCHANGED <<tag, call, mode, request>>
            => Ending'
<1>1. \A c \in Command : <<>> \o Append(<<>>, c) = <<c>>
  OBVIOUS
<1>2. tag \in Nat /\ call \in Nat
  BY Bounds DEF DataOK
<1>3. ASSUME Free, RunCommand, UNCHANGED server PROVE Requested'
  <2>1. NewCommand \in Command /\ tag' = tag + 1 /\ call' = call + 1 /\ NewCommand = Own'
    BY <1>2, <1>3 DEF RunCommand, NewCommand, NextTag, Command, Own
  <2>2. toServer' = <<Own'>> /\ UNCHANGED <<toClient, mode>>
    BY <1>1, <1>3, <2>1 DEF RunCommand, Send, Free, server
  <2>3. tag' # 0
    BY <1>2, <2>1
  <2>4. QED
    BY <1>3, <2>2, <2>3 DEF Free, Requested
<1>4. ASSUME Idles, NoReply(toClient'), Send(DONE), UNCHANGED <<tag, call, mode, request>>
      PROVE  Ending'
  <2>1. DONE \in Command /\ Own' = Own /\ DONE' = DONE
    BY <1>4 DEF DONE, Text, Command, Own
  <2>2. toServer' = <<DONE>>
    BY <1>1, <1>4, <2>1 DEF Send, Idles
  <2>3. QED
    BY <1>4, <2>1, <2>2 DEF Idles, Ending
<1>5. QED
  BY <1>3, <1>4

(* Wherever a call gives up, it leaves a DONE at most.                     *)
LEMMA LooseFrom ==
  DataOK /\ (Free \/ Requested \/ Invited \/ Idles \/ Ending \/ (\E s \in Statuses : AnsweredWith(s)))
    => Loose
<1> SUFFICES ASSUME DataOK,
                    Free \/ Requested \/ Invited \/ Idles \/ Ending
                       \/ (\E s \in Statuses : AnsweredWith(s))
             PROVE  Loose
  OBVIOUS
<1>1. CASE toServer = <<>>
  BY <1>1 DEF Loose
<1>2. CASE Requested
  <2>1. Own \in Command /\ ~IsText(Own)
    BY <1>2, Bounds DEF Requested, Own, IsText, Command, DataOK
  <2>2. Len(toServer) = 1 /\ toServer[1] = Own
    BY <1>2, <2>1 DEF Requested
  <2>3. QED
    BY <2>1, <2>2 DEF Loose
<1>3. CASE Ending
  <2>1. Len(toServer) = 1 /\ mode = "continuing"
    BY <1>3 DEF Ending, DONE, Text
  <2>2. QED
    BY <2>1 DEF Loose
<1>4. QED
  BY <1>1, <1>2, <1>3 DEF Free, Invited, Idles, AnsweredWith

(* It is left there by the commands that follow ...                        *)
LEMMA LooseIssued ==
  ASSUME DataOK, Loose, wbuf = <<>>, RunCommand, UNCHANGED mode
  PROVE  Loose'
<1>1. NewCommand \in Command /\ ~IsText(NewCommand)
  BY Bounds DEF NewCommand, NextTag, Command, IsText, DataOK
<1>2. toServer' = toServer \o <<NewCommand>>
  <2>1. Append(<<>>, NewCommand) = <<NewCommand>>
    BY <1>1
  <2>2. QED
    BY <2>1 DEF RunCommand, Send
<1>3. toServer \in Seq(Command) /\ <<NewCommand>> \in Seq(Command) /\ Len(<<NewCommand>>) = 1
      /\ <<NewCommand>>[1] = NewCommand /\ Len(toServer) \in Nat
  BY <1>1 DEF DataOK
<1>4. /\ Len(toServer') = Len(toServer) + 1
      /\ \A k \in 1..Len(toServer) : toServer'[k] = toServer[k]
      /\ toServer'[Len(toServer) + 1] = NewCommand
  BY <1>2, <1>3, ConcatProperties
<1>5. ASSUME NEW k \in 2..Len(toServer') PROVE ~IsText(toServer'[k])
  <2>1. k = Len(toServer) + 1 \/ k \in 2..Len(toServer)
    BY <1>3, <1>4
  <2>2. QED
    BY <1>1, <1>3, <1>4, <2>1 DEF Loose
<1>6. ASSUME IsText(toServer'[1]) PROVE mode' = "continuing"
  <2>1. toServer # <<>>
    BY <1>1, <1>3, <1>4, <1>6
  <2>2. 1 \in 1..Len(toServer)
    BY <1>3, <2>1
  <2>3. QED
    BY <1>4, <1>6, <2>1, <2>2 DEF Loose
<1>7. QED
  BY <1>5, <1>6 DEF Loose

(* ... until the server takes it.                                          *)
LEMMA LooseServed ==
  ASSUME DataOK, Loose, toServer # <<>>, toServer' = Tail(toServer)
  PROVE  Loose'
<1>1. /\ toServer \in Seq(Command) /\ Len(toServer) \in Nat
      /\ Len(toServer') = Len(toServer) - 1
      /\ \A k \in 1..Len(toServer') : toServer'[k] = toServer[k + 1] /\ k + 1 \in 2..Len(toServer)
      /\ toServer' # <<>> => 1 \in 1..Len(toServer')
  BY DEF DataOK
<1>2. \A k \in 1..Len(toServer') : ~IsText(toServer'[k])
  BY <1>1 DEF Loose
<1>3. \A k \in 2..Len(toServer') : k \in 1..Len(toServer')
  BY <1>1
<1>4. QED
  BY <1>1, <1>2, <1>3 DEF Loose

-----------------------------------------------------------------------------
(* Whose turn it is in each phase of a handle, as long as nothing but      *)
(* renewals and timeouts goes wrong.                                       *)
Quiet == up /\ trouble \subseteq {"refreshed", "slow"}

(* A response was cut, or a call gave up on its reply. *)
Astray == broken \/ "slow" \in trouble

InSession ==
    \/ Astray /\ Loose
    \/ ~Astray /\ Free
    \/ /\ ~Astray /\ pc = "reading" /\ call \notin twoPart
       /\ Requested \/ \E s \in Statuses : AnsweredWith(s)

InHand ==
    \/ ~waited /\ ~done /\ ~Astray /\ Free
    \/ waited /\ ~done /\ Idles
    \/ waited /\ done /\ Astray /\ Loose

InInit ==
    /\ first /\ waited
    /\ (call \in twoPart /\ Requested) \/ Invited
    /\ Astray \/ timed => done

InWait == waited /\ ~done /\ Idles

InRefresh ==
    /\ waited /\ done
    /\ Free \/ (pc = "reading" /\ (Ending \/ AnsweredWith("ok")))

InDrop ==
    /\ waited
    /\ (Astray /\ Loose) \/ (~Astray /\ (Free \/ Ending \/ AnsweredWith("ok")))

InTurn ==
    /\ phase = "none" => InSession
    /\ phase = "held" => InHand
    /\ phase = "init" => InInit
    /\ phase = "wait" => InWait
    /\ phase = "refresh" => InRefresh
    /\ phase = "drop" => InDrop
    /\ "slow" \in trouble => phase = "none" \/ (phase = "held" /\ done)

(* What such a step may rely on.                                           *)
Neat == Written /\ Unread /\ Made /\ (~broken => Blocks)

(* It gives the facts below, and none went wrong before it either.         *)
LEMMA QuietIs ==
  ASSUME Idling, Neat, Quiet', [IdleNext]_idleVars
  PROVE  /\ DataOK /\ ServerTypeOK /\ HeardAsAnswered /\ Placed /\ TimeoutIsTaken
         /\ call + 1 \notin twoPart
         /\ wbuf = <<>> /\ ~rolledBack /\ (~broken => Blocks) /\ Unread
         /\ up /\ up' /\ Quiet
         /\ \A t \in {"refused", "early", "again", "unused", "stopped", "unsent"} : t \notin trouble'
<1>1. DataOK /\ ServerTypeOK /\ HeardAsAnswered /\ Placed /\ TimeoutIsTaken /\ Numbers
  BY IdleTypeSplit, Zenon DEF Idling, Matched
<1>2. call + 1 \notin twoPart
  BY <1>1, Bounds DEF Numbers, DataOK
<1>3. /\ trouble' \subseteq {"refreshed", "slow"} /\ up'
      /\ trouble \subseteq trouble' /\ (up' => up)
  BY <1>1, TroubleStays DEF Quiet
<1>4. \A t \in {"refused", "early", "again", "unused", "stopped", "unsent"} :
         t \notin trouble' /\ t \notin trouble
  BY <1>3
<1>5. wbuf = <<>> /\ ~rolledBack
  BY <1>4 DEF Neat, Written
<1>6. QED
  BY <1>1, <1>2, <1>3, <1>4, <1>5, Zenon DEF Neat, Quiet

(* What reading a line after a command comes to.                           *)
LEMMA HeadRead ==
  ASSUME DataOK, HeardAsAnswered, ReadLine
  PROVE  /\ toClient # <<>> /\ toClient' = Tail(toClient) /\ pc = "reading"
         /\ UNCHANGED <<tag, call, toServer, broken>>
         /\ pc' \in {"ready", "reading"}
         /\ ~IsReply(toClient[1]) /\ pc' = "ready" => ~Blocks /\ ret'.outcome = "bye"
         /\ \A s \in Statuses :
               toClient[1] = DoneLine(tag, s, call) /\ pc' = "ready" => ret'.outcome = Outcome(s)
<1> DEFINE line == toClient[1]
           parsed == ParseResponse(pending, line)
<1>1. /\ toClient # <<>> /\ toClient' = Tail(toClient) /\ pc = "reading"
      /\ UNCHANGED <<tag, call, toServer, broken>> /\ OnLine(Head(toClient))
  BY DEF ReadLine, history
<1>2. Head(toClient) = line /\ line \in Line /\ line \in Range(toClient)
  BY <1>1, FirstInRange
<1>3. ~line.lit
  BY <1>2 DEF HeardAsAnswered
<1>4. OnLine(line)
  BY <1>1, <1>2
<1>5. parsed = "done" => line.kind = "done"
  BY DEF ParseResponse
<1>6. Blocks => parsed # "invalid"
  BY <1>1, ParseInBlocks
<1>7. \/ UNCHANGED pc
      \/ parsed = "done" /\ pc' = "ready" /\ (TagMatches(line) => ret'.outcome = Outcome(line.status))
      \/ parsed = "invalid" /\ pc' = "ready" /\ ret'.outcome = "bye"
  BY <1>4 DEF OnLine, Return
<1> HIDE DEF line, parsed
<1>8. line.kind = "done" => IsReply(line)
  BY <1>3 DEF IsReply, IsTagged
<1>9. ~IsReply(line) /\ pc' = "ready" => ~Blocks /\ ret'.outcome = "bye"
  BY <1>1, <1>5, <1>6, <1>7, <1>8
<1>10. ASSUME NEW s \in Statuses, line = DoneLine(tag, s, call), pc' = "ready"
       PROVE  ret'.outcome = Outcome(s)
  <2>1. line.kind = "done" /\ TagMatches(line) /\ line.status = s
    BY <1>10 DEF DoneLine, TagMatches
  <2>2. parsed # "invalid"
    BY <2>1 DEF parsed, ParseResponse
  <2>3. QED
    BY <1>1, <1>7, <1>10, <2>1, <2>2
<1>11. QED
  BY <1>1, <1>7, <1>9, <1>10 DEF line

(* A step that reads and writes nothing leaves the turn where it is.       *)
LEMMA TurnKept ==
  ASSUME DataOK, InTurn, UNCHANGED <<pc, call, tag, toServer, mode, request, twoPart>>,
         NoReply(toClient) => NoReply(toClient'),
         \A line \in Line : OnlyReply(toClient, line) => OnlyReply(toClient', line),
         UNCHANGED <<phase, first, done, timed, waited, trouble>>, broken' <=> broken
  PROVE  InTurn'
<1>1. /\ Free => Free'
      /\ Requested => Requested'
      /\ Invited => Invited'
      /\ Idles => Idles'
      /\ Ending => Ending'
      /\ \A s \in Statuses : AnsweredWith(s) => AnsweredWith(s)'
  BY ShapesKept, Zenon
<1>2. (Astray' <=> Astray) /\ (Loose => Loose') /\ "ok" \in Statuses
  BY DEF Astray, Loose, Statuses
<1>3. /\ InSession => InSession'
      /\ InHand => InHand'
      /\ InInit => InInit'
      /\ InWait => InWait'
      /\ InRefresh => InRefresh'
      /\ InDrop => InDrop'
  BY <1>1, <1>2, Zenon DEF InSession, InHand, InInit, InWait, InRefresh, InDrop
<1>4. QED
  BY <1>3, Zenon DEF InTurn

(* The caller's steps: a handle is made, waits and is dropped.             *)
LEMMA HandInTurn ==
  ASSUME Idling, Neat, Quiet', [IdleNext]_idleVars, InTurn, Make => ~Astray,
         Make \/ WaitWhile \/ DropQuietly \/ DropDone
  PROVE  InTurn'
<1>0. /\ DataOK /\ ServerTypeOK /\ Placed /\ TimeoutIsTaken /\ wbuf = <<>> /\ ~rolledBack
      /\ "again" \notin trouble' /\ "unused" \notin trouble'
  BY QuietIs, Zenon
<1>1. CASE Make
  <2>1. /\ phase = "none" /\ pc = "ready" /\ UNCHANGED <<vars, server, trouble>>
        /\ phase' = "held" /\ ~done' /\ ~waited'
    BY <1>1 DEF Make
  <2>2. ~Astray /\ Free
    BY <1>1, <2>1 DEF InTurn, InSession
  <2>3. ~Astray' /\ "slow" \notin trouble' /\ Free'
    <3>1. UNCHANGED <<toClient, toServer, mode, broken>>
      BY <2>1 DEF vars, wire, history, server
    <3>2. QED
      BY <2>1, <2>2, <3>1 DEF Astray, Free
  <2>4. InHand'
    BY <2>1, <2>3, Zenon DEF InHand
  <2>5. QED
    BY <2>1, <2>3, <2>4 DEF InTurn
<1>2. CASE WaitWhile
  <2>1. /\ phase = "held" /\ RunCommand /\ twoPart' = twoPart \cup {call + 1}
        /\ first' /\ phase' = "init" /\ waited' /\ UNCHANGED <<done, timed, server>>
        /\ trouble' = trouble \cup IF waited THEN {"again"} ELSE {}
    BY <1>2 DEF WaitWhile, SendIdle, RunTwoPart
  <2>2. ~waited
    BY <1>0, <2>1
  <2>3. ~done /\ ~Astray /\ Free /\ ~timed
    BY <1>0, <2>1, <2>2 DEF InTurn, InHand, TimeoutIsTaken
  <2>4. ~Astray' /\ "slow" \notin trouble'
    <3>1. broken' <=> broken \/ rolledBack
      BY <2>1, CallsKeep
    <3>2. QED
      BY <1>0, <2>1, <2>2, <2>3, <3>1 DEF Astray
  <2>5. Requested'
    BY <1>0, <2>1, <2>3, ShapesSent
  <2>6. call' \in twoPart'
    BY <2>1 DEF RunCommand
  <2>7. InInit'
    BY <2>1, <2>3, <2>4, <2>5, <2>6, Zenon DEF InInit
  <2>8. QED
    BY <2>1, <2>4, <2>7 DEF InTurn
<1>3. CASE DropQuietly
  <2>1. phase = "held" /\ done /\ phase' = "none" /\ UNCHANGED <<vars, server, trouble>>
    BY <1>3 DEF DropQuietly, record
  <2>2. Astray /\ Loose
    BY <2>1 DEF InTurn, InHand
  <2>3. Astray' /\ Loose'
    <3>1. UNCHANGED <<toServer, mode, broken>>
      BY <2>1 DEF vars, wire, history, server
    <3>2. QED
      BY <2>1, <2>2, <3>1 DEF Astray, Loose
  <2>4. InSession'
    BY <2>3 DEF InSession
  <2>5. QED
    BY <2>1, <2>4 DEF InTurn
<1>4. CASE DropDone
  <2>1. /\ phase = "held" /\ ~done /\ Send(DONE) /\ phase' = "drop" /\ TagReused
        /\ trouble' = trouble \cup (IF waited THEN {} ELSE {"unused"})
        /\ UNCHANGED <<tag, call, toClient, mode, request, waited>>
    BY <1>4 DEF DropDone, DoneWanted, SendDone, server
  <2>2. waited
    BY <1>0, <2>1
  <2>3. Idles /\ "slow" \notin trouble
    BY <2>1, <2>2 DEF InTurn, InHand
  <2>4. Ending'
    BY <1>0, <2>1, <2>3, ShapesSent DEF Idles
  <2>5. Loose'
    <3>1. Len(toServer') = 1 /\ mode' = "continuing"
      BY <2>4 DEF Ending, DONE, Text
    <3>2. QED
      BY <3>1 DEF Loose
  <2>6. InDrop'
    BY <2>1, <2>2, <2>4, <2>5, Zenon DEF InDrop
  <2>7. QED
    BY <2>1, <2>2, <2>3, <2>6 DEF InTurn
<1>5. QED
  BY <1>1, <1>2, <1>3, <1>4

(* The calls that write while they wait.                                   *)
LEMMA RenewalInTurn ==
  ASSUME Idling, Neat, Quiet', [IdleNext]_idleVars, InTurn, Refresh \/ Reinit
  PROVE  InTurn'
<1>0. DataOK /\ ServerTypeOK /\ wbuf = <<>>
  BY QuietIs
<1>1. CASE Refresh
  <2>1. /\ phase = "wait" /\ DropInput /\ Send(DONE) /\ pc' = "reading" /\ done'
        /\ phase' = "refresh" /\ trouble' = trouble \cup {"refreshed"}
        /\ UNCHANGED <<tag, call, mode, request, waited>>
    BY <1>1 DEF Refresh, SendDone, server
  <2>2. waited /\ Idles /\ "slow" \notin trouble
    BY <2>1 DEF InTurn, InWait
  <2>3. NoReply(toClient')
    BY <1>0, <2>1, <2>2, CutIsNoReply DEF Idles
  <2>4. Ending'
    BY <1>0, <2>1, <2>2, <2>3, ShapesSent
  <2>5. InRefresh'
    BY <2>1, <2>2, <2>4, Zenon DEF InRefresh
  <2>6. QED
    BY <2>1, <2>2, <2>5 DEF InTurn
<1>2. CASE Reinit
  <2>1. /\ phase = "refresh" /\ pc = "ready" /\ RunCommand /\ twoPart' = twoPart \cup {call + 1}
        /\ first' /\ phase' = "init" /\ UNCHANGED <<done, waited, server, trouble>>
    BY <1>2 DEF Reinit, SendIdle, RunTwoPart
  <2>2. done /\ waited /\ Free /\ "slow" \notin trouble
    BY <2>1 DEF InTurn, InRefresh
  <2>3. Requested'
    BY <1>0, <2>1, <2>2, ShapesSent
  <2>4. call' \in twoPart'
    BY <2>1 DEF RunCommand
  <2>5. InInit'
    BY <2>1, <2>2, <2>3, <2>4, Zenon DEF InInit
  <2>6. QED
    BY <2>1, <2>2, <2>5 DEF InTurn
<1>3. QED
  BY <1>1, <1>2

(* A wait begins with the "+", ...                                         *)
LEMMA InitInTurn ==
  ASSUME Idling, Neat, Quiet', [IdleNext]_idleVars, InTurn, InitPlus \/ InitOther
  PROVE  InTurn'
<1>0. /\ DataOK /\ ServerTypeOK /\ HeardAsAnswered /\ (~broken => Blocks) /\ Unread
      /\ "early" \notin trouble'
  BY QuietIs, Zenon
<1>1. phase = "init" /\ first /\ toClient # <<>> /\ toClient' = Tail(toClient)
  BY DEF InitPlus, InitOther, ReadLine
<1>2. waited /\ (Requested \/ Invited) /\ (Astray => done) /\ "slow" \notin trouble
  BY <1>1 DEF InTurn, InInit
<1>3. Head(toClient) = toClient[1] /\ toClient[1] \in Line /\ toClient[1] \in Range(toClient)
  BY <1>0, <1>1, FirstInRange
<1>4. CASE InitPlus
  <2>1. /\ toClient[1].kind = "plus" /\ ~done' /\ phase' = "wait"
        /\ UNCHANGED <<tag, call, toServer, mode, request, waited, trouble>>
    BY <1>3, <1>4 DEF InitPlus, DoneIsDue, server, record
  <2>2. IsReply(toClient[1])
    BY <2>1 DEF IsReply
  <2>3. Idles'
    BY <1>0, <1>1, <1>2, <2>1, <2>2, ShapesRead
  <2>4. InWait'
    BY <1>2, <2>1, <2>3, Zenon DEF InWait
  <2>5. QED
    BY <1>2, <2>1, <2>4 DEF InTurn
<1>5. CASE InitOther
  <2>1. /\ toClient[1].kind # "plus" /\ ReadLine /\ InitReturns
        /\ UNCHANGED <<mode, request, waited, done>>
        /\ trouble' = trouble \cup (IF toClient[1].kind \in {"data", "open"} THEN {"early"} ELSE {})
    BY <1>3, <1>5, Zenon DEF InitOther, server
  <2>2. toClient[1].kind \notin {"data", "open"} /\ trouble' = trouble
    BY <1>0, <2>1
  <2>3. UNCHANGED <<tag, call, toServer, broken>>
    BY <2>1 DEF ReadLine, history
  <2>4. ~IsReply(toClient[1])
    <3>1. Plain("plus").kind = "plus"
      BY DEF Plain
    <3>2. QED
      BY <1>0, <1>1, <1>2, <2>1, <2>3, <3>1, ShapesRead
  <2>5. toClient[1].kind \in {"close", "junk"} /\ ~pending
    <3>1. ~toClient[1].lit
      BY <1>0, <1>3 DEF HeardAsAnswered
    <3>2. QED
      BY <1>0, <1>1, <1>3, <2>1, <2>2, <2>4, <3>1 DEF IsReply, IsTagged, Line, LineKinds, Unread
  <2>6. ParseResponse(pending, toClient[1]) = "invalid"
    BY <2>5 DEF ParseResponse
  <2>7. broken
    BY <1>0, <1>1, <2>6, ParseInBlocks
  <2>8. pc' = "ready" /\ ret'.outcome = "bye"
    BY <1>3, <2>1, <2>6 DEF ReadLine, OnLine, Return
  <2>9. phase' = "held"
    BY <2>1, <2>8 DEF InitReturns, EndWait
  <2>10. Astray' /\ done' /\ waited'
    BY <1>2, <2>1, <2>3, <2>7 DEF Astray
  <2>11. Loose'
    BY <1>0, <1>2, <2>1, <2>3, LooseFrom DEF Loose
  <2>12. InHand'
    BY <2>10, <2>11 DEF InHand
  <2>13. QED
    BY <2>9, <2>10, <2>12 DEF InTurn
<1>6. QED
  BY <1>4, <1>5

(* ... goes on or stops between updates, ...                               *)
LEMMA WaitInTurn ==
  ASSUME Idling, Neat, Quiet', [IdleNext]_idleVars, InTurn, WaitLine \/ WaitTimesOut
  PROVE  InTurn'
<1>0. DataOK /\ "stopped" \notin trouble'
  BY QuietIs, Zenon
<1>1. phase = "wait" /\ UNCHANGED <<tag, call, toServer, mode, request, waited, done>>
  BY DEF WaitLine, WaitTimesOut, server, record
<1>2. waited /\ ~done /\ Idles /\ "slow" \notin trouble
  BY <1>1 DEF InTurn, InWait
<1>3. phase' \in {"wait", "held"} /\ trouble' = trouble
  BY <1>0, <1>1 DEF WaitLine, WaitTimesOut, EndWait, record
<1>4. Idles'
  <2>1. CASE WaitLine
    <3>1. toClient # <<>> /\ toClient' = Tail(toClient)
      BY <2>1 DEF WaitLine
    <3>2. QED
      BY <1>0, <1>1, <1>2, <3>1, ShapesRead
  <2>2. CASE WaitTimesOut
    <3>1. NoReply(toClient')
      BY <1>0, <1>2, <2>2, CutIsNoReply DEF WaitTimesOut, Idles
    <3>2. Own' = Own
      BY <1>1 DEF Own
    <3>3. QED
      BY <1>1, <1>2, <3>1, <3>2 DEF Idles
  <2>3. QED
    BY <2>1, <2>2
<1>5. InWait' /\ InHand'
  BY <1>1, <1>2, <1>4, Zenon DEF InWait, InHand
<1>6. QED
  BY <1>2, <1>3, <1>5 DEF InTurn

(* ... or is given up while it is renewed.                                 *)
LEMMA TimeoutInTurn ==
  ASSUME Idling, Neat, Quiet', [IdleNext]_idleVars, InTurn, ReplyTimesOut
  PROVE  InTurn'
<1>0. DataOK
  BY QuietIs
<1>1. /\ phase \in {"init", "refresh"} /\ timed /\ phase' = "held"
      /\ trouble' = trouble \cup {"slow"}
      /\ UNCHANGED <<toServer, mode, done, waited>>
  BY DEF ReplyTimesOut, EndWait, ReadFails, server
<1>2. waited /\ done /\ Loose
  <2>1. CASE phase = "init"
    BY <1>0, <1>1, <2>1, LooseFrom DEF InTurn, InInit
  <2>2. CASE phase = "refresh"
    <3>1. "ok" \in Statuses
      BY DEF Statuses
    <3>2. waited /\ done /\ (Free \/ Ending \/ AnsweredWith("ok"))
      BY <2>2 DEF InTurn, InRefresh
    <3>3. QED
      BY <1>0, <3>1, <3>2, LooseFrom
  <2>3. QED
    BY <1>1, <2>1, <2>2
<1>3. InHand'
  BY <1>1, <1>2 DEF InHand, Astray, Loose
<1>4. QED
  BY <1>1, <1>2, <1>3 DEF InTurn

(* The reply to DONE is read to its end.                                   *)
LEMMA RefreshInTurn ==
  ASSUME Idling, Neat, Quiet', [IdleNext]_idleVars, InTurn, RefreshRead
  PROVE  InTurn'
<1>0. DataOK /\ HeardAsAnswered /\ (~broken => Blocks) /\ "ok" \in Statuses
  BY QuietIs DEF Statuses
<1>1. /\ phase = "refresh" /\ pc = "reading" /\ ReadLine
      /\ UNCHANGED <<mode, request, done, waited, trouble>>
      /\ phase' = IF pc' = "ready" /\ ret'.outcome # "ok" THEN "held" ELSE "refresh"
  BY DEF RefreshRead, EndWait, server, record
<1>2. /\ waited /\ done /\ "slow" \notin trouble
      /\ Free \/ Ending \/ AnsweredWith("ok")
  BY <1>1 DEF InTurn, InRefresh
<1>3. /\ toClient # <<>> /\ toClient' = Tail(toClient) /\ pc' \in {"ready", "reading"}
      /\ UNCHANGED <<tag, call, toServer, broken>>
      /\ ~IsReply(toClient[1]) /\ pc' = "ready" => ~Blocks /\ ret'.outcome = "bye"
      /\ toClient[1] = DoneLine(tag, "ok", call) /\ pc' = "ready" => ret'.outcome = Outcome("ok")
  BY <1>0, <1>1, HeadRead
<1>4. CASE IsReply(toClient[1])
  <2>1. toClient[1] = DoneLine(tag, "ok", call) /\ Free'
    BY <1>0, <1>1, <1>2, <1>3, <1>4, ShapesRead
  <2>2. phase' = "refresh"
    BY <1>1, <1>3, <2>1 DEF Outcome
  <2>3. InRefresh'
    BY <1>1, <1>2, <2>1, Zenon DEF InRefresh
  <2>4. QED
    BY <1>1, <1>2, <2>2, <2>3 DEF InTurn
<1>5. CASE ~IsReply(toClient[1])
  <2>1. Free' \/ Ending' \/ AnsweredWith("ok")'
    BY <1>0, <1>1, <1>2, <1>3, <1>5, ShapesRead
  <2>2. CASE pc' = "reading"
    <3>1. InRefresh'
      BY <1>1, <1>2, <2>1, <2>2, Zenon DEF InRefresh
    <3>2. phase' = "refresh"
      BY <1>1, <2>2
    <3>3. QED
      BY <1>1, <1>2, <3>1, <3>2 DEF InTurn
  <2>3. CASE pc' = "ready"
    <3>1. broken /\ phase' = "held"
      BY <1>0, <1>1, <1>3, <1>5, <2>3
    <3>2. Loose
      BY <1>0, <1>2, LooseFrom
    <3>3. InHand'
      BY <1>1, <1>2, <1>3, <3>1, <3>2 DEF InHand, Astray, Loose
    <3>4. QED
      BY <1>1, <1>2, <3>1, <3>3 DEF InTurn
  <2>4. QED
    BY <1>3, <2>2, <2>3
<1>6. QED
  BY <1>4, <1>5

(* So it is after a handle.                                                *)
LEMMA DropInTurn ==
  ASSUME Idling, Neat, Quiet', [IdleNext]_idleVars, InTurn, DropRead
  PROVE  InTurn'
<1>0. DataOK /\ HeardAsAnswered /\ (~broken => Blocks) /\ "ok" \in Statuses /\ up
  BY QuietIs DEF Statuses
<1>1. /\ phase = "drop" /\ ReadLine
      /\ UNCHANGED <<mode, request, waited, trouble>>
      /\ phase' = IF pc' = "ready" THEN "none" ELSE "drop"
  BY <1>0 DEF DropRead, ReadEof, server, record
<1>2. /\ waited /\ "slow" \notin trouble
      /\ (Astray /\ Loose) \/ (~Astray /\ (Free \/ Ending \/ AnsweredWith("ok")))
  BY <1>1 DEF InTurn, InDrop
<1>3. /\ toClient # <<>> /\ toClient' = Tail(toClient) /\ pc' \in {"ready", "reading"}
      /\ UNCHANGED <<tag, call, toServer, broken>>
      /\ ~IsReply(toClient[1]) /\ pc' = "ready" => ~Blocks
  BY <1>0, <1>1, HeadRead
<1>4. (Astray' <=> Astray) /\ (Loose => Loose')
  BY <1>1, <1>3 DEF Astray, Loose
<1>5. CASE Astray
  <2>1. InDrop' /\ InSession'
    BY <1>1, <1>2, <1>4, <1>5, Zenon DEF InDrop, InSession
  <2>2. QED
    BY <1>1, <1>2, <2>1 DEF InTurn
<1>6. CASE ~Astray
  <2>1. Blocks
    BY <1>0, <1>6 DEF Astray
  <2>2. CASE IsReply(toClient[1])
    <3>1. Free'
      BY <1>0, <1>1, <1>2, <1>3, <1>6, <2>2, ShapesRead
    <3>2. InDrop' /\ InSession'
      BY <1>1, <1>2, <1>4, <1>6, <3>1, Zenon DEF InDrop, InSession
    <3>3. QED
      BY <1>1, <1>2, <3>2 DEF InTurn
  <2>3. CASE ~IsReply(toClient[1])
    <3>1. Free' \/ Ending' \/ AnsweredWith("ok")'
      BY <1>0, <1>1, <1>2, <1>3, <1>6, <2>3, ShapesRead
    <3>2. InDrop' /\ phase' = "drop"
      <4>1. phase' = "drop"
        BY <1>1, <1>3, <2>1, <2>3
      <4>2. QED
        BY <1>1, <1>2, <1>4, <1>6, <3>1, <4>1, Zenon DEF InDrop
    <3>3. QED
      BY <1>1, <1>2, <3>2 DEF InTurn
  <2>4. QED
    BY <2>2, <2>3
<1>7. QED
  BY <1>5, <1>6

(* The other commands of the session.                                      *)
LEMMA SessionInTurn ==
  ASSUME Idling, Neat, Quiet', [IdleNext]_idleVars, InTurn, OtherCommand
  PROVE  InTurn'
<1>0. /\ DataOK /\ ServerTypeOK /\ HeardAsAnswered /\ (~broken => Blocks)
      /\ call + 1 \notin twoPart /\ wbuf = <<>> /\ ~rolledBack /\ up
  BY QuietIs
<1>1. /\ phase = "none" /\ phase' = "none" /\ UNCHANGED <<mode, request, trouble, twoPart>>
      /\ RunCommand \/ ReadLine
  BY <1>0 DEF OtherCommand, RunOnePart, ReadEof, handle, server, record
<1>2. InSession
  BY <1>1 DEF InTurn
<1>3. SUFFICES InSession'
  BY <1>1, <1>3 DEF InTurn
<1>4. CASE RunCommand
  <2>1. /\ pc = "ready" /\ pc' = "reading" /\ call' = call + 1 /\ call' \notin twoPart'
        /\ (broken' <=> broken)
    BY <1>0, <1>1, <1>4, CallsKeep DEF RunCommand, CanIssue
  <2>2. (Astray' <=> Astray)
    BY <1>1, <2>1 DEF Astray
  <2>3. CASE Astray
    <3>1. Loose'
      BY <1>0, <1>1, <1>2, <1>4, <2>3, LooseIssued DEF InSession
    <3>2. QED
      BY <2>2, <2>3, <3>1 DEF InSession
  <2>4. CASE ~Astray
    <3>1. Free
      BY <1>2, <2>1, <2>4 DEF InSession
    <3>2. Requested'
      BY <1>0, <1>1, <1>4, <3>1, ShapesSent DEF server
    <3>3. QED
      BY <2>1, <2>2, <2>4, <3>2 DEF InSession
  <2>5. QED
    BY <2>3, <2>4
<1>5. CASE ReadLine
  <2>1. /\ toClient # <<>> /\ toClient' = Tail(toClient) /\ pc' \in {"ready", "reading"}
        /\ UNCHANGED <<tag, call, toServer, broken>>
        /\ ~IsReply(toClient[1]) /\ pc' = "ready" => ~Blocks
    BY <1>0, <1>5, HeadRead
  <2>2. (Astray' <=> Astray) /\ (Loose => Loose')
    BY <1>1, <2>1 DEF Astray, Loose
  <2>3. CASE Astray
    BY <1>2, <2>2, <2>3, Zenon DEF InSession
  <2>4. CASE ~Astray /\ Free
    <3>1. Free'
      BY <1>0, <1>1, <2>1, <2>4, ShapesRead
    <3>2. QED
      BY <2>2, <2>4, <3>1, Zenon DEF InSession
  <2>5. ASSUME ~Astray, call \notin twoPart, Requested \/ \E s \in Statuses : AnsweredWith(s)
        PROVE  InSession'
    <3>1. Blocks /\ call' \notin twoPart'
      BY <1>0, <1>1, <2>1, <2>5 DEF Astray
    <3>2. CASE IsReply(toClient[1])
      <4>1. Free'
        BY <1>0, <1>1, <2>1, <2>5, <3>2, ShapesRead
      <4>2. QED
        BY <2>2, <2>5, <4>1, Zenon DEF InSession
    <3>3. CASE ~IsReply(toClient[1])
      <4>1. Requested' \/ \E s \in Statuses : AnsweredWith(s)'
        BY <1>0, <1>1, <2>1, <2>5, <3>3, ShapesRead
      <4>2. pc' = "reading"
        BY <2>1, <3>1, <3>3
      <4>3. QED
        BY <2>2, <2>5, <3>1, <4>1, <4>2, Zenon DEF InSession
    <3>4. QED
      BY <3>2, <3>3
  <2>6. QED
    BY <1>2, <2>3, <2>4, <2>5, Zenon DEF InSession
<1>6. QED
  BY <1>1, <1>4, <1>5

(* The server's steps.                                                     *)
LEMMA ServerInTurn ==
  ASSUME Idling, Neat, Quiet', [IdleNext]_idleVars, InTurn, IdleServer
  PROVE  InTurn'
<1>0. DataOK /\ ServerTypeOK /\ "refused" \notin trouble' /\ up' /\ "ok" \in Statuses
  BY QuietIs DEF Statuses
<1>1. CASE ServeIdle /\ trouble' = trouble \cup IF Refuse THEN {"refused"} ELSE {}
  <2>1. ~Refuse /\ trouble' = trouble
    BY <1>0, <1>1
  <2>2. /\ UNCHANGED <<handle, waited, trouble, pc, call, tag, twoPart>> /\ (broken' <=> broken)
        /\ toServer # <<>> /\ toServer' = Tail(toServer)
    <3>1. ServerTakes /\ UNCHANGED <<handle, waited>>
      <4>1. UNCHANGED <<handle, waited>>
        BY Zenon DEF IdleServer, record
      <4>2. QED
        BY <1>1, <4>1, IdleServes
    <3>2. QED
      BY <2>1, <3>1, Zenon DEF ServerTakes, Takes, ClientSide, client
  <2>3. UNCHANGED <<phase, first, done, timed>>
    BY <2>2 DEF handle
  <2>4. (Astray' <=> Astray) /\ (Loose => Loose')
    <3>1. Loose => Loose'
      BY <1>0, <2>2, LooseServed
    <3>2. QED
      BY <2>2, <3>1, Zenon DEF Astray
  <2>5. /\ ~Free /\ ~Invited /\ ~Idles /\ \A s \in Statuses : ~AnsweredWith(s)
        /\ Requested /\ call \notin twoPart => \E s \in Statuses : AnsweredWith(s)'
        /\ Requested /\ call \in twoPart => Invited'
        /\ Ending => AnsweredWith("ok")'
    BY <1>0, <1>1, <2>1, ShapesServed
  <2>6. InSession => InSession'
    BY <2>2, <2>4, <2>5, Zenon DEF InSession
  <2>7. InHand => InHand'
    BY <2>2, <2>3, <2>4, <2>5, Zenon DEF InHand
  <2>8. InInit => InInit'
    BY <2>2, <2>3, <2>4, <2>5, Zenon DEF InInit
  <2>9. ~InWait
    BY <2>5 DEF InWait
  <2>10. InRefresh => InRefresh'
    BY <1>0, <2>2, <2>3, <2>5, Zenon DEF InRefresh
  <2>11. InDrop => InDrop'
    BY <1>0, <2>2, <2>4, <2>5, Zenon DEF InDrop
  <2>12. QED
    BY <2>2, <2>3, <2>6, <2>7, <2>8, <2>9, <2>10, <2>11, Zenon DEF InTurn
<1>2. CASE (Announce \/ SendNotice) /\ UNCHANGED <<handle, waited, trouble>>
  <2>1. /\ UNCHANGED <<pc, call, tag, toServer, mode, request, twoPart>>
        /\ UNCHANGED <<phase, first, done, timed, waited, trouble>> /\ (broken' <=> broken)
    BY <1>2 DEF Announce, SendNotice, client, history, server, handle
  <2>2. /\ NoReply(toClient) => NoReply(toClient')
        /\ \A line \in Line : OnlyReply(toClient, line) => OnlyReply(toClient', line)
    <3>1. CASE Announce
      BY <1>0, <3>1, RepliesTold
    <3>2. CASE SendNotice
      <4>1. Notice \in Line /\ ~IsReply(Notice) /\ toClient' = Append(toClient, Notice)
        BY <3>2 DEF Notice, Plain, Line, LineKinds, Statuses, IsReply, IsTagged, SendNotice, Sends
      <4>2. QED
        BY <1>0, <4>1, RepliesAppend DEF DataOK
    <3>3. QED
      BY <1>2, <3>1, <3>2
  <2>3. QED
    BY <1>0, <2>1, <2>2, TurnKept
<1>3. ~Leave
  BY <1>0 DEF Leave, HangUp
<1>4. QED
  BY <1>1, <1>2, <1>3, Zenon DEF IdleServer, record

(* It is known whose turn it is, until a handle is made after a call that  *)
(* gave up on its reply.                                                   *)
Follows ==
    Quiet => /\ Astray => made # 0
             /\ (Astray => made = 1) => InTurn

(* Every step keeps it: the steps of each phase have a lemma above.        *)
LEMMA FollowsStep ==
  ASSUME Idling, Neat, Follows, [IdleNext]_idleVars
  PROVE  Follows'
<1>1. SUFFICES ASSUME Quiet'
               PROVE  /\ Astray' => made' # 0
                      /\ (Astray' => made' = 1) => InTurn'
  BY DEF Follows
<1>2. /\ DataOK /\ Quiet /\ IdleDataOK
      /\ trouble \subseteq trouble' /\ (broken => broken')
      /\ UNCHANGED made \/ (Make /\ made' = made + 1)
  <2>1. DataOK /\ IdleDataOK
    BY IdleTypeSplit, Zenon DEF Idling
  <2>2. QED
    BY <1>1, <2>1, QuietIs, TroubleStays
<1>3. Astray => Astray' /\ made # 0
  BY <1>2, Zenon DEF Astray, Follows
<1>4. made \in Nat
  BY <1>2, IdleAssumption DEF IdleDataOK
<1>5. Astray' => made' # 0
  <2>1. CASE Make
    <3>1. UNCHANGED <<broken, trouble>>
      BY <2>1 DEF Make, vars, history
    <3>2. Astray' => Astray
      BY <3>1 DEF Astray
    <3>3. QED
      BY <1>2, <1>3, <1>4, <3>2
  <2>2. CASE ~Make /\ phase # "none"
    BY <1>2, <2>2 DEF Neat, Made
  <2>3. CASE ~Make /\ phase = "none"
    <3>1. OtherCommand \/ IdleServer \/ UNCHANGED idleVars
      BY <2>3, Zenon DEF IdleNext, Handle, WaitWhile, WaitUnsent, InitPlus, InitOther, InitRest,
         ReplyTimesOut, WaitLine, WaitTimesOut, Refresh, RenewalUnsent, RefreshRead, Reinit, WaitEof,
         DropQuietly, DropDone, DropUnsent, DropRead
    <3>2. broken' <=> broken
      <4>1. ~rolledBack /\ up'
        BY <1>1, QuietIs
      <4>2. CASE OtherCommand
        BY <4>1, <4>2, CallsKeep DEF OtherCommand, RunOnePart, Untouched
      <4>3. CASE IdleServer
        BY <4>3, CallsKeep DEF IdleServer, Untouched
      <4>4. CASE UNCHANGED idleVars
        BY <4>4 DEF idleVars, vars, history
      <4>5. QED
        BY <3>1, <4>2, <4>3, <4>4
    <3>3. "slow" \in trouble' => "slow" \in trouble
      BY <3>1 DEF OtherCommand, IdleServer, idleVars, record
    <3>4. QED
      BY <1>2, <1>3, <2>3, <3>2, <3>3 DEF Astray
  <2>4. QED
    BY <2>1, <2>2, <2>3
<1>6. ASSUME Astray' => made' = 1 PROVE InTurn'
  <2>1. Make => ~Astray
    <3>1. Make => made' = made + 1
      BY DEF Make
    <3>2. QED
      BY <1>3, <1>4, <1>6, <3>1
  <2>2. Astray => made = 1
    BY <1>2, <1>3, <1>6, <2>1
  <2>3. InTurn
    BY <1>2, <2>2 DEF Follows
  <2>4. CASE Make \/ WaitWhile \/ DropQuietly \/ DropDone
    BY <1>1, <2>1, <2>3, <2>4, HandInTurn
  <2>5. CASE Refresh \/ Reinit \/ InitPlus \/ InitOther
    BY <1>1, <2>3, <2>5, RenewalInTurn, InitInTurn
  <2>6. CASE WaitLine \/ WaitTimesOut \/ ReplyTimesOut \/ RefreshRead \/ DropRead
    BY <1>1, <2>3, <2>6, WaitInTurn, TimeoutInTurn, RefreshInTurn, DropInTurn
  <2>7. CASE OtherCommand \/ IdleServer
    BY <1>1, <2>3, <2>7, SessionInTurn, ServerInTurn
  <2>8. CASE UNCHANGED idleVars
    <3>1. /\ UNCHANGED <<pc, call, tag, toServer, toClient, mode, request, twoPart>>
          /\ UNCHANGED <<phase, first, done, timed, waited, trouble, broken>>
      BY <2>8 DEF idleVars, vars, client, wire, history, server, handle, record
    <3>2. QED
      BY <1>2, <2>3, <3>1, TurnKept
  <2>9. ~(WaitUnsent \/ RenewalUnsent \/ DropUnsent)
    <3>1. "unsent" \notin trouble'
      BY <1>1, QuietIs
    <3>2. QED
      BY <3>1 DEF WaitUnsent, RenewalUnsent, DropUnsent
  <2>10. ~InitRest
    BY <2>3 DEF InitRest, InTurn, InInit
  <2>11. ~WaitEof
    BY <1>2 DEF WaitEof, ReadEof, Quiet
  <2>12. QED
    BY <2>4, <2>5, <2>6, <2>7, <2>8, <2>9, <2>10, <2>11, Zenon DEF IdleNext, Handle
<1>7. QED
  BY <1>5, <1>6

-----------------------------------------------------------------------------
(* What a wait that is not renewed has been sent, it has delivered or will *)
(* read.                                                                   *)
Unrenewed == Ordinary /\ "refreshed" \notin trouble

Heard ==
    /\ phase = "refresh" => "refreshed" \in trouble
    /\ phase \in {"init", "wait"} /\ Unrenewed => (phase = "init" => first) /\ CallbackReceivesAll

(* A line that is read takes its update along, ...                         *)
LEMMA WayTaken ==
  ASSUME DataOK, toClient # <<>>, toClient' = Tail(toClient)
  PROVE  \A n \in OnTheWay :
            n \in OnTheWay' \/ (toClient[1].kind \in {"data", "close"} /\ n = toClient[1].id)
<1>1. toClient \in Seq(Line) /\ Head(toClient) = toClient[1]
  BY FirstInRange DEF DataOK
<1>2. Range(toClient) = {toClient[1]} \cup Range(toClient')
  BY <1>1, RangeHeadTail
<1>3. QED
  BY <1>2 DEF OnTheWay

(* ... and one that is sent takes none.                                    *)
LEMMA WayKept ==
  ASSUME Range(toClient) \subseteq Range(toClient')
  PROVE  OnTheWay \subseteq OnTheWay'
BY DEF OnTheWay

(* The first line of a reply that is no "+" ends init, unless it came too  *)
(* early.                                                                  *)
LEMMA OtherEnds ==
  ASSUME DataOK, Unread, InitOther, "early" \notin trouble'
  PROVE  phase' = "held"
<1>1. /\ phase = "init" /\ first /\ toClient # <<>> /\ OnLine(Head(toClient)) /\ InitReturns
      /\ Head(toClient).kind \notin {"data", "open", "plus"}
  BY DEF InitOther, ReadLine
<1>2. ~pending
  BY <1>1 DEF Unread
<1>3. ParseResponse(pending, Head(toClient)) \in {"done", "invalid"}
  BY <1>1, <1>2 DEF ParseResponse
<1>4. pc' = "ready"
  BY <1>1, <1>3 DEF OnLine, Return
<1>5. QED
  BY <1>1, <1>4 DEF InitReturns, EndWait

(* What the callback takes.                                                *)
LEMMA WaitHears ==
  ASSUME DataOK, IdleDataOK, HeardAsAnswered, ~broken => Blocks, WaitLine, phase' = "wait",
         Unrenewed', CallbackReceivesAll
  PROVE  CallbackReceivesAll'
<1> DEFINE line == toClient[1]
           parsed == ParseResponse(pending, line)
<1>1. /\ toClient # <<>> /\ toClient' = Tail(toClient) /\ UNCHANGED <<announced, broken>>
      /\ Head(toClient) = line /\ line \in Line /\ line \in Range(toClient)
  <2>1. toClient # <<>> /\ toClient' = Tail(toClient) /\ UNCHANGED <<announced, broken>>
    BY DEF WaitLine, history
  <2>2. QED
    BY <2>1, FirstInRange
<1>2. ~broken /\ ~line.lit /\ "stopped" \notin trouble'
  BY <1>1 DEF HeardAsAnswered, Unrenewed, Ordinary
<1>3. parsed = "incomplete" <=> line.kind = "open"
  BY <1>1, <1>2, ParseInBlocks DEF Opens
<1>4. \/ (parsed = "incomplete" \/ IsNotice(line)) /\ UNCHANGED delivered
      \/ delivered' = Append(delivered, line.id)
      \/ phase' = "held" \/ "stopped" \in trouble'
  BY <1>1 DEF WaitLine, Deliver
<1>5. /\ announced \subseteq 1..MaxChatter /\ delivered \in Seq(1..MaxChatter)
      /\ CallbackReceivesAll
  BY DEF IdleDataOK
<1>6. ASSUME NEW n \in announced, n \notin OnTheWay' PROVE n \in Range(delivered')
  <2>1. n # 0
    BY <1>5, <1>6, Bounds
  <2>2. n \in Range(delivered) \/ (line.kind \in {"data", "close"} /\ n = line.id)
    BY <1>1, <1>5, <1>6, WayTaken DEF CallbackReceivesAll
  <2>3. CASE (parsed = "incomplete" \/ IsNotice(line)) /\ UNCHANGED delivered
    <3>1. IsNotice(line) => line.id = 0
      BY DEF IsNotice, Notice, Plain
    <3>2. QED
      BY <1>3, <2>1, <2>2, <2>3, <3>1
  <2>4. CASE delivered' = Append(delivered, line.id)
    <3>1. /\ Len(delivered) \in Nat /\ Len(delivered') = Len(delivered) + 1
          /\ DOMAIN delivered = 1..Len(delivered) /\ DOMAIN delivered' = 1..Len(delivered')
          /\ \A k \in 1..Len(delivered) : delivered'[k] = delivered[k]
          /\ delivered'[Len(delivered) + 1] = line.id
      BY <1>5, <2>4
    <3>2. QED
      BY <2>2, <3>1 DEF Range
  <2>5. QED
    BY <1>2, <1>4, <2>3, <2>4
<1>7. QED
  BY <1>1, <1>6 DEF CallbackReceivesAll

(* What the server adds.                                                   *)
LEMMA ServerHears ==
  ASSUME DataOK, ServerTypeOK, IdleServer, CallbackReceivesAll
  PROVE  CallbackReceivesAll'
<1>0. UNCHANGED delivered /\ toClient \in Seq(Line)
  BY DEF IdleServer, record, DataOK
<1>1. CASE (ServeIdle \/ SendNotice \/ Leave) /\ UNCHANGED announced
  <2>1. UNCHANGED toClient \/ \E line \in Line : toClient' = Append(toClient, line)
    <3>1. CASE ServeIdle
      BY <3>1, IdleServes, TakesSends DEF ServerTypeOK
    <3>2. CASE SendNotice
      BY <3>2 DEF SendNotice, Sends, Notice, Plain, Line, LineKinds, Statuses
    <3>3. CASE Leave
      BY <3>3 DEF Leave, HangUp
    <3>4. QED
      BY <1>1, <3>1, <3>2, <3>3
  <2>2. \A line \in Line : Range(Append(toClient, line)) = Range(toClient) \cup {line}
    BY <1>0, RangeAppend
  <2>3. Range(toClient) \subseteq Range(toClient')
    <3>1. CASE UNCHANGED toClient
      BY <3>1
    <3>2. CASE \E line \in Line : toClient' = Append(toClient, line)
      BY <2>2, <3>2
    <3>3. QED
      BY <2>1, <3>1, <3>2
  <2>4. QED
    BY <1>0, <1>1, <2>3, WayKept DEF CallbackReceivesAll
<1>2. CASE Announce /\ announced' = announced \cup IF mode = "continuing" THEN {chatter'} ELSE {}
  <2>1. chatter' \in OnTheWay'
    <3>0. chatter' = chatter + 1
      BY <1>2 DEF Announce
    <3>1. \A s \in Seq(Line), l \in Line : Append(s, l) \in Seq(Line) /\ l \in Range(Append(s, l))
      BY RangeAppend
    <3>2. \E line \in Range(toClient') : line.kind \in {"data", "close"} /\ line.id = chatter + 1
      <4>1. CASE \E line \in News : /\ line.kind = "data" /\ line.id = chatter + 1
                                    /\ toClient' = Append(toClient, line)
        BY <1>0, <3>1, <4>1 DEF News
      <4>2. CASE \E open, last \in News :
                    /\ open.kind = "open" /\ last.kind = "close" /\ last.id = chatter + 1
                    /\ toClient' = Append(Append(toClient, open), last)
        BY <1>0, <3>1, <4>2 DEF News
      <4>3. QED
        BY <1>2, <4>1, <4>2, AnnouncedLines
    <3>3. QED
      BY <3>0, <3>2 DEF OnTheWay
  <2>2. OnTheWay \subseteq OnTheWay'
    BY <1>2, AnnouncedBefore, WayKept
  <2>3. QED
    BY <1>0, <1>2, <2>1, <2>2 DEF CallbackReceivesAll
<1>3. QED
  BY <1>1, <1>2, Zenon DEF IdleServer, record

(* No update is lost on the way.                                           *)
LEMMA HeardAllStep ==
  ASSUME Idling, Neat, Heard, [IdleNext]_idleVars
  PROVE  Heard'
<1>0. /\ DataOK /\ ServerTypeOK /\ IdleDataOK /\ HeardAsAnswered
      /\ Unread /\ (~broken => Blocks)
      /\ trouble \subseteq trouble' /\ (broken => broken')
  <2>1. DataOK /\ ServerTypeOK /\ IdleDataOK /\ HeardAsAnswered
    BY IdleTypeSplit, Zenon DEF Idling, Matched
  <2>2. QED
    BY <2>1, TroubleStays DEF Neat
<1>1. Unrenewed' => Unrenewed
  BY <1>0 DEF Unrenewed, Ordinary
<1>2. ASSUME phase' \in {"held", "none", "drop"} PROVE Heard'
  BY <1>2 DEF Heard
<1>3. ASSUME phase' = "refresh", phase = "refresh" PROVE Heard'
  BY <1>0, <1>3 DEF Heard
<1>4. CASE Make \/ WaitUnsent \/ DropQuietly \/ DropDone \/ DropUnsent \/ DropRead \/ OtherCommand
  <2>1. phase' \in {"held", "none", "drop"}
    BY <1>4 DEF Make, WaitUnsent, FailTwoPart, DropQuietly, DropDone, DropUnsent, DropRead,
       OtherCommand, handle
  <2>2. QED
    BY <1>2, <2>1
<1>5. CASE ReplyTimesOut \/ WaitTimesOut \/ RenewalUnsent \/ WaitEof
  <2>1. phase' = "held"
    BY <1>5, Zenon DEF ReplyTimesOut, WaitTimesOut, RenewalUnsent, WaitEof, EndWait
  <2>2. QED
    BY <1>2, <2>1
<1>6. CASE WaitWhile
  <2>1. phase' = "init" /\ first' /\ announced' = {}
    BY <1>6 DEF WaitWhile, SendIdle
  <2>2. QED
    BY <2>1 DEF Heard, CallbackReceivesAll
<1>7. CASE Reinit
  <2>1. phase = "refresh" /\ phase' = "init"
    BY <1>7 DEF Reinit, SendIdle
  <2>2. ~Unrenewed'
    BY <1>0, <2>1 DEF Heard, Unrenewed
  <2>3. QED
    BY <2>1, <2>2 DEF Heard
<1>8. CASE InitPlus
  <2>1. /\ phase = "init" /\ phase' = "wait" /\ UNCHANGED <<announced, delivered>>
        /\ toClient # <<>> /\ toClient' = Tail(toClient) /\ Head(toClient).kind = "plus"
    BY <1>8 DEF InitPlus, record
  <2>2. ASSUME Unrenewed' PROVE CallbackReceivesAll'
    <3>1. OnTheWay \subseteq OnTheWay' /\ CallbackReceivesAll
      BY <1>0, <1>1, <2>1, <2>2, WayTaken, FirstInRange DEF Heard
    <3>2. QED
      BY <2>1, <3>1 DEF CallbackReceivesAll
  <2>3. QED
    BY <2>1, <2>2 DEF Heard
<1>9. CASE InitOther
  <2>1. phase' \in {"init", "held"}
    BY <1>9 DEF InitOther, InitReturns, EndWait
  <2>2. Unrenewed' => phase' = "held"
    BY <1>0, <1>9, OtherEnds DEF Unrenewed, Ordinary
  <2>3. QED
    BY <2>1, <2>2 DEF Heard
<1>10. CASE InitRest
  <2>1. phase' \in {"init", "held"} /\ phase = "init" /\ ~first
    BY <1>10 DEF InitRest, InitReturns, EndWait
  <2>2. QED
    BY <1>1, <2>1 DEF Heard
<1>11. CASE WaitLine
  <2>1. phase' \in {"wait", "held"} /\ phase = "wait"
    BY <1>11 DEF WaitLine, EndWait
  <2>2. ASSUME phase' = "wait", Unrenewed' PROVE CallbackReceivesAll'
    BY <1>0, <1>1, <1>11, <2>1, <2>2, WaitHears DEF Heard
  <2>3. QED
    BY <2>1, <2>2 DEF Heard
<1>12. CASE Refresh
  BY <1>12 DEF Refresh, Heard
<1>13. CASE RefreshRead
  <2>1. phase = "refresh" /\ phase' \in {"refresh", "held"}
    BY <1>13 DEF RefreshRead, EndWait
  <2>2. QED
    BY <1>2, <1>3, <2>1
<1>14. CASE IdleServer
  <2>1. UNCHANGED <<phase, first>>
    BY <1>14 DEF IdleServer, handle
  <2>2. CallbackReceivesAll => CallbackReceivesAll'
    BY <1>0, <1>14, ServerHears
  <2>3. QED
    BY <1>0, <1>1, <2>1, <2>2 DEF Heard
<1>15. CASE UNCHANGED idleVars
  <2>1. UNCHANGED <<phase, first, toClient, announced, delivered>>
    BY <1>15 DEF idleVars, vars, wire, handle, record
  <2>2. CallbackReceivesAll' <=> CallbackReceivesAll
    BY <2>1 DEF CallbackReceivesAll, OnTheWay
  <2>3. QED
    BY <1>0, <1>1, <2>1, <2>2 DEF Heard
<1>16. QED
  BY <1>4, <1>5, <1>6, <1>7, <1>8, <1>9, <1>10, <1>11, <1>12, <1>13, <1>14, <1>15, Zenon
  DEF IdleNext, Handle

-----------------------------------------------------------------------------
(* All this holds of a new session ...                                     *)
LEMMA TurnInit ==
  IdleInit => Neat /\ Follows /\ Heard
<1> SUFFICES ASSUME IdleInit PROVE Neat /\ Follows /\ Heard
  OBVIOUS
<1>1. /\ toClient = <<>> /\ toServer = <<>> /\ wbuf = <<>> /\ pending = FALSE
      /\ broken = FALSE /\ rolledBack = FALSE /\ mode = "command"
      /\ phase = "none" /\ trouble = {}
  BY DEF IdleInit, Init, ServerInit
<1>2. Len(<<>>) = 0
  OBVIOUS
<1>3. Neat
  <2>1. Blocks
    BY <1>1, <1>2 DEF Blocks
  <2>2. Written /\ Unread /\ Made
    BY <1>1 DEF Written, Unread, Made
  <2>3. QED
    BY <2>1, <2>2, Zenon DEF Neat
<1>4. ~Astray /\ Free
  BY <1>1, <1>2 DEF Astray, Free, NoReply
<1>5. InTurn
  BY <1>1, <1>4 DEF InTurn, InSession
<1>6. Follows
  BY <1>4, <1>5, Zenon DEF Follows
<1>7. Heard
  BY <1>1 DEF Heard
<1>8. QED
  BY <1>3, <1>6, <1>7

(* ... and is kept.                                                        *)
LEMMA TurnStep ==
  Idling /\ Neat /\ Follows /\ Heard /\ [IdleNext]_idleVars => Neat' /\ Follows' /\ Heard'
<1> SUFFICES ASSUME Idling, Neat, Follows, Heard, [IdleNext]_idleVars
             PROVE  Neat' /\ Follows' /\ Heard'
  OBVIOUS
<1>1. DataOK /\ ServerTypeOK /\ IdleDataOK /\ Placed /\ HeardAsAnswered
  BY IdleTypeSplit, Zenon DEF Idling, Matched
<1>2. Written' /\ Unread' /\ Made'
  BY <1>1, WrittenStep, UnreadStep, MadeStep DEF Neat
<1>3. ~broken' => Blocks'
  BY <1>1, WholeStep DEF Neat
<1>4. QED
  BY <1>2, <1>3, FollowsStep, HeardAllStep DEF Neat

(* So all of it always holds.                                              *)
LEMMA TurnHolds == IdleSpec => [](Idling /\ Neat /\ Follows /\ Heard)
<1>1. IdleInit => Idling /\ Neat /\ Follows /\ Heard
  BY IdlingInit, TurnInit
<1>2. Idling /\ Neat /\ Follows /\ Heard /\ [IdleNext]_idleVars
        => (Idling /\ Neat /\ Follows /\ Heard)'
  BY IdlingStep, TurnStep
<1>3. QED
  BY <1>1, <1>2, PTL DEF IdleSpec

(* After a handle that was used once and met no trouble but renewals the   *)
(* server takes commands, owes no reply and was sent no DONE too many      *)
(* (terminate, Drop).                                                      *)
THEOREM AfterHandleInStep == IdleSpec => []InStepAfterHandle
<1>1. Idling /\ Neat /\ Follows /\ Heard => InStepAfterHandle
  <2> SUFFICES ASSUME Idling, Neat, Follows, Ordinary, phase = "none", pc = "ready", up
               PROVE  Unanswered = 0 /\ mode = "command"
    BY DEF InStepAfterHandle
  <2>1. DataOK
    BY IdleTypeSplit, Zenon DEF Idling
  <2>2. Quiet /\ ~Astray /\ "unsent" \notin trouble
    BY DEF Ordinary, Quiet, Astray
  <2>3. InTurn
    BY <2>2 DEF Follows
  <2>4. Free /\ wbuf = <<>>
    BY <2>2, <2>3 DEF InTurn, InSession, Neat, Written
  <2>5. Outgoing = <<>>
    <3>1. <<>> \o <<>> = <<>>
      OBVIOUS
    <3>2. QED
      BY <2>4, <3>1 DEF Outgoing, Free
  <2>6. TaggedAt(toClient) = {}
    <3>1. DOMAIN toClient = 1..Len(toClient)
      BY <2>1 DEF DataOK
    <3>2. QED
      BY <2>4, <3>1 DEF TaggedAt, Free, NoReply, IsReply
  <2>7. Cardinality(TaggedAt(toClient)) = 0 /\ Len(Outgoing) = 0
    BY <2>5, <2>6, FS_EmptySet
  <2>8. QED
    BY <2>1, <2>4, <2>7, UnansweredIs DEF Free
<1>2. QED
  BY <1>1, TurnHolds, PTL

(* Of a first handle, no DONE is sent to a server that does not idle, even *)
(* if a renewal timed out or a timeout cut a response: the flag `done'     *)
(* keeps drop from sending another.                                        *)
THEOREM DoneEndsIdling == IdleSpec => []DoneEndsAnIdle
<1>1. Idling /\ Neat /\ Follows /\ Heard => DoneEndsAnIdle
  <2> SUFFICES ASSUME Idling, Follows, made = 1, Quiet,
                      toServer # <<>>, Head(toServer) = DONE
               PROVE  mode = "continuing"
    BY DEF DoneEndsAnIdle, Quiet
  <2>1. DataOK /\ phase \in Phases /\ "ok" \in Statuses
    BY IdleTypeSplit DEF Idling, IdleDataOK, Statuses
  <2>2. InTurn
    BY DEF Follows
  <2>3. Loose
    <3>1. CASE phase = "none"
      BY <2>1, <2>2, <3>1, LooseFrom DEF InTurn, InSession
    <3>2. CASE phase = "held"
      BY <2>1, <2>2, <3>2, LooseFrom DEF InTurn, InHand
    <3>3. CASE phase = "init"
      BY <2>1, <2>2, <3>3, LooseFrom DEF InTurn, InInit
    <3>4. CASE phase = "wait"
      BY <2>1, <2>2, <3>4, LooseFrom DEF InTurn, InWait
    <3>5. CASE phase = "refresh"
      BY <2>1, <2>2, <3>5, LooseFrom DEF InTurn, InRefresh
    <3>6. CASE phase = "drop"
      BY <2>1, <2>2, <3>6, LooseFrom DEF InTurn, InDrop
    <3>7. QED
      BY <2>1, <3>1, <3>2, <3>3, <3>4, <3>5, <3>6 DEF Phases
  <2>4. Head(toServer) = toServer[1]
    BY <2>1 DEF DataOK
  <2>5. IsText(DONE)
    BY DEF DONE, Text, IsText
  <2>6. QED
    BY <2>3, <2>4, <2>5 DEF Loose
<1>2. QED
  BY <1>1, TurnHolds, PTL

(* A wait that is not renewed gives its callback every update it was sent  *)
(* while idling, or is about to read it (the loop of wait_inner).          *)
THEOREM WaitsMissNothing == IdleSpec => []WaitMissesNothing
<1>1. Idling /\ Neat /\ Follows /\ Heard => WaitMissesNothing
  BY DEF Heard, Unrenewed, WaitMissesNothing
<1>2. QED
  BY <1>1, TurnHolds, PTL
=============================================================================
