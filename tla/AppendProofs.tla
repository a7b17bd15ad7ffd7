---------------------------- MODULE AppendProofs ----------------------------
(***************************************************************************)
(* Proofs about Append: whatever came before, an APPEND that returns Ok    *)
(* has stored its message, and short of I/O errors and early updates each  *)
(* message that is stored is that of its APPEND.                           *)
(***************************************************************************)
EXTENDS Append, ConnectionProofs

-----------------------------------------------------------------------------
(* Every step is one of those ConnectionProofs knows.                      *)

(* The server that counts octets takes lines as the others do.             *)
LEMMA AppendServes ==
  ServeAppend => ServerTakes
<1>1. ASSUME TakeContent PROVE ServerTakes
  <2>1. \E s \in Statuses : Answers(request, s)
    <3>1. {"ok", "no"} \subseteq Statuses
      BY DEF Statuses
    <3>2. QED
      BY <1>1, <3>1, Zenon DEF TakeContent
  <2>2. QED
    BY <1>1, <2>1, Zenon DEF TakeContent, ServerTakes
<1>2. ASSUME TakeCommand PROVE ServerTakes
  <2>1. CASE UNCHANGED <<mode, toClient, answers, stored>>
    <3>1. UNCHANGED server
      BY <1>2, <2>1 DEF TakeCommand, server
    <3>2. QED
      BY <1>2, <2>1, <3>1, Zenon DEF TakeCommand, ServerTakes
  <2>2. CASE (Answers(request, "ok") \/ Answers(request, "bad")) /\ mode' = "command"
    <3>1. \E s \in Statuses : Answers(request, s)
      BY <2>2 DEF Statuses
    <3>2. QED
      BY <1>2, <2>2, <3>1, Zenon DEF TakeCommand, ServerTakes
  <2>3. QED
    BY <1>2, <2>1, <2>2, Zenon DEF TakeCommand
<1>3. QED
  BY <1>1, <1>2, ServeTakes, Zenon DEF ServeAppend

(* The client's dialogue reads a line and may send the message.            *)
LEMMA InviteTalks ==
  DataOK /\ ReadInvite => TalksOfCall
<1> SUFFICES ASSUME DataOK, ReadInvite PROVE TalksOfCall
  OBVIOUS
<1>1. call \in 0..call /\ pc \in {"ready", "reading"}
  BY Bounds DEF DataOK
<1>2. UNCHANGED <<wbuf, toServer>> \/ Send(Text(call)) \/ SendFails(Text(call))
  BY DEF ReadInvite, SendContent, ContentFails
<1>3. \/ UNCHANGED <<wbuf, toServer>>
      \/ \E i \in 0..call : Send(Text(i)) \/ SendFails(Text(i))
  BY <1>1, <1>2
<1>4. /\ UNCHANGED <<tag, chatter, call, answers, rolledBack, server, twoPart>>
      /\ broken => broken'
      /\ toClient # <<>> /\ toClient' = Tail(toClient)
      /\ pc = "reading"
  BY Zenon DEF ReadInvite
<1>5. \/ UNCHANGED <<pc, ret>>
      \/ Return("io", 0)
  BY DEF ReadInvite
<1>6. /\ ret' = ret \/ ret' \in {[outcome |-> o, by |-> 0] : o \in {"io", "append", "invalid"}}
      /\ pc' \in {"ready", "reading"}
  BY <1>1, <1>5 DEF Return
<1>7. QED
  BY <1>2, <1>3, <1>4, <1>6, Zenon DEF Talks, TalksOfCall

(* ... or gives up.                                                        *)
LEMMA RefusalTalks ==
  DataOK /\ ReadRefusal => TalksOfCall
<1> SUFFICES ASSUME DataOK, ReadRefusal PROVE TalksOfCall
  OBVIOUS
<1>1. /\ UNCHANGED <<tag, chatter, call, answers, rolledBack, server, twoPart, wbuf, toServer>>
      /\ broken => broken'
      /\ toClient # <<>> /\ toClient' = Tail(toClient)
  BY Zenon DEF ReadRefusal, history
<1>2. pc' = "ready" /\ ret' = [outcome |-> "append", by |-> 0]
  BY DEF ReadRefusal, Return
<1>3. /\ ret' \in {[outcome |-> o, by |-> 0] : o \in {"io", "append", "invalid"}}
      /\ pc' \in {"ready", "reading"} /\ pc' # "reading"
  BY <1>2
<1>4. QED
  BY <1>1, <1>3, Zenon DEF Talks, TalksOfCall

(* All steps together.                                                     *)
LEMMA AppendIsOrdered ==
  DataOK /\ AppendNext => OrderedStep
<1> SUFFICES ASSUME DataOK, AppendNext PROVE OrderedStep
  OBVIOUS
<1>1. CASE StartAppend
  <2>1. Issues
    BY <1>1, Zenon DEF StartAppend, RunTwoPart, FailTwoPart, Issues
  <2>2. QED
    BY <2>1 DEF OrderedStep
<1>2. CASE ReadInvite \/ ReadRefusal
  BY <1>2, InviteTalks, RefusalTalks DEF OrderedStep
<1>3. CASE ReadRest \/ AppendFails
  <2>1. Reads
    BY <1>3, Zenon DEF ReadRest, AppendFails, Reads
  <2>2. QED
    BY <2>1 DEF OrderedStep
<1>4. CASE OtherCommand
  <2>1. Issues \/ Reads
    BY <1>4, Zenon DEF OtherCommand, RunOnePart, Issues, Reads
  <2>2. QED
    BY <2>1 DEF OrderedStep
<1>5. CASE AppendServer
  <2>1. ServerTakes \/ Tells
    BY <1>5, AppendServes, AnnounceTells, LeaveTells, Zenon DEF AppendServer
  <2>2. QED
    BY <2>1 DEF OrderedStep
<1>6. QED
  BY <1>1, <1>2, <1>3, <1>4, <1>5, Zenon DEF AppendNext, AppendRead

-----------------------------------------------------------------------------
(* Types.                                                                  *)

(* The flags, for the connection's and for `early'.                        *)
LEMMA AppendFlags ==
  FlagsOK /\ early \in BOOLEAN /\ [AppendNext]_appendVars => FlagsOK' /\ early' \in BOOLEAN
<1> SUFFICES ASSUME FlagsOK, early \in BOOLEAN, [AppendNext]_appendVars
             PROVE  FlagsOK' /\ early' \in BOOLEAN
  OBVIOUS
<1>1. ASSUME [Next]_vars, UNCHANGED early PROVE FlagsOK' /\ early' \in BOOLEAN
  <2>1. early' \in BOOLEAN
    BY <1>1
  <2>2. QED
    BY <1>1, <2>1, FlagsStep
<1>2. CASE StartAppend
  BY <1>1, <1>2, Zenon DEF StartAppend, RunTwoPart, FailTwoPart, Next, Caller
<1>3. CASE ReadInvite
  BY <1>3, Zenon DEF ReadInvite, Return, FlagsOK
<1>4. CASE ReadRefusal
  <2>1. FlagsOK'
    BY <1>4, Zenon DEF ReadRefusal, Return, FlagsOK, history
  <2>2. early' \in BOOLEAN
    BY <1>4, Zenon DEF ReadRefusal
  <2>3. QED
    BY <2>1, <2>2
<1>5. CASE ReadRest
  BY <1>1, <1>5, Zenon DEF ReadRest, Next, Reader
<1>6. CASE AppendFails
  BY <1>1, <1>6, Zenon DEF AppendFails, Next, Reader
<1>7. CASE OtherCommand
  BY <1>1, <1>7, Zenon DEF OtherCommand, RunOnePart, Next, Caller, Reader, append
<1>8. CASE ServeAppend
  <2>1. UNCHANGED <<pending, up, rolledBack, broken, faulted>>
    <3>1. ServerTakes
      BY <1>8, AppendServes
    <3>2. QED
      BY <3>1, Zenon DEF ServerTakes, ClientSide, client
  <2>2. UNCHANGED early
    BY <1>8, Zenon DEF ServeAppend, TakeContent, TakeCommand, append
  <2>3. FlagsOK'
    BY <2>1, Zenon DEF FlagsOK
  <2>4. early' \in BOOLEAN
    BY <2>2
  <2>5. QED
    BY <2>3, <2>4
<1>9. CASE (Announce \/ Leave) /\ UNCHANGED append
  BY <1>9, Zenon DEF Announce, Leave, HangUp, FlagsOK, client, history, append
<1>10. CASE UNCHANGED appendVars
  BY <1>10, Zenon DEF appendVars, vars, client, wire, history, append, FlagsOK
<1>11. QED
  BY <1>2, <1>3, <1>4, <1>5, <1>6, <1>7, <1>8, <1>9, <1>10, Zenon
  DEF AppendNext, AppendRead, AppendServer

(* What Append adds to the data.                                           *)
AppendDataOK ==
    /\ phase \in {"none", "invite", "finish"}
    /\ stored \subseteq [asked : 1..MaxCalls, sent : 1..MaxCalls]
    /\ gaveUp \subseteq 1..MaxCalls

(* The parts of the type invariant.                                        *)
LEMMA AppendTypeSplit ==
  AppendTypeOK <=> /\ FlagsOK /\ early \in BOOLEAN
                   /\ DataOK /\ ServerTypeOK /\ AppendDataOK
  BY TypeSplit, Zenon DEF AppendTypeOK, AppendDataOK

-----------------------------------------------------------------------------
(* That Ok means stored.                                                   *)

(* An APPEND in progress is the call that reads.                           *)
InProgress == phase # "none" => pc = "reading" /\ call \in twoPart

(* What the server acknowledged to the present APPEND is that it stored    *)
(* the message of that APPEND.                                             *)
Acknowledged ==
    call \in twoPart /\ [id |-> call, status |-> "ok"] \in answers
        => [asked |-> call, sent |-> call] \in stored

(* The inductive invariant.                                                *)
Storing ==
    /\ AppendTypeOK /\ Matched /\ InCallOrder
    /\ InProgress /\ Acknowledged

(* What the server takes and stores belongs to calls that were made, the   *)
(* sender's being no earlier than the one that asked.                      *)
LEMMA TakenIsNumbered ==
  ASSUME DataOK, ServerTypeOK, Numbers, InCallOrder, mode = "continuing",
         TakeContent \/ TakeCommand
  PROVE  /\ request.id \in 1..call /\ Received.id \in 1..call
         /\ request.id <= Received.id
         /\ request.id \in twoPart /\ ~IsText(request)
<1>1. Takes /\ UNCHANGED wbuf
  BY Zenon DEF TakeContent, TakeCommand, ClientSide, client
<1>2. Received \in Range(Outgoing)
  BY <1>1, ReceivedIsFirst
<1>3. request.id \in twoPart /\ ~IsText(request) /\ twoPart \subseteq 1..call
  BY DEF Numbers
<1>4. request.id \in 1..call
  BY <1>3
<1>5. request.id <= Received.id /\ Received.id \in 0..call
  BY <1>2 DEF InCallOrder, Numbers
<1>6. call \in Nat
  BY Bounds DEF DataOK
<1>7. Received.id \in 1..call
  BY <1>4, <1>5, <1>6
<1>8. QED
  BY <1>3, <1>4, <1>5, <1>7

(* The data of Append keep their types.                                    *)
LEMMA AppendDataStep ==
  Storing /\ [AppendNext]_appendVars => AppendDataOK'
<1> SUFFICES ASSUME Storing, [AppendNext]_appendVars PROVE AppendDataOK'
  OBVIOUS
<1>0. /\ DataOK /\ ServerTypeOK /\ Numbers /\ InCallOrder /\ InProgress
      /\ phase \in {"none", "invite", "finish"}
      /\ stored \subseteq [asked : 1..MaxCalls, sent : 1..MaxCalls]
      /\ gaveUp \subseteq 1..MaxCalls
  BY AppendTypeSplit DEF Storing, Matched, AppendDataOK
<1>1. \A i \in 1..call : i \in 1..MaxCalls
  BY <1>0, Bounds DEF DataOK
<1>2. ASSUME UNCHANGED <<stored, gaveUp>>, phase' \in {"none", "invite", "finish"}
      PROVE  AppendDataOK'
  BY <1>0, <1>2 DEF AppendDataOK
<1>3. CASE StartAppend
  BY <1>0, <1>2, <1>3 DEF StartAppend
<1>4. CASE ReadInvite
  BY <1>0, <1>2, <1>4 DEF ReadInvite
<1>5. CASE ReadRefusal
  <2>1. call \in 1..call
    BY <1>0, <1>5 DEF InProgress, Numbers, ReadRefusal
  <2>2. phase' = "none" /\ UNCHANGED stored /\ gaveUp' = gaveUp \cup {call}
    BY <1>5 DEF ReadRefusal
  <2>3. QED
    BY <1>0, <1>1, <2>1, <2>2 DEF AppendDataOK
<1>6. CASE ReadRest
  BY <1>0, <1>2, <1>6 DEF ReadRest
<1>7. CASE AppendFails
  BY <1>0, <1>2, <1>7 DEF AppendFails
<1>8. CASE OtherCommand
  BY <1>0, <1>2, <1>8 DEF OtherCommand, append
<1>9. CASE TakeContent \/ TakeCommand
  <2>1. UNCHANGED <<phase, gaveUp>>
    BY <1>9 DEF TakeContent, TakeCommand
  <2>2. \/ UNCHANGED stored
        \/ /\ mode = "continuing"
           /\ stored' = stored \cup {[asked |-> request.id, sent |-> Received.id]}
    BY <1>9 DEF TakeContent, TakeCommand, Stores
  <2>3. mode = "continuing" => request.id \in 1..MaxCalls /\ Received.id \in 1..MaxCalls
    BY <1>0, <1>1, <1>9, TakenIsNumbered
  <2>4. QED
    BY <1>0, <2>1, <2>2, <2>3 DEF AppendDataOK
<1>10. CASE UNCHANGED append
  BY <1>0, <1>2, <1>10 DEF append
<1>11. CASE AppendServer
  BY <1>9, <1>10, <1>11, Zenon DEF AppendServer, ServeAppend
<1>12. CASE UNCHANGED appendVars
  BY <1>10, <1>12, Zenon DEF appendVars
<1>13. QED
  BY <1>3, <1>4, <1>5, <1>6, <1>7, <1>8, <1>11, <1>12, Zenon DEF AppendNext, AppendRead

(* finish runs inside the read of its own call.                            *)
LEMMA InProgressStep ==
  DataOK /\ DataOK' /\ InProgress /\ [AppendNext]_appendVars => InProgress'
<1> SUFFICES ASSUME DataOK, DataOK', InProgress, [AppendNext]_appendVars PROVE InProgress'
  OBVIOUS
<1>0. pc' \in {"ready", "reading"}
  BY DEF DataOK
<1>1. CASE StartAppend
  BY <1>1 DEF StartAppend, RunTwoPart, RunCommand, FailTwoPart, InProgress
<1>2. CASE ReadInvite
  BY <1>2 DEF ReadInvite, InProgress
<1>3. CASE ReadRefusal
  BY <1>3 DEF ReadRefusal, InProgress
<1>4. CASE ReadRest
  <2>1. UNCHANGED <<call, twoPart>> /\ phase' = IF pc' = "ready" THEN "none" ELSE phase
    BY <1>4 DEF ReadRest, ReadLine
  <2>2. QED
    BY <1>0, <1>4, <2>1 DEF InProgress, ReadRest
<1>5. CASE AppendFails
  BY <1>5 DEF AppendFails, InProgress
<1>6. CASE OtherCommand
  BY <1>6 DEF OtherCommand, append, InProgress
<1>7. CASE AppendServer
  <2>1. UNCHANGED phase
    BY <1>7, Zenon DEF AppendServer, ServeAppend, TakeContent, TakeCommand, append
  <2>2. UNCHANGED <<pc, call, twoPart>>
    BY <1>7, AppendServes, Zenon DEF AppendServer, ServerTakes, ClientSide, client, Announce,
                                     Leave, HangUp
  <2>3. QED
    BY <2>1, <2>2 DEF InProgress
<1>8. CASE UNCHANGED appendVars
  BY <1>8 DEF appendVars, vars, client, append, InProgress
<1>9. QED
  BY <1>1, <1>2, <1>3, <1>4, <1>5, <1>6, <1>7, <1>8, Zenon DEF AppendNext, AppendRead

(* The server acknowledges no APPEND whose message it did not store.       *)
LEMMA AcknowledgedStep ==
  Storing /\ [AppendNext]_appendVars => Acknowledged'
<1> SUFFICES ASSUME Storing, [AppendNext]_appendVars PROVE Acknowledged'
  OBVIOUS
<1>0. /\ DataOK /\ ServerTypeOK /\ Numbers /\ InCallOrder /\ Acknowledged
      /\ \A a \in answers : a.id \in 0..call
      /\ call \in Nat
  BY AppendTypeSplit, Bounds DEF Storing, Matched, Numbers, DataOK
<1>1. CASE UNCHANGED <<call, twoPart, answers, stored>>
  BY <1>0, <1>1 DEF Acknowledged
<1>2. CASE StartAppend \/ OtherCommand
  <2>1. UNCHANGED <<answers, stored>> /\ (call' = call + 1 \/ UNCHANGED <<call, twoPart>>)
    BY <1>2, Zenon DEF StartAppend, RunTwoPart, FailTwoPart, OtherCommand, RunOnePart,
                       RunCommand, RunCommandFails, ReadLine, ReadFails, ReadEof, history, append
  <2>2. CASE call' = call + 1
    <3>1. [id |-> call', status |-> "ok"] \notin answers'
      <4>1. SUFFICES ASSUME [id |-> call', status |-> "ok"] \in answers PROVE FALSE
        BY <2>1
      <4>2. [id |-> call', status |-> "ok"].id \in 0..call
        BY <1>0, <4>1
      <4>3. QED
        BY <1>0, <2>2, <4>2
    <3>2. QED
      BY <3>1 DEF Acknowledged
  <2>3. QED
    BY <1>1, <2>1, <2>2
<1>3. CASE ReadInvite \/ ReadRefusal \/ ReadRest \/ AppendFails
  BY <1>1, <1>3, Zenon DEF ReadInvite, ReadRefusal, ReadRest, AppendFails, ReadLine, ReadFails,
                           ReadEof, history
<1>4. CASE TakeContent \/ TakeCommand
  <2>1. UNCHANGED <<call, twoPart>>
    BY <1>4, Zenon DEF TakeContent, TakeCommand, ClientSide
  <2>2. \/ UNCHANGED <<answers, stored>>
        \/ /\ answers' = answers \cup {[id |-> request.id, status |-> "ok"]}
           /\ stored' = stored \cup {[asked |-> request.id, sent |-> Received.id]}
        \/ /\ \E s \in {"no", "bad"} : answers' = answers \cup {[id |-> request.id, status |-> s]}
           /\ UNCHANGED stored
    BY <1>4 DEF TakeContent, TakeCommand, Answers, Stores
  <2>3. /\ request.id \in 1..call /\ Received.id \in 1..call /\ request.id <= Received.id
    <3>1. mode = "continuing"
      BY <1>4, Zenon DEF TakeContent, TakeCommand
    <3>2. QED
      BY <1>0, <1>4, <3>1, TakenIsNumbered
  <2>4. request.id = call => Received.id = call
    BY <1>0, <2>3
  <2>5. CASE UNCHANGED <<answers, stored>>
    BY <1>1, <2>1, <2>5
  <2>6. CASE /\ answers' = answers \cup {[id |-> request.id, status |-> "ok"]}
             /\ stored' = stored \cup {[asked |-> request.id, sent |-> Received.id]}
    <3>1. CASE request.id = call
      BY <2>1, <2>4, <2>6, <3>1 DEF Acknowledged
    <3>2. CASE request.id # call
      <4>1. [id |-> call, status |-> "ok"] \in answers' => [id |-> call, status |-> "ok"] \in answers
        BY <2>6, <3>2
      <4>2. QED
        BY <1>0, <2>1, <2>6, <4>1 DEF Acknowledged
    <3>3. QED
      BY <3>1, <3>2
  <2>7. CASE /\ \E s \in {"no", "bad"} : answers' = answers \cup {[id |-> request.id, status |-> s]}
             /\ UNCHANGED stored
    <3>1. [id |-> call, status |-> "ok"] \in answers' => [id |-> call, status |-> "ok"] \in answers
      BY <2>7
    <3>2. QED
      BY <1>0, <2>1, <2>7, <3>1 DEF Acknowledged
  <2>8. QED
    BY <2>2, <2>5, <2>6, <2>7
<1>5. CASE Serve /\ UNCHANGED append
  <2>1. UNCHANGED <<call, twoPart, stored>>
    <3>1. UNCHANGED <<call, twoPart>>
      BY <1>5, ServeTakes, Zenon DEF ServerTakes, ClientSide
    <3>2. QED
      BY <1>5, <3>1 DEF append
  <2>2. \/ UNCHANGED answers
        \/ \E s \in Statuses : /\ s = "ok" => Received.id \notin twoPart
                               /\ answers' = answers \cup {[id |-> Received.id, status |-> s]}
    BY <1>5 DEF Serve, Invite, Refuse, ServeOnePart, RejectText, Answers, Statuses
  <2>3. call \in twoPart /\ [id |-> call, status |-> "ok"] \in answers'
            => [id |-> call, status |-> "ok"] \in answers
    BY <2>2
  <2>4. QED
    BY <1>0, <2>1, <2>3 DEF Acknowledged
<1>6. CASE (Announce \/ Leave) /\ UNCHANGED append
  BY <1>1, <1>6, Zenon DEF Announce, Leave, HangUp, history, append
<1>7. CASE UNCHANGED appendVars
  BY <1>1, <1>7, Zenon DEF appendVars, vars, history, append
<1>8. QED
  BY <1>2, <1>3, <1>4, <1>5, <1>6, <1>7, Zenon
  DEF AppendNext, AppendRead, AppendServer, ServeAppend

(* These facts are inductive.                                              *)
LEMMA StoringStep ==
  Storing /\ [AppendNext]_appendVars => Storing'
<1> SUFFICES ASSUME Storing, [AppendNext]_appendVars PROVE Storing'
  OBVIOUS
<1>0. /\ AppendTypeOK /\ Matched /\ InCallOrder /\ InProgress /\ Acknowledged
      /\ FlagsOK /\ early \in BOOLEAN /\ DataOK /\ ServerTypeOK /\ AppendDataOK
  BY AppendTypeSplit, Zenon DEF Storing
<1>1. DataOK' /\ ServerTypeOK' /\ Matched' /\ InCallOrder'
  <2>1. CASE AppendNext
    <3>1. OrderedStep /\ DialogueStep
      BY <1>0, <2>1, AppendIsOrdered, OrderedIsDialogue
    <3>2. QED
      BY <1>0, <3>1, DialogueData, MatchedStep, InCallOrderStep, Zenon DEF Matched
  <2>2. CASE UNCHANGED appendVars
    <3>1. OrderedStep /\ DialogueStep
      BY <1>0, <2>2, NothingTells DEF appendVars, server, OrderedStep, DialogueStep
    <3>2. QED
      BY <1>0, <3>1, DialogueData, MatchedStep, InCallOrderStep, Zenon DEF Matched
  <2>3. QED
    BY <2>1, <2>2
<1>2. FlagsOK' /\ early' \in BOOLEAN
  BY <1>0, AppendFlags
<1>3. AppendDataOK' /\ InProgress' /\ Acknowledged'
  BY <1>0, <1>1, AppendDataStep, InProgressStep, AcknowledgedStep
<1>4. AppendTypeOK'
  <2>1. TypeOK'
    BY <1>1, <1>2, Zenon DEF TypeOK, FlagsOK, DataOK
  <2>2. QED
    BY <1>1, <1>2, <1>3, <2>1, Zenon DEF AppendTypeOK, AppendDataOK
<1>5. QED
  BY <1>1, <1>3, <1>4, Zenon DEF Storing

(* They hold from the start, so that everything keeps its type ...         *)
LEMMA StoringHolds == AppendSpec => []Storing
<1>1. AppendInit => Storing
  <2> SUFFICES ASSUME AppendInit PROVE Storing
    OBVIOUS
  <2>1. Init /\ ServerInit
    BY DEF AppendInit
  <2>2. ServerTypeOK /\ Matched /\ DataOK
    BY <2>1, MatchedInit, InitData
  <2>3. FlagsOK /\ early \in BOOLEAN
    BY Zenon DEF AppendInit, Init, FlagsOK
  <2>4. phase = "none" /\ stored = {} /\ gaveUp = {} /\ twoPart = {} /\ mode = "command"
        /\ toServer = <<>> /\ wbuf = <<>>
    BY <2>1 DEF AppendInit, Init, ServerInit
  <2>5. AppendDataOK /\ InProgress /\ Acknowledged
    BY <2>4 DEF AppendDataOK, InProgress, Acknowledged
  <2>6. InCallOrder
    <3>1. Outgoing = <<>> /\ Len(<<>>) = 0
      <4>1. <<>> \o <<>> = <<>>
        OBVIOUS
      <4>2. QED
        BY <2>4, <4>1 DEF Outgoing
    <3>2. QED
      BY <2>4, <3>1 DEF InCallOrder, InOrderOfCall
  <2>7. AppendTypeOK
    BY <2>2, <2>3, <2>5, AppendTypeSplit
  <2>8. QED
    BY <2>2, <2>5, <2>6, <2>7 DEF Storing
<1>2. Storing /\ [AppendNext]_appendVars => Storing'
  BY StoringStep
<1>3. QED
  BY <1>1, <1>2, PTL DEF AppendSpec

(* ... in every behaviour of AppendCmd::finish among other commands, ...   *)
THEOREM AppendTypeCorrect == AppendSpec => []AppendTypeOK
<1>1. Storing => AppendTypeOK
  BY DEF Storing
<1>2. QED
  BY <1>1, StoringHolds, PTL

(* ... what a call returns is the answer to its command, APPEND or not,    *)
(* also when messages without a tag travel between the commands, ...       *)
THEOREM AppendReplyMatches == AppendSpec => []ReplyIsMine
<1>1. Storing => ReplyIsMine
  BY Zenon DEF Storing, Matched, ReplyIsOwn, ReplyIsMine
<1>2. QED
  BY <1>1, StoringHolds, PTL

(* ... and an APPEND that returns Ok has stored the message it was given.  *)
THEOREM OkStored == AppendSpec => []OkIsStored
<1>1. Storing => OkIsStored
  <2> SUFFICES ASSUME Storing, call \in twoPart, ret.outcome = "ok", ~broken
               PROVE  [asked |-> call, sent |-> call] \in stored
    BY Zenon DEF OkIsStored
  <2>1. [id |-> call, status |-> "ok"] \in answers
    BY Zenon DEF Storing, Matched, ReplyIsOwn
  <2>2. QED
    BY <2>1 DEF Storing, Acknowledged
<1>2. QED
  BY <1>1, StoringHolds, PTL

-----------------------------------------------------------------------------
(* Appends among which no I/O error occurred and no update came early.     *)

(* What is recorded belongs to calls that were made, and an APPEND in      *)
(* progress has not given up.                                              *)
Recorded ==
    /\ gaveUp \subseteq 1..call
    /\ \A m \in stored : m.asked \in 1..call
    /\ phase # "none" => call \notin gaveUp

(* finish is where the server believes it to be, ...                       *)
InDialogue ==
    /\ \A line \in Range(toClient) : line.kind = "plus" => phase = "invite"
    /\ up /\ toServer # <<>> => IF IsText(Received) THEN phase = "finish"
                                ELSE call \in twoPart => phase = "invite"

(* ... and each message was stored for its APPEND, which read the "+".     *)
Kept ==
    \A m \in stored :
        m.sent = m.asked /\ m.asked \notin gaveUp /\ (phase = "invite" => m.asked # call)

(* What holds of an APPEND without a fault or an early line.               *)
Calm == ~faulted /\ ~early => Steady /\ OwnTurn /\ InDialogue /\ Kept

(* The server then takes its turn.                                         *)
LEMMA AppendTurns ==
  ASSUME DataOK, Turn, OwnTurn, ServeAppend
  PROVE  TakesTurn /\ ~TakeCommand /\ ~RejectText
<1>0. Takes
  BY AppendServes DEF ServerTakes
<1>1. /\ \/ Received = Own /\ ~IsText(Received)
         \/ /\ Received = Text(call) /\ IsText(Received)
            /\ mode = "continuing" /\ request = Own
      /\ up /\ toServer # <<>>
  BY <1>0, AskedIsReceived DEF Takes
<1>2. ~TakeCommand
  BY <1>1 DEF TakeCommand, OwnTurn
<1>3. ~RejectText
  BY <1>1 DEF RejectText
<1>4. "ok" \in Statuses /\ "no" \in Statuses /\ "bad" \in Statuses
  BY DEF Statuses
<1>5. ASSUME TakeContent PROVE TakesTurn
  BY <1>4, <1>5, Zenon DEF TakeContent, TakesTurn
<1>6. ASSUME Invite PROVE TakesTurn
  <2>1. Plain("plus") \in {Plain("plus"), [Plain("plus") EXCEPT !.status = "bad"]}
    OBVIOUS
  <2>2. QED
    BY <1>6, <2>1, Zenon DEF Invite, TakesTurn
<1>7. ASSUME Refuse \/ ServeOnePart PROVE TakesTurn
  <2>1. \E s \in Statuses : Answers(Received, s)
    BY <1>4, <1>7 DEF Refuse, ServeOnePart
  <2>2. QED
    BY <1>7, <2>1, Zenon DEF Refuse, ServeOnePart, TakesTurn
<1>8. QED
  BY <1>2, <1>3, <1>5, <1>6, <1>7, Zenon DEF ServeAppend, Serve

(* What is recorded stays in bounds.                                       *)
LEMMA RecordedStep ==
  Storing /\ Recorded /\ [AppendNext]_appendVars => Recorded'
<1> SUFFICES ASSUME Storing, Recorded, [AppendNext]_appendVars PROVE Recorded'
  OBVIOUS
<1>0. DataOK /\ ServerTypeOK /\ Numbers /\ InCallOrder /\ InProgress /\ call \in Nat
  BY AppendTypeSplit, Bounds DEF Storing, Matched, DataOK
<1>1. ASSUME UNCHANGED <<stored, gaveUp>>,
             \/ UNCHANGED call /\ (phase' # "none" => phase # "none")
             \/ call' = call + 1
      PROVE  Recorded'
  <2>1. CASE UNCHANGED call /\ (phase' # "none" => phase # "none")
    BY <1>1, <2>1 DEF Recorded
  <2>2. CASE call' = call + 1
    <3>1. \A i \in 1..call : i \in 1..call' /\ i # call'
      BY <1>0, <2>2
    <3>2. QED
      BY <1>1, <3>1 DEF Recorded
  <2>3. QED
    BY <1>1, <2>1, <2>2
<1>2. CASE StartAppend
  BY <1>1, <1>2 DEF StartAppend, RunTwoPart, FailTwoPart, RunCommand, RunCommandFails
<1>3. CASE ReadInvite
  BY <1>1, <1>3 DEF ReadInvite
<1>4. CASE ReadRefusal
  <2>1. call \in 1..call
    BY <1>0, <1>4 DEF InProgress, Numbers, ReadRefusal
  <2>2. phase' = "none" /\ UNCHANGED <<stored, call>> /\ gaveUp' = gaveUp \cup {call}
    BY <1>4 DEF ReadRefusal
  <2>3. QED
    BY <2>1, <2>2 DEF Recorded
<1>5. CASE ReadRest
  BY <1>1, <1>5 DEF ReadRest, ReadLine
<1>6. CASE AppendFails
  BY <1>1, <1>6 DEF AppendFails, ReadFails, ReadEof
<1>7. CASE OtherCommand
  BY <1>1, <1>7 DEF OtherCommand, RunOnePart, RunCommand, RunCommandFails, ReadLine, ReadFails,
                    ReadEof, append
<1>8. CASE TakeContent \/ TakeCommand
  <2>1. UNCHANGED <<phase, gaveUp, call>>
    BY <1>8, Zenon DEF TakeContent, TakeCommand, ClientSide
  <2>2. \/ UNCHANGED stored
        \/ stored' = stored \cup {[asked |-> request.id, sent |-> Received.id]}
    BY <1>8 DEF TakeContent, TakeCommand, Stores
  <2>3. request.id \in 1..call
    <3>1. mode = "continuing"
      BY <1>8, Zenon DEF TakeContent, TakeCommand
    <3>2. QED
      BY <1>0, <1>8, <3>1, TakenIsNumbered
  <2>4. QED
    BY <2>1, <2>2, <2>3 DEF Recorded
<1>9. CASE (Serve \/ Announce \/ Leave) /\ UNCHANGED append
  <2>1. UNCHANGED call
    BY <1>9, ServeTakes, Zenon DEF ServerTakes, ClientSide, Announce, Leave, HangUp
  <2>2. QED
    BY <1>1, <1>9, <2>1 DEF append
<1>10. CASE UNCHANGED appendVars
  BY <1>1, <1>10 DEF appendVars, vars, append
<1>11. QED
  BY <1>2, <1>3, <1>4, <1>5, <1>6, <1>7, <1>8, <1>9, <1>10, Zenon
  DEF AppendNext, AppendRead, AppendServer, ServeAppend

(* The calm is not disturbed by the commands that are issued, ...          *)
LEMMA CalmIssued ==
  ASSUME Storing, Recorded, Steady, OwnTurn, InDialogue, Kept,
         \/ StartAppend /\ RunTwoPart
         \/ OtherCommand /\ RunOnePart
  PROVE  Steady' /\ OwnTurn' /\ InDialogue' /\ Kept'
<1>0. /\ DataOK /\ FlagsOK /\ ServerTypeOK /\ Numbers /\ wbuf = <<>> /\ Turn
      /\ call \in Nat /\ toClient \in Seq(Line)
  <2>1. DataOK /\ FlagsOK /\ ServerTypeOK /\ Numbers /\ wbuf = <<>> /\ Turn
    BY AppendTypeSplit, Zenon DEF Storing, Matched, Steady, Still
  <2>2. QED
    BY <2>1, Bounds DEF DataOK
<1>1. RunCommand /\ UNCHANGED server
  BY Zenon DEF StartAppend, RunTwoPart, OtherCommand, RunOnePart
<1>2. Steady' /\ OwnTurn'
  BY <1>0, <1>1, SteadyIssued, OwnIssued
<1>3. /\ NoReply(toClient) /\ UNCHANGED toClient
      /\ call' = call + 1
  BY <1>0, <1>1 DEF Turn, Rest, Asked, Told, RunCommand, CanIssue
<1>4. \A line \in Range(toClient') : line.kind # "plus"
  BY <1>0, <1>3, NoneIsReply DEF IsReply
<1>5. up' /\ toServer' # <<>> => ~IsText(Received)'
  <2>1. up' => toServer = <<>>
    BY <1>0, <1>1 DEF Turn, Rest, Asked, Told, RunCommand, CanIssue
  <2>2. Append(<<>>, NewCommand) = <<NewCommand>> /\ <<>> \o <<NewCommand>> = <<NewCommand>>
    OBVIOUS
  <2>3. up' => toServer' = <<NewCommand>>
    BY <1>0, <1>1, <2>1, <2>2 DEF RunCommand, Send
  <2>4. Head(<<NewCommand>>) = NewCommand /\ ~IsText(NewCommand)
    BY <1>0, NewIsNumbered
  <2>5. QED
    BY <2>3, <2>4 DEF Received, IsText
<1>6. CASE StartAppend /\ RunTwoPart
  <2>1. UNCHANGED <<stored, gaveUp>> /\ phase' = "invite"
    BY <1>3, <1>6 DEF StartAppend, FailTwoPart, RunTwoPart, RunCommand, RunCommandFails, Return
  <2>2. InDialogue'
    BY <1>4, <1>5, <2>1 DEF InDialogue
  <2>3. \A m \in stored : m.asked # call'
    BY <1>0, <1>3 DEF Recorded
  <2>4. QED
    BY <1>2, <2>1, <2>2, <2>3 DEF Kept
<1>7. CASE OtherCommand /\ RunOnePart
  <2>1. UNCHANGED <<stored, gaveUp, phase, twoPart>> /\ phase = "none"
    BY <1>7, Zenon DEF OtherCommand, RunOnePart, append
  <2>2. call' \notin twoPart'
    BY <1>0, <1>3, <2>1 DEF Numbers
  <2>3. InDialogue'
    BY <1>4, <1>5, <2>2 DEF InDialogue
  <2>4. QED
    BY <1>2, <2>1, <2>3 DEF Kept
<1>8. QED
  BY <1>6, <1>7

(* ... nor by the lines finish reads ...                                   *)
LEMMA CalmTalked ==
  ASSUME Storing, Recorded, Steady, OwnTurn, InDialogue, Kept,
         ReadInvite \/ ReadRefusal, ~faulted', ~early'
  PROVE  Steady' /\ OwnTurn' /\ InDialogue' /\ Kept'
<1>0. /\ DataOK /\ FlagsOK /\ wbuf = <<>> /\ Turn /\ toClient \in Seq(Line)
      /\ (pending <=> toClient # <<>> /\ Continues(toClient[1]))
  BY AppendTypeSplit, Zenon DEF Storing, DataOK, Steady, Still, Blocks
<1>1. toClient # <<>> /\ toClient' = Tail(toClient) /\ Head(toClient) = toClient[1]
      /\ pc = "reading" /\ phase = "invite"
  BY DEF ReadInvite, ReadRefusal
<1>2. ~toClient[1].lit
  <2>1. toClient[1] \in Range(toClient)
    BY <1>0, <1>1 DEF Range
  <2>2. QED
    BY <2>1 DEF Storing, Matched, HeardAsAnswered
<1>3. ASSUME IsReply(toClient[1])
      PROVE  /\ ~Opens(toClient[1]) /\ ~pending /\ toServer = <<>> /\ NoReply(toClient')
             /\ \A line \in Range(toClient') : line.kind # "plus"
  <2>1. ~Opens(toClient[1]) /\ ~Continues(toClient[1])
    BY <1>2, <1>3 DEF IsReply, IsTagged, Opens, Continues
  <2>2. toServer = <<>> /\ NoReply(Tail(toClient))
    BY <1>0, <1>1, <1>3, ReplyHeard
  <2>3. \A line \in Range(toClient') : ~IsReply(line)
    <3>1. Tail(toClient) \in Seq(Line)
      BY <1>0, <1>1
    <3>2. QED
      BY <1>1, <2>2, <3>1, NoneIsReply
  <2>4. QED
    BY <1>0, <1>1, <2>1, <2>2, <2>3 DEF IsReply
<1>4. CASE ReadInvite
  <2>1. toClient[1].kind = "plus"
    BY <1>1, <1>4 DEF ReadInvite, Invites
  <2>2. /\ UNCHANGED <<tag, up, call, broken, rolledBack, mode, request, twoPart, stored, gaveUp>>
        /\ Send(Text(call)) /\ phase' = "finish" /\ UNCHANGED <<pc, pending>>
    BY <1>4, Zenon DEF ReadInvite, SendContent, server
  <2>3. Steady' /\ OwnTurn'
    BY <1>0, <1>1, <1>2, <2>1, <2>2, SteadyWritten, OwnWritten
  <2>4. IsText(Received)'
    <3>1. Append(<<>>, Text(call)) = <<Text(call)>> /\ <<>> \o <<Text(call)>> = <<Text(call)>>
      OBVIOUS
    <3>2. toServer' = <<Text(call)>>
      BY <1>0, <1>3, <2>1, <2>2, <3>1 DEF Send, IsReply
    <3>3. Head(<<Text(call)>>) = Text(call) /\ Text(call).tag = 0
      BY DEF Text
    <3>4. QED
      BY <3>2, <3>3 DEF Received, IsText
  <2>5. InDialogue'
    BY <1>3, <2>1, <2>2, <2>4 DEF InDialogue, IsReply
  <2>6. Kept'
    BY <2>2 DEF Kept
  <2>7. QED
    BY <2>3, <2>5, <2>6
<1>5. CASE ReadRefusal
  <2>1. IsTagged(toClient[1])
    BY <1>1, <1>5, Zenon DEF ReadRefusal
  <2>2. /\ UNCHANGED <<tag, wbuf, toServer, up, call, broken, rolledBack, mode, request, stored>>
        /\ phase' = "none" /\ gaveUp' = gaveUp \cup {call} /\ pc' = "ready" /\ pending' = FALSE
    BY <1>5, Zenon DEF ReadRefusal, server, history, Return
  <2>3. /\ IsReply(toClient[1]) /\ toClient[1].kind # "plus"
    BY <2>1 DEF IsReply, IsTagged
  <2>4. Steady'
    BY <1>0, <1>1, <1>3, <2>2, <2>3, SteadyTaken
  <2>5. OwnTurn'
    BY <1>0, <1>1, <2>1, <2>2, <2>3, OwnTaken
  <2>6. InDialogue'
    BY <1>3, <2>2, <2>3 DEF InDialogue
  <2>7. Kept'
    BY <1>1, <2>2 DEF Kept
  <2>8. QED
    BY <2>4, <2>5, <2>6, <2>7
<1>6. QED
  BY <1>4, <1>5

(* ... or read_response does, ...                                          *)
LEMMA CalmRead ==
  ASSUME Storing, Steady, OwnTurn, InDialogue, Kept,
         \/ ReadRest \/ (AppendFails /\ ReadEof)
         \/ OtherCommand /\ (ReadLine \/ ReadEof)
  PROVE  Steady' /\ OwnTurn' /\ InDialogue' /\ Kept'
<1>0. /\ DataOK /\ FlagsOK /\ Turn /\ Blocks /\ toClient \in Seq(Line) /\ InProgress
  BY AppendTypeSplit, Zenon DEF Storing, DataOK, Steady
<1>1. UNCHANGED <<mode, request, twoPart, stored, gaveUp>>
  BY Zenon DEF ReadRest, AppendFails, OtherCommand, append, server, RunOnePart
<1>2. /\ phase' # "invite"
      /\ ReadLine => phase # "invite"
  BY DEF ReadRest, AppendFails, ReadEof, Return, ReadLine, OtherCommand, append
<1>3. Kept'
  BY <1>1, <1>2 DEF Kept
<1>4. CASE ReadLine
  <2>0. \A line \in Range(toClient) : line.kind # "plus"
    BY <1>2, <1>4 DEF InDialogue
  <2>1. /\ toClient # <<>> /\ toClient' = Tail(toClient) /\ Head(toClient) = toClient[1]
        /\ UNCHANGED <<tag, call, wbuf, toServer, up>> /\ pc = "reading"
    BY <1>0, <1>4 DEF ReadLine
  <2>2. pc' = pc \/ IsTagged(toClient[1])
    BY <1>0, <1>4, ReadInBlocks, Zenon
  <2>3. Range(toClient) = {toClient[1]} \cup Range(toClient')
    BY <1>0, <2>1, RangeHeadTail
  <2>4. toClient[1].kind # "plus"
    BY <2>0, <2>3
  <2>5. Steady'
    BY <1>0, <1>1, <1>4, SteadyRead
  <2>6. OwnTurn'
    BY <1>0, <1>1, <2>1, <2>2, <2>4, OwnTaken
  <2>7. CASE IsTagged(toClient[1])
    <3>1. toServer' = <<>>
      BY <1>0, <2>1, <2>7, ReplyHeard DEF IsReply
    <3>2. InDialogue'
      BY <2>0, <2>3, <3>1 DEF InDialogue
    <3>3. QED
      BY <1>3, <2>5, <2>6, <3>2
  <2>8. CASE pc' = pc
    <3>1. phase' = phase
      BY <2>1, <2>8 DEF ReadRest, AppendFails, ReadEof, Return, OtherCommand, append
    <3>2. Received' = Received /\ (up' <=> up) /\ UNCHANGED <<toServer, call, twoPart>>
      BY <1>1, <2>1 DEF Received
    <3>3. InDialogue'
      BY <2>0, <2>3, <3>1, <3>2 DEF InDialogue, IsText
    <3>4. QED
      BY <1>3, <2>5, <2>6, <3>3
  <2>9. QED
    BY <2>2, <2>7, <2>8
<1>5. CASE ReadEof
  <2>1. ~up' /\ \A line \in Range(toClient') : FALSE
    <3>1. ~up' /\ toClient' = <<>>
      BY <1>5, Zenon DEF ReadEof, wire
    <3>2. DOMAIN <<>> = {}
      OBVIOUS
    <3>3. QED
      BY <3>1, <3>2 DEF Range
  <2>2. InDialogue'
    BY <2>1 DEF InDialogue
  <2>3. Steady' /\ OwnTurn'
    BY <1>0, <1>1, <1>5, SteadyEof, OwnEof
  <2>4. QED
    BY <1>3, <2>2, <2>3
<1>7. QED
  BY <1>4, <1>5, Zenon DEF ReadRest

(* ... or by the server, ...                                               *)
LEMMA CalmServed ==
  ASSUME Storing, Recorded, Steady, OwnTurn, InDialogue, Kept, ServeAppend
  PROVE  Steady' /\ OwnTurn' /\ InDialogue' /\ Kept'
<1>0. /\ DataOK /\ FlagsOK /\ ServerTypeOK /\ Numbers /\ Turn /\ toClient \in Seq(Line)
      /\ request \in Command
  BY AppendTypeSplit, Zenon DEF Storing, Matched, DataOK, Steady, ServerTypeOK
<1>1. TakesTurn /\ ~TakeCommand /\ ~RejectText /\ Takes
  BY <1>0, AppendTurns, Zenon DEF TakesTurn
<1>2. Steady' /\ OwnTurn'
  BY <1>0, <1>1, SteadyServed, OwnServed
<1>3. /\ toServer' = <<>> /\ up /\ toServer # <<>> /\ NoReply(toClient)
      /\ \/ Received = Own /\ ~IsText(Received)
         \/ /\ Received = Text(call) /\ IsText(Received)
            /\ mode = "continuing" /\ request = Own
  BY <1>0, <1>1, AskedIsReceived DEF Takes
<1>4. UNCHANGED <<phase, gaveUp>>
  BY <1>1, Zenon DEF ServeAppend, TakeContent, append
<1>5. ASSUME NEW c \in Command, NEW s \in Statuses, Answers(c, s) PROVE InDialogue'
  <2>1. Range(toClient') = Range(toClient) \cup {DoneLine(c.tag, s, c.id)}
    BY <1>0, <1>5, AnswersAreLines, RangeAppend DEF Answers, Sends
  <2>2. DoneLine(c.tag, s, c.id).kind # "plus"
    BY DEF DoneLine
  <2>3. QED
    BY <1>3, <1>4, <2>1, <2>2 DEF InDialogue
<1>6. Received \in Command /\ {"ok", "no", "bad"} \subseteq Statuses
  BY <1>0, <1>1, ReceivedIsFirst, Zenon DEF TakesTurn, ClientSide, client, Statuses
<1>7. CASE TakeContent
  <2>1. InDialogue'
    BY <1>0, <1>5, <1>6, <1>7 DEF TakeContent
  <2>2. request.id = call /\ Received.id = call /\ phase = "finish"
    BY <1>3, <1>7 DEF TakeContent, InDialogue, Own, Text
  <2>3. stored' \subseteq stored \cup {[asked |-> call, sent |-> call]}
    BY <1>7, <2>2 DEF TakeContent, Stores
  <2>4. call \notin gaveUp
    BY <2>2 DEF Recorded
  <2>5. Kept'
    <3>1. phase' # "invite" /\ gaveUp' = gaveUp
      BY <1>4, <2>2
    <3>2. \A m \in stored' : m \in stored \/ m = [asked |-> call, sent |-> call]
      BY <2>3
    <3>3. QED
      BY <2>4, <3>1, <3>2 DEF Kept
  <2>6. QED
    BY <1>2, <2>1, <2>5
<1>8. CASE Serve /\ UNCHANGED append
  <2>1. Kept'
    <3>1. UNCHANGED <<stored, gaveUp, phase, call>>
      BY <1>1, <1>8, Zenon DEF append, TakesTurn, ClientSide
    <3>2. QED
      BY <3>1 DEF Kept
  <2>2. CASE Invite
    <3>1. call \in twoPart /\ ~IsText(Received)
      BY <1>3, <2>2 DEF Invite, Own
    <3>2. phase' = "invite"
      BY <1>3, <1>4, <3>1 DEF InDialogue
    <3>3. QED
      BY <1>2, <1>3, <2>1, <3>2 DEF InDialogue
  <2>3. CASE Refuse \/ ServeOnePart
    <3>1. \E s \in Statuses : Answers(Received, s)
      BY <1>6, <2>3 DEF Refuse, ServeOnePart
    <3>2. QED
      BY <1>2, <1>5, <1>6, <2>1, <3>1
  <2>4. QED
    BY <1>1, <1>8, <2>2, <2>3, Zenon DEF Serve
<1>9. QED
  BY <1>1, <1>7, <1>8, Zenon DEF ServeAppend

(* ... so that it lasts until an I/O error or an early update, of which    *)
(* there is no way back.                                                   *)
LEMMA AppendForGood ==
  [AppendNext]_appendVars => (faulted => faulted') /\ (early => early')
<1> SUFFICES ASSUME [AppendNext]_appendVars PROVE (faulted => faulted') /\ (early => early')
  OBVIOUS
<1>1. ASSUME RunCommand \/ RunCommandFails \/ ReadLine \/ ReadFails \/ ReadEof, UNCHANGED early
      PROVE  (faulted => faulted') /\ (early => early')
  <2>1. faulted => faulted'
    BY <1>1, FaultedForGood, Zenon DEF Next, Caller, Reader
  <2>2. early => early'
    BY <1>1
  <2>3. QED
    BY <2>1, <2>2
<1>2. CASE StartAppend
  BY <1>1, <1>2, Zenon DEF StartAppend, RunTwoPart, FailTwoPart
<1>3. CASE ReadInvite
  <2>1. UNCHANGED faulted \/ faulted'
    BY <1>3, Zenon DEF ReadInvite
  <2>2. UNCHANGED early
    BY <1>3, Zenon DEF ReadInvite
  <2>3. QED
    BY <2>1, <2>2
<1>4. CASE ReadRefusal
  BY <1>4, Zenon DEF ReadRefusal, history
<1>5. CASE ReadRest \/ AppendFails
  BY <1>1, <1>5, Zenon DEF ReadRest, AppendFails
<1>6. CASE OtherCommand
  BY <1>1, <1>6, Zenon DEF OtherCommand, RunOnePart, append
<1>7. CASE ServeAppend
  <2>1. UNCHANGED faulted
    BY <1>7, AppendServes, Zenon DEF ServerTakes, ClientSide
  <2>2. UNCHANGED early
    BY <1>7, Zenon DEF ServeAppend, TakeContent, TakeCommand, append
  <2>3. QED
    BY <2>1, <2>2
<1>8. CASE (Announce \/ Leave) /\ UNCHANGED append
  <2>1. UNCHANGED faulted
    BY <1>8, Zenon DEF Announce, Leave, HangUp, history
  <2>2. UNCHANGED early
    BY <1>8, Zenon DEF append
  <2>3. QED
    BY <2>1, <2>2
<1>9. CASE UNCHANGED appendVars
  BY <1>9, Zenon DEF appendVars, vars, history, append
<1>10. QED
  BY <1>2, <1>3, <1>4, <1>5, <1>6, <1>7, <1>8, <1>9, Zenon
  DEF AppendNext, AppendRead, AppendServer

(* Calm: each step keeps client and server in one phase of one APPEND.     *)
LEMMA CalmStep ==
  Storing /\ Recorded /\ Calm /\ [AppendNext]_appendVars => Calm'
<1> SUFFICES ASSUME Storing, Recorded, Calm, [AppendNext]_appendVars, ~faulted', ~early'
             PROVE  Steady' /\ OwnTurn' /\ InDialogue' /\ Kept'
  BY Zenon DEF Calm
<1>0. DataOK /\ FlagsOK
  BY AppendTypeSplit, Zenon DEF Storing
<1>1. Steady /\ OwnTurn /\ InDialogue /\ Kept
  BY AppendForGood, Zenon DEF Calm
<1>2. CASE StartAppend
  <2>1. ~FailTwoPart
    BY Zenon DEF FailTwoPart, RunCommandFails
  <2>2. RunTwoPart
    BY <1>2, <2>1, Zenon DEF StartAppend
  <2>3. QED
    BY <1>1, <1>2, <2>2, CalmIssued
<1>3. CASE ReadInvite \/ ReadRefusal
  BY <1>1, <1>3, CalmTalked
<1>4. CASE ReadRest
  BY <1>1, <1>4, CalmRead
<1>5. CASE AppendFails
  <2>1. ReadEof
    BY <1>5, Zenon DEF AppendFails, ReadFails
  <2>2. QED
    BY <1>1, <1>5, <2>1, CalmRead
<1>6. CASE OtherCommand
  <2>1. RunOnePart \/ ReadLine \/ ReadEof
    BY <1>6, Zenon DEF OtherCommand, RunCommandFails, ReadFails
  <2>2. QED
    BY <1>1, <1>6, <2>1, CalmIssued, CalmRead
<1>7. CASE ServeAppend
  BY <1>1, <1>7, CalmServed
<1>8. ASSUME Announce \/ Leave \/ UNCHANGED <<vars, server>>, UNCHANGED append, UNCHANGED twoPart
      PROVE  Steady' /\ OwnTurn' /\ InDialogue' /\ Kept'
  <2>1. Steady' /\ OwnTurn'
    BY <1>0, <1>1, <1>8, SteadyTold, OwnTold
  <2>2. UNCHANGED <<call, toServer>> /\ (up' => up)
    <3>1. CASE Announce \/ Leave
      BY <3>1, Zenon DEF Announce, Leave, HangUp
    <3>2. CASE UNCHANGED <<vars, server>>
      <4>1. UNCHANGED vars
        BY <3>2
      <4>2. QED
        BY <4>1, Zenon DEF vars, wire
    <3>3. QED
      BY <1>8, <3>1, <3>2
  <2>3. UNCHANGED <<phase, stored, gaveUp, twoPart>>
    BY <1>8 DEF append
  <2>4. \A line \in Range(toClient') : line.kind = "plus" => phase' = "invite"
    BY <1>0, <1>1, <1>8, <2>3, NoPlusTold DEF InDialogue
  <2>5. InDialogue'
    <3>1. Received' = Received
      BY <2>2 DEF Received
    <3>2. QED
      BY <1>1, <2>2, <2>3, <2>4, <3>1 DEF InDialogue, IsText
  <2>6. Kept'
    BY <1>1, <2>2, <2>3 DEF Kept
  <2>7. QED
    BY <2>1, <2>5, <2>6
<1>9. CASE (Announce \/ Leave) /\ UNCHANGED append
  BY <1>8, <1>9, Zenon DEF Announce, Leave
<1>10. CASE UNCHANGED appendVars
  BY <1>8, <1>10 DEF appendVars
<1>11. QED
  BY <1>2, <1>3, <1>4, <1>5, <1>6, <1>7, <1>9, <1>10, Zenon
  DEF AppendNext, AppendRead, AppendServer

(* It holds from the start.                                                *)
LEMMA CalmHolds == AppendSpec => [](Storing /\ Recorded /\ Calm)
<1>1. AppendInit => Recorded /\ Calm
  <2> SUFFICES ASSUME AppendInit PROVE Recorded /\ Calm
    OBVIOUS
  <2>1. /\ Init /\ ServerInit /\ phase = "none" /\ stored = {} /\ gaveUp = {}
        /\ toClient = <<>> /\ toServer = <<>>
    BY DEF AppendInit, Init
  <2>2. Steady /\ OwnTurn
    BY <2>1, SteadyInit
  <2>3. Recorded /\ Kept
    BY <2>1 DEF Recorded, Kept
  <2>4. InDialogue
    <3>1. DOMAIN <<>> = {}
      OBVIOUS
    <3>2. QED
      BY <2>1, <3>1 DEF InDialogue, Range
  <2>5. QED
    BY <2>2, <2>3, <2>4 DEF Calm
<1>2. Storing /\ Recorded /\ Calm /\ [AppendNext]_appendVars => Recorded' /\ Calm'
  BY RecordedStep, CalmStep
<1>3. QED
  BY <1>1, <1>2, StoringHolds, PTL DEF AppendSpec

(* As long as no call failed for an I/O error and no update came before    *)
(* the "+", every message the server stored is that of the APPEND it was   *)
(* stored for, and that APPEND did not return Error::Append, ...           *)
THEOREM StoredMine == AppendSpec => []StoredIsMine
<1>1. Calm => StoredIsMine
  BY Zenon DEF Calm, Kept, StoredIsMine
<1>2. QED
  BY <1>1, CalmHolds, PTL

(* ... and between two calls the server waits for a command, all others    *)
(* being answered and their answers read.                                  *)
THEOREM AppendInStep == AppendSpec => []InStepAfterAppend
<1>1. Storing /\ Calm => InStepAfterAppend
  <2> SUFFICES ASSUME Storing, Calm, ~faulted, ~early, pc = "ready", up
               PROVE  Unanswered = 0 /\ mode = "command"
    BY Zenon DEF InStepAfterAppend
  <2>1. DataOK /\ ServerTypeOK
    BY AppendTypeSplit, Zenon DEF Storing
  <2>2. Steady /\ OwnTurn
    BY Zenon DEF Calm
  <2>3. Unanswered = 0
    BY <2>1, <2>2, SteadyInStep
  <2>4. mode = "command"
    BY <2>1, <2>2 DEF OwnTurn, ServerTypeOK
  <2>5. QED
    BY <2>3, <2>4
<1>2. QED
  BY <1>1, CalmHolds, PTL
=============================================================================
