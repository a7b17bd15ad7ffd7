----------------------------- MODULE LoginProofs -----------------------------
(***************************************************************************)
(* Proofs about Login: whatever was tried before, the call that makes a    *)
(* Session of a Client is one whose credentials the server accepted. Short *)
(* of I/O errors and stray literals no Client is handed back logged in,    *)
(* and with an orderly server the connection stays in step.                *)
(***************************************************************************)
EXTENDS Login, ConnectionProofs

-----------------------------------------------------------------------------
(* Every step is one of those ConnectionProofs knows.                      *)

(* The server of a login takes lines as the others do.                     *)
LEMMA LoginServes ==
  ServeLogin => ServerTakes
<1>0. /\ Challenge \in Remarks /\ Garbled \in Remarks
      /\ {"ok", "no"} \subseteq Statuses /\ "bad" \in Statuses
  BY DEF Challenge, Garbled, Remarks, Statuses
<1>1. ASSUME SendsChallenge, UNCHANGED answers
      PROVE  \E line \in Remarks : Sends(line) /\ UNCHANGED answers
  BY <1>0, <1>1, Zenon DEF SendsChallenge
<1>2. ASSUME InviteResponse PROVE ServerTakes
  BY <1>1, <1>2, Zenon DEF InviteResponse, ServerTakes
<1>3. ASSUME TakeResponse PROVE ServerTakes
  <2>1. CASE SendsChallenge /\ UNCHANGED <<mode, answers, accepted>>
    <3>1. UNCHANGED server
      BY <1>3, <2>1 DEF TakeResponse, server
    <3>2. QED
      BY <1>1, <1>3, <2>1, <3>1, Zenon DEF TakeResponse, ServerTakes
  <2>2. CASE mode' = "command" /\ \E s \in {"ok", "no"} : Answers(request, s)
    <3>1. \E s \in Statuses : Answers(request, s)
      BY <1>0, <2>2, Zenon
    <3>2. QED
      BY <1>3, <2>2, <3>1, Zenon DEF TakeResponse, ServerTakes
  <2>3. QED
    BY <1>3, <2>1, <2>2, Zenon DEF TakeResponse
<1>4. ASSUME TakeCommand PROVE ServerTakes
  BY <1>0, <1>4, Zenon DEF TakeCommand, ServerTakes
<1>5. ASSUME ServeLine PROVE ServerTakes
  BY <1>5, ServeTakes, Zenon DEF ServeLine, Serve
<1>6. QED
  BY <1>2, <1>3, <1>4, <1>5, ServeTakes, Zenon DEF ServeLogin, Serve

(* The loop of do_auth_handshake reads a line and may answer it.           *)
LEMMA ShakeTalks ==
  DataOK /\ (SkipComment \/ Respond \/ GiveUp) => TalksOfCall
<1> SUFFICES ASSUME DataOK, SkipComment \/ Respond \/ GiveUp PROVE TalksOfCall
  OBVIOUS
<1>1. call \in 0..call /\ pc \in {"ready", "reading"} /\ pc = "reading"
  BY Bounds DEF DataOK, SkipComment, Respond, GiveUp
<1>2. UNCHANGED <<wbuf, toServer>> \/ Send(Text(call)) \/ SendFails(Text(call))
  BY Zenon DEF SkipComment, Respond, GiveUp, client
<1>3. \/ UNCHANGED <<wbuf, toServer>>
      \/ \E i \in 0..call : Send(Text(i)) \/ SendFails(Text(i))
  BY <1>1, <1>2
<1>4. /\ UNCHANGED <<tag, chatter, call, answers, rolledBack, server, twoPart>>
      /\ broken => broken'
      /\ toClient # <<>> /\ toClient' = Tail(toClient)
  <2>1. CASE SkipComment
    BY <2>1, Zenon DEF SkipComment, NextLine, client, history
  <2>2. CASE Respond
    BY <2>2, Zenon DEF Respond, NextLine
  <2>3. CASE GiveUp
    BY <2>3, Zenon DEF GiveUp, NextLine, history
  <2>4. QED
    BY <2>1, <2>2, <2>3
<1>5. UNCHANGED <<pc, ret>> \/ Return("io", 0) \/ Return("invalid", 0)
  BY Zenon DEF SkipComment, Respond, GiveUp, client
<1>6. /\ ret' = ret \/ ret' \in {[outcome |-> o, by |-> 0] : o \in {"io", "append", "invalid"}}
      /\ pc' \in {"ready", "reading"}
  BY <1>1, <1>5 DEF Return
<1>7. QED
  BY <1>1, <1>2, <1>3, <1>4, <1>6, Zenon DEF Talks, TalksOfCall

(* All steps together.                                                     *)
LEMMA LoginIsOrdered ==
  DataOK /\ LoginNext => OrderedStep
<1> SUFFICES ASSUME DataOK, LoginNext PROVE OrderedStep
  OBVIOUS
<1>1. CASE Try
  <2>1. Issues
    BY <1>1, Zenon DEF Try, RunTwoPart, FailTwoPart, RunOnePart, Issues
  <2>2. QED
    BY <2>1 DEF OrderedStep
<1>2. CASE SkipComment \/ Respond \/ GiveUp
  BY <1>2, ShakeTalks, Zenon DEF OrderedStep
<1>3. CASE Read \/ LoginFails
  <2>1. Reads
    BY <1>3, Zenon DEF Read, LoginFails, Reads
  <2>2. QED
    BY <2>1 DEF OrderedStep
<1>4. CASE OtherCommand
  <2>1. Issues \/ Reads
    BY <1>4, Zenon DEF OtherCommand, RunOnePart, Issues, Reads
  <2>2. QED
    BY <2>1 DEF OrderedStep
<1>5. CASE LoginServer
  <2>1. ServerTakes \/ Tells
    BY <1>5, LoginServes, AnnounceTells, LeaveTells, Zenon DEF LoginServer
  <2>2. QED
    BY <2>1 DEF OrderedStep
<1>6. QED
  BY <1>1, <1>2, <1>3, <1>4, <1>5, Zenon DEF LoginNext, LoginRead

-----------------------------------------------------------------------------
(* Types.                                                                  *)

(* The flags are those of the connection.                                  *)
LEMMA LoginFlags ==
  FlagsOK /\ [LoginNext]_loginVars => FlagsOK'
<1> SUFFICES ASSUME FlagsOK, [LoginNext]_loginVars PROVE FlagsOK'
  OBVIOUS
<1>1. CASE Try
  BY <1>1, FlagsStep, Zenon DEF Try, RunTwoPart, FailTwoPart, RunOnePart, Next, Caller
<1>2. CASE SkipComment
  BY <1>2, Zenon DEF SkipComment, FlagsOK, client, history
<1>3. CASE Respond
  BY <1>3, Zenon DEF Respond, Return, FlagsOK
<1>4. CASE GiveUp
  BY <1>4, Zenon DEF GiveUp, Return, FlagsOK, history
<1>5. CASE Read
  BY <1>5, FlagsStep, Zenon DEF Read, Next, Reader
<1>6. CASE LoginFails
  BY <1>6, FlagsStep, Zenon DEF LoginFails, Next, Reader
<1>7. CASE OtherCommand
  BY <1>7, FlagsStep, Zenon DEF OtherCommand, RunOnePart, Next, Caller, Reader
<1>8. CASE ServeLogin
  BY <1>8, LoginServes, Zenon DEF ServerTakes, ClientSide, client, FlagsOK
<1>9. CASE Announce \/ Leave
  BY <1>9, Zenon DEF Announce, Leave, HangUp, FlagsOK, client, history
<1>10. CASE UNCHANGED loginVars
  BY <1>10, Zenon DEF loginVars, vars, client, wire, history, FlagsOK
<1>11. QED
  BY <1>1, <1>2, <1>3, <1>4, <1>5, <1>6, <1>7, <1>8, <1>9, <1>10, Zenon
  DEF LoginNext, LoginRead, LoginServer

(* What Login adds.                                                        *)
LoginDataOK ==
    /\ phase \in {"none", "shake", "reply"}
    /\ session \in 0..MaxCalls
    /\ credentials \subseteq 1..MaxCalls
    /\ accepted \subseteq credentials
    /\ challenges \in 0..MaxChallenges
    /\ derailed \subseteq {"garbled", "literal"}

(* The parts of the type invariant.                                        *)
LEMMA LoginTypeSplit ==
  LoginTypeOK <=> FlagsOK /\ DataOK /\ ServerTypeOK /\ LoginDataOK
  BY TypeSplit, Zenon DEF LoginTypeOK, LoginDataOK

-----------------------------------------------------------------------------
(* Who was accepted.                                                       *)

(* A call in progress is one that carries credentials, as is every         *)
(* AUTHENTICATE, and of these the server accepted those it answered "ok".  *)
Accounted ==
    /\ twoPart \subseteq credentials
    /\ credentials \subseteq 1..call
    /\ phase # "none" => pc = "reading" /\ call \in credentials
    /\ \A a \in answers : a.status = "ok" /\ a.id \in credentials => a.id \in accepted

(* The inductive invariant.                                                *)
Admitting == LoginTypeOK /\ Matched /\ Accounted /\ SessionIsAccepted

(* What the server's steps do to its account.                              *)
LEMMA ServeAccounts ==
  ASSUME Admitting, ServeLogin
  PROVE  /\ UNCHANGED <<phase, session, credentials, derailed>>
         /\ challenges' \in 0..MaxChallenges
         /\ accepted \subseteq accepted' /\ accepted' \subseteq credentials
         /\ \A a \in answers' : a.status = "ok" /\ a.id \in credentials => a.id \in accepted'
<1>0. /\ LoginDataOK /\ Numbers /\ twoPart \subseteq credentials
      /\ \A a \in answers : a.status = "ok" /\ a.id \in credentials => a.id \in accepted
      /\ accepted \subseteq credentials /\ challenges \in 0..MaxChallenges
  BY LoginTypeSplit, Zenon DEF Admitting, Matched, Accounted, LoginDataOK
<1>1. ASSUME SendsChallenge PROVE challenges' \in 0..MaxChallenges
  BY <1>0, <1>1, LoginAssumption DEF SendsChallenge
<1>2. CASE InviteResponse
  BY <1>0, <1>1, <1>2, Zenon DEF InviteResponse
<1>3. CASE TakeResponse
  <2>1. UNCHANGED <<phase, session, credentials, derailed>> /\ mode = "continuing"
    BY <1>3, Zenon DEF TakeResponse
  <2>2. CASE SendsChallenge /\ UNCHANGED <<mode, answers, accepted>>
    BY <1>0, <1>1, <2>1, <2>2, Zenon
  <2>3. ASSUME NEW s \in {"ok", "no"}, Answers(request, s), AcceptIf(s = "ok", request.id),
               UNCHANGED challenges
        PROVE  /\ accepted \subseteq accepted' /\ accepted' \subseteq credentials
               /\ \A a \in answers' :
                     a.status = "ok" /\ a.id \in credentials => a.id \in accepted'
    <3>1. request.id \in credentials
      BY <1>0, <2>1 DEF Numbers
    <3>2. /\ answers' = answers \cup {[id |-> request.id, status |-> s]}
          /\ accepted' = accepted \cup IF s = "ok" THEN {request.id} ELSE {}
      BY <2>3 DEF Answers, AcceptIf
    <3>3. QED
      BY <1>0, <3>1, <3>2
  <2>4. QED
    BY <1>0, <1>3, <2>1, <2>2, <2>3, Zenon DEF TakeResponse
<1>4. CASE TakeCommand
  <2>1. UNCHANGED login /\ answers' = answers \cup {[id |-> request.id, status |-> "bad"]}
    BY <1>4 DEF TakeCommand, Answers
  <2>2. QED
    BY <1>0, <2>1 DEF login
<1>5. CASE ServeLine
  <2>1. UNCHANGED <<phase, session, credentials, challenges, derailed>>
    BY <1>5, Zenon DEF ServeLine
  <2>2. PICK s \in {"ok", "no"} : answers' = answers \cup {[id |-> Received.id, status |-> s]}
    BY <1>5 DEF ServeLine, ServeOnePart, Answers
  <2>3. accepted' = accepted \cup
           IF Received.id \in credentials /\ [id |-> Received.id, status |-> "ok"] \in answers'
           THEN {Received.id} ELSE {}
    BY <1>5, Zenon DEF ServeLine, AcceptIf
  <2>4. QED
    BY <1>0, <2>1, <2>2, <2>3
<1>6. CASE (Refuse \/ RejectText) /\ UNCHANGED login
  <2>1. \/ UNCHANGED answers
        \/ \E s \in {"no", "bad"} : answers' = answers \cup {[id |-> Received.id, status |-> s]}
    BY <1>6 DEF Refuse, RejectText, Answers
  <2>2. QED
    BY <1>0, <1>6, <2>1 DEF login
<1>7. QED
  BY <1>2, <1>3, <1>4, <1>5, <1>6, Zenon DEF ServeLogin

(* ... and what the client's do.                                           *)
LEMMA ClientAccounts ==
  ASSUME Admitting, Try \/ LoginRead \/ LoginFails \/ OtherCommand
  PROVE  /\ UNCHANGED <<answers, accepted, challenges>>
         /\ \/ Try /\ call' = call + 1 /\ credentials' = credentials \cup {call'}
            \/ UNCHANGED credentials /\ ~Try
  BY Zenon DEF Try, RunTwoPart, FailTwoPart, RunOnePart, RunCommand, RunCommandFails,
     LoginRead, SkipComment, Respond, GiveUp, Read, LoginFails, OtherCommand, ReadLine, ReadFails,
     ReadEof, history, login

(* The account stays in order, ...                                         *)
LEMMA AccountedStep ==
  Admitting /\ DataOK' /\ [LoginNext]_loginVars => Accounted'
<1> SUFFICES ASSUME Admitting, DataOK', [LoginNext]_loginVars PROVE Accounted'
  OBVIOUS
<1>0. /\ DataOK /\ Numbers /\ Accounted /\ call \in Nat /\ accepted \subseteq credentials
      /\ pc' \in {"ready", "reading"}
  BY LoginTypeSplit, Bounds, SMTT(30) DEF Admitting, Matched, LoginDataOK, DataOK
<1>1. ASSUME UNCHANGED <<twoPart, credentials, call, answers, accepted>>,
             phase' # "none" => pc' = "reading" /\ phase # "none"
      PROVE  Accounted'
  BY <1>0, <1>1 DEF Accounted
<1>2. CASE Try
  <2>1. call' = call + 1 /\ credentials' = credentials \cup {call'}
        /\ UNCHANGED <<answers, accepted>>
    BY <1>2, ClientAccounts
  <2>2. twoPart' \subseteq twoPart \cup {call'} /\ (phase' # "none" => pc' = "reading")
    BY <1>2, <2>1
    DEF Try, RunTwoPart, FailTwoPart, RunOnePart, RunCommand, RunCommandFails
  <2>3. \A a \in answers : a.id \in credentials' => a.id \in credentials
    BY <1>0, <2>1 DEF Numbers
  <2>4. credentials' \subseteq 1..call'
    BY <1>0, <2>1 DEF Accounted
  <2>5. QED
    BY <1>0, <2>1, <2>2, <2>3, <2>4 DEF Accounted
<1>3. CASE LoginRead \/ LoginFails
  <2>1. UNCHANGED <<answers, accepted, credentials>>
    <3>1. ~Try
      BY <1>3 DEF Try, LoginRead, SkipComment, Respond, GiveUp, Read, LoginFails
    <3>2. QED
      BY <1>3, <3>1, ClientAccounts, Zenon
  <2>2. UNCHANGED <<twoPart, call>>
    BY <1>3, Zenon DEF LoginRead, SkipComment, Respond, GiveUp, Read, LoginFails, ReadLine,
                       ReadFails, ReadEof
  <2>3. phase # "none"
    BY <1>3 DEF LoginRead, SkipComment, Respond, GiveUp, Read, LoginFails
  <2>4. phase' # "none" => pc' = "reading"
    <3>1. CASE SkipComment
      BY <1>0, <3>1 DEF SkipComment, client
    <3>2. CASE Respond
      BY <3>2 DEF Respond
    <3>3. CASE GiveUp
      BY <3>3 DEF GiveUp
    <3>4. CASE Read
      BY <1>0, <3>4 DEF Read
    <3>5. CASE LoginFails
      BY <3>5 DEF LoginFails
    <3>6. QED
      BY <1>3, <3>1, <3>2, <3>3, <3>4, <3>5, Zenon DEF LoginRead
  <2>5. QED
    BY <1>1, <2>1, <2>2, <2>3, <2>4
<1>4. CASE OtherCommand
  <2>1. /\ UNCHANGED <<answers, accepted, credentials, phase>> /\ phase = "none"
        /\ call' = call \/ call' = call + 1
        /\ UNCHANGED twoPart \/ RunOnePart
    BY <1>4, Zenon DEF OtherCommand, RunOnePart, RunCommand, RunCommandFails, ReadLine, ReadFails,
                       ReadEof, history, login
  <2>2. UNCHANGED twoPart
    BY <2>1, Zenon DEF RunOnePart
  <2>3. credentials' \subseteq 1..call'
    BY <1>0, <2>1 DEF Accounted
  <2>4. QED
    BY <1>0, <2>1, <2>2, <2>3 DEF Accounted
<1>5. CASE ServeLogin
  <2>1. UNCHANGED <<pc, call, twoPart>>
    BY <1>5, LoginServes, Zenon DEF ServerTakes, ClientSide, client
  <2>2. QED
    BY <1>0, <1>5, <2>1, ServeAccounts DEF Accounted
<1>6. CASE ((Announce \/ Leave) /\ UNCHANGED login) \/ UNCHANGED loginVars
  <2>1. UNCHANGED <<pc, call, twoPart, answers, login>>
    BY <1>6, Zenon DEF Announce, Leave, HangUp, client, history, loginVars, vars
  <2>2. QED
    BY <1>0, <1>1, <2>1 DEF login, Accounted
<1>7. QED
  BY <1>2, <1>3, <1>4, <1>5, <1>6, Zenon DEF LoginNext, LoginServer

(* ... no call makes a Session that was not accepted, ...                  *)
LEMMA SessionStep ==
  Admitting /\ Matched' /\ [LoginNext]_loginVars => SessionIsAccepted'
<1> SUFFICES ASSUME Admitting, Matched', [LoginNext]_loginVars, session' # 0, ~broken'
             PROVE  session' \in accepted'
  BY Zenon DEF SessionIsAccepted
<1>0. Accounted /\ SessionIsAccepted /\ DataOK
  BY LoginTypeSplit, Zenon DEF Admitting
<1>1. ~broken
  <2>1. CASE LoginNext
    BY <1>0, <2>1, LoginIsOrdered, OrderedIsDialogue, DialogueBroken
  <2>2. CASE UNCHANGED loginVars
    BY <2>2, Zenon DEF loginVars, vars, history
  <2>3. QED
    BY <2>1, <2>2
<1>2. ASSUME UNCHANGED session, accepted \subseteq accepted' PROVE session' \in accepted'
  <2>1. session \in accepted
    BY <1>0, <1>1, <1>2, Zenon DEF SessionIsAccepted
  <2>2. QED
    BY <1>2, <2>1
<1>3. CASE Try \/ SkipComment \/ Respond \/ GiveUp \/ LoginFails \/ OtherCommand
  <2>1. UNCHANGED session
    BY <1>3, Zenon DEF Try, SkipComment, Respond, GiveUp, LoginFails, OtherCommand, login
  <2>2. UNCHANGED accepted
    BY <1>3, ClientAccounts, Zenon DEF LoginRead
  <2>3. QED
    BY <1>2, <2>1, <2>2
<1>4. CASE Read
  <2>1. UNCHANGED accepted
    BY <1>4, Zenon DEF Read
  <2>2. CASE pc' = "ready" /\ ret'.outcome = "ok"
    <3>1. session' = call /\ UNCHANGED call
      BY <1>4, <2>2 DEF Read, SessionIfOk, ReadLine
    <3>2. call \in credentials
      BY <1>0, <1>4 DEF Read, Accounted
    <3>3. [id |-> call, status |-> "ok"] \in answers'
      BY <2>2, <3>1, Zenon DEF Matched, ReplyIsOwn
    <3>4. UNCHANGED answers
      BY <1>4, Zenon DEF Read, ReadLine, history
    <3>5. QED
      BY <1>0, <2>1, <3>1, <3>2, <3>3, <3>4 DEF Accounted
  <2>3. CASE ~(pc' = "ready" /\ ret'.outcome = "ok")
    BY <1>2, <1>4, <2>1, <2>3 DEF Read, SessionIfOk
  <2>4. QED
    BY <2>2, <2>3
<1>5. CASE ServeLogin
  BY <1>2, <1>5, ServeAccounts
<1>6. CASE UNCHANGED login
  BY <1>2, <1>6 DEF login
<1>7. CASE UNCHANGED loginVars
  BY <1>6, <1>7, Zenon DEF loginVars
<1>8. QED
  BY <1>3, <1>4, <1>5, <1>6, <1>7, Zenon DEF LoginNext, LoginRead, LoginServer

(* ... and what Login adds keeps its type.                                 *)
LEMMA LoginDataStep ==
  Admitting /\ DataOK' /\ Accounted' /\ [LoginNext]_loginVars => LoginDataOK'
<1> SUFFICES ASSUME Admitting, DataOK', Accounted', [LoginNext]_loginVars PROVE LoginDataOK'
  OBVIOUS
<1>0. /\ DataOK /\ phase \in {"none", "shake", "reply"} /\ session \in 0..MaxCalls
      /\ accepted \subseteq credentials /\ challenges \in 0..MaxChallenges
      /\ derailed \subseteq {"garbled", "literal"}
  BY LoginTypeSplit DEF Admitting, LoginDataOK
<1>1. credentials' \subseteq 1..MaxCalls
  <2>1. credentials' \subseteq 1..call' /\ call' \in 0..MaxCalls
    BY DEF Accounted, DataOK
  <2>2. \A i \in 1..call' : i \in 1..MaxCalls
    BY <2>1, Bounds
  <2>3. QED
    BY <2>1, <2>2
<1>2. ASSUME UNCHANGED <<session, challenges>>, accepted' \subseteq credentials',
             phase' \in {"none", "shake", "reply"}, derailed' \subseteq {"garbled", "literal"}
      PROVE  LoginDataOK'
  BY <1>0, <1>1, <1>2 DEF LoginDataOK
<1>3. CASE Try \/ LoginRead \/ LoginFails \/ OtherCommand
  <2>1. UNCHANGED challenges /\ accepted' \subseteq credentials'
    BY <1>0, <1>3, ClientAccounts
  <2>2. phase' \in {"none", "shake", "reply"}
    BY <1>0, <1>3 DEF Try, LoginRead, SkipComment, Respond, GiveUp, Read, LoginFails, OtherCommand,
                      login
  <2>3. derailed' \subseteq {"garbled", "literal"}
    BY <1>0, <1>3 DEF Try, LoginRead, SkipComment, Respond, GiveUp, Read, LoginFails, OtherCommand,
                      login
  <2>4. session' \in 0..MaxCalls
    <3>1. session' = session \/ session' = call
      BY <1>3 DEF Try, LoginRead, SkipComment, Respond, GiveUp, Read, SessionIfOk, LoginFails,
                  OtherCommand, login
    <3>2. QED
      BY <1>0, <3>1 DEF DataOK
  <2>5. QED
    BY <1>0, <1>1, <2>1, <2>2, <2>3, <2>4 DEF LoginDataOK
<1>4. CASE ServeLogin
  BY <1>0, <1>1, <1>4, ServeAccounts DEF LoginDataOK
<1>5. CASE UNCHANGED login
  BY <1>0, <1>2, <1>5 DEF login
<1>6. CASE UNCHANGED loginVars
  BY <1>5, <1>6, Zenon DEF loginVars
<1>7. QED
  BY <1>3, <1>4, <1>5, <1>6, Zenon DEF LoginNext, LoginServer

(* These facts are inductive ...                                           *)
LEMMA AdmittingStep ==
  Admitting /\ [LoginNext]_loginVars => Admitting'
<1> SUFFICES ASSUME Admitting, [LoginNext]_loginVars PROVE Admitting'
  OBVIOUS
<1>0. FlagsOK /\ DataOK /\ ServerTypeOK /\ Matched
  BY LoginTypeSplit, Zenon DEF Admitting
<1>1. DataOK' /\ ServerTypeOK' /\ Matched'
  <2>1. CASE LoginNext
    BY <1>0, <2>1, LoginIsOrdered, OrderedIsDialogue, DialogueData, MatchedStep
  <2>2. CASE UNCHANGED loginVars
    <3>1. DialogueStep
      BY <1>0, <2>2, NothingTells DEF loginVars, server, DialogueStep
    <3>2. QED
      BY <1>0, <3>1, DialogueData, MatchedStep
  <2>3. QED
    BY <2>1, <2>2
<1>2. FlagsOK'
  BY <1>0, LoginFlags
<1>3. Accounted' /\ SessionIsAccepted'
  BY <1>1, AccountedStep, SessionStep
<1>4. LoginDataOK'
  BY <1>1, <1>3, LoginDataStep
<1>5. LoginTypeOK'
  <2>1. TypeOK'
    BY <1>1, <1>2, Zenon DEF TypeOK, FlagsOK, DataOK
  <2>2. QED
    BY <1>1, <1>4, <2>1, Zenon DEF LoginTypeOK, LoginDataOK
<1>6. QED
  BY <1>1, <1>3, <1>5, Zenon DEF Admitting

(* ... and hold from the start, so that everything keeps its type ...      *)
LEMMA AdmittingHolds == LoginSpec => []Admitting
<1>1. LoginInit => Admitting
  <2> SUFFICES ASSUME LoginInit PROVE Admitting
    OBVIOUS
  <2>1. Init /\ ServerInit
    BY DEF LoginInit
  <2>2. ServerTypeOK /\ Matched /\ DataOK
    BY <2>1, MatchedInit, InitData
  <2>3. FlagsOK
    BY <2>1, Zenon DEF Init, FlagsOK
  <2>4. /\ phase = "none" /\ session = 0 /\ credentials = {} /\ accepted = {}
        /\ challenges = 0 /\ derailed = {} /\ twoPart = {} /\ answers = {}
    BY <2>1 DEF LoginInit, Init, ServerInit
  <2>5. LoginDataOK
    BY <2>4, Bounds, LoginAssumption DEF LoginDataOK
  <2>6. Accounted /\ SessionIsAccepted
    BY <2>4 DEF Accounted, SessionIsAccepted
  <2>7. QED
    BY <2>2, <2>3, <2>5, <2>6, LoginTypeSplit, Zenon DEF Admitting
<1>2. Admitting /\ [LoginNext]_loginVars => Admitting'
  BY AdmittingStep
<1>3. QED
  BY <1>1, <1>2, PTL DEF LoginSpec

(* ... in every behaviour of login and authenticate among other commands,  *)
(* the number of calls in the record of the server included, ...           *)
THEOREM LoginTypeCorrect == LoginSpec => []LoginTypeOK
<1>1. Admitting => LoginTypeOK
  BY DEF Admitting
<1>2. QED
  BY <1>1, AdmittingHolds, PTL

(* ... and there is a Session only if the server accepted the credentials  *)
(* of the very call that returned it.                                      *)
THEOREM SessionAccepted == LoginSpec => []SessionIsAccepted
<1>1. Admitting => SessionIsAccepted
  BY DEF Admitting
<1>2. QED
  BY <1>1, AdmittingHolds, PTL

-----------------------------------------------------------------------------
(* When nothing went wrong.                                                *)

(* A call with credentials is in progress until it returns, and no part of *)
(* a response is read before the handshake.                                *)
Underway ==
    /\ pc = "reading" /\ call \in credentials => phase # "none"
    /\ phase = "shake" => ~pending

(* A Client whose credentials were accepted is still to read so.           *)
AcceptedIsHeard ==
    session = 0 /\ accepted # {}
        => phase # "none" /\ DoneLine(tag, "ok", call) \in Range(toClient)

(* Without a fault, what was accepted is on its way to this call.          *)
Listening == ~faulted /\ "literal" \notin derailed => Steady /\ AcceptedIsHeard

(* The loop is where the server believes it to be.                         *)
InShake ==
    /\ \A line \in Range(toClient) : line.kind = "plus" => phase = "shake"
    /\ up /\ toServer # <<>> /\ (IsText(Received) \/ call \in twoPart) => phase = "shake"

(* With an orderly server as well, both sides are in the same loop.        *)
Shaking == ~faulted /\ derailed = {} => OwnTurn /\ InShake

(* Underway: the calls that carry credentials are those in progress here.  *)
LEMMA UnderwayStep ==
  Admitting /\ Underway /\ [LoginNext]_loginVars => Underway'
<1> SUFFICES ASSUME Admitting, Underway, [LoginNext]_loginVars PROVE Underway'
  OBVIOUS
<1>0. /\ DataOK /\ call \in Nat /\ credentials \subseteq 1..call
      /\ phase # "none" => pc = "reading" /\ call \in credentials
  BY LoginTypeSplit, Bounds DEF Admitting, Accounted, DataOK
<1>1. ASSUME pc' = "reading" => pc = "reading",
             UNCHANGED <<call, credentials>>,
             pc' = "reading" /\ phase # "none" => phase' # "none",
             phase' = "shake" => phase = "shake" /\ UNCHANGED pending
      PROVE  Underway'
  <2>1. pc' = "reading" /\ call' \in credentials' => phase' # "none"
    BY <1>1 DEF Underway
  <2>2. phase' = "shake" => ~pending'
    BY <1>1, Zenon DEF Underway
  <2>3. QED
    BY <2>1, <2>2, Zenon DEF Underway
<1>2. ASSUME pc' = "reading" => phase' # "none" \/ call' \notin credentials',
             phase' = "shake" => pending' = FALSE
      PROVE  Underway'
  BY <1>2, Zenon DEF Underway
<1>3. CASE Try
  <2>1. RunCommand => pending' = FALSE /\ phase' # "none"
    BY <1>3, Zenon DEF Try, RunTwoPart, FailTwoPart, RunOnePart, RunCommand, RunCommandFails,
                       CanIssue, Return
  <2>2. ~RunCommand => pc' = "ready" /\ phase' = "none"
    BY <1>3, Zenon DEF Try, RunTwoPart, FailTwoPart, RunOnePart, RunCommandFails, Return
  <2>3. pc' = "reading" => phase' # "none"
    BY <2>1, <2>2
  <2>4. phase' = "shake" => pending' = FALSE
    BY <2>1, <2>2, Zenon
  <2>5. QED
    BY <1>2, <2>3, <2>4, Zenon
<1>4. CASE SkipComment
  <2>1. UNCHANGED <<pc, pending, call, credentials, phase>>
    BY <1>4, Zenon DEF SkipComment, client
  <2>2. QED
    BY <1>1, <2>1, Zenon
<1>5. CASE Respond
  <2>1. UNCHANGED <<call, credentials>>
    BY <1>5, Zenon DEF Respond
  <2>2. CASE UNCHANGED <<pc, pending, ret, faulted, phase>>
    BY <1>1, <2>1, <2>2, Zenon
  <2>3. CASE Return("io", 0) /\ phase' = "none"
    BY <1>2, <2>3, Zenon DEF Return
  <2>4. QED
    BY <1>5, <2>2, <2>3, Zenon DEF Respond
<1>6. CASE GiveUp \/ LoginFails
  <2>1. pc' = "ready" /\ phase' = "none"
    BY <1>6, Zenon DEF GiveUp, LoginFails, ReadFails, ReadEof, Return
  <2>2. QED
    BY <1>2, <2>1
<1>7. CASE Read
  <2>1. phase' # "shake" /\ (pc' = "reading" => phase' # "none")
    BY <1>7 DEF Read
  <2>2. QED
    BY <1>2, <2>1
<1>8. CASE OtherCommand
  <2>1. phase' = "none" /\ UNCHANGED credentials
    BY <1>8, Zenon DEF OtherCommand, login
  <2>2. pc' = "reading" => call' \notin credentials'
    <3>1. CASE RunOnePart \/ RunCommandFails
      <4>1. call' = call + 1
        BY <3>1 DEF RunOnePart, RunCommand, RunCommandFails
      <4>2. QED
        BY <1>0, <2>1, <4>1
    <3>2. CASE ReadLine \/ ReadFails \/ ReadEof
      <4>1. UNCHANGED call /\ pc = "reading" /\ phase = "none"
        BY <1>8, <3>2, Zenon DEF OtherCommand, ReadLine, ReadFails, ReadEof
      <4>2. QED
        BY <2>1, <4>1 DEF Underway
    <3>3. QED
      BY <1>8, <3>1, <3>2, Zenon DEF OtherCommand
  <2>3. QED
    BY <1>2, <2>1, <2>2
<1>9. CASE ServeLogin
  <2>1. UNCHANGED <<pc, pending, call>>
    BY <1>9, LoginServes, Zenon DEF ServerTakes, ClientSide, client
  <2>2. UNCHANGED <<credentials, phase>>
    BY <1>9, ServeAccounts, Zenon
  <2>3. QED
    BY <1>1, <2>1, <2>2, Zenon
<1>10. CASE ((Announce \/ Leave) /\ UNCHANGED login) \/ UNCHANGED loginVars
  <2>1. UNCHANGED <<pc, pending, call, credentials, phase>>
    BY <1>10, Zenon DEF Announce, Leave, HangUp, client, login, loginVars, vars
  <2>2. QED
    BY <1>1, <2>1, Zenon
<1>11. QED
  BY <1>3, <1>4, <1>5, <1>6, <1>7, <1>8, <1>9, <1>10, Zenon
  DEF LoginNext, LoginRead, LoginServer

(* There is no way back from an I/O error, and the loop stays derailed.    *)
LEMMA LoginForGood ==
  [LoginNext]_loginVars => (faulted => faulted') /\ derailed \subseteq derailed'
<1> SUFFICES ASSUME [LoginNext]_loginVars
             PROVE  (faulted => faulted') /\ derailed \subseteq derailed'
  OBVIOUS
<1>1. faulted => faulted'
  <2>1. ASSUME RunCommand \/ RunCommandFails \/ ReadLine \/ ReadFails \/ ReadEof
        PROVE  faulted => faulted'
    BY <2>1, FaultedForGood, Zenon DEF Next, Caller, Reader
  <2>2. CASE Try
    BY <2>1, <2>2, Zenon DEF Try, RunTwoPart, FailTwoPart, RunOnePart
  <2>3. CASE SkipComment
    BY <2>3, Zenon DEF SkipComment, history
  <2>4. CASE Respond
    BY <2>4, Zenon DEF Respond
  <2>5. CASE GiveUp
    BY <2>5, Zenon DEF GiveUp, history
  <2>6. CASE Read \/ LoginFails
    BY <2>1, <2>6, Zenon DEF Read, LoginFails
  <2>7. CASE OtherCommand
    BY <2>1, <2>7, Zenon DEF OtherCommand, RunOnePart
  <2>8. CASE ServeLogin
    BY <2>8, LoginServes, Zenon DEF ServerTakes, ClientSide
  <2>9. CASE ((Announce \/ Leave) /\ UNCHANGED login) \/ UNCHANGED loginVars
    BY <2>9, Zenon DEF Announce, Leave, HangUp, history, loginVars, vars
  <2>10. QED
    BY <2>2, <2>3, <2>4, <2>5, <2>6, <2>7, <2>8, <2>9, Zenon DEF LoginNext, LoginRead, LoginServer
<1>2. derailed \subseteq derailed'
  <2>1. UNCHANGED derailed \/ SkipComment \/ GiveUp
    BY Zenon DEF LoginNext, LoginRead, LoginServer, ServeLogin, InviteResponse, TakeResponse,
       TakeCommand, ServeLine, Try, Respond, Read, LoginFails, OtherCommand, login, loginVars
  <2>2. QED
    BY <2>1 DEF SkipComment, GiveUp
<1>3. QED
  BY <1>1, <1>2, Zenon

(* The server takes its turn.                                              *)
LEMMA LoginTurns ==
  ASSUME DataOK, Turn, ServeLogin
  PROVE  TakesTurn /\ ~RejectText /\ (OwnTurn => ~TakeCommand)
<1>0. Takes
  BY LoginServes DEF ServerTakes
<1>1. /\ \/ Received = Own /\ ~IsText(Received)
         \/ /\ Received = Text(call) /\ IsText(Received)
            /\ mode = "continuing" /\ request = Own
      /\ up /\ toServer # <<>>
  BY <1>0, AskedIsReceived DEF Takes
<1>2. /\ {"ok", "no"} \subseteq Statuses /\ {"no", "bad"} \subseteq Statuses /\ "bad" \in Statuses
      /\ Challenge = Plain("plus") /\ Garbled = [Plain("plus") EXCEPT !.status = "bad"]
  BY DEF Statuses, Challenge, Garbled
<1>3. ASSUME SendsChallenge
      PROVE  \E line \in {Plain("plus"), [Plain("plus") EXCEPT !.status = "bad"]} : Sends(line)
  BY <1>2, <1>3 DEF SendsChallenge
<1>4. ~RejectText
  BY <1>1 DEF RejectText
<1>5. OwnTurn => ~TakeCommand
  BY <1>1 DEF TakeCommand, OwnTurn
<1>6. UNCHANGED ClientSide
  BY LoginServes, Zenon DEF ServerTakes
<1>7. CASE InviteResponse
  <2>1. /\ mode = "command" /\ ~IsText(Received) /\ request' = Received
        /\ SendsChallenge /\ UNCHANGED answers /\ mode' = "continuing"
    BY <1>7, Zenon DEF InviteResponse
  <2>2. QED
    BY <1>0, <1>3, <1>4, <1>5, <1>6, <2>1, Zenon DEF TakesTurn
<1>8. CASE TakeResponse
  <2>1. CASE SendsChallenge /\ UNCHANGED <<mode, answers, accepted>>
    <3>1. mode = "continuing" /\ mode' = "continuing" /\ IsText(Received) /\ UNCHANGED request
      BY <1>8, <2>1 DEF TakeResponse
    <3>2. QED
      BY <1>0, <1>3, <1>4, <1>5, <1>6, <2>1, <3>1, Zenon DEF TakesTurn
  <2>2. CASE mode' = "command" /\ \E s \in {"ok", "no"} : Answers(request, s)
    <3>1. \E s \in Statuses : Answers(request, s)
      BY <1>2, <2>2
    <3>2. mode = "continuing" /\ UNCHANGED request
      BY <1>8, Zenon DEF TakeResponse
    <3>3. QED
      BY <1>0, <1>4, <1>5, <1>6, <2>2, <3>1, <3>2, Zenon DEF TakesTurn
  <2>3. QED
    BY <1>8, <2>1, <2>2, Zenon DEF TakeResponse
<1>9. CASE TakeCommand
  <2>1. mode = "continuing" /\ UNCHANGED request /\ mode' = "command" /\ Answers(request, "bad")
    BY <1>9, Zenon DEF TakeCommand, ClientSide
  <2>2. QED
    BY <1>0, <1>2, <1>4, <1>5, <1>6, <2>1, Zenon DEF TakesTurn
<1>10. CASE ServeLine \/ Refuse
  <2>1. /\ mode = "command" /\ ~IsText(Received) /\ UNCHANGED server
        /\ \E s \in Statuses : Answers(Received, s)
    BY <1>2, <1>10 DEF ServeLine, ServeOnePart, Refuse
  <2>2. QED
    BY <1>0, <1>4, <1>5, <1>6, <2>1, Zenon DEF TakesTurn
<1>11. QED
  BY <1>4, <1>7, <1>8, <1>9, <1>10, Zenon DEF ServeLogin

(* A "yes" of the server is heard by the Client it was said to ...         *)
LEMMA ListenServed ==
  ASSUME Admitting, Underway, Steady, AcceptedIsHeard, ServeLogin
  PROVE  Steady' /\ AcceptedIsHeard'
<1>0. /\ DataOK /\ FlagsOK /\ ServerTypeOK /\ Numbers /\ Turn /\ toClient \in Seq(Line)
      /\ request \in Command /\ twoPart \subseteq credentials
      /\ \A a \in answers : a.status = "ok" /\ a.id \in credentials => a.id \in accepted
  BY LoginTypeSplit, Zenon DEF Admitting, Matched, Accounted, DataOK, Steady, ServerTypeOK
<1>1. TakesTurn /\ ~RejectText /\ Takes
  BY <1>0, LoginTurns, Zenon DEF TakesTurn
<1>2. SUFFICES AcceptedIsHeard'
  BY <1>0, <1>1, SteadyServed
<1>3. /\ pc = "reading" /\ NoReply(toClient)
      /\ \/ Received = Own /\ ~IsText(Received)
         \/ /\ Received = Text(call) /\ IsText(Received)
            /\ mode = "continuing" /\ request = Own
  BY <1>0, <1>1, AskedIsReceived
<1>4. UNCHANGED <<phase, session>> /\ UNCHANGED <<tag, call>>
  <2>1. UNCHANGED <<phase, session>>
    BY ServeAccounts, Zenon
  <2>2. UNCHANGED <<tag, call>>
    BY <1>1, Zenon DEF TakesTurn, ClientSide, client
  <2>3. QED
    BY <2>1, <2>2
<1>5. session = 0 => accepted = {}
  <2>1. IsReply(DoneLine(tag, "ok", call))
    BY DEF IsReply, IsTagged, DoneLine
  <2>2. DoneLine(tag, "ok", call) \notin Range(toClient)
    BY <1>0, <1>3, <2>1, NoneIsReply
  <2>3. QED
    BY <2>2 DEF AcceptedIsHeard
<1>6. ASSUME UNCHANGED accepted PROVE AcceptedIsHeard'
  BY <1>4, <1>5, <1>6 DEF AcceptedIsHeard
<1>7. ASSUME Answers(Own, "ok"), call \in credentials PROVE AcceptedIsHeard'
  <2>1. Own \in Command /\ Own.tag = tag /\ Own.id = call /\ "ok" \in Statuses
    BY <1>0, Bounds DEF Own, Command, DataOK, Statuses
  <2>2. DoneLine(tag, "ok", call) \in Line /\ toClient' = Append(toClient, DoneLine(tag, "ok", call))
    BY <1>7, <2>1, AnswersAreLines DEF Answers, Sends
  <2>3. DoneLine(tag, "ok", call) \in Range(toClient')
    BY <1>0, <2>2, RangeAppend
  <2>4. phase # "none"
    BY <1>3, <1>7 DEF Underway
  <2>5. DoneLine(tag, "ok", call)' = DoneLine(tag, "ok", call)
    BY <1>4 DEF DoneLine
  <2>6. QED
    BY <1>4, <2>3, <2>4, <2>5 DEF AcceptedIsHeard
<1>8. CASE InviteResponse \/ TakeCommand
  BY <1>6, <1>8, Zenon DEF InviteResponse, TakeCommand, login
<1>9. CASE Refuse /\ UNCHANGED login
  BY <1>6, <1>9, Zenon DEF login
<1>10. CASE TakeResponse
  <2>1. request = Own /\ mode = "continuing"
    BY <1>3, <1>10 DEF TakeResponse
  <2>2. call \in credentials
    BY <1>0, <2>1 DEF Numbers, Own
  <2>3. ASSUME NEW s \in {"ok", "no"}, Answers(request, s), AcceptIf(s = "ok", request.id)
        PROVE  AcceptedIsHeard'
    <3>1. CASE s = "ok"
      BY <1>7, <2>1, <2>2, <2>3, <3>1
    <3>2. CASE s # "ok"
      BY <1>6, <2>3, <3>2 DEF AcceptIf
    <3>3. QED
      BY <3>1, <3>2
  <2>4. QED
    BY <1>6, <1>10, <2>3, Zenon DEF TakeResponse
<1>11. CASE ServeLine
  <2>1. ~IsText(Received) /\ \E s \in {"ok", "no"} : Answers(Received, s)
    BY <1>11, Zenon DEF ServeLine, ServeOnePart
  <2>2. Received = Own /\ Own.id = call
    BY <1>3, <2>1 DEF Own
  <2>3. PICK s \in {"ok", "no"} : Answers(Own, s)
    BY <2>1, <2>2
  <2>4. accepted' = accepted \cup
           IF call \in credentials /\ [id |-> call, status |-> "ok"] \in answers'
           THEN {call} ELSE {}
    BY <1>11, <2>2, Zenon DEF ServeLine, AcceptIf
  <2>5. CASE call \in credentials /\ s = "ok"
    BY <1>7, <2>3, <2>5
  <2>6. CASE call \notin credentials
    BY <1>6, <2>4, <2>6
  <2>7. CASE call \in credentials /\ s # "ok"
    <3>1. answers' = answers \cup {[id |-> call, status |-> s]}
      BY <2>2, <2>3 DEF Answers
    <3>2. [id |-> call, status |-> "ok"] \in answers' => call \in accepted
      BY <1>0, <2>7, <3>1
    <3>3. QED
      BY <1>6, <2>4, <3>2
  <2>8. QED
    BY <2>5, <2>6, <2>7
<1>12. QED
  BY <1>1, <1>8, <1>9, <1>10, <1>11, Zenon DEF ServeLogin

(* ... when it reads on, ...                                               *)
LEMMA ListenRead ==
  ASSUME Admitting, Underway, Steady, AcceptedIsHeard,
         \/ Read \/ (LoginFails /\ ReadEof)
         \/ OtherCommand /\ (ReadLine \/ ReadEof)
  PROVE  Steady' /\ AcceptedIsHeard'
<1>0. /\ DataOK /\ FlagsOK /\ Blocks /\ Turn /\ toClient \in Seq(Line)
      /\ phase # "none" => call \in 1..call
  <2>1. DataOK /\ FlagsOK /\ Blocks /\ Turn /\ Accounted
    BY LoginTypeSplit, Zenon DEF Admitting, Steady
  <2>2. QED
    BY <2>1 DEF Accounted, DataOK
<1>1. UNCHANGED <<mode, request, accepted>>
  BY Zenon DEF Read, LoginFails, OtherCommand, login, server
<1>2. CASE ReadLine
  <2>1. /\ toClient # <<>> /\ toClient' = Tail(toClient)
        /\ UNCHANGED <<tag, call>>
    BY <1>2, Zenon DEF ReadLine
  <2>2. Steady'
    BY <1>0, <1>1, <1>2, SteadyRead
  <2>3. /\ session' = session \/ session' = call
        /\ phase # "none" => Read
    <3>1. ~ReadEof
      BY <2>1 DEF ReadEof
    <3>2. Read \/ OtherCommand
      BY <3>1
    <3>3. QED
      BY <3>2 DEF Read, SessionIfOk, OtherCommand, login
  <2>4. CASE accepted = {} \/ session # 0
    <3>1. session # 0 => session' # 0
      <4>1. Read => phase # "none"
        BY DEF Read
      <4>2. ~Read => session' = session
        BY Zenon DEF LoginFails, OtherCommand, login
      <4>3. call \in 1..call => call # 0
        BY <1>0, Bounds DEF DataOK
      <4>4. QED
        BY <1>0, <2>3, <4>1, <4>2, <4>3
    <3>2. QED
      BY <1>1, <2>2, <2>4, <3>1 DEF AcceptedIsHeard
  <2>5. CASE accepted # {} /\ session = 0
    <3> DEFINE yes == DoneLine(tag, "ok", call)
    <3>1. phase # "none" /\ yes \in Range(toClient) /\ Read
      BY <2>3, <2>5 DEF AcceptedIsHeard
    <3>2. Range(toClient) = {toClient[1]} \cup Range(toClient') /\ yes' = yes
      BY <1>0, <2>1, RangeHeadTail DEF DoneLine
    <3>3. CASE yes \in Range(toClient')
      <4>1. ~IsTagged(toClient[1])
        <5>1. ASSUME IsTagged(toClient[1]) PROVE FALSE
          <6>1. NoReply(Tail(toClient)) /\ Tail(toClient) \in Seq(Line)
            BY <1>0, <2>1, <5>1, ReplyHeard DEF IsReply
          <6>2. IsReply(yes)
            BY DEF IsReply, IsTagged, DoneLine
          <6>3. QED
            BY <2>1, <3>3, <6>1, <6>2, NoneIsReply
        <5>2. QED
          BY <5>1
      <4>2. pc' = pc /\ pc = "reading"
        BY <1>0, <1>2, <4>1, ReadInBlocks DEF ReadLine
      <4>3. phase' # "none"
        BY <3>1, <4>2 DEF Read
      <4>4. QED
        BY <2>2, <3>2, <3>3, <4>3 DEF AcceptedIsHeard
    <3>4. CASE toClient[1] = yes
      <4>1. /\ IsTagged(toClient[1]) /\ toClient[1].tag = tag /\ toClient[1].status = "ok"
        BY <3>4 DEF IsTagged, DoneLine
      <4>2. pc' = "ready" /\ ret'.outcome = "ok"
        BY <1>0, <1>2, <4>1, ReadInBlocks DEF Outcome
      <4>3. session' = call
        BY <3>1, <4>2 DEF Read, SessionIfOk
      <4>4. session' # 0
        BY <1>0, <3>1, <4>3, Bounds DEF DataOK
      <4>5. QED
        BY <2>2, <4>4 DEF AcceptedIsHeard
    <3>5. QED
      BY <3>1, <3>2, <3>3, <3>4
  <2>6. QED
    BY <2>4, <2>5
<1>3. CASE ReadEof
  <2>1. Steady'
    BY <1>0, <1>1, <1>3, SteadyEof
  <2>2. toClient = <<>> /\ pc' = "ready" /\ pc = "reading"
    BY <1>3 DEF ReadEof, Return
  <2>3. session = 0 => accepted = {}
    <3>1. Range(<<>>) = {}
      <4>1. DOMAIN <<>> = {}
        OBVIOUS
      <4>2. QED
        BY <4>1 DEF Range
    <3>2. QED
      BY <2>2, <3>1 DEF AcceptedIsHeard
  <2>4. ~Read
    BY <1>3, <2>2 DEF Read, ReadLine
  <2>5. session' = session
    BY <2>4, Zenon DEF LoginFails, OtherCommand, login
  <2>6. QED
    BY <1>1, <2>1, <2>3, <2>5 DEF AcceptedIsHeard
<1>4. QED
  BY <1>2, <1>3, Zenon DEF Read

(* ... or answers challenges, ...                                          *)
LEMMA ListenTalked ==
  ASSUME Admitting, Underway, Steady, AcceptedIsHeard, SkipComment \/ Respond \/ GiveUp,
         ~faulted', "literal" \notin derailed'
  PROVE  Steady' /\ AcceptedIsHeard'
<1>0. DataOK /\ FlagsOK /\ Blocks /\ Turn /\ toClient \in Seq(Line) /\ phase = "shake" /\ ~pending
  <2>1. DataOK /\ FlagsOK /\ Blocks /\ Turn /\ phase = "shake"
    BY LoginTypeSplit, Zenon DEF Admitting, Steady, SkipComment, Respond, GiveUp
  <2>2. ~pending
    BY <2>1, Zenon DEF Underway
  <2>3. toClient \in Seq(Line)
    BY <2>1 DEF DataOK
  <2>4. QED
    BY <2>1, <2>2, <2>3
<1>1. /\ toClient # <<>> /\ toClient' = Tail(toClient) /\ Head(toClient) = toClient[1]
      /\ pc = "reading"
      /\ UNCHANGED <<tag, call, up, mode, request, broken, rolledBack, accepted, session>>
  <2>1. /\ toClient # <<>> /\ toClient' = Tail(toClient) /\ pc = "reading"
        /\ UNCHANGED <<tag, call, up, mode, request, broken, rolledBack, accepted, session>>
    BY Zenon DEF SkipComment, Respond, GiveUp, NextLine, client, history, server
  <2>2. QED
    BY <1>0, <2>1
<1>2. ~Continues(toClient[1]) /\ ~toClient[1].lit
  <2>1. ~Continues(toClient[1])
    BY <1>0, <1>1, Zenon DEF Blocks
  <2>2. QED
    BY <2>1 DEF Continues
<1>3. ASSUME IsReply(toClient[1]) PROVE session = 0 => accepted = {}
  <2> DEFINE yes == DoneLine(tag, "ok", call)
  <2>1. NoReply(Tail(toClient)) /\ Tail(toClient) \in Seq(Line)
    BY <1>0, <1>1, <1>3, ReplyHeard
  <2>2. IsReply(yes) /\ yes.kind # "plus" /\ yes.kind = "done"
    BY DEF IsReply, IsTagged, DoneLine
  <2>3. yes \notin Range(Tail(toClient))
    BY <2>1, <2>2, NoneIsReply
  <2>4. Range(toClient) = {toClient[1]} \cup Range(Tail(toClient))
    BY <1>0, <1>1, RangeHeadTail
  <2>5. toClient[1] # yes
    <3>1. toClient[1].kind # "done"
      BY <1>1 DEF SkipComment, Respond, GiveUp, IsComment, IsChallenge
    <3>2. QED
      BY <2>2, <3>1
  <2>6. QED
    BY <2>3, <2>4, <2>5 DEF AcceptedIsHeard
<1>4. CASE SkipComment
  <2>1. toClient[1].kind = "data"
    <3>1. toClient[1].kind # "open"
      BY <1>1, <1>4 DEF SkipComment
    <3>2. QED
      BY <1>1, <1>4, <3>1 DEF SkipComment, IsComment
  <2>2. ~Opens(toClient[1])
    BY <1>2, <2>1 DEF Opens
  <2>3. UNCHANGED <<wbuf, toServer, pc, pending, phase>>
    BY <1>4, Zenon DEF SkipComment, client
  <2>4. Steady'
    BY <1>0, <1>1, <2>2, <2>3, SteadyTaken
  <2>5. AcceptedIsHeard'
    <3>1. Range(toClient) = {toClient[1]} \cup Range(toClient')
      BY <1>0, <1>1, RangeHeadTail
    <3>2. DoneLine(tag, "ok", call)' = DoneLine(tag, "ok", call)
          /\ DoneLine(tag, "ok", call).kind = "done"
      BY <1>1 DEF DoneLine
    <3>3. QED
      BY <1>1, <2>1, <2>3, <3>1, <3>2 DEF AcceptedIsHeard
  <2>6. QED
    BY <2>4, <2>5
<1>5. CASE Respond
  <2>1. toClient[1].kind = "plus"
    BY <1>1, <1>5 DEF Respond, IsChallenge
  <2>2. Send(Text(call)) /\ UNCHANGED <<pc, pending>>
    BY <1>5, Zenon DEF Respond
  <2>3. Steady'
    BY <1>0, <1>1, <1>2, <2>1, <2>2, SteadyWritten
  <2>4. QED
    BY <1>1, <1>3, <2>1, <2>3 DEF AcceptedIsHeard, IsReply
<1>6. CASE GiveUp
  <2>1. toClient[1].kind = "plus"
    BY <1>1, <1>6 DEF GiveUp, IsChallenge
  <2>2. pc' = "ready" /\ pending' = FALSE /\ UNCHANGED <<wbuf, toServer>>
    BY <1>6, Zenon DEF GiveUp, Return
  <2>3. ~Opens(toClient[1]) /\ IsReply(toClient[1])
    BY <1>2, <2>1 DEF Opens, IsReply
  <2>4. Steady'
    BY <1>0, <1>1, <2>2, <2>3, SteadyTaken
  <2>5. QED
    BY <1>1, <1>3, <2>3, <2>4 DEF AcceptedIsHeard
<1>7. QED
  BY <1>4, <1>5, <1>6

(* ... and so it is until an I/O error, or a literal the loop skips.       *)
LEMMA ListeningStep ==
  Admitting /\ Underway /\ Listening /\ [LoginNext]_loginVars => Listening'
<1> SUFFICES ASSUME Admitting, Underway, Listening, [LoginNext]_loginVars,
                    ~faulted', "literal" \notin derailed'
             PROVE  Steady' /\ AcceptedIsHeard'
  BY Zenon DEF Listening
<1>0. DataOK /\ FlagsOK /\ Accounted
  BY LoginTypeSplit, Zenon DEF Admitting
<1>1. Steady /\ AcceptedIsHeard
  BY LoginForGood, Zenon DEF Listening
<1>2. CASE Try \/ (OtherCommand /\ RunOnePart)
  <2>1. RunCommand
    <3>1. ~RunCommandFails
      BY Zenon DEF RunCommandFails
    <3>2. QED
      BY <1>2, <3>1, Zenon DEF Try, RunTwoPart, FailTwoPart, RunOnePart
  <2>2. Steady'
    BY <1>0, <1>1, <2>1, SteadyIssued
  <2>3. UNCHANGED <<accepted, session>>
    BY <1>2, Zenon DEF Try, OtherCommand, login
  <2>4. phase = "none"
    BY <1>2, Zenon DEF Try, OtherCommand
  <2>5. QED
    BY <1>1, <2>2, <2>3, <2>4 DEF AcceptedIsHeard
<1>3. CASE SkipComment \/ Respond \/ GiveUp
  BY <1>1, <1>3, ListenTalked
<1>4. CASE Read
  BY <1>1, <1>4, ListenRead
<1>5. CASE LoginFails
  <2>1. ReadEof
    BY <1>5, Zenon DEF LoginFails, ReadFails
  <2>2. QED
    BY <1>1, <1>5, <2>1, ListenRead
<1>6. CASE OtherCommand
  <2>1. RunOnePart \/ ReadLine \/ ReadEof
    BY <1>6, Zenon DEF OtherCommand, RunCommandFails, ReadFails
  <2>2. QED
    BY <1>1, <1>2, <1>6, <2>1, ListenRead
<1>7. CASE ServeLogin
  BY <1>1, <1>7, ListenServed
<1>8. ASSUME Announce \/ Leave \/ UNCHANGED <<vars, server>>, UNCHANGED login
      PROVE  Steady' /\ AcceptedIsHeard'
  <2>1. Steady'
    BY <1>0, <1>1, <1>8, SteadyTold
  <2>2. Range(toClient) \subseteq Range(toClient')
    <3>1. CASE Announce
      BY <1>0, <3>1, AnnouncedBefore
    <3>2. CASE Leave \/ UNCHANGED <<vars, server>>
      <4>1. UNCHANGED toClient
        BY <3>2, Zenon DEF Leave, HangUp, vars, wire
      <4>2. QED
        BY <4>1
    <3>3. QED
      BY <1>8, <3>1, <3>2
  <2>3. UNCHANGED <<tag, call>>
    BY <1>8, Zenon DEF Announce, Leave, HangUp, client, vars
  <2>4. DoneLine(tag, "ok", call)' = DoneLine(tag, "ok", call)
    BY <2>3 DEF DoneLine
  <2>5. QED
    BY <1>1, <1>8, <2>1, <2>2, <2>4 DEF AcceptedIsHeard, login
<1>9. CASE (Announce \/ Leave) /\ UNCHANGED login
  BY <1>8, <1>9
<1>10. CASE UNCHANGED loginVars
  BY <1>8, <1>10 DEF loginVars
<1>11. QED
  BY <1>2, <1>3, <1>4, <1>5, <1>6, <1>7, <1>9, <1>10, Zenon
  DEF LoginNext, LoginRead, LoginServer

-----------------------------------------------------------------------------
(* When the loop was never derailed: the handshake goes on as long as the  *)
(* server continues it, after a command is issued, ...                     *)
LEMMA ShakeIssued ==
  ASSUME Admitting, Steady, OwnTurn, InShake, RunCommand, Try \/ (OtherCommand /\ RunOnePart)
  PROVE  OwnTurn' /\ InShake'
<1>0. /\ DataOK /\ FlagsOK /\ ServerTypeOK /\ Numbers /\ wbuf = <<>> /\ Turn
      /\ call \in Nat /\ toClient \in Seq(Line)
  <2>1. DataOK /\ FlagsOK /\ ServerTypeOK /\ Numbers /\ wbuf = <<>> /\ Turn
    BY LoginTypeSplit, Zenon DEF Admitting, Matched, Steady, Still
  <2>2. QED
    BY <2>1, Bounds DEF DataOK
<1>1. UNCHANGED server
  BY Zenon DEF Try, OtherCommand
<1>2. OwnTurn'
  BY <1>0, <1>1, OwnIssued
<1>3. /\ NoReply(toClient) /\ UNCHANGED <<toClient, up>> /\ call' = call + 1
      /\ up => toServer = <<>>
  BY <1>0 DEF Turn, Rest, Asked, Told, RunCommand, CanIssue
<1>4. \A line \in Range(toClient') : line.kind # "plus"
  BY <1>0, <1>3, NoneIsReply DEF IsReply
<1>5. up' /\ toServer' # <<>> => ~IsText(Received)'
  <2>1. Append(<<>>, NewCommand) = <<NewCommand>> /\ <<>> \o <<NewCommand>> = <<NewCommand>>
    OBVIOUS
  <2>2. up' => toServer' = <<NewCommand>>
    BY <1>0, <1>3, <2>1 DEF RunCommand, Send
  <2>3. Head(<<NewCommand>>) = NewCommand /\ ~IsText(NewCommand)
    BY <1>0, NewIsNumbered
  <2>4. QED
    BY <2>2, <2>3 DEF Received, IsText
<1>6. call' \in twoPart' => phase' = "shake"
  <2>1. CASE RunOnePart
    <3>1. UNCHANGED twoPart
      BY <2>1, Zenon DEF RunOnePart
    <3>2. QED
      BY <1>0, <1>3, <3>1 DEF Numbers
  <2>2. CASE Try /\ ~RunOnePart
    <3>1. ~RunCommandFails
      <4>1. pc' = "reading"
        BY DEF RunCommand
      <4>2. QED
        BY <4>1 DEF RunCommandFails, Return
    <3>2. QED
      BY <2>2, <3>1, Zenon DEF Try, FailTwoPart
  <2>3. QED
    BY <2>1, <2>2
<1>7. QED
  BY <1>2, <1>4, <1>5, <1>6 DEF InShake, IsText

(* ... in the loop, ...                                                    *)
LEMMA ShakeTalked ==
  ASSUME Admitting, Underway, Steady, OwnTurn, InShake, SkipComment \/ Respond \/ GiveUp,
         ~faulted', derailed' = {}
  PROVE  OwnTurn' /\ InShake'
<1>0. DataOK /\ wbuf = <<>> /\ Turn /\ toClient \in Seq(Line)
  <2>1. DataOK /\ wbuf = <<>> /\ Turn
    BY LoginTypeSplit, Zenon DEF Admitting, Steady, Still
  <2>2. QED
    BY <2>1 DEF DataOK
<1>1. /\ toClient # <<>> /\ toClient' = Tail(toClient) /\ Head(toClient) = toClient[1]
      /\ UNCHANGED <<tag, call, up, mode, request, twoPart>> /\ phase = "shake"
  <2>1. /\ toClient # <<>> /\ toClient' = Tail(toClient)
        /\ UNCHANGED <<tag, call, up, mode, request, twoPart>> /\ phase = "shake"
    BY Zenon DEF SkipComment, Respond, GiveUp, NextLine, client, server
  <2>2. QED
    BY <1>0, <2>1
<1>2. ~GiveUp
  BY DEF GiveUp
<1>3. ASSUME UNCHANGED phase PROVE InShake'
  BY <1>1, <1>3 DEF InShake
<1>4. CASE SkipComment
  <2>1. UNCHANGED <<pc, toServer, phase>>
    BY <1>4, Zenon DEF SkipComment, client
  <2>2. toClient[1].kind # "plus"
    BY <1>1, <1>4 DEF SkipComment, IsComment
  <2>3. OwnTurn'
    BY <1>0, <1>1, <2>1, <2>2, OwnTaken
  <2>4. QED
    BY <1>3, <2>1, <2>3
<1>5. CASE Respond
  <2>1. Send(Text(call)) /\ UNCHANGED <<pc, phase>>
    BY <1>5, Zenon DEF Respond
  <2>2. toClient[1].kind = "plus"
    BY <1>1, <1>5 DEF Respond, IsChallenge
  <2>3. OwnTurn'
    BY <1>0, <1>1, <2>1, <2>2, OwnWritten
  <2>4. QED
    BY <1>3, <2>1, <2>3
<1>6. QED
  BY <1>2, <1>4, <1>5

(* ... until the response is read, ...                                     *)
LEMMA ShakeRead ==
  ASSUME Admitting, Underway, Steady, OwnTurn, InShake,
         \/ Read \/ (LoginFails /\ ReadEof)
         \/ OtherCommand /\ (ReadLine \/ ReadEof)
  PROVE  OwnTurn' /\ InShake'
<1>0. /\ DataOK /\ FlagsOK /\ Turn /\ Blocks /\ toClient \in Seq(Line) /\ HeardAsAnswered
  BY LoginTypeSplit, Zenon DEF Admitting, Matched, DataOK, Steady
<1>1. UNCHANGED <<mode, request, twoPart>>
  BY Zenon DEF Read, LoginFails, OtherCommand, server, RunOnePart
<1>2. CASE ReadLine
  <2>1. /\ toClient # <<>> /\ toClient' = Tail(toClient) /\ Head(toClient) = toClient[1]
        /\ UNCHANGED <<tag, call, toServer, up>> /\ pc = "reading"
    BY <1>0, <1>2 DEF ReadLine
  <2>2. pc' = pc \/ IsTagged(toClient[1])
    BY <1>0, <1>2, ReadInBlocks, Zenon
  <2>3. Range(toClient) = {toClient[1]} \cup Range(toClient')
    BY <1>0, <2>1, RangeHeadTail
  <2>4. Read \/ OtherCommand
    <3>1. ~ReadEof
      BY <2>1 DEF ReadEof
    <3>2. QED
      BY <3>1
  <2>5. phase = "shake" => /\ ~IsComment(toClient[1]) /\ ~IsChallenge(toClient[1])
                           /\ Read
    BY <2>1, <2>4 DEF Read, OtherCommand
  <2>6. toClient[1].kind # "plus"
    BY <2>3, <2>5 DEF InShake, IsChallenge
  <2>7. OwnTurn'
    BY <1>0, <1>1, <2>1, <2>2, <2>6, OwnTaken
  <2>8. phase = "shake" => IsTagged(toClient[1])
    <3>1. ASSUME phase = "shake" PROVE ~Continues(toClient[1])
      <4>1. ~pending
        BY <3>1, Zenon DEF Underway
      <4>2. QED
        BY <1>0, <2>1, <4>1, Zenon DEF Blocks
    <3>2. /\ ~toClient[1].lit /\ toClient[1] \in Line
          /\ toClient[1].kind = "junk" => toClient[1].lit
      <4>1. toClient[1] \in Range(toClient) /\ 1 \in 1..Len(toClient)
        BY <1>0, <2>1 DEF Range
      <4>2. ~toClient[1].lit
        BY <1>0, <4>1 DEF HeardAsAnswered
      <4>3. toClient[1].kind = "junk" => toClient[1].lit
        BY <1>0, <4>1 DEF Blocks
      <4>4. toClient[1] \in Line
        BY <1>0, <2>1
      <4>5. QED
        BY <4>2, <4>3, <4>4
    <3>3. QED
      BY <2>5, <3>1, <3>2
      DEF IsTagged, Continues, IsComment, IsChallenge, Line, LineKinds
  <2>9. CASE IsTagged(toClient[1])
    <3>1. toServer' = <<>> /\ NoReply(toClient') /\ toClient' \in Seq(Line)
      BY <1>0, <2>1, <2>9, ReplyHeard DEF IsReply
    <3>2. \A line \in Range(toClient') : line.kind # "plus"
      BY <3>1, NoneIsReply DEF IsReply
    <3>3. QED
      BY <2>7, <3>1, <3>2 DEF InShake
  <2>10. CASE phase # "shake"
    <3>1. Received' = Received
      BY <2>1 DEF Received
    <3>2. InShake'
      BY <1>1, <2>1, <2>3, <2>10, <3>1 DEF InShake, IsText
    <3>3. QED
      BY <2>7, <3>2
  <2>11. QED
    BY <2>8, <2>9, <2>10
<1>3. CASE ReadEof
  <2>1. ~up' /\ toClient' = <<>>
    BY <1>3, Zenon DEF ReadEof, wire
  <2>2. DOMAIN <<>> = {}
    OBVIOUS
  <2>3. InShake'
    BY <2>1, <2>2 DEF InShake, Range
  <2>4. QED
    BY <1>3, <2>3, OwnEof
<1>4. QED
  BY <1>2, <1>3, Zenon DEF Read

(* ... and when the server takes its turn ...                              *)
LEMMA ShakeServed ==
  ASSUME Admitting, Underway, Steady, OwnTurn, InShake, ServeLogin
  PROVE  OwnTurn' /\ InShake'
<1>0. /\ DataOK /\ ServerTypeOK /\ Turn /\ toClient \in Seq(Line) /\ request \in Command
      /\ Numbers
  BY LoginTypeSplit, Zenon DEF Admitting, Matched, DataOK, Steady, ServerTypeOK
<1>1. TakesTurn /\ ~RejectText /\ ~TakeCommand /\ Takes
  BY <1>0, LoginTurns, Zenon DEF TakesTurn
<1>2. SUFFICES InShake'
  BY <1>0, <1>1, OwnServed
<1>3. /\ toServer' = <<>> /\ up /\ toServer # <<>> /\ NoReply(toClient)
      /\ \/ Received = Own /\ ~IsText(Received)
         \/ /\ Received = Text(call) /\ IsText(Received)
            /\ mode = "continuing" /\ request = Own
  BY <1>0, <1>1, AskedIsReceived DEF Takes
<1>4. UNCHANGED phase
  BY ServeAccounts, Zenon
<1>5. ASSUME NEW c \in Command, NEW s \in Statuses, Answers(c, s) PROVE InShake'
  <2>1. Range(toClient') = Range(toClient) \cup {DoneLine(c.tag, s, c.id)}
    BY <1>0, <1>5, AnswersAreLines, RangeAppend DEF Answers, Sends
  <2>2. DoneLine(c.tag, s, c.id).kind # "plus"
    BY DEF DoneLine
  <2>3. QED
    BY <1>3, <1>4, <2>1, <2>2 DEF InShake
<1>6. ASSUME phase = "shake" PROVE InShake'
  BY <1>3, <1>4, <1>6 DEF InShake
<1>7. CASE InviteResponse
  <2>1. Received.id \in twoPart /\ ~IsText(Received)
    BY <1>7, Zenon DEF InviteResponse
  <2>2. phase = "shake"
    BY <1>3, <2>1 DEF InShake, Own
  <2>3. QED
    BY <1>6, <2>2
<1>8. CASE TakeResponse
  <2>1. IsText(Received)
    BY <1>8, Zenon DEF TakeResponse
  <2>2. phase = "shake"
    BY <1>3, <2>1 DEF InShake
  <2>3. QED
    BY <1>6, <2>2
<1>9. CASE ServeLine \/ Refuse
  <2>1. \E s \in Statuses : Answers(Received, s)
    BY <1>9 DEF ServeLine, ServeOnePart, Refuse, Statuses
  <2>2. Received \in Command
    BY <1>0, <1>1, ReceivedIsFirst, Zenon DEF TakesTurn, ClientSide, client
  <2>3. QED
    BY <1>5, <2>1, <2>2
<1>10. QED
  BY <1>1, <1>7, <1>8, <1>9, Zenon DEF ServeLogin

(* ... or says something unasked.                                          *)
LEMMA ShakingStep ==
  Admitting /\ Underway /\ Listening /\ Shaking /\ [LoginNext]_loginVars => Shaking'
<1> SUFFICES ASSUME Admitting, Underway, Listening, Shaking, [LoginNext]_loginVars,
                    ~faulted', derailed' = {}
             PROVE  OwnTurn' /\ InShake'
  BY Zenon DEF Shaking
<1>0. DataOK /\ FlagsOK
  BY LoginTypeSplit, Zenon DEF Admitting
<1>1. Steady /\ OwnTurn /\ InShake
  <2>1. derailed = {}
    BY LoginForGood
  <2>2. ~faulted /\ "literal" \notin derailed
    <3>1. "literal" \notin derailed
      BY <2>1
    <3>2. QED
      BY <3>1, LoginForGood, Zenon
  <2>3. QED
    BY <2>1, <2>2, Zenon DEF Listening, Shaking
<1>2. CASE Try \/ (OtherCommand /\ RunOnePart)
  <2>1. RunCommand
    <3>1. ~RunCommandFails
      BY Zenon DEF RunCommandFails
    <3>2. QED
      BY <1>2, <3>1, Zenon DEF Try, RunTwoPart, FailTwoPart, RunOnePart
  <2>2. QED
    BY <1>1, <1>2, <2>1, ShakeIssued
<1>3. CASE SkipComment \/ Respond \/ GiveUp
  BY <1>1, <1>3, ShakeTalked
<1>4. CASE Read
  BY <1>1, <1>4, ShakeRead
<1>5. CASE LoginFails
  <2>1. ReadEof
    BY <1>5, Zenon DEF LoginFails, ReadFails
  <2>2. QED
    BY <1>1, <1>5, <2>1, ShakeRead
<1>6. CASE OtherCommand
  <2>1. RunOnePart \/ ReadLine \/ ReadEof
    BY <1>6, Zenon DEF OtherCommand, RunCommandFails, ReadFails
  <2>2. QED
    BY <1>1, <1>2, <1>6, <2>1, ShakeRead
<1>7. CASE ServeLogin
  BY <1>1, <1>7, ShakeServed
<1>8. ASSUME Announce \/ Leave \/ UNCHANGED <<vars, server>>, UNCHANGED login, UNCHANGED twoPart
      PROVE  OwnTurn' /\ InShake'
  <2>1. OwnTurn'
    BY <1>0, <1>1, <1>8, OwnTold
  <2>2. UNCHANGED <<call, toServer>> /\ (up' => up)
    <3>1. CASE Announce \/ Leave
      BY <3>1, Zenon DEF Announce, Leave, HangUp
    <3>2. CASE UNCHANGED <<vars, server>>
      <4>1. UNCHANGED vars
        BY <3>2
      <4>2. QED
        BY <4>1, Zenon DEF vars, wire
    <3>3. QED
      BY <1>8, <3>1, <3>2
  <2>3. UNCHANGED phase /\ Received' = Received
    BY <1>8, <2>2 DEF login, Received
  <2>4. \A line \in Range(toClient') : line.kind = "plus" => phase' = "shake"
    BY <1>0, <1>1, <1>8, <2>3, NoPlusTold DEF InShake
  <2>5. QED
    BY <1>1, <1>8, <2>1, <2>2, <2>3, <2>4 DEF InShake, IsText
<1>9. CASE (Announce \/ Leave) /\ UNCHANGED login
  BY <1>8, <1>9, Zenon DEF Announce, Leave
<1>10. CASE UNCHANGED loginVars
  BY <1>8, <1>10 DEF loginVars
<1>11. QED
  BY <1>2, <1>3, <1>4, <1>5, <1>6, <1>7, <1>9, <1>10, Zenon
  DEF LoginNext, LoginRead, LoginServer

(* All of it holds from the start.                                         *)
LEMMA ShakingHolds == LoginSpec => [](Admitting /\ Underway /\ Listening /\ Shaking)
<1>1. LoginInit => Underway /\ Listening /\ Shaking
  <2> SUFFICES ASSUME LoginInit PROVE Underway /\ Listening /\ Shaking
    OBVIOUS
  <2>1. /\ Init /\ ServerInit /\ phase = "none" /\ accepted = {} /\ pc = "ready"
        /\ toClient = <<>> /\ toServer = <<>>
    BY DEF LoginInit, Init
  <2>2. Steady /\ OwnTurn
    BY <2>1, SteadyInit
  <2>3. Underway
    BY <2>1 DEF Underway
  <2>4. AcceptedIsHeard
    BY <2>1 DEF AcceptedIsHeard
  <2>5. InShake
    <3>1. DOMAIN <<>> = {}
      OBVIOUS
    <3>2. QED
      BY <2>1, <3>1 DEF InShake, Range
  <2>6. QED
    BY <2>2, <2>3, <2>4, <2>5, Zenon DEF Listening, Shaking
<1>2. Admitting /\ Underway /\ Listening /\ Shaking /\ [LoginNext]_loginVars
        => Underway' /\ Listening' /\ Shaking'
  BY UnderwayStep, ListeningStep, ShakingStep
<1>3. QED
  BY <1>1, <1>2, AdmittingHolds, PTL DEF LoginSpec

(* A Client that was handed back is not logged in: short of an I/O error   *)
(* and of a literal in the dialogue, no call that returned an error had    *)
(* its credentials accepted, ...                                           *)
THEOREM NotLoggedIn == LoginSpec => []ClientIsNotLoggedIn
<1>1. Listening => ClientIsNotLoggedIn
  BY Zenon DEF Listening, AcceptedIsHeard, ClientIsNotLoggedIn
<1>2. QED
  BY <1>1, ShakingHolds, PTL

(* ... and when the loop was not derailed in any other way the server then *)
(* waits for a command, all others being answered and their answers read.  *)
THEOREM LoginInStep == LoginSpec => []InStepAfterLogin
<1>1. Admitting /\ Listening /\ Shaking => InStepAfterLogin
  <2> SUFFICES ASSUME Admitting, Listening, Shaking, ~faulted, derailed = {}, pc = "ready", up
               PROVE  Unanswered = 0 /\ mode = "command"
    BY Zenon DEF InStepAfterLogin
  <2>1. DataOK /\ ServerTypeOK
    BY LoginTypeSplit, Zenon DEF Admitting
  <2>2. Steady /\ OwnTurn
    <3>1. "literal" \notin derailed
      OBVIOUS
    <3>2. QED
      BY <3>1, Zenon DEF Listening, Shaking
  <2>3. Unanswered = 0
    BY <2>1, <2>2, SteadyInStep
  <2>4. mode = "command"
    BY <2>1, <2>2 DEF OwnTurn, ServerTypeOK
  <2>5. QED
    BY <2>3, <2>4
<1>2. QED
  BY <1>1, ShakingHolds, PTL
=============================================================================
