------------------------------- MODULE Login --------------------------------
(***************************************************************************)
(* `Client' of src/src/client.rs: login and authenticate turn it into a    *)
(* Session, or hand it back with an error to try again.                    *)
(*                                                                         *)
(* AUTHENTICATE is a dialogue: the server sends challenges, each answered  *)
(* with one bare line, until its tagged response.                          *)
(***************************************************************************)
EXTENDS Continuation

CONSTANT MaxChallenges      \* bound on the challenges the server sends

ASSUME LoginAssumption == MaxChallenges \in Nat

VARIABLES
    phase,      \* none; shake: in do_auth_handshake's loop; reply: reading the
                \* rest of a response
    session,    \* the call that returned a Session, 0 while there is a Client
    credentials,\* history: the calls that carry credentials
    accepted,   \* history: those of them the server accepted
    challenges, \* number of challenges sent
    derailed    \* history: what the loop met and cannot go on from, "garbled" (a
                \* challenge it cannot decode) or "literal"

login     == <<phase, session, credentials, accepted, challenges, derailed>>
loginVars == <<vars, login, server, twoPart>>

LoginTypeOK ==
    /\ TypeOK /\ ServerTypeOK
    /\ phase \in {"none", "shake", "reply"}
    /\ session \in 0..MaxCalls
    /\ credentials \subseteq 1..MaxCalls
    /\ accepted \subseteq credentials
    /\ challenges \in 0..MaxChallenges
    /\ derailed \subseteq {"garbled", "literal"}

LoginInit ==
    /\ Init /\ ServerInit
    /\ phase = "none" /\ session = 0
    /\ credentials = {} /\ accepted = {} /\ challenges = 0 /\ derailed = {}

Challenge == Plain("plus")
Garbled   == [Plain("plus") EXCEPT !.status = "bad"]    \* its text is not base64

-----------------------------------------------------------------------------
(* The client.                                                             *)

(* authenticate and login: run_command. *)
Try ==
    /\ phase = "none" /\ session = 0
    /\ \/ RunTwoPart /\ phase' = "shake"
       \/ FailTwoPart /\ UNCHANGED phase
       \/ RunOnePart /\ phase' = "reply"
       \/ RunCommandFails /\ UNCHANGED <<phase, twoPart>>
    /\ credentials' = credentials \cup {call'}
    /\ UNCHANGED <<server, session, accepted, challenges, derailed>>

NextLine == toClient # <<>> /\ toClient' = Tail(toClient)

(* line.starts_with(b"* "), line.starts_with(b"+ ") || line == b"+\r\n" *)
NoComment(line) == FALSE
IsComment(line) == line.kind \in {"data", "open"}
CommentToo(line) == line.kind \in {"plus", "data"}
IsChallenge(line) == line.kind = "plus"

SkipComment ==
    /\ phase = "shake" /\ pc = "reading"
    /\ NextLine /\ IsComment(Head(toClient))
    /\ derailed' = derailed \cup IF Head(toClient).kind = "open" THEN {"literal"} ELSE {}
    /\ UNCHANGED <<client, toServer, up, chatter, call, ret, history, server, twoPart,
                   phase, session, credentials, accepted, challenges>>

(* The authenticator's answer to the challenge is written, *)
Respond ==
    /\ phase = "shake" /\ pc = "reading"
    /\ NextLine /\ IsChallenge(Head(toClient)) /\ Head(toClient).status # "bad"
    /\ \/ /\ Send(Text(call))
          /\ UNCHANGED <<pc, pending, ret, faulted, phase>>
       \/ /\ SendFails(Text(call))
          /\ Return("io", 0)
          /\ faulted' = TRUE
          /\ phase' = "none"
    /\ UNCHANGED <<tag, up, chatter, call, answers, rolledBack, broken, server, twoPart,
                   session, credentials, accepted, challenges, derailed>>

(* ... unless it cannot be decoded. *)
GiveUp ==
    /\ phase = "shake" /\ pc = "reading"
    /\ NextLine /\ IsChallenge(Head(toClient)) /\ Head(toClient).status = "bad"
    /\ Return("invalid", 0)
    /\ phase' = "none"
    /\ derailed' = derailed \cup {"garbled"}
    /\ UNCHANGED <<tag, wbuf, toServer, up, chatter, call, history, server, twoPart,
                   session, credentials, accepted, challenges>>

(* A call that returns without an error makes a Session of the connection. *)
SessionRegardless == session' = IF pc' = "ready" THEN call ELSE session
SessionIfOk == session' = IF pc' = "ready" /\ ret'.outcome = "ok" THEN call ELSE session

(* read_response_onto, from the line the loop stopped at or the next one. *)
Read ==
    /\ pc = "reading"
    /\ \/ /\ phase = "shake" /\ toClient # <<>>
          /\ ~IsComment(Head(toClient)) /\ ~IsChallenge(Head(toClient))
       \/ phase = "reply"
    /\ ReadLine
    /\ SessionIfOk
    /\ phase' = IF pc' = "ready" THEN "none" ELSE "reply"
    /\ UNCHANGED <<server, twoPart, credentials, accepted, challenges, derailed>>

LoginFails ==
    /\ phase # "none"
    /\ ReadFails \/ ReadEof
    /\ phase' = "none"
    /\ UNCHANGED <<server, twoPart, session, credentials, accepted, challenges, derailed>>

(* Any other command, of the Client or of the Session. *)
OtherCommand ==
    /\ phase = "none"
    /\ RunOnePart \/ ((RunCommandFails \/ ReadLine \/ ReadFails \/ ReadEof) /\ UNCHANGED twoPart)
    /\ UNCHANGED <<login, server>>

-----------------------------------------------------------------------------
(* The server (external).                                                  *)

SendsChallenge ==
    /\ challenges < MaxChallenges /\ challenges' = challenges + 1
    /\ Sends(Challenge) \/ Sends(Garbled)

InviteResponse ==
    /\ mode = "command" /\ Takes /\ Received.id \in twoPart /\ ~IsText(Received)
    /\ SendsChallenge
    /\ mode' = "continuing" /\ request' = Received
    /\ UNCHANGED <<ClientSide, answers, phase, session, credentials, accepted, derailed>>

AcceptIf(cond, id) == accepted' = accepted \cup IF cond THEN {id} ELSE {}

(* The client's response to a challenge. *)
TakeResponse ==
    /\ mode = "continuing" /\ Takes /\ IsText(Received)
    /\ \/ /\ SendsChallenge
          /\ UNCHANGED <<mode, answers, accepted>>
       \/ /\ \E s \in {"ok", "no"} : Answers(request, s) /\ AcceptIf(s = "ok", request.id)
          /\ mode' = "command"
          /\ UNCHANGED challenges
    /\ UNCHANGED <<ClientSide, request, phase, session, credentials, derailed>>

(* A command in place of a response is not base64. *)
TakeCommand ==
    /\ mode = "continuing" /\ Takes /\ ~IsText(Received)
    /\ Answers(request, "bad")
    /\ mode' = "command"
    /\ UNCHANGED <<ClientSide, request, login>>

ServeLine ==
    /\ ServeOnePart
    /\ AcceptIf(Received.id \in credentials /\ [id |-> Received.id, status |-> "ok"] \in answers',
                Received.id)
    /\ UNCHANGED <<phase, session, credentials, challenges, derailed>>

ServeLogin ==
    \/ InviteResponse \/ TakeResponse \/ TakeCommand \/ ServeLine
    \/ ((Refuse \/ RejectText) /\ UNCHANGED login)

LoginServer == ServeLogin \/ ((Announce \/ Leave) /\ UNCHANGED login)

-----------------------------------------------------------------------------
LoginRead == SkipComment \/ Respond \/ GiveUp \/ Read

LoginNext == Try \/ LoginRead \/ LoginFails \/ OtherCommand \/ LoginServer

LoginSpec == LoginInit /\ [][LoginNext]_loginVars

(* Blocked reads return, and the server serves what it is sent. *)
FairLoginSpec ==
    /\ LoginSpec
    /\ WF_loginVars(LoginRead)
    /\ WF_loginVars(LoginFails /\ ReadEof)
    /\ WF_loginVars(ServeLogin)

-----------------------------------------------------------------------------
(* Properties.                                                             *)

(* There is a Session only if the server accepted the credentials of the   *)
(* very call that returned it, whatever calls failed before it.            *)
SessionIsAccepted == session # 0 /\ ~broken => session \in accepted

(* A Client that was handed back is not logged in: no credentials were     *)
(* accepted by a call that returned an error, short of an I/O error and of *)
(* a literal in the dialogue, whose last line reads as a response.         *)
ClientIsNotLoggedIn ==
    /\ session = 0 /\ phase = "none" /\ pc = "ready" /\ up
    /\ ~faulted /\ "literal" \notin derailed
    => accepted = {}

(* The next command finds the connection in step: no response to a         *)
(* challenge was taken for a command or is still awaited, and no command   *)
(* is unanswered, as long as no call met an I/O error and the loop was not *)
(* derailed.                                                               *)
InStepAfterLogin ==
    ~faulted /\ derailed = {} /\ phase = "none" /\ pc = "ready" /\ up
        => Unanswered = 0 /\ mode = "command"

(* "prompt user and try again with orig_client here" (client.rs:395): a    *)
(* try that follows one without an I/O error reads its own response.       *)
RetryIsAnswered == ~faulted => ret.outcome # "mismatch"

(* login and authenticate return when the server serves what it is sent.   *)
LoginReturns == phase # "none" ~> phase = "none" \/ derailed # {} \/ faulted
=============================================================================
