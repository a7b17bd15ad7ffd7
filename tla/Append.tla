------------------------------- MODULE Append -------------------------------
(***************************************************************************)
(* AppendCmd::finish of src/src/client.rs: the command announces the size  *)
(* of a message, the server invites it with "+", the message follows as    *)
(* bare octets.  Other commands may come before and after.                 *)
(*                                                                         *)
(* A server that has sent the "+" counts octets: it takes what comes next  *)
(* for the message, whatever that is.                                      *)
(***************************************************************************)
EXTENDS Continuation

VARIABLES
    phase,      \* none; invite: to read the first line; finish: to read the rest
    stored,     \* history: the messages the server stored, by the call that
                \* asked for it and the call whose octets it stored
    gaveUp,     \* history: the calls that returned Error::Append
    early       \* history: the first line was not the server's answer

append     == <<phase, stored, gaveUp, early>>
appendVars == <<vars, append, server, twoPart>>

AppendTypeOK ==
    /\ TypeOK /\ ServerTypeOK
    /\ phase \in {"none", "invite", "finish"}
    /\ stored \subseteq [asked : 1..MaxCalls, sent : 1..MaxCalls]
    /\ gaveUp \subseteq 1..MaxCalls
    /\ early \in BOOLEAN

AppendInit ==
    /\ Init /\ ServerInit
    /\ phase = "none" /\ stored = {} /\ gaveUp = {} /\ early = FALSE

-----------------------------------------------------------------------------
(* finish: run_command(...)? *)
StartAppend ==
    /\ phase = "none"
    /\ \/ RunTwoPart /\ phase' = "invite"
       \/ FailTwoPart /\ UNCHANGED phase
    /\ UNCHANGED <<server, stored, gaveUp, early>>

(* v.starts_with(b"+") *)
AnyLine(line) == TRUE
Untagged(line) == line.kind = "data"
Invites(line) == line.kind = "plus"

(* stream.write_all(content), CRLF, flush *)
NeverFlushed ==
    /\ wbuf' = Append(wbuf, Text(call))
    /\ UNCHANGED toServer
SendContent == Send(Text(call))

(* A write that fails may leave the message in BufStream, or lose its rest *)
(* when it is larger than the buffer.                                      *)
ContentFails ==
    \/ SendFails(Text(call))
    \/ UNCHANGED <<toServer, wbuf>>

ReadInvite ==
    /\ phase = "invite" /\ pc = "reading"
    /\ toClient # <<>> /\ Invites(Head(toClient))
    /\ toClient' = Tail(toClient)
    /\ \/ /\ SendContent
          /\ phase' = "finish"
          /\ UNCHANGED <<pc, pending, ret, faulted>>
       \/ /\ ContentFails
          /\ phase' = "none"
          /\ Return("io", 0)
          /\ faulted' = TRUE
    /\ UNCHANGED <<tag, up, chatter, call, answers, rolledBack, broken, server, twoPart,
                   stored, gaveUp, early>>

(* Any other first line is an Error::Append. *)
ReadRefusal ==
    /\ phase = "invite" /\ pc = "reading"
    /\ toClient # <<>> /\ ~Invites(Head(toClient))
    /\ toClient' = Tail(toClient)
    /\ phase' = "none"
    /\ Return("append", 0)
    /\ gaveUp' = gaveUp \cup {call}
    /\ early' = (early \/ ~IsTagged(Head(toClient)))
    /\ UNCHANGED <<tag, wbuf, toServer, up, chatter, call, history, server, twoPart, stored>>

(* read_response *)
ReadRest ==
    /\ phase = "finish"
    /\ ReadLine
    /\ phase' = IF pc' = "ready" THEN "none" ELSE phase
    /\ UNCHANGED <<server, twoPart, stored, gaveUp, early>>

AppendFails ==
    /\ phase \in {"invite", "finish"}
    /\ ReadFails \/ ReadEof
    /\ phase' = "none"
    /\ UNCHANGED <<server, twoPart, stored, gaveUp, early>>

OtherCommand ==
    /\ phase = "none"
    /\ RunOnePart \/ ((RunCommandFails \/ ReadLine \/ ReadFails \/ ReadEof) /\ UNCHANGED twoPart)
    /\ UNCHANGED <<append, server>>

-----------------------------------------------------------------------------
(* The server (external).                                                  *)

Stores(sender) == stored' = stored \cup {[asked |-> request.id, sent |-> sender]}

TakeContent ==
    /\ mode = "continuing" /\ Takes /\ IsText(Received)
    /\ \/ Answers(request, "ok") /\ Stores(Received.id)
       \/ Answers(request, "no") /\ UNCHANGED stored
    /\ mode' = "command"
    /\ UNCHANGED <<ClientSide, request, phase, gaveUp, early>>

(* The octets of a command: too few for the message, just enough, or more, *)
(* the rest being a syntax error.                                          *)
TakeCommand ==
    /\ mode = "continuing" /\ Takes /\ ~IsText(Received)
    /\ \/ UNCHANGED <<mode, toClient, answers, stored>>
       \/ Answers(request, "ok") /\ Stores(Received.id) /\ mode' = "command"
       \/ Answers(request, "bad") /\ UNCHANGED stored /\ mode' = "command"
    /\ UNCHANGED <<ClientSide, request, phase, gaveUp, early>>

ServeAppend ==
    TakeContent \/ TakeCommand \/ (Serve /\ UNCHANGED append)

AppendServer == ServeAppend \/ ((Announce \/ Leave) /\ UNCHANGED append)

-----------------------------------------------------------------------------
AppendRead == ReadInvite \/ ReadRefusal \/ ReadRest

AppendNext == StartAppend \/ AppendRead \/ AppendFails \/ OtherCommand \/ AppendServer

AppendSpec == AppendInit /\ [][AppendNext]_appendVars

(* Blocked reads return, and the server serves what it is sent. *)
FairAppendSpec ==
    /\ AppendSpec
    /\ WF_appendVars(AppendRead)
    /\ WF_appendVars(AppendFails /\ ReadEof)
    /\ WF_appendVars(ServeAppend)

-----------------------------------------------------------------------------
(* Properties.                                                             *)

(* An APPEND that returns Ok has stored the message it was given, whatever *)
(* commands, timeouts and errors came before it.                           *)
OkIsStored ==
    pc = "ready" /\ call \in twoPart /\ ret.outcome = "ok" /\ ~broken
        => [asked |-> call, sent |-> call] \in stored

(* Each stored message is the one its APPEND was given, and not of an      *)
(* APPEND that returned Error::Append ("no partial appending will happen", *)
(* client.rs:1200), as long as no call failed for an I/O error and no      *)
(* untagged line came before the "+".                                      *)
StoredIsMine ==
    ~faulted /\ ~early => \A m \in stored : m.sent = m.asked /\ m.asked \notin gaveUp

(* ... and the session is then in step between commands: the server waits  *)
(* for a command, and has answered all (every return of finish).           *)
InStepAfterAppend ==
    ~faulted /\ ~early /\ phase = "none" /\ pc = "ready" /\ up
        => Unanswered = 0 /\ mode = "command"

(* finish returns when the server serves what it is sent, save after a     *)
(* fault or an early update: the server may then take the command for the  *)
(* octets it still waits for, and wait on.                                 *)
AppendReturns == phase # "none" ~> phase = "none" \/ early \/ faulted
=============================================================================
