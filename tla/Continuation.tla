---------------------------- MODULE Continuation ----------------------------
(***************************************************************************)
(* The server (external) of the commands that are sent in two parts: IDLE, *)
(* APPEND and AUTHENTICATE.  It answers the first part with a continuation *)
(* request, "+", or refuses it; after a "+" it takes whatever line comes   *)
(* next as the second part.                                                *)
(*                                                                         *)
(* The second parts carry no tag.  A line of the client is a Command whose *)
(* tag is 0 when it is one.                                                *)
(***************************************************************************)
EXTENDS Connection

VARIABLES
    mode,       \* "command", or "continuing" after a "+"
    request,    \* the command so continued, or the last one
    twoPart     \* history: the calls that wrote the first part of a command

server == <<mode, request>>

NoCommand == [tag |-> 0, id |-> 0]

(* The second part that call i writes. *)
Text(i) == [tag |-> 0, id |-> i]

IsText(c) == c.tag = 0

ServerTypeOK ==
    /\ mode \in {"command", "continuing"}
    /\ request \in Command
    /\ twoPart \subseteq 1..MaxCalls

ServerInit == mode = "command" /\ request = NoCommand /\ twoPart = {}

(* The first part of such a command: run_command without its read.         *)
RunTwoPart == RunCommand /\ twoPart' = twoPart \cup {call + 1}

FailTwoPart == RunCommandFails /\ twoPart' = twoPart \cup {call + 1}

RunOnePart == RunCommand /\ UNCHANGED twoPart

-----------------------------------------------------------------------------
Received == Head(toServer)

Takes == up /\ toServer # <<>> /\ toServer' = Tail(toServer)

Sends(line) == toClient' = Append(toClient, line)

Answers(c, s) ==
    /\ Sends(DoneLine(c.tag, s, c.id))
    /\ answers' = answers \cup {[id |-> c.id, status |-> s]}

(* What no action of the server but HangUp and Announce changes. *)
ClientSide == <<client, up, chatter, call, ret, rolledBack, broken, faulted, twoPart>>

Invite ==
    /\ mode = "command" /\ Takes /\ Received.id \in twoPart /\ ~IsText(Received)
    /\ Sends(Plain("plus"))
    /\ mode' = "continuing" /\ request' = Received
    /\ UNCHANGED <<ClientSide, answers>>

Refuse ==
    /\ mode = "command" /\ Takes /\ Received.id \in twoPart /\ ~IsText(Received)
    /\ \E s \in {"no", "bad"} : Answers(Received, s)
    /\ UNCHANGED <<ClientSide, server>>

ServeOnePart ==
    /\ mode = "command" /\ Takes /\ Received.id \notin twoPart /\ ~IsText(Received)
    /\ \E s \in {"ok", "no"} : Answers(Received, s)
    /\ UNCHANGED <<ClientSide, server>>

(* A second part that continues nothing is a syntax error: its first word  *)
(* is taken for a tag, or it has none.                                     *)
StrayBad == [Plain("data") EXCEPT !.status = "bad"]

RejectText ==
    /\ mode = "command" /\ Takes /\ IsText(Received)
    /\ Sends(StrayBad) \/ Sends(DoneLine(0, "bad", 0))
    /\ UNCHANGED <<ClientSide, answers, server>>

(* Update number chatter + 1, in one line or with a literal. *)
Announce ==
    /\ up /\ chatter < MaxChatter
    /\ chatter' = chatter + 1
    /\ LET update(kind) == [Plain(kind) EXCEPT !.id = chatter + 1]
       IN toClient' \in {toClient \o <<update("data")>>,
                         toClient \o <<Plain("open"), update("close")>>}
    /\ UNCHANGED <<client, toServer, up, call, ret, history, server, twoPart>>

Leave == HangUp /\ UNCHANGED <<server, twoPart>>

Serve == Invite \/ Refuse \/ ServeOnePart \/ RejectText
=============================================================================
