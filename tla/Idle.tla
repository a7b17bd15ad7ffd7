-------------------------------- MODULE Idle --------------------------------
(***************************************************************************)
(* The IDLE handle of src/src/extensions/idle.rs over a Connection, with a *)
(* server that idles.                                                      *)
(*                                                                         *)
(* The caller makes a handle, calls wait_while any number of times and     *)
(* drops it; between handles it runs other commands.  The server pushes    *)
(* updates whenever it likes, and a wait may time out at any point of the  *)
(* octets it reads.                                                        *)
(***************************************************************************)
EXTENDS Continuation

CONSTANT MaxHandles     \* bound on the number of handles made

ASSUME IdleAssumption == MaxHandles \in Nat

VARIABLES
    phase,      \* none: no handle; held: a handle, in the caller's hands;
                \* init, wait, refresh, drop: inside a call of it
    first,      \* init has not read the server's first line
    done,       \* Handle.done
    keepalive,  \* Handle.keepalive
    timed,      \* the stream has a read timeout
    panicked,   \* init reached its unreachable!()
    made,       \* number of handles made
    waited,     \* history: the handle has waited before
    announced,  \* history: updates sent while idling in the present wait
    delivered,  \* history: updates given to the callback of that wait
    trouble     \* history: what went out of the ordinary, see Troubles

handle   == <<phase, first, done, keepalive, timed, panicked, made>>
record   == <<waited, announced, delivered, trouble>>
idleVars == <<vars, handle, server, twoPart, record>>

Phases == {"none", "held", "init", "wait", "refresh", "drop"}

Troubles == {"refused",  \* the server answered an IDLE with NO or BAD
             "early",    \* an untagged response came before the "+"
             "again",    \* wait_while was called on a handle that had waited
             "unused",   \* a handle that never waited was dropped
             "slow",     \* the server's reply to IDLE or DONE timed out
             "unsent",   \* a write failed
             "stopped",  \* the wait ended on a response idling should not get
             "refreshed"}\* keepalive renewed the IDLE

IdleTypeOK ==
    /\ TypeOK /\ ServerTypeOK
    /\ phase \in Phases
    /\ {first, done, keepalive, timed, panicked, waited} \subseteq BOOLEAN
    /\ made \in 0..MaxHandles
    /\ announced \subseteq 1..MaxChatter
    /\ delivered \in Seq(1..MaxChatter)
    /\ trouble \subseteq Troubles

(* The line that ends an IDLE. *)
DONE == Text(0)

IdleInit ==
    /\ Init /\ ServerInit
    /\ phase = "none"
    /\ first = FALSE /\ done = TRUE /\ keepalive = TRUE /\ timed = FALSE
    /\ panicked = FALSE /\ made = 0
    /\ waited = FALSE /\ announced = {} /\ delivered = <<>> /\ trouble = {}

-----------------------------------------------------------------------------
(* The handle.                                                             *)

(* make *)
Make ==
    /\ phase = "none" /\ pc = "ready"
    /\ made < MaxHandles /\ made' = made + 1
    /\ phase' = "held"
    /\ done' = FALSE
    /\ keepalive' \in BOOLEAN
    /\ waited' = FALSE
    /\ UNCHANGED <<vars, first, timed, panicked, server, twoPart, announced, delivered, trouble>>

(* init, up to its first read. *)
SendIdle ==
    /\ RunTwoPart
    /\ first' = TRUE
    /\ phase' = "init"

WaitWhile ==
    /\ phase = "held" /\ ~panicked
    /\ SendIdle
    /\ waited' = TRUE
    /\ announced' = {} /\ delivered' = <<>>
    /\ trouble' = trouble \cup IF waited THEN {"again"} ELSE {}
    /\ UNCHANGED <<done, keepalive, made, timed, panicked, server>>

(* run_command("IDLE")? fails before any timeout is set. *)
WaitUnsent ==
    /\ phase = "held" /\ ~panicked
    /\ FailTwoPart
    /\ waited' = TRUE
    /\ trouble' = trouble \cup {"unsent"}
    /\ UNCHANGED <<handle, server, announced, delivered>>

(* wait_while returns: the timeout is taken off the stream. *)
KeepTimeout == UNCHANGED timed
EndTimeout == timed' = FALSE

EndWait == phase' = "held" /\ EndTimeout

(* What init makes of the outcome of read_response_onto. *)
InitReturns ==
    \/ /\ pc' = "reading"
       /\ UNCHANGED <<phase, timed, panicked>>
    \/ /\ pc' = "ready" /\ ret'.outcome # "ok"
       /\ EndWait
       /\ UNCHANGED panicked
    \/ /\ pc' = "ready" /\ ret'.outcome = "ok"   \* unreachable!()
       /\ phase' = "held" /\ panicked' = TRUE
       /\ UNCHANGED timed

(* The server idles, so a DONE is due. *)
DoneAlready == UNCHANGED done
DoneIsDue == done' = FALSE

(* init's readline: "+" starts the wait ... *)
InitPlus ==
    /\ phase = "init" /\ first
    /\ toClient # <<>> /\ Head(toClient).kind = "plus"
    /\ toClient' = Tail(toClient)
    /\ first' = FALSE /\ DoneIsDue
    /\ timed' = TRUE
    /\ phase' = "wait"
    /\ UNCHANGED <<tag, pc, pending, wbuf, toServer, up, chatter, call, ret, history,
                   keepalive, made, panicked, server, twoPart, record>>

(* ... and any other line is the first of a response to be read to its     *)
(* tagged end.                                                             *)
InitOther ==
    /\ phase = "init" /\ first
    /\ toClient # <<>> /\ Head(toClient).kind # "plus"
    /\ ReadLine
    /\ first' = FALSE
    /\ InitReturns
    /\ trouble' = trouble \cup
          IF Head(toClient).kind \in {"data", "open"} THEN {"early"} ELSE {}
    /\ UNCHANGED <<done, keepalive, made, server, twoPart, waited, announced, delivered>>

InitRest ==
    /\ phase = "init" /\ ~first
    /\ ReadLine
    /\ InitReturns
    /\ UNCHANGED <<first, done, keepalive, made, server, twoPart, record>>

(* A read of init or of a refresh times out; `?' leaves wait_inner. *)
ReplyTimesOut ==
    /\ phase \in {"init", "refresh"} /\ timed
    /\ ReadFails
    /\ EndWait
    /\ trouble' = trouble \cup {"slow"}
    /\ UNCHANGED <<first, done, keepalive, made, panicked, server, twoPart, waited, announced,
                   delivered>>

-----------------------------------------------------------------------------
(* wait_inner *)

(* Dovecot's "* OK Still here", which the loop skips. *)
Notice == Plain("data")
NoNotice(line) == FALSE
AnyOk(line) == line.kind = "data" /\ line.status = "ok"
IsNotice(line) == line = Notice

(* UnsolicitedResponse::try_from: untagged BAD and "+" convert to nothing. *)
IsUpdate(line) == line.kind # "plus" /\ line.status # "bad"

(* The callback takes the response and says whether to go on. *)
DeliverTwice(line) == delivered' = delivered \o <<line.id, line.id>>
Deliver(line) == delivered' = Append(delivered, line.id)

WaitLine ==
    /\ phase = "wait"
    /\ toClient # <<>>
    /\ toClient' = Tail(toClient)
    /\ LET line   == Head(toClient)
           parsed == ParseResponse(pending, line)
       IN \/ /\ parsed = "incomplete" \/ (~pending /\ IsNotice(line))
             /\ pending' = (parsed = "incomplete")
             /\ UNCHANGED <<pc, phase, timed, delivered, trouble>>
          \/ /\ parsed = "data" /\ IsUpdate(line) /\ (pending \/ ~IsNotice(line))
             /\ Deliver(line)
             /\ pending' = FALSE
             /\ \/ UNCHANGED <<pc, phase, timed>>         \* go on
                \/ pc' = "ready" /\ EndWait               \* MailboxChanged
             /\ UNCHANGED trouble
          \/ /\ parsed \in {"done", "invalid"} \/ (parsed = "data" /\ ~IsUpdate(line))
             /\ pc' = "ready" /\ pending' = FALSE
             /\ EndWait
             /\ trouble' = trouble \cup {"stopped"}
             /\ UNCHANGED delivered
    /\ UNCHANGED <<tag, wbuf, toServer, up, chatter, call, ret, history,
                   first, done, keepalive, made, panicked, server, twoPart, waited, announced>>

(* The read times out and keepalive is off: TimedOut. *)
WaitTimesOut ==
    /\ phase = "wait" /\ ~keepalive
    /\ DropInput
    /\ pc' = "ready" /\ pending' = FALSE
    /\ EndWait
    /\ UNCHANGED <<tag, wbuf, toServer, up, chatter, call, ret, answers, rolledBack, faulted,
                   first, done, keepalive, made, panicked, server, twoPart, record>>

(* The write half of terminate. *)
SendNothing == done' = TRUE /\ pc' = "reading" /\ UNCHANGED <<toServer, wbuf>>
SendDone == done' = TRUE /\ Send(DONE) /\ pc' = "reading"

(* The read times out and keepalive is on: terminate, then init again (as  *)
(* long as the bounds let it).                                             *)
Refresh ==
    /\ phase = "wait" /\ keepalive
    /\ call < MaxCalls /\ tag < MaxTag
    /\ DropInput
    /\ pending' = FALSE
    /\ SendDone
    /\ phase' = "refresh"
    /\ trouble' = trouble \cup {"refreshed"}
    /\ UNCHANGED <<tag, up, chatter, call, ret, answers, rolledBack, faulted, first,
                   keepalive, made, timed, panicked, server, twoPart, waited, announced, delivered>>

(* terminate or init cannot write: `?' leaves wait_inner. *)
RenewalUnsent ==
    /\ \/ /\ phase = "wait" /\ keepalive
          /\ DropInput
          /\ SendFails(DONE) /\ done' = TRUE
          /\ Return("io", 0)
          /\ UNCHANGED <<tag, call, rolledBack, twoPart>>
       \/ /\ phase = "refresh" /\ FailTwoPart
          /\ UNCHANGED <<toClient, done>>
    /\ faulted' = TRUE
    /\ EndWait
    /\ trouble' = trouble \cup {"unsent"}
    /\ UNCHANGED <<up, chatter, answers, first, keepalive, made, panicked, server, waited,
                   announced, delivered>>

(* The read half: a call that fails leaves wait_inner. *)
RefreshRead ==
    /\ phase = "refresh" /\ pc = "reading"
    /\ ReadLine
    /\ IF pc' = "ready" /\ ret'.outcome # "ok"
       THEN EndWait
       ELSE UNCHANGED <<phase, timed>>
    /\ UNCHANGED <<first, done, keepalive, made, panicked, server, twoPart, record>>

Reinit ==
    /\ phase = "refresh" /\ pc = "ready"
    /\ SendIdle
    /\ UNCHANGED <<done, keepalive, made, timed, panicked, server, waited, announced, delivered,
                   trouble>>

(* The server is gone, whatever was being read. *)
WaitEof ==
    /\ phase \in {"init", "wait", "refresh"}
    /\ ReadEof
    /\ EndWait
    /\ UNCHANGED <<first, done, keepalive, made, panicked, server, twoPart, record>>

-----------------------------------------------------------------------------
(* drop: terminate, its outcome ignored.                                   *)

AnyTime == TRUE
DoneWanted == ~done

DropQuietly ==
    /\ phase = "held" /\ done
    /\ phase' = "none"
    /\ UNCHANGED <<vars, first, done, keepalive, made, timed, panicked, server, twoPart, record>>

DropDone ==
    /\ phase = "held" /\ DoneWanted
    /\ SendDone
    /\ phase' = "drop"
    /\ TagReused
    /\ trouble' = trouble \cup IF waited THEN {} ELSE {"unused"}
    /\ UNCHANGED <<tag, pending, toClient, up, chatter, call, ret, answers, rolledBack, faulted,
                   first, keepalive, made, timed, panicked, server, twoPart, waited, announced,
                   delivered>>

DropUnsent ==
    /\ phase = "held" /\ DoneWanted
    /\ SendFails(DONE) /\ done' = TRUE
    /\ phase' = "none"
    /\ faulted' = TRUE
    /\ trouble' = trouble \cup {"unsent"}
    /\ UNCHANGED <<tag, pc, pending, toClient, up, chatter, call, ret, answers, rolledBack, broken,
                   first, keepalive, made, timed, panicked, server, twoPart, waited, announced,
                   delivered>>

DropRead ==
    /\ phase = "drop"
    /\ ReadLine \/ ReadEof
    /\ phase' = IF pc' = "ready" THEN "none" ELSE "drop"
    /\ UNCHANGED <<first, done, keepalive, made, timed, panicked, server, twoPart, record>>

(* Any other command of the session. *)
OtherCommand ==
    /\ phase = "none"
    /\ RunOnePart \/ ((ReadLine \/ ReadEof) /\ UNCHANGED twoPart)
    /\ UNCHANGED <<handle, server, record>>

-----------------------------------------------------------------------------
(* The server (external).                                                  *)

(* A line that comes while idling ends it: well if it is DONE, and else in *)
(* an error.                                                               *)
EndIdling ==
    /\ mode = "continuing" /\ Takes
    /\ Answers(request, IF Received = DONE THEN "ok" ELSE "bad")
    /\ mode' = "command"
    /\ UNCHANGED <<ClientSide, request>>

ServeIdle == Serve \/ EndIdling

SendNotice ==
    /\ up /\ mode = "continuing" /\ chatter < MaxChatter
    /\ chatter' = chatter + 1
    /\ Sends(Notice)
    /\ UNCHANGED <<client, toServer, up, call, ret, history, server, twoPart>>

IdleServer ==
    \/ /\ ServeIdle
       /\ trouble' = trouble \cup IF Refuse THEN {"refused"} ELSE {}
       /\ UNCHANGED <<handle, waited, announced, delivered>>
    \/ /\ Announce
       /\ announced' = announced \cup IF mode = "continuing" THEN {chatter'} ELSE {}
       /\ UNCHANGED <<handle, waited, delivered, trouble>>
    \/ (SendNotice \/ Leave) /\ UNCHANGED <<handle, record>>

-----------------------------------------------------------------------------
Handle == \/ Make
          \/ WaitWhile \/ WaitUnsent \/ InitPlus \/ InitOther \/ InitRest \/ ReplyTimesOut
          \/ WaitLine \/ WaitTimesOut \/ Refresh \/ RefreshRead \/ Reinit \/ RenewalUnsent \/ WaitEof
          \/ DropQuietly \/ DropDone \/ DropUnsent \/ DropRead

IdleNext == Handle \/ OtherCommand \/ IdleServer

IdleSpec == IdleInit /\ [][IdleNext]_idleVars

(* Blocked reads return, timeouts expire, the server serves what it is     *)
(* sent, and a caller that is in a drop stays there until it returns.      *)
FairIdleSpec ==
    /\ IdleSpec
    /\ WF_idleVars(DropRead)
    /\ WF_idleVars(ServeIdle /\ IdleServer)

-----------------------------------------------------------------------------
(* Properties.                                                             *)

(* Nothing but renewals went on: the server accepted each IDLE at once, no *)
(* octets were cut by a timeout, no write failed, and each handle waited   *)
(* once.                                                                   *)
Ordinary == ~broken /\ trouble \subseteq {"refreshed"}

(* A handle that is gone leaves the session as it found it: the server     *)
(* takes commands again and has none left to answer (terminate, Drop).     *)
InStepAfterHandle ==
    Ordinary /\ phase = "none" /\ pc = "ready" /\ up => Unanswered = 0 /\ mode = "command"

(* The read timeout a wait sets is never in force outside it, whichever of *)
(* its six ways out wait_while takes.                                      *)
TimeoutIsTaken == phase \in {"none", "held", "drop"} => ~timed

(* init's unreachable!() is not reached by a server that accepts or        *)
(* refuses an IDLE, even out of step, unless a tag was used twice.         *)
NeverPanics == panicked => broken

(* The callback sees the updates of one wait in the order the server sent  *)
(* them, each once (v.clear() after a complete parse), through every       *)
(* renewal.                                                                *)
InOrder == \A i, j \in DOMAIN delivered : i < j => delivered[i] < delivered[j]

OnTheWay == {line.id : line \in {l \in Range(toClient) : l.kind \in {"data", "close"}}}

(* "The `wait_while` function takes a callback function which receives any *)
(* responses that arrive on the channel while IDLE" (idle.rs:24).          *)
CallbackReceivesAll == announced \ OnTheWay \subseteq Range(delivered)

(* It does, as long as the IDLE is not renewed: terminate drops what comes *)
(* with the reply to DONE.                                                 *)
WaitMissesNothing ==
    phase = "wait" /\ Ordinary /\ "refreshed" \notin trouble => CallbackReceivesAll

(* Each "DONE" of a first handle reaches a server that is idling, even if  *)
(* a renewal was given up or a response cut (the flag `done').             *)
DoneEndsAnIdle ==
    /\ made = 1 /\ trouble \subseteq {"refreshed", "slow"}
    /\ up /\ toServer # <<>> /\ Head(toServer) = DONE
    => mode = "continuing"

(* init reads on after the first line only if the server has refused: "We  *)
(* should *only* get a continuation on an error (i.e., it gives BAD or     *)
(* NO)" (idle.rs:116).                                                     *)
ReadsOnIfRefused == phase = "init" /\ ~first => mode = "command"

(* Dropping a handle in ordinary use returns when the server serves what it *)
(* is sent: "A tagged response will be sent either a) if there's an error, *)
(* or b) *after* we send DONE" (idle.rs:104).                              *)
OrdinaryDropReturns == phase = "drop" ~> (phase # "drop" \/ ~Ordinary)
=============================================================================
