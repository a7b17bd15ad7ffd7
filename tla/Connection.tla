----------------------------- MODULE Connection -----------------------------
(***************************************************************************)
(* `Connection' of src/src/client.rs: the tag counter, the buffered        *)
(* stream, and the run / read_response primitives every command of         *)
(* `Client' and `Session' is built from, together with the transport and   *)
(* the IMAP server at its other end.                                       *)
(*                                                                         *)
(* The client is one thread that blocks in its reads: between two of its   *)
(* steps the server may answer, push untagged data or hang up, and a write *)
(* or a read may fail and leave the stream usable (a timeout of the        *)
(* underlying socket).  The caller may issue another command after any     *)
(* error, as the API lets it.                                              *)
(***************************************************************************)
EXTENDS Wire, Sequences, FiniteSets, Functions

CONSTANTS MaxTag,       \* u32::MAX: past it `tag += 1' overflows
          MaxCalls,     \* bound on the number of commands issued
          MaxChatter,   \* bound on the untagged responses the server sends
          LiteralText   \* the lines a literal may consist of

ASSUME ConnectionAssumption ==
    /\ MaxTag \in Nat
    /\ MaxCalls \in Nat
    /\ MaxChatter \in Nat
    /\ LiteralText \subseteq {l \in Line : l.lit /\ l.kind \in {"data", "done", "junk"}}

VARIABLES
    tag,        \* Connection.tag
    pc,         \* "ready", or "reading" inside read_response_onto
    pending,    \* continue_from is Some: the last parse was Incomplete
    wbuf,       \* the write half of BufStream: commands not yet on the wire
    toServer,   \* commands on the wire
    toClient,   \* response lines on the wire or in the read half of BufStream
    up,         \* the server has not closed the connection
    chatter,    \* untagged responses sent so far
    call,       \* number of the latest API call
    ret,        \* what that call returned: its outcome, and whose answer it is
    answers,    \* history: what the server answered to which call
    rolledBack, \* history: a write failed and the tag was not skipped since
    broken,     \* history: see TagReused and ReadFails
    faulted     \* history: some call returned an I/O error

client   == <<tag, pc, pending, wbuf>>
wire     == <<toServer, toClient, up, chatter>>
history  == <<answers, rolledBack, broken, faulted>>
vars     == <<client, wire, call, ret, history>>

Outcomes == Statuses \cup {"none", "io", "lost", "mismatch", "invalid", "append"}

TypeOK ==
    /\ tag \in 0..MaxTag
    /\ pc \in {"ready", "reading"}
    /\ pending \in BOOLEAN
    /\ wbuf \in Seq(Command)
    /\ toServer \in Seq(Command)
    /\ toClient \in Seq(Line)
    /\ up \in BOOLEAN
    /\ chatter \in 0..MaxChatter
    /\ call \in 0..MaxCalls
    /\ ret \in [outcome : Outcomes, by : Nat]
    /\ answers \subseteq [id : Nat, status : Statuses]
    /\ rolledBack \in BOOLEAN
    /\ broken \in BOOLEAN
    /\ faulted \in BOOLEAN

Init ==
    /\ tag = 0
    /\ pc = "ready"
    /\ pending = FALSE
    /\ wbuf = <<>> /\ toServer = <<>> /\ toClient = <<>>
    /\ up = TRUE
    /\ chatter = 0
    /\ call = 0
    /\ ret = [outcome |-> "none", by |-> 0]
    /\ answers = {}
    /\ rolledBack = FALSE /\ broken = FALSE /\ faulted = FALSE

-----------------------------------------------------------------------------
(* The caller's side.                                                      *)

ReturnMidResponse(outcome, by) ==
    /\ pc' = "ready"
    /\ UNCHANGED pending
    /\ ret' = [outcome |-> outcome, by |-> by]

Return(outcome, by) ==
    /\ pc' = "ready"
    /\ pending' = FALSE
    /\ ret' = [outcome |-> outcome, by |-> by]

(* create_command: the number of the command about to be written. *)
SameTag == tag
NextTag == tag + 1

(* run_command after a failed write: the tag taken by create_command is    *)
(* given back.                                                             *)
TwiceRolledBack == NextTag - 2
RolledBackTag == NextTag - 1

(* write_line: the buffer and the new line go out together.                *)
Send(command) ==
    /\ toServer' = toServer \o Append(wbuf, command)
    /\ wbuf' = <<>>

(* write_line fails: BufStream hands the first n buffered lines to the     *)
(* socket and keeps the others for the next flush.                         *)
SendFails(command) ==
    LET buffered == Append(wbuf, command)
    IN \E n \in 0..Len(buffered) :
          /\ toServer' = toServer \o SubSeq(buffered, 1, n)
          /\ wbuf' = SubSeq(buffered, n + 1, Len(buffered))

CanIssue == pc = "ready" /\ call < MaxCalls /\ tag < MaxTag

NewCommand == [tag |-> NextTag, id |-> call + 1]

(* A command written while the tag of a failed one stands rolled back goes *)
(* out under that same tag.                                                *)
TagReused == broken' = (broken \/ rolledBack)

(* run when write_line succeeds, up to its first read. *)
RunCommand ==
    /\ CanIssue
    /\ call' = call + 1
    /\ tag' = NextTag
    /\ Send(NewCommand)
    /\ pc' = "reading" /\ pending' = FALSE
    /\ ret' = [outcome |-> "none", by |-> 0]
    /\ TagReused
    /\ UNCHANGED <<toClient, up, chatter, answers, rolledBack, faulted>>

(* run when write_line fails. *)
RunCommandFails ==
    /\ CanIssue
    /\ call' = call + 1
    /\ SendFails(NewCommand)
    /\ tag' = RolledBackTag
    /\ Return("io", 0)
    /\ rolledBack' = TRUE
    /\ TagReused
    /\ faulted' = TRUE
    /\ UNCHANGED <<toClient, up, chatter, answers>>

(* skip_tag *)
SkipTag ==
    /\ pc = "ready"
    /\ tag < MaxTag
    /\ tag' = tag + 1
    /\ rolledBack' = FALSE
    /\ UNCHANGED <<pc, pending, wbuf, wire, call, ret, answers, broken, faulted>>

(* The comparison of a Done's tag with match_tag. *)
AnyTag(line) == TRUE
TagMatches(line) == line.tag = tag

(* What the status of a matching Done makes of the call; PREAUTH is taken  *)
(* for a parse error.                                                      *)
PreauthIsOk(status) == IF status = "preauth" THEN "ok" ELSE status
Outcome(status) == IF status = "preauth" THEN "invalid" ELSE status

(* The body of the loop of read_response_onto on the line just read. *)
OnLine(line) ==
    LET parsed == ParseResponse(pending, line)
    IN \/ /\ parsed \in {"data", "incomplete"}
          /\ pending' = (parsed = "incomplete")
          /\ UNCHANGED <<pc, ret>>
       \/ /\ parsed = "done" /\ ~TagMatches(line)
          /\ Return("mismatch", line.id)
       \/ /\ parsed = "done" /\ TagMatches(line)
          /\ Return(Outcome(line.status), line.id)
       \/ /\ parsed = "invalid"         \* reported as Error::Bye
          /\ Return("bye", 0)

(* readline succeeds. *)
ReadLine ==
    /\ pc = "reading"
    /\ toClient # <<>>
    /\ toClient' = Tail(toClient)
    /\ OnLine(Head(toClient))
    /\ UNCHANGED <<tag, wbuf, toServer, up, chatter, call, history>>

(* The rest of a line whose first octets are gone.  A tagged line may keep *)
(* a readable tag ("a12 OK" cut after its "a"), but never one of ours.     *)
Rests(line) ==
    {[line EXCEPT !.kind = "junk"]}
        \cup IF line.kind = "done" /\ ~line.lit THEN {[line EXCEPT !.tag = 0]} ELSE {}

(* A failed readline drops what was read of the current response, and of   *)
(* the line when only its first octets had arrived, with `data'.           *)
DropInput ==
    \/ /\ UNCHANGED toClient
       /\ broken' = (broken \/ pending)
    \/ /\ toClient # <<>>
       /\ \E rest \in Rests(Head(toClient)) :
             toClient' = <<rest>> \o Tail(toClient)
       /\ broken' = TRUE

ReadFails ==
    /\ pc = "reading"
    /\ DropInput
    /\ Return("io", 0)
    /\ faulted' = TRUE
    /\ UNCHANGED <<tag, wbuf, toServer, up, chatter, call, answers, rolledBack>>

(* readline returns 0 octets: Error::ConnectionLost. *)
ReadEofAgain ==
    /\ pc = "reading"
    /\ ~up /\ toClient = <<>>
    /\ UNCHANGED vars

ReadEof ==
    /\ pc = "reading"
    /\ ~up /\ toClient = <<>>
    /\ Return("lost", 0)
    /\ UNCHANGED <<tag, wbuf, wire, call, history>>

-----------------------------------------------------------------------------
(* The server (external): it answers the commands in the order it receives *)
(* them, each once, and pushes untagged responses whenever it likes.       *)

Answer ==
    /\ up /\ toServer # <<>>
    /\ \E s \in Statuses :
          LET c == Head(toServer)
          IN /\ toClient' = Append(toClient, DoneLine(c.tag, s, c.id))
             /\ answers' = answers \cup {[id |-> c.id, status |-> s]}
    /\ toServer' = Tail(toServer)
    /\ UNCHANGED <<client, up, chatter, call, ret, rolledBack, broken, faulted>>

Push ==
    /\ up /\ chatter < MaxChatter
    /\ chatter' = chatter + 1
    /\ \/ toClient' = Append(toClient, Plain("data"))
       \/ \E text \in LiteralText :
             toClient' = toClient \o <<Plain("open"), text, Plain("close")>>
    /\ UNCHANGED <<client, toServer, up, call, ret, history>>

HangUp ==
    /\ up
    /\ up' = FALSE
    /\ UNCHANGED <<client, toServer, toClient, chatter, call, ret, history>>

-----------------------------------------------------------------------------
Caller == RunCommand \/ RunCommandFails \/ SkipTag
Reader == ReadLine \/ ReadFails \/ ReadEof
Server == Answer \/ Push \/ HangUp

Next == Caller \/ Reader \/ Server

Spec == Init /\ [][Next]_vars

(* A blocked read returns once there is something to read, and the server  *)
(* answers what it received.                                               *)
FairSpec == Spec /\ WF_vars(ReadLine) /\ WF_vars(ReadEof) /\ WF_vars(Answer)

-----------------------------------------------------------------------------
(* Properties.                                                             *)

(* The call returned because the server's tagged response was read. *)
Replied == ret.outcome \in Statuses \cup {"invalid"} /\ ret.by # 0

IsTagged(line) == line.kind = "done" /\ ~line.lit

(* Commands the server has not answered to the client's knowledge. *)
Unanswered ==
    Len(wbuf) + Len(toServer)
        + Cardinality({i \in DOMAIN toClient : IsTagged(toClient[i])})

(* More of them than the call in progress accounts for: some earlier call  *)
(* gave up on its answer, which is still to come.                          *)
Behind == Unanswered > (IF pc = "reading" THEN 1 ELSE 0)

(* A call never returns the response to another call's command, whatever   *)
(* was timed out, retried or skipped before it (the comparison with        *)
(* match_tag in read_response_onto), as long as no tag was used twice and  *)
(* no response was cut by a read error.                                    *)
ReplyIsMine == Replied /\ ~broken => ret.by = call

(* The same with no proviso: what "Run a raw IMAP command and read back    *)
(* its response" (client.rs:1466) promises to the caller of run.           *)
ReadsBackItsResponse == Replied => ret.by = call

(* When no call has met an I/O error, each one leaves nothing behind: no   *)
(* octets in the write buffer, no command the server still works on, no    *)
(* tagged response unread.                                                 *)
LeavesNothingBehind == pc = "ready" /\ up /\ ~faulted => Unanswered = 0

(* ... and a literal is then never taken for a response, whatever its      *)
(* lines read like: no mismatch, and no Bye but the server's own           *)
(* (continue_from in read_response_onto).                                  *)
LiteralIsNoResponse ==
    ~faulted => /\ ret.outcome # "mismatch"
                /\ ret.outcome = "bye" => ret.by = call

(* Once behind, a connection never catches up, with or without skip_tag:   *)
(* every later call fails on the answer of an earlier one, although the doc *)
(* of TagMismatch offers skip_tag to recover (error.rs:110).               *)
BehindForGood == [][Behind /\ ~broken' => Behind' /\ ~Replied']_vars

(* A call returns once the server answers or hangs up.                     *)
CallReturns == pc = "reading" ~> pc = "ready"

(* What the callers of run rely on. *)
Channel == INSTANCE CommandChannel WITH
    busy    <- (pc = "reading"),
    trusted <- ~broken

ChannelSpec == Channel!Spec

-----------------------------------------------------------------------------
(* Why ReplyIsMine holds.                                                  *)

(* Each line of a literal follows its "open" line, or is about to be read  *)
(* as the continuation of it.                                              *)
Framed ==
    /\ toClient # <<>> /\ toClient[1].lit => pending
    /\ \A i \in 2..Len(toClient) : toClient[i].lit => toClient[i-1].kind = "open"

(* The commands whose responses the client has not read. *)
Answered(lines) == {[tag |-> l.tag, id |-> l.id] : l \in {m \in lines : IsTagged(m)}}
InFlight == Range(wbuf) \cup Range(toServer) \cup Answered(Range(toClient))

(* None of them has a tag that is still to be given out, save the one      *)
(* whose tag was rolled back; while a call waits, the current tag is its.  *)
TagsMatch ==
    /\ ~rolledBack => \A c \in InFlight : c.tag <= tag
    /\ rolledBack => \A c \in InFlight : c.tag <= tag + 1
    /\ pc = "reading" => ~rolledBack /\ \A c \in InFlight : c.tag = tag => c.id = call

(* The inductive invariant. *)
Matching ==
    /\ ReplyIsMine
    /\ pc = "ready" => ~pending
    /\ ~broken => Framed /\ TagsMatch
=============================================================================
