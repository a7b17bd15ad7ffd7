------------------------------ MODULE Session -------------------------------
(***************************************************************************)
(* `Session' of src/src/client.rs above run: what becomes of the untagged  *)
(* responses that come with the reply to a command.  The parsers of        *)
(* src/src/parse.rs, and those of the types and extensions built on them,  *)
(* put each into the result of the call or into unsolicited_responses, or  *)
(* give up on the reply.                                                   *)
(*                                                                         *)
(* Responses are numbered in the order the server sends them; a response   *)
(* is abstracted to its kind.                                              *)
(***************************************************************************)
EXTENDS Integers, Sequences, FiniteSets, Functions

CONSTANTS Commands,     \* the commands the application issues
          Kinds,        \* the kinds of responses the server sends
          MaxCalls,     \* bound on the commands issued
          MaxResponses  \* bound on the responses sent

(* What UnsolicitedResponse::try_from converts ...                         *)
Unilateral == {"exists", "recent", "flags", "expunge", "vanished", "fetch", "ok", "bye",
               "status",        \* of the mailbox a STATUS command names
               "otherStatus",
               "metadataNote"}

(* ... and what it hands back ("warn": an untagged NO, BAD or PREAUTH).    *)
Solicited == {"warn", "list", "ids", "capability", "metadata", "acl", "quota", "quotaRoot"}

(* One command for each way a reply is parsed; "check" is any that goes    *)
(* through run_command_and_check_ok.                                       *)
AllCommands == {"check", "noop", "fetch", "list", "listStatus", "ids", "capability", "metadata",
                "acl", "quota", "quotaRoot", "status", "expunge", "select"}

ASSUME SessionAssumption ==
    /\ Commands \subseteq AllCommands
    /\ Kinds \subseteq Unilateral \cup Solicited
    /\ MaxCalls \in Nat
    /\ MaxResponses \in Nat

VARIABLES
    unsolicited,    \* Session.unsolicited_responses
    cmd,            \* the command whose reply is being read, or "none"
    verdict,        \* how its parse goes: "ok" so far, or what ended it
    result,         \* the responses its parser has collected
    call,           \* number of the latest command
    qresync,        \* the server reports removals with VANISHED, not EXPUNGE
    received,       \* history: all responses, with the command and call they came in
    returned,       \* history: the responses in the results of calls
    taken,          \* history: what the application took from the queue
    succeeded       \* history: the calls that returned Ok

vars == <<unsolicited, cmd, verdict, result, call, qresync, received, returned, taken, succeeded>>

Verdicts == {"ok", "refused", "unexpected", "invalid", "missing", "panic"}

TypeOK ==
    /\ unsolicited \in Seq(1..MaxResponses)
    /\ cmd \in Commands \cup {"none"}
    /\ verdict \in Verdicts
    /\ result \subseteq 1..MaxResponses
    /\ call \in 0..MaxCalls
    /\ qresync \in BOOLEAN
    /\ received \in Seq([kind : Kinds, cmd : Commands, call : 1..MaxCalls])
    /\ returned \subseteq 1..MaxResponses
    /\ taken \in Seq(1..MaxResponses)
    /\ succeeded \subseteq 1..MaxCalls

Init ==
    /\ unsolicited = <<>>
    /\ cmd = "none" /\ verdict = "ok" /\ result = {}
    /\ call = 0
    /\ qresync \in BOOLEAN
    /\ received = <<>> /\ returned = {} /\ taken = <<>> /\ succeeded = {}

-----------------------------------------------------------------------------
(* The parsers.                                                            *)

(* The responses the closure of a parser maps into its result. *)
AnyStatus(c) ==
    CASE c = "quotaRoot"  -> {"quota", "quotaRoot"}
      [] c = "status"     -> {"status", "otherStatus"}
      [] c = "expunge"    -> {"expunge", "vanished"}
      [] c = "listStatus" -> {"list", "status", "otherStatus"}
      [] c = "select"     -> {"exists", "recent", "flags", "ok"}
      [] c \in {"check", "noop"} -> {}
      [] OTHER            -> {c}
Wanted(c) ==
    CASE c = "quotaRoot"  -> {"quota", "quotaRoot"}
      [] c = "expunge"    -> {"expunge", "vanished"}
      [] c = "listStatus" -> {"list", "status", "otherStatus"}
      [] c = "select"     -> {"exists", "recent", "flags", "ok"}
      [] c \in {"check", "noop"} -> {}
      [] OTHER            -> {c}

(* What goes to the queue: all that converts, except that parse_mailbox    *)
(* has its own list and run_command_and_check_ok drops the data unread.    *)
Converts(c, kind) ==
    CASE c = "check"  -> FALSE
      [] c = "select" -> kind \in {"status", "otherStatus", "expunge"}
      [] OTHER        -> kind \in Unilateral
Queues(c, kind) == kind \notin Wanted(c) /\ Converts(c, kind)

(* What is skipped.                                                        *)
Ignores(c, kind) ==
    \/ c = "check"
    \/ c = "select" /\ kind \in {"list", "ids", "metadata", "metadataNote"}

(* What ends the parse: Error::Unexpected, or parse_mailbox's              *)
(* unreachable!().                                                         *)
Panics(c, kind) == c = "select" /\ kind \in {"warn", "bye"}

Fails(c, kind) ==
    ~(kind \in Wanted(c) \/ Queues(c, kind) \/ Ignores(c, kind) \/ Panics(c, kind))

(* try_handle_unilateral *)
PushNext(n) == unsolicited' = Append(unsolicited, n + 1)
PushFront(n) == unsolicited' = <<n>> \o unsolicited
PushBack(n) == unsolicited' = Append(unsolicited, n)

OfKind(kind) == {n \in result : received[n].kind = kind}

(* Whether what was collected makes a result, and else the error.          *)
Judged ==
    CASE cmd = "acl" /\ Cardinality(result) # 1                 -> "invalid"
      [] cmd = "quota" /\ Cardinality(result) > 1               -> "invalid"
      [] cmd = "quotaRoot" /\ Cardinality(OfKind("quotaRoot")) # 1 -> "invalid"
      [] cmd = "status" /\ result = {}                          -> "missing"
      [] OTHER                                                  -> "ok"

(* Deleted holds VANISHED's ranges if there are any, or else EXPUNGE's     *)
(* numbers; every other result holds all that was collected.               *)
ExpungedOnly == IF cmd = "expunge" THEN OfKind("expunge") ELSE result
Collected ==
    IF cmd = "expunge" /\ OfKind("vanished") # {} THEN OfKind("vanished") ELSE result

-----------------------------------------------------------------------------
(* A command goes out; the server may refuse it.                           *)
Issue ==
    /\ cmd = "none" /\ verdict # "panic"
    /\ call < MaxCalls /\ call' = call + 1
    /\ cmd' \in Commands
    /\ verdict' \in {"ok", "refused"}
    /\ result' = {}
    /\ UNCHANGED <<unsolicited, qresync, received, returned, taken, succeeded>>

(* A server that was asked for VANISHED sends it in lieu of EXPUNGE.       *)
MaySend(kind) == kind \in Kinds /\ kind # (IF qresync THEN "expunge" ELSE "vanished")

(* The next response of the reply.  A reply to a command that is refused,  *)
(* and what follows a response that ends the parse, is not looked at.      *)
Receive(kind) ==
    /\ cmd # "none" /\ MaySend(kind)
    /\ Len(received) < MaxResponses
    /\ received' = Append(received, [kind |-> kind, cmd |-> cmd, call |-> call])
    /\ LET n == Len(received) + 1
       IN IF verdict = "ok"
          THEN /\ result' = result \cup IF kind \in Wanted(cmd) THEN {n} ELSE {}
               /\ IF Queues(cmd, kind) THEN PushBack(n) ELSE UNCHANGED unsolicited
               /\ verdict' = CASE Panics(cmd, kind) -> "panic"
                               [] Fails(cmd, kind)  -> "unexpected"
                               [] OTHER             -> "ok"
          ELSE UNCHANGED <<unsolicited, result, verdict>>
    /\ UNCHANGED <<cmd, call, qresync, returned, taken, succeeded>>

(* The reply ends and the call returns. *)
Return ==
    /\ cmd # "none"
    /\ cmd' = "none"
    /\ verdict' = IF verdict = "ok" THEN Judged ELSE verdict
    /\ IF verdict' = "ok"
       THEN /\ returned' = returned \cup Collected
            /\ succeeded' = succeeded \cup {call}
       ELSE UNCHANGED <<returned, succeeded>>
    /\ result' = {}
    /\ UNCHANGED <<unsolicited, call, qresync, received, taken>>

(* take_all_unsolicited *)
Take ==
    /\ cmd = "none" /\ verdict # "panic"
    /\ unsolicited # <<>>
    /\ taken' = taken \o unsolicited
    /\ unsolicited' = <<>>
    /\ UNCHANGED <<cmd, verdict, result, call, qresync, received, returned, succeeded>>

Next == Issue \/ (\E kind \in Kinds : Receive(kind)) \/ Return \/ Take

Spec == Init /\ [][Next]_vars

-----------------------------------------------------------------------------
(* Properties.                                                             *)

Queued == Range(unsolicited) \cup Range(taken)

(* The application takes updates in the order the server sent them, across *)
(* commands, errors and takes, and each once: sequence numbers are only    *)
(* meaningful so (push_back in try_handle_unilateral and parse_mailbox).   *)
InServerOrder ==
    LET updates == taken \o unsolicited
    IN \A i, j \in DOMAIN updates : i < j => updates[i] < updates[j]

(* No response is counted twice, in a result and in the queue.             *)
OnceOnly == (returned \cup result) \cap Queued = {}

(* A response to a call that returned Ok is in its result or in the queue, *)
(* but for SELECT's skips and what run_command_and_check_ok drops; the     *)
(* choice of parse_expunge between two lists loses nothing either.         *)
NothingLost ==
    \A n \in DOMAIN received :
        received[n].call \in succeeded /\ ~Ignores(received[n].cmd, received[n].kind)
            => n \in returned \cup Queued

(* A STATUS of another mailbox is an update, whatever command it comes     *)
(* with, and is never taken for the answer to STATUS (parse_status).       *)
OthersStatusIsQueued ==
    \A n \in DOMAIN received :
        /\ received[n].kind = "otherStatus" /\ received[n].call \in succeeded
        /\ received[n].cmd \notin {"check", "listStatus"}
        => n \in Queued

(* An untagged status response to SELECT is an OK: "how can this happen    *)
(* for a Response::Data?" (parse.rs:305).                                  *)
NeverPanics == verdict # "panic"
=============================================================================
