-------------------------------- MODULE Wire --------------------------------
(***************************************************************************)
(* The lines that travel between rust-imap and an IMAP server, and what    *)
(* the response parser makes of them.                                      *)
(*                                                                         *)
(* A line is a record; its text is abstracted to the facts that decide     *)
(* what the client does with it.  `id' is history: the number of the API   *)
(* call whose command the line carries or answers (0 when it answers       *)
(* none).  The client never reads it.                                      *)
(***************************************************************************)
EXTENDS Integers

Statuses == {"ok", "no", "bad", "bye", "preauth"}

LineKinds == {"data",    \* an untagged response, complete on this line
              "plus",    \* a continuation request
              "open",    \* first line of an untagged response with a literal
              "close",   \* last line of such a response
              "done",    \* a tagged status response
              "junk"}    \* octets that are no response on their own

(* `lit': the line is octets inside a literal, and `kind' is only what its *)
(* text would read as if it were taken for a response of its own.          *)
Line == [kind : LineKinds, lit : BOOLEAN, tag : Nat, status : Statuses, id : Nat]

Command == [tag : Nat, id : Nat]

Plain(kind) == [kind |-> kind, lit |-> FALSE, tag |-> 0, status |-> "ok", id |-> 0]

DoneLine(t, s, i) ==
    [kind |-> "done", lit |-> FALSE, tag |-> t, status |-> s, id |-> i]

LiteralLine(kind, t) ==
    [kind |-> kind, lit |-> TRUE, tag |-> t, status |-> "ok", id |-> 0]

(* imap_proto::parser::parse_response applied to data[line_start..], where *)
(* `pending' says that the earlier lines of that slice ended Incomplete.   *)
ForgetPending(pending, line) ==
    CASE line.kind = "done"             -> "done"
      [] line.kind \in {"data", "plus"} -> "data"
      [] line.kind = "open"             -> "incomplete"
      [] OTHER                          -> "invalid"

IncompleteIsInvalid(pending, line) ==
    CASE line.kind = "done"             -> "done"
      [] line.kind \in {"data", "plus"} -> "data"
      [] OTHER                          -> "invalid"

ParseResponse(pending, line) ==
    IF pending
    THEN IF line.kind = "close" /\ ~line.lit THEN "data" ELSE "incomplete"
    ELSE CASE line.kind = "done"             -> "done"
           [] line.kind \in {"data", "plus"} -> "data"
           [] line.kind = "open"             -> "incomplete"
           [] OTHER                          -> "invalid"
=============================================================================
