----------------------------- MODULE ListStatus -----------------------------
(***************************************************************************)
(* ExtendedNames::parse of src/src/extensions/list_status.rs: the reply to *)
(* a LIST-STATUS command is a mix of LIST and STATUS responses, which the  *)
(* parser pairs by their order; it does not look at the mailbox a STATUS   *)
(* is about.                                                               *)
(*                                                                         *)
(* The data of a STATUS is abstracted to the mailbox it is about.  Other   *)
(* responses leave this parser's variables alone (see Session).            *)
(***************************************************************************)
EXTENDS Integers, Sequences

CONSTANTS Mailboxes,    \* the mailboxes the server lists
          MaxLines,     \* bound on the responses in a reply
          None          \* no value

ASSUME ListStatusAssumption ==
    /\ MaxLines \in Nat
    /\ None \notin Mailboxes

VARIABLES
    lines,          \* history: the reply read so far
    names,          \* the pairs that are complete
    currentName,    \* current_name
    currentMailbox, \* current_mailbox
    done            \* the reply has ended

vars == <<lines, names, currentName, currentMailbox, done>>

Pair == [name : Mailboxes, mailbox : Mailboxes \cup {None}]

TypeOK ==
    /\ lines \in Seq([kind : {"LIST", "STATUS"}, mailbox : Mailboxes])
    /\ names \in Seq(Pair)
    /\ currentName \in Mailboxes \cup {None}
    /\ currentMailbox \in Mailboxes \cup {None}
    /\ done \in BOOLEAN

Init ==
    /\ lines = <<>> /\ names = <<>>
    /\ currentName = None /\ currentMailbox = None
    /\ done = FALSE

Reads(kind, m) ==
    /\ ~done
    /\ Len(lines) < MaxLines
    /\ lines' = Append(lines, [kind |-> kind, mailbox |-> m])

(* names.push((cur_name, current_mailbox)) *)
PushUnnamed == names' = Append(names, [name |-> currentName, mailbox |-> currentMailbox])
Push == names' = IF currentName = None THEN names
                 ELSE Append(names, [name |-> currentName, mailbox |-> currentMailbox])

(* current_mailbox = None, once it is given to a name. *)
KeepMailbox == UNCHANGED currentMailbox
ClearMailbox == currentMailbox' = IF currentName = None THEN currentMailbox ELSE None

(* A mailbox is listed once. *)
OnList(m) ==
    /\ Reads("LIST", m)
    /\ \A i \in DOMAIN lines : lines[i] # [kind |-> "LIST", mailbox |-> m]
    /\ Push
    /\ currentName' = m
    /\ ClearMailbox
    /\ UNCHANGED done

OnStatus(m) ==
    /\ Reads("STATUS", m)
    /\ currentMailbox' = m
    /\ UNCHANGED <<names, currentName, done>>

(* lines.is_empty() *)
ForgetLast == done' = TRUE /\ UNCHANGED names
PushLast == done' = TRUE /\ Push

End ==
    /\ ~done
    /\ PushLast
    /\ UNCHANGED <<lines, currentName, currentMailbox>>

Next == (\E m \in Mailboxes : OnList(m) \/ OnStatus(m)) \/ End

Spec == Init /\ [][Next]_vars

-----------------------------------------------------------------------------
(* Properties.                                                             *)

(* The server sends each STATUS, if any, next to the LIST of its mailbox.  *)
Adjacent ==
    \A i \in DOMAIN lines :
        lines[i].kind = "STATUS"
            => i > 1 /\ lines[i-1] = [kind |-> "LIST", mailbox |-> lines[i].mailbox]

(* A name is never paired with the status of another mailbox, even when    *)
(* the server drops a STATUS here and there, as long as it sends each      *)
(* right after its LIST (current_mailbox is cleared for the next name).    *)
PairedIfAdjacent ==
    Adjacent => \A i \in DOMAIN names : names[i].mailbox \in {names[i].name, None}

(* ... and the one it sent is not lost, the last one included.             *)
NoneDropped ==
    Adjacent /\ done =>
        \A i \in DOMAIN lines :
            lines[i].kind = "STATUS" =>
                \E j \in DOMAIN names :
                    names[j] = [name |-> lines[i].mailbox, mailbox |-> lines[i].mailbox]
=============================================================================
