--------------------------- MODULE CommandChannel ---------------------------
(***************************************************************************)
(* What a connection promises to the methods built on it: a channel that   *)
(* carries one command at a time and, when the call does not give up,      *)
(* returns a status the server gave to that very command.                  *)
(*                                                                         *)
(* The promise lasts until the channel stops being `trusted'; from then on *)
(* a call may return anything.                                             *)
(***************************************************************************)
EXTENDS Wire

VARIABLES
    call,     \* number of the latest command
    busy,     \* its call has not returned
    ret,      \* what the call returned, and whose answer that is
    answers,  \* what the server answered to which command
    trusted

chVars == <<call, busy, ret, answers, trusted>>

Init ==
    /\ call = 0
    /\ busy = FALSE
    /\ ret = [outcome |-> "none", by |-> 0]
    /\ answers = {}
    /\ trusted = TRUE

Distrust == trusted' => trusted

Issue ==
    /\ ~busy /\ busy'
    /\ call' = call + 1
    /\ ret' = [outcome |-> "none", by |-> 0]
    /\ Distrust
    /\ UNCHANGED answers

(* The command cannot be sent. *)
Refuse ==
    /\ ~busy /\ ~busy'
    /\ call' = call + 1
    /\ ret' = [outcome |-> "io", by |-> 0]
    /\ Distrust
    /\ UNCHANGED answers

(* The server answers a command, each one once. *)
Answer ==
    \E i \in 1..call, s \in Statuses :
        /\ trusted => \A a \in answers : a.id # i
        /\ answers' = answers \cup {[id |-> i, status |-> s]}
        /\ UNCHANGED <<call, busy, ret, trusted>>

(* A tagged PREAUTH answers no command: the call says the reply is invalid. *)
Reply ==
    /\ busy /\ ~busy'
    /\ \E a \in answers :
          /\ a.id = call
          /\ ret' = [outcome |-> IF a.status = "preauth" THEN "invalid" ELSE a.status,
                     by |-> call]
    /\ UNCHANGED <<call, answers, trusted>>

GiveUp ==
    /\ busy /\ ~busy'
    /\ ret'.outcome \in {"io", "lost", "mismatch", "bye"}
    /\ ret'.outcome = "bye" => ret'.by = 0
    /\ Distrust
    /\ UNCHANGED <<call, answers>>

Misread ==
    /\ ~trusted
    /\ busy /\ ~busy'
    /\ UNCHANGED <<call, answers, trusted>>

Next == Issue \/ Refuse \/ Answer \/ Reply \/ GiveUp \/ Misread

Spec == Init /\ [][Next]_chVars
=============================================================================
