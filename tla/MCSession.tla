----------------------------- MODULE MCSession ------------------------------
(* Session, and an application that mirrors a mailbox over it, on small    *)
(* instances: the kinds of responses that the parsers treat differently,   *)
(* and one command for each parser.                                        *)
EXTENDS Mirror

FewCommands == {"check", "noop", "quota", "quotaRoot", "status", "expunge", "select"}

FewKinds == {"exists", "expunge", "vanished", "otherStatus", "status", "quota", "quotaRoot", "warn"}

AllKinds == Unilateral \cup Solicited
=============================================================================
