------------------------------- MODULE MCIdle -------------------------------
(* Idle on small instances.  Its server writes literals of its own.        *)
EXTENDS Idle

MCLiteralText == {}
=============================================================================
