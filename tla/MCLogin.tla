------------------------------ MODULE MCLogin -------------------------------
(* Login on small instances.  Its server writes literals of its own.       *)
EXTENDS Login

MCLiteralText == {}
=============================================================================
