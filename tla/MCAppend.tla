------------------------------ MODULE MCAppend ------------------------------
(* Append on small instances.  Its server writes literals of its own.       *)
EXTENDS Append

MCLiteralText == {}
=============================================================================
