---------------------------- MODULE MCConnection ----------------------------
(* Connection on small instances.                                          *)
EXTENDS Connection

(* A literal may hold text that reads like a response, in particular like  *)
(* the tagged response to the first command.                               *)
MCLiteralText ==
    {LiteralLine("data", 0), LiteralLine("done", 1), LiteralLine("junk", 0)}
=============================================================================
