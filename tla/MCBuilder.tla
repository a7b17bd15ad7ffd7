----------------------------- MODULE MCBuilder ------------------------------
(* Every mode, on port 993 or another, with every server, and two untagged *)
(* responses.                                                              *)
EXTENDS Builder

MCMaxChatter == 2
=============================================================================
