---------------------------- MODULE MCListStatus ----------------------------
(* ListStatus on small instances; the parser treats all mailboxes alike.   *)
EXTENDS ListStatus, TLC

CONSTANTS inbox, sent, trash

MCMailboxes == {inbox, sent, trash}

Symmetry == Permutations(MCMailboxes)
=============================================================================
