--------------------------- MODULE MCBatchOutput ---------------------------
(* An input of three versions, whose PDF grows and then shrinks. *)
EXTENDS BatchOutput

Lengths == <<2, 3, 1>>
=============================================================================
