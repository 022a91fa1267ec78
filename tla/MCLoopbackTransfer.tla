------------------------- MODULE MCLoopbackTransfer -------------------------
(* Instances of LoopbackTransfer for TLC. *)
EXTENDS LoopbackTransfer
=============================================================================
