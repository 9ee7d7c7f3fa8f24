------------------------ MODULE MCCapacityTransaction ------------------------
(***************************************************************************)
(* Instances of CapacityTransaction for TLC. Two rows let one row fail     *)
(* while the other is sound, in either order.                              *)
(***************************************************************************)
EXTENDS CapacityTransaction

CONSTANTS r1, r2
=============================================================================
