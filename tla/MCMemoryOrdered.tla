-------------------------- MODULE MCMemoryOrdered --------------------------
(* Instances of MemoryOrdered for TLC. *)
EXTENDS MemoryOrdered
=============================================================================
