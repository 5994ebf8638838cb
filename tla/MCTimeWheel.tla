---------------------------- MODULE MCTimeWheel ----------------------------
(* Instances of TimeWheel for TLC. *)
EXTENDS TimeWheel

Symmetry == Permutations(Timers)
=============================================================================
