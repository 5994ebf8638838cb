--------------------------- MODULE MCGroupCommit ---------------------------
(* Instances of GroupCommit for TLC: threads are model values. *)
EXTENDS GroupCommit

Symmetry == Permutations(Threads)
=============================================================================
