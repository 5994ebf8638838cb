-------------------------- MODULE MCLockFreeQueue --------------------------
(* Instances of LockFreeQueue for TLC: addresses are model values. *)
EXTENDS LockFreeQueue

Symmetry == Permutations(Nodes)
=============================================================================
