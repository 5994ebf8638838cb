----------------------------- MODULE MCStatus ------------------------------
(* Instances of Status for TLC: a message is empty, or of one character. *)
EXTENDS Status, TLC

MCMessages == {<<>>, <<"m">>}
Symmetry == Permutations(Arrays)
=============================================================================
