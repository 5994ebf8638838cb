-------------------------- MODULE MCStringToFile ---------------------------
(* Instances of StringToFile for TLC. *)
EXTENDS StringToFile
=============================================================================
