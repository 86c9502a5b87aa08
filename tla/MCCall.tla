------------------------------- MODULE MCCall -------------------------------
(* Instances of Call for TLC. *)
EXTENDS Call, TLC
Symmetry == Permutations(Call)
=============================================================================
