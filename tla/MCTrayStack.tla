----------------------------- MODULE MCTrayStack -----------------------------
(* TrayStack on its own, for TLC. *)
EXTENDS TrayStack, TLC

Symmetric == Permutations(Id)
=============================================================================
