------------------------------ MODULE MCSession ------------------------------
(* Instances of Session for TLC: the invariants the proofs use come along. *)
EXTENDS SessionProofs, TLC
=============================================================================
