----------------------------- MODULE MCGroupChat -----------------------------
(* Instances of GroupChat for TLC. *)
EXTENDS GroupChat, TLC
Symmetry == Permutations(Room) \cup Permutations(Text)
=============================================================================
