------------------------------ MODULE MCUiFeed ------------------------------
(* Instances of UiFeed for TLC. *)
EXTENDS UiFeed, TLC

Symmetry == Permutations(Listeners) \cup Permutations(Passes)
=============================================================================
