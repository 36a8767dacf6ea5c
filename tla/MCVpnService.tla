---------------------------- MODULE MCVpnService ----------------------------
(* Small instances of VpnService for TLC. *)
EXTENDS VpnService, TLC

\* Coroutines and instances are interchangeable.
Symmetry == Permutations(Ops) \cup Permutations(Instances)
=============================================================================
