----------------------------- MODULE MCCoreHub -----------------------------
(* Small instances of CoreHub.                                             *)
EXTENDS CoreHub, TLC

\* Goroutines and channels are interchangeable (safety runs only).
Symmetry == Permutations(Procs) \cup Permutations(Chans) \cup Permutations(RequestChans)
=============================================================================
