---------------------------- MODULE MCTunHandler ----------------------------
(* Small instances of TunHandler.                                          *)
EXTENDS TunHandler, TLC

\* Sessions, threads and dial goroutines are interchangeable (safety runs only).
Symmetry == Permutations(Sessions) \cup Permutations(Procs) \cup Permutations(Calls)
=============================================================================
