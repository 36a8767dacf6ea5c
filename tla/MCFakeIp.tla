------------------------------ MODULE MCFakeIp ------------------------------
(* A small pool.                                                           *)
EXTENDS FakeIp, TLC

\* Hosts are interchangeable.
Symmetry == Permutations(Hosts)
=============================================================================
