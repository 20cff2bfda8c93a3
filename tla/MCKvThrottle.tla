---------------------------- MODULE MCKvThrottle -----------------------------
(* Instances of KvThrottle for TLC. *)
EXTENDS KvThrottle, TLC

\* Requests are interchangeable: no action or property names one.
Symmetry == Permutations(Requests)
=============================================================================
