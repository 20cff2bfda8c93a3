---------------------------- MODULE MCJobDispatch ----------------------------
(* Instances of JobDispatch for TLC. *)
EXTENDS JobDispatch, TLC

\* Producers, consumers and messages are interchangeable: no action or
\* property names one.
Symmetry ==
  Permutations(Producers) \cup Permutations(Consumers) \cup Permutations(Messages)
=============================================================================
