----------------------------- MODULE MCClientJob -----------------------------
(* Instances of ClientJob for TLC. *)
EXTENDS ClientJob, TLC

\* No action or property names a video; jobs are interchangeable too, but a
\* liveness run may use no symmetry.
Symmetry == Permutations(Videos) \cup Permutations(Jobs)
=============================================================================
