-------------------------- MODULE MCJobCoordinator ---------------------------
(* Instance of JobCoordinator for TLC; coordinator.cfg gives the constants. *)
EXTENDS JobCoordinator
=============================================================================
