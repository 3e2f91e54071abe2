------------------------- MODULE MCRolloutRecorder --------------------------
(***************************************************************************)
(* A small instance of RolloutRecorder.  The lives of the session are      *)
(* bounded, so that deadlock is not checked.                               *)
(***************************************************************************)
EXTENDS RolloutRecorder, TLC

Symmetry == Permutations(Callers)
=============================================================================
