--------------------------- MODULE MCReadinessFlag ---------------------------
(***************************************************************************)
(* Small instances of ReadinessFlag.  Both runs check liveness, so that no *)
(* symmetry is used.                                                       *)
(***************************************************************************)
EXTENDS ReadinessFlag
=============================================================================
