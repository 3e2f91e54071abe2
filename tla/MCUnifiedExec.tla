--------------------------- MODULE MCUnifiedExec ----------------------------
(***************************************************************************)
(* A small instance of UnifiedExec.  Process ids are drawn at random, so   *)
(* that they are interchangeable.  The bounds on the calls are spent in    *)
(* the end, so deadlock is not checked.                                    *)
(***************************************************************************)
EXTENDS UnifiedExec, TLC

Symmetry == Permutations(Ids)
=============================================================================
