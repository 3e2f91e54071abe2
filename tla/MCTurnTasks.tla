----------------------------- MODULE MCTurnTasks -----------------------------
(***************************************************************************)
(* Small instances of TurnTasks.  The system stops when its bounds are     *)
(* spent or the loop has shut down, so deadlock is not checked.            *)
(***************************************************************************)
EXTENDS TurnTasks
=============================================================================
