---------------------------- MODULE MCMemoryJobs ----------------------------
(* The memory jobs for TLC: the sessions are interchangeable. *)
EXTENDS MemoryJobs, TLC

WorkerSymmetry == Permutations(Worker)
=============================================================================
