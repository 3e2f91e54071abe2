---------------------------- MODULE MCAgentJobs ----------------------------
(***************************************************************************)
(* A small instance of AgentJobs.  Its spawns are bounded and its loop     *)
(* shuts down once, so that deadlock is not checked.                       *)
(***************************************************************************)
EXTENDS AgentJobs
=============================================================================
