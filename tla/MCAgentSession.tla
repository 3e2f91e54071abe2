--------------------------- MODULE MCAgentSession ---------------------------
(***************************************************************************)
(* Small instances of AgentSession.  The hosts are interchangeable tasks,  *)
(* so the safety runs take their permutations as a symmetry.               *)
(***************************************************************************)
EXTENDS AgentSession, TLC

HostSymmetry == Permutations(Hosts)
=============================================================================
