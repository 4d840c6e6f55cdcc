---------------------------- MODULE MCAgentTurns ----------------------------
(* Instances of AgentTurns small enough for TLC. *)
EXTENDS AgentTurns
=============================================================================
