----------------------------- MODULE MCAgentPty -----------------------------
(* A small instance of AgentPty for TLC. *)
EXTENDS AgentPty
CONSTANTS s1, s2
=============================================================================
