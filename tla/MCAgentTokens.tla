---------------------------- MODULE MCAgentTokens ----------------------------
(* A small instance of AgentTokens for TLC. *)
EXTENDS AgentTokens, TLC

CONSTANTS a1, a2, m1

OneMachine == [a \in {a1, a2} |-> m1]

Symm == Permutations(Tokens) \union Permutations(Attempts) \union Permutations(Requests)
=============================================================================
