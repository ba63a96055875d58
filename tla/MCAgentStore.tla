---------------------------- MODULE MCAgentStore ----------------------------
(* Instances of AgentStore for TLC.                                        *)
EXTENDS AgentStore, TLC

CONSTANTS a1, a2, k1, k2

Calls == Permutations(Call)
=============================================================================
