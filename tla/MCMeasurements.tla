--------------------------- MODULE MCMeasurements ---------------------------
(* Instances of Measurements for TLC.                                      *)
EXTENDS Measurements, TLC

CONSTANTS u1, u2, s1, s2, a1, a2, c1, c2

OneAgent == {<<a1>>}
BothAgents == {<<a1, a2>>}
AgentLists == {<<>>, <<a1>>, <<a1, a2>>, <<a1, a1>>}

LimitOfTwo == [u \in User |-> 2]

\* Health may change at any time, and only the lookups of a submission read it:
\* states that differ in health no lookup is left to read behave the same.
HealthInUse == IF \E s \in Submission : pc[s] \in {"quota", "assign"} THEN healthy ELSE {}

HealthView ==
    <<HealthInUse, day, tracking, topic, subVars, agentVars, cancelVars, alone>>

Submissions == Permutations(Submission)
=============================================================================
