------------------------ MODULE MCMeasurementQueries ------------------------
(* Instances of MeasurementQueries for TLC.                                *)
EXTENDS MeasurementQueries

CONSTANTS u1, u2, s1, s2, a1, a2, c1, c2, r1

AgentLists == {<<>>, <<a1>>, <<a1, a2>>, <<a1, a1>>}

LimitOfTwo == [u \in User |-> 2]

\* Health may change at any time, and only the lookups of a submission read it:
\* states that differ in health no lookup is left to read behave the same.
HealthInUse == IF \E s \in Submission : pc[s] \in {"quota", "assign"} THEN healthy ELSE {}

HealthView ==
    <<HealthInUse, day, tracking, topic, subVars, agentVars, cancelVars, alone, readVars, listVars>>

\* A query changes nothing once it is answered: the steps after it are explored
\* from the states in which it was never asked.
QueryUnderWay == \A r \in Reader : rpc[r] \in {"idle", "details", "more"}
=============================================================================
