-------------------------- MODULE MeasurementLife --------------------------
(***************************************************************************)
(* What the handlers promise of a measurement when every agent reports in  *)
(* order: agents join it until it is closed, each finishes once and after  *)
(* that, and a cancellation takes, in one step, every agent that is still   *)
(* open.  An agent that was cancelled may finish all the same, since what   *)
(* is in Kafka is probed; nothing is ever taken back.                      *)
(***************************************************************************)
CONSTANTS
    Measurement,
    Agent

VARIABLES
    closed,        \* the measurements that no agent joins any more
    joined,        \* the agents of each measurement
    finished,      \* those that have completed it
    cancelled      \* those it was cancelled for

Init ==
    /\ closed = {}
    /\ joined = [m \in Measurement |-> {}]
    /\ finished = [m \in Measurement |-> {}]
    /\ cancelled = [m \in Measurement |-> {}]

Open(m) == joined[m] \ (finished[m] \union cancelled[m])

Close(m) ==
    /\ m \notin closed
    /\ closed' = closed \union {m}
    /\ UNCHANGED <<joined, finished, cancelled>>

\* An agent joins, perhaps as the last one.
Join(m, a) ==
    /\ m \notin closed
    /\ a \notin joined[m]
    /\ joined' = [joined EXCEPT ![m] = @ \union {a}]
    /\ closed' \in {closed, closed \union {m}}
    /\ UNCHANGED <<finished, cancelled>>

Finish(m, a) ==
    /\ m \in closed
    /\ a \in joined[m] \ finished[m]
    /\ finished' = [finished EXCEPT ![m] = @ \union {a}]
    /\ UNCHANGED <<closed, joined, cancelled>>

Cancel(m) ==
    /\ Open(m) # {}
    /\ cancelled' = [cancelled EXCEPT ![m] = @ \union Open(m)]
    /\ UNCHANGED <<closed, joined, finished>>

Next ==
    \E m \in Measurement :
        \/ Close(m)
        \/ Cancel(m)
        \/ \E a \in Agent : Join(m, a) \/ Finish(m, a)

Spec == Init /\ [][Next]_<<closed, joined, finished, cancelled>>
=============================================================================
