------------------------------ MODULE Tracking ------------------------------
(***************************************************************************)
(* The table measurement_tracking and the view measurement_status, one     *)
(* measurement at a time.  The rows of a measurement are a function t from  *)
(* agents to rows: the UNIQUE (measurement_id, user_hash, agent_id)         *)
(* constraint allows one row per agent, and a measurement has one user.     *)
(*                                                                         *)
(* A row keeps what the program reads back: expected_probes, sent_probes,   *)
(* is_complete, cancelled and the day of created_at (the quota counts the   *)
(* rows created today).  Row ids and updated_at are left out.               *)
(***************************************************************************)
EXTENDS Integers, FiniteSets, Functions

CONSTANTS
    Agent,      \* agent ids
    None        \* no row, no request, no measurement

Row == [expected : Nat, sent : Nat, complete : BOOLEAN, cancelled : BOOLEAN, day : Nat]

ASSUME NoneAssumption == None \notin Row

Table == [Agent -> Row \union {None}]

EmptyTable == [a \in Agent |-> None]

Tracked(t) == {a \in Agent : t[a] # None}

----------------------------------------------------------------------------
(* The statements of database.rs.                                          *)

\* create_measurement_tracking, for an agent that has no row yet
NewRow(expected, today) ==
    [expected |-> expected, sent |-> 0, complete |-> FALSE, cancelled |-> FALSE,
     day |-> today]

CreateTracking(t, a, expected, today) == [t EXCEPT ![a] = NewRow(expected, today)]

\* Mutation of UpdateProbeCount: a report revives a cancelled row.
UpdateProbeCountRevives(t, a, sent, complete) ==
    [t EXCEPT ![a] = [@ EXCEPT !.sent = sent, !.complete = complete, !.cancelled = FALSE]]

\* update_measurement_probe_count: overwrites both columns, whatever they held
UpdateProbeCount(t, a, sent, complete) ==
    [t EXCEPT ![a] = [@ EXCEPT !.sent = sent, !.complete = complete]]

\* Mutations of Cancellable: cancelled rows are cancelled again; agents that have
\* begun are let finish.
CancellableAgain(t) == {a \in Tracked(t) : ~t[a].complete}

CancellableIdle(t) == {a \in Tracked(t) : t[a].sent = 0 /\ ~t[a].complete /\ ~t[a].cancelled}

\* the rows cancel_measurement's WHERE clause selects, and its effect on them
Cancellable(t) == {a \in Tracked(t) : ~t[a].complete /\ ~t[a].cancelled}

CancelRows(t) ==
    [a \in Agent |-> IF a \in Cancellable(t) THEN [t[a] EXCEPT !.cancelled = TRUE] ELSE t[a]]

----------------------------------------------------------------------------
(* The columns of the view measurement_status that the handlers use; the   *)
(* view has a line for a measurement that has at least one row.            *)

Listed(t) == Tracked(t) # {}

MeasurementComplete(t) == \A a \in Tracked(t) : t[a].complete \/ t[a].cancelled

MeasurementCancelled(t) == \E a \in Tracked(t) : t[a].cancelled

TotalExpected(t) == SumFunction([a \in Tracked(t) |-> t[a].expected])

TotalSent(t) == SumFunction([a \in Tracked(t) |-> t[a].sent])

\* what the measurement adds to its user's usage of a day (get_user_usage_stats)
TrackedOn(t, day) == {a \in Tracked(t) : t[a].day = day}

ExpectedOn(t, day) == SumFunction([a \in TrackedOn(t, day) |-> t[a].expected])
=============================================================================
