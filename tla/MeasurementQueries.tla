------------------------- MODULE MeasurementQueries -------------------------
(***************************************************************************)
(* What a user is shown of measurements that submissions, reports and      *)
(* cancellations are changing: GET /api/measurement/{id}/status, which     *)
(* reads the view and then the rows, and GET /api/measurements, whose      *)
(* filter by state a client may use to list its measurements in parts.     *)
(*                                                                         *)
(* The queries write nothing, so every step of Measurements is as it was.  *)
(* A list is modelled without its time window, order and limit: as the     *)
(* answer of a request whose limit is not reached.  A query whose first    *)
(* statement fails is answered 500, and is not modelled.                   *)
(***************************************************************************)
EXTENDS Measurements

CONSTANT
    Reader         \* clients, each with one query of either kind

VARIABLES
    rpc,           \* where each reader's query is
    about,         \* the measurement whose status it asked for
    summary,       \* the line of the view its first statement read
    shown,         \* the rows its second statement read
    listing,       \* the user, states and agent, if any, of its first list
    unseen         \* history: the measurements that user and agent had then and
                   \* that no list of the reader has shown

readVars == <<rpc, about, summary, shown>>
listVars == <<listing, unseen>>

State == {"complete", "in-progress", "cancelled"}

Terminal(t) == {a \in Tracked(t) : t[a].complete \/ t[a].cancelled}

\* a line of measurement_status, without its owner and times
Summary(t) ==
    [total_agents |-> Cardinality(Tracked(t)),
     completed_agents |-> Cardinality({a \in Tracked(t) : t[a].complete}),
     total_expected_probes |-> TotalExpected(t),
     total_sent_probes |-> TotalSent(t),
     measurement_complete |-> MeasurementComplete(t),
     measurement_cancelled |-> MeasurementCancelled(t)]

\* Mutation of InState: the states as a partition, by the README's names for them.
InStateApart(t, state) ==
    \/ state = "complete" /\ MeasurementComplete(t) /\ ~MeasurementCancelled(t)
    \/ state = "in-progress" /\ ~MeasurementComplete(t)
    \/ state = "cancelled" /\ MeasurementComplete(t) /\ MeasurementCancelled(t)

\* the predicate each requested state adds to the WHERE clause
InState(t, state) ==
    \/ state = "complete" /\ MeasurementComplete(t) /\ ~MeasurementCancelled(t)
    \/ state = "in-progress" /\ ~MeasurementComplete(t)
    \/ state = "cancelled" /\ MeasurementCancelled(t)

\* list_user_measurements; no state means any
ListUserMeasurements(u, states, agent) ==
    {s \in Submission :
        /\ Listed(tracking[s])
        /\ req[s].user = u
        /\ states # {} => \E state \in states : InState(tracking[s], state)
        /\ agent # None => tracking[s][agent] # None}

----------------------------------------------------------------------------
QInit ==
    /\ Init
    /\ rpc = [r \in Reader |-> "idle"]
    /\ about = [r \in Reader |-> None]
    /\ summary = [r \in Reader |-> None]
    /\ shown = [r \in Reader |-> EmptyTable]
    /\ listing = [r \in Reader |-> None]
    /\ unseen = [r \in Reader |-> {}]

\* get_measurement_status_handler.  Another user's measurement, like an unknown
\* one, is answered 404.
ReadStatus(r) ==
    /\ rpc[r] = "idle"
    /\ \E u \in User, s \in Submission :
          LET found == Listed(tracking[s]) /\ req[s].user = u
          IN  /\ about' = [about EXCEPT ![r] = s]
              /\ summary' = [summary EXCEPT ![r] = IF found THEN Summary(tracking[s]) ELSE None]
              /\ rpc' = [rpc EXCEPT ![r] = IF found THEN "details" ELSE "notfound"]
    /\ UNCHANGED <<vars, shown, listVars>>

ReadDetails(r) ==
    /\ rpc[r] = "details"
    /\ shown' = [shown EXCEPT ![r] = tracking[about[r]]]
    /\ rpc' = [rpc EXCEPT ![r] = "answered"]
    /\ UNCHANGED <<vars, about, summary, listVars>>

\* A failed second statement is logged, and the answer has no agents.
DetailsFail(r) ==
    /\ Faults
    /\ rpc[r] = "details"
    /\ rpc' = [rpc EXCEPT ![r] = "bare"]
    /\ UNCHANGED <<vars, about, summary, shown, listVars>>

\* list_measurements_handler, for a client that lists in two parts and begins
\* with the measurements in progress ...
List(r) ==
    /\ rpc[r] = "idle"
    /\ \E u \in User, agent \in Agent \union {None}, others \in SUBSET (State \ {"in-progress"}) :
          LET states == {"in-progress"} \union others
          IN  /\ states # State
              /\ listing' = [listing EXCEPT ![r] = [user |-> u, states |-> states, agent |-> agent]]
              /\ unseen' = [unseen EXCEPT ![r] = ListUserMeasurements(u, {}, agent)
                                                  \ ListUserMeasurements(u, states, agent)]
    /\ rpc' = [rpc EXCEPT ![r] = "more"]
    /\ UNCHANGED <<vars, about, summary, shown>>

\* ... and then lists those in the other states.
ListRest(r) ==
    /\ rpc[r] = "more"
    /\ LET l == listing[r]
       IN  unseen' = [unseen EXCEPT ![r] = @ \ ListUserMeasurements(l.user, State \ l.states, l.agent)]
    /\ rpc' = [rpc EXCEPT ![r] = "listed"]
    /\ UNCHANGED <<vars, about, summary, shown, listing>>

Query(r) == ReadStatus(r) \/ ReadDetails(r) \/ DetailsFail(r) \/ List(r) \/ ListRest(r)

QNext ==
    \/ Next /\ UNCHANGED <<readVars, listVars>>
    \/ \E r \in Reader : Query(r)

QSpec == QInit /\ [][QNext]_<<vars, readVars, listVars>>

----------------------------------------------------------------------------
\* the rows of t account for at least the totals of a line of the view
Covers(t, total) ==
    LET rows == Summary(t)
    IN  /\ rows.total_agents >= total.total_agents
        /\ rows.completed_agents >= total.completed_agents
        /\ rows.total_expected_probes >= total.total_expected_probes
        /\ rows.total_sent_probes >= total.total_sent_probes
        /\ total.measurement_cancelled => rows.measurement_cancelled
        /\ total.measurement_complete => Cardinality(Terminal(t)) >= total.total_agents

\* If agents wait for each answer, the two statements of a status answer agree as
\* far as their order allows: the agents shown account for at least the rows,
\* probes, completions and cancellations of the totals shown above them, although
\* INSERTs, reports and cancellations come in between.
DetailsCoverSummary ==
    \A r \in Reader : rpc[r] = "answered" => Covers(shown[r], summary[r])

\* If agents wait for each answer, listing by state in two parts, those in
\* progress first, leaves no measurement out, whatever changes its state between
\* the two requests: one that a cancellation finished too early comes back in
\* progress, and is still listed as cancelled.
PartsMissNothing == \A r \in Reader : rpc[r] = "listed" => unseen[r] = {}

----------------------------------------------------------------------------
(* The inductive invariant behind them.                                    *)

\* what Summary returns, and what a list asks for
Line == [total_agents : Nat, completed_agents : Nat,
         total_expected_probes : Nat, total_sent_probes : Nat,
         measurement_complete : BOOLEAN, measurement_cancelled : BOOLEAN]

Listing == [user : User, states : SUBSET State, agent : Agent \union {None}]

QTypeOK ==
    /\ rpc \in [Reader -> {"idle", "details", "notfound", "answered", "bare", "more", "listed"}]
    /\ about \in [Reader -> Submission \union {None}]
    /\ summary \in [Reader -> Line \union {None}]
    /\ shown \in [Reader -> Table]
    /\ listing \in [Reader -> Listing \union {None}]
    /\ unseen \in [Reader -> SUBSET Submission]

\* Between its two statements a status query's totals stay covered by the rows.
StatusShape(r) ==
    /\ rpc[r] \in {"details", "answered"} => about[r] \in Submission /\ summary[r] \in Line
    /\ rpc[r] = "details" => Covers(tracking[about[r]], summary[r])

\* A measurement its first list has passed over was terminal: cancelled, and then
\* for good, or complete in every row, and then out of reach of cancellations.
PassedOver(t, states) ==
    \/ "cancelled" \notin states /\ MeasurementCancelled(t)
    \/ /\ "complete" \notin states
       /\ Listed(t)
       /\ \A a \in Tracked(t) : t[a].complete /\ ~t[a].cancelled

ListShape(r) ==
    rpc[r] = "more" =>
        /\ listing[r] \in Listing
        /\ \A s \in unseen[r] :
              /\ req[s].user = listing[r].user
              /\ listing[r].agent # None => tracking[s][listing[r].agent] # None
              /\ PassedOver(tracking[s], listing[r].states)

\* If agents wait for each answer: where their reports, rows and consumption
\* stand, and what each query has read so far.
QueriesInv ==
    /\ InOrderInv
    /\ QTypeOK
    /\ \A r \in Reader : StatusShape(r) /\ ListShape(r)
=============================================================================
