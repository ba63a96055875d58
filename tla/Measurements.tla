---------------------------- MODULE Measurements ----------------------------
(***************************************************************************)
(* The life of a measurement: POST /api/probes creates its tracking rows   *)
(* and sends its batches to Kafka, the agents probe and report over        *)
(* POST /agent-api/agent/{id}/measurement/{id}/status, and the user may    *)
(* cancel it.  Handlers run concurrently; each action is one of a handler's*)
(* steps, from one await on the database, the agent store or Kafka to the  *)
(* next.                                                                   *)
(*                                                                         *)
(* A submission that passes its checks draws a fresh UUID for its          *)
(* measurement, so the submission names the measurement here.  What the    *)
(* agents do with a batch is not in the repository: it is modelled from    *)
(* the headers submit_probes sends and from the endpoint they report to.   *)
(***************************************************************************)
EXTENDS Tracking, Sequences, SequencesExt

CONSTANTS
    User,          \* user hashes
    Submission,    \* requests to submit_probes, and the measurements they create
    Canceller,     \* requests to cancel_measurement_handler
    Limit,         \* each user's probe_limit
    Metadata,      \* the agent lists a request may carry (ids only, may repeat)
    MaxProbes,     \* bound: probes in a request
    MaxBatches,    \* bound: batches those probes are packed into
    MaxDay,        \* bound: days
    Faults,        \* may the database, Kafka or a connection fail?
    InOrder        \* does an agent wait for an answer before its next report?

ASSUME MeasurementsAssumption ==
    /\ Limit \in [User -> Nat]
    /\ Metadata \subseteq Seq(Agent)
    /\ MaxProbes \in Nat \ {0}
    /\ MaxBatches \in Nat \ {0}
    /\ MaxDay \in Nat
    /\ Faults \in BOOLEAN
    /\ InOrder \in BOOLEAN

VARIABLES
    day,           \* the current UTC day
    healthy,       \* agents the store holds with health.healthy
    tracking,      \* measurement_tracking: a table of rows per measurement
    topic,         \* the messages Kafka holds for each measurement, in order
    pc,            \* where each submit_probes call is
    req,           \* its request: user, probes, batches, metadata
    next,          \* its loop counter
    assigned,      \* its assigned_agents
    untracked,     \* the assigned agents whose INSERT it logged as failed
    consumed,      \* agents: messages of each measurement an agent has processed
    reports,       \* agents: status reports not yet answered
    cpc,           \* where each cancel_measurement_handler call is
    target,        \* the measurement it is about
    claimed,       \* the rows its UPDATE changed: the agents_cancelled of its answer,
                   \* and history if the call fails after it was committed
    alone          \* history: has a submission been charged, so far, with no
                   \* other of its user and no midnight since its quota check?

subVars == <<pc, req, next, assigned, untracked>>
agentVars == <<consumed, reports>>
cancelVars == <<cpc, target, claimed>>
vars == <<day, healthy, tracking, topic, subVars, agentVars, cancelVars, alone>>

Request == [user : User, probes : 1..MaxProbes, batches : 1..MaxBatches, metadata : Metadata]

Message == [batch : 1..MaxBatches, to : SUBSET Agent, eom : BOOLEAN]

Report == [m : Submission, a : Agent, sent : Nat, complete : BOOLEAN,
           stage : {"posted", "found"}]

ASSUME NoneIsNoRequest == None \notin Request \union Submission

Working == {"quota", "assign", "track", "send"}      \* submit_probes is running
Answered == {"done", "rejected", "failed", "aborted"}

Charging == {"assign", "track"}                      \* between quota check and last INSERT

Init ==
    /\ day = 0
    /\ healthy = {}
    /\ tracking = [s \in Submission |-> EmptyTable]
    /\ topic = [s \in Submission |-> <<>>]
    /\ pc = [s \in Submission |-> "idle"]
    /\ req = [s \in Submission |-> None]
    /\ next = [s \in Submission |-> 1]
    /\ assigned = [s \in Submission |-> <<>>]
    /\ untracked = [s \in Submission |-> {}]
    /\ consumed = [a \in Agent |-> [s \in Submission |-> 0]]
    /\ reports = {}
    /\ cpc = [c \in Canceller |-> "idle"]
    /\ target = [c \in Canceller |-> None]
    /\ claimed = [c \in Canceller |-> {}]
    /\ alone = [s \in Submission |-> TRUE]

----------------------------------------------------------------------------
(* The surroundings: the calendar, and the agent store as the submissions  *)
(* see it (agents register, report health and are cleaned up; a restart of *)
(* the gateway empties the store at once).                                 *)

NewDay ==
    /\ day < MaxDay
    /\ day' = day + 1
    /\ alone' = [s \in Submission |-> alone[s] /\ pc[s] \notin Charging]
    /\ UNCHANGED <<healthy, tracking, topic, subVars, agentVars, cancelVars>>

HealthChanges ==
    /\ healthy' \in SUBSET Agent
    /\ UNCHANGED <<day, tracking, topic, subVars, agentVars, cancelVars, alone>>

----------------------------------------------------------------------------
(* submit_probes.                                                          *)

\* The request arrives: at least one probe, valid probes, every agent with an
\* ip_address (what fails these checks is answered 400 and has no effect).
Submit(s) ==
    /\ pc[s] = "idle"
    /\ \E u \in User, n \in 1..MaxProbes, b \in 1..MaxBatches, md \in Metadata :
          /\ b <= n
          /\ req' = [req EXCEPT ![s] = [user |-> u, probes |-> n, batches |-> b,
                                        metadata |-> md]]
    /\ pc' = [pc EXCEPT ![s] = "quota"]
    /\ UNCHANGED <<day, healthy, tracking, topic, next, assigned, untracked,
                   agentVars, cancelVars, alone>>

\* Mutation of Reject: a failed INSERT ends the request like a failed check.
RejectLate(s) ==
    /\ pc[s] \in {"quota", "track"}
    /\ pc' = [pc EXCEPT ![s] = "rejected"]
    /\ UNCHANGED <<day, healthy, tracking, topic, req, next, assigned, untracked,
                   agentVars, cancelVars, alone>>

\* Answered before the quota check passes: no user id, an IPv6 source outside
\* the user's prefix, or a database error.
Reject(s) ==
    /\ pc[s] = "quota"
    /\ pc' = [pc EXCEPT ![s] = "rejected"]
    /\ UNCHANGED <<day, healthy, tracking, topic, req, next, assigned, untracked,
                   agentVars, cancelVars, alone>>

\* get_user_usage_stats: the probes expected by the rows a user created today
SubmissionsOf(u) == {s \in Submission : pc[s] # "idle" /\ req[s].user = u}

Usage(u) == SumFunction([s \in SubmissionsOf(u) |-> ExpectedOn(tracking[s], day)])

\* Mutations of CanSubmit: the request's own probes, or those before it, are left
\* out.
CanSubmitMore(s) == Usage(req[s].user) < Limit[req[s].user]

CanSubmitAfresh(s) == req[s].probes <= Limit[req[s].user]

CanSubmit(s) == Usage(req[s].user) + req[s].probes <= Limit[req[s].user]

\* the other submissions of s's user that are being charged
Rivals(s) == {t \in Submission \ {s} : pc[t] \in Charging /\ req[t].user = req[s].user}

CheckQuota(s) ==
    /\ pc[s] = "quota"
    /\ IF CanSubmit(s)
       THEN /\ pc' = [pc EXCEPT ![s] = IF req[s].metadata = <<>> THEN "rejected" ELSE "assign"]
            /\ alone' = [t \in Submission |-> /\ alone[t]
                                              /\ t \notin Rivals(s)
                                              /\ t = s => Rivals(s) = {}]
       ELSE /\ pc' = [pc EXCEPT ![s] = "rejected"]
            /\ UNCHANGED alone
    /\ UNCHANGED <<day, healthy, tracking, topic, req, next, assigned, untracked,
                   agentVars, cancelVars>>

\* One lookup of the loop over request.metadata, and after the last one the
\* check that some agent was assigned.
AssignAgent(s) ==
    LET a    == req[s].metadata[next[s]]
        asg  == IF a \in healthy THEN Append(assigned[s], a) ELSE assigned[s]
        last == next[s] = Len(req[s].metadata)
    IN  /\ pc[s] = "assign"
        /\ assigned' = [assigned EXCEPT ![s] = asg]
        /\ next' = [next EXCEPT ![s] = IF last THEN 1 ELSE @ + 1]
        /\ pc' = [pc EXCEPT ![s] = IF ~last THEN "assign"
                                   ELSE IF asg = <<>> THEN "rejected" ELSE "track"]
        /\ UNCHANGED <<day, healthy, tracking, topic, req, untracked,
                       agentVars, cancelVars, alone>>

\* Mutations of AfterRow: the loop counter is not reset for the next loop; the
\* loop ends with its first agent; the counter is not advanced.
AfterRowNoReset(s) ==
    /\ next' = [next EXCEPT ![s] = IF @ = Len(assigned[s]) THEN @ ELSE @ + 1]
    /\ pc' = [pc EXCEPT ![s] = IF next[s] = Len(assigned[s]) THEN "send" ELSE "track"]
    /\ UNCHANGED <<day, healthy, topic, req, assigned, agentVars, cancelVars, alone>>

AfterRowOnlyFirst(s) ==
    /\ next' = [next EXCEPT ![s] = 1]
    /\ pc' = [pc EXCEPT ![s] = "send"]
    /\ UNCHANGED <<day, healthy, topic, req, assigned, agentVars, cancelVars, alone>>

AfterRowNoAdvance(s) ==
    /\ next' = [next EXCEPT ![s] = IF @ = Len(assigned[s]) THEN 1 ELSE @]
    /\ pc' = [pc EXCEPT ![s] = IF next[s] = Len(assigned[s]) THEN "send" ELSE "track"]
    /\ UNCHANGED <<day, healthy, topic, req, assigned, agentVars, cancelVars, alone>>

\* after row next[s] of the loop over assigned_agents
AfterRow(s) ==
    LET last == next[s] = Len(assigned[s])
    IN  /\ next' = [next EXCEPT ![s] = IF last THEN 1 ELSE @ + 1]
        /\ pc' = [pc EXCEPT ![s] = IF last THEN "send" ELSE "track"]
        /\ UNCHANGED <<day, healthy, topic, req, assigned, agentVars, cancelVars, alone>>

\* Mutation of TrackWrites: the row expects a probe per batch.
TrackWritesPerBatch(s) ==
    LET a == assigned[s][next[s]]
    IN  /\ pc[s] = "track"
        /\ tracking[s][a] = None
        /\ tracking' = [tracking EXCEPT ![s] = CreateTracking(@, a, req[s].batches, day)]

\* the INSERT of create_measurement_tracking for the next assigned agent
TrackWrites(s) ==
    LET a == assigned[s][next[s]]
    IN  /\ pc[s] = "track"
        /\ tracking[s][a] = None
        /\ tracking' = [tracking EXCEPT ![s] = CreateTracking(@, a, req[s].probes, day)]

TrackAgent(s) ==
    /\ TrackWrites(s)
    /\ AfterRow(s)
    /\ UNCHANGED untracked

\* An INSERT that was not acknowledged may have been committed or not.
MaybeTracked(s) == UNCHANGED tracking \/ (Faults /\ TrackWrites(s))

\* The INSERT fails (an agent named twice breaks the UNIQUE constraint): the
\* error is logged and the loop goes on.
TrackFails(s) ==
    LET a == assigned[s][next[s]]
    IN  /\ pc[s] = "track"
        /\ Faults \/ tracking[s][a] # None
        /\ MaybeTracked(s)
        /\ untracked' = [untracked EXCEPT ![s] = @ \union {a}]
        /\ AfterRow(s)

\* Mutations of Batch: sent in reverse order; with end_of_measurement on every
\* batch, on the first, on none.
BatchBackwards(s, i) ==
    [batch |-> req[s].batches + 1 - i, to |-> ToSet(req[s].metadata), eom |-> i = req[s].batches]

BatchAlwaysLast(s, i) == [batch |-> i, to |-> ToSet(req[s].metadata), eom |-> TRUE]

BatchFirstLast(s, i) == [batch |-> i, to |-> ToSet(req[s].metadata), eom |-> i = 1]

BatchNeverLast(s, i) == [batch |-> i, to |-> ToSet(req[s].metadata), eom |-> FALSE]

\* The header keys are the agents of the request, not only the assigned ones.
Batch(s, i) ==
    [batch |-> i, to |-> ToSet(req[s].metadata), eom |-> i = req[s].batches]

SendBatch(s) ==
    LET last == next[s] = req[s].batches
    IN  /\ pc[s] = "send"
        /\ topic' = [topic EXCEPT ![s] = Append(@, Batch(s, next[s]))]
        /\ next' = [next EXCEPT ![s] = IF last THEN @ ELSE @ + 1]
        /\ pc' = [pc EXCEPT ![s] = IF last THEN "done" ELSE "send"]
        /\ UNCHANGED <<day, healthy, tracking, req, assigned, untracked,
                       agentVars, cancelVars, alone>>

\* A message that was not acknowledged may be in Kafka or not.
MaybeSent(s) ==
    \/ UNCHANGED topic
    \/ /\ pc[s] = "send"
       /\ topic' = [topic EXCEPT ![s] = Append(@, Batch(s, next[s]))]

\* send_to_kafka returns an error: 500, the rows stay.
SendFails(s) ==
    /\ Faults
    /\ pc[s] = "send"
    /\ MaybeSent(s)
    /\ pc' = [pc EXCEPT ![s] = "failed"]
    /\ UNCHANGED <<day, healthy, tracking, req, next, assigned, untracked,
                   agentVars, cancelVars, alone>>

\* The client disconnects or the gateway stops: the handler's future is dropped
\* at an await, with its INSERT or its message under way.
Abort(s) ==
    /\ Faults
    /\ pc[s] \in Working
    /\ MaybeTracked(s)
    /\ MaybeSent(s)
    /\ pc' = [pc EXCEPT ![s] = "aborted"]
    /\ UNCHANGED <<day, healthy, req, next, assigned, untracked,
                   agentVars, cancelVars, alone>>

----------------------------------------------------------------------------
(* The agents, and update_measurement_status, which serves their reports.  *)

\* An agent's running count of probes after i batches of s: all but the last
\* batch carry one probe here.
SentAfter(s, i) == IF i = req[s].batches THEN req[s].probes ELSE i

ReportsOf(a, s) == {r \in reports : r.a = a /\ r.m = s}

\* The agent probes the next batch that has a header for it, and reports.
Consume(a, s) ==
    /\ consumed[a][s] < Len(topic[s])
    /\ InOrder => ReportsOf(a, s) = {}
    /\ LET msg == topic[s][consumed[a][s] + 1]
       IN  /\ a \in msg.to
           /\ reports' = reports \union
                 {[m |-> s, a |-> a, sent |-> SentAfter(s, msg.batch),
                   complete |-> msg.eom, stage |-> "posted"]}
    /\ consumed' = [consumed EXCEPT ![a][s] = @ + 1]
    /\ UNCHANGED <<day, healthy, tracking, topic, subVars, cancelVars, alone>>

\* get_measurement_tracking_by_agent finds the row, or the agent is told 404.
ReportLookup(r) ==
    /\ r.stage = "posted"
    /\ reports' = IF tracking[r.m][r.a] # None
                  THEN (reports \ {r}) \union {[r EXCEPT !.stage = "found"]}
                  ELSE reports \ {r}
    /\ UNCHANGED <<day, healthy, tracking, topic, subVars, consumed, cancelVars, alone>>

\* the UPDATE of update_measurement_probe_count
ReportWrites(r) ==
    /\ r.stage = "found"
    /\ tracking' = [tracking EXCEPT ![r.m] = UpdateProbeCount(@, r.a, r.sent, r.complete)]

ReportApply(r) ==
    /\ ReportWrites(r)
    /\ reports' = reports \ {r}
    /\ UNCHANGED <<day, healthy, topic, subVars, consumed, cancelVars, alone>>

\* The lookup or the UPDATE fails, or the request is dropped: the report is lost,
\* unless its UPDATE was committed all the same.
ReportFails(r) ==
    /\ Faults
    /\ UNCHANGED tracking \/ ReportWrites(r)
    /\ reports' = reports \ {r}
    /\ UNCHANGED <<day, healthy, topic, subVars, consumed, cancelVars, alone>>

ReportStep(a, s) == \E r \in ReportsOf(a, s) : ReportLookup(r) \/ ReportApply(r)

----------------------------------------------------------------------------
(* cancel_measurement_handler.                                             *)

\* The status read: 404 (no effect) unless the measurement has rows.
CancelRead(c) ==
    /\ cpc[c] = "idle"
    /\ \E s \in Submission :
          /\ Listed(tracking[s])
          /\ target' = [target EXCEPT ![c] = s]
          /\ cpc' = [cpc EXCEPT ![c] = IF MeasurementComplete(tracking[s])
                                       THEN "terminal" ELSE "update"]
    /\ UNCHANGED <<day, healthy, tracking, topic, subVars, agentVars, claimed, alone>>

\* the UPDATE of cancel_measurement
CancelWrites(c) ==
    LET t == tracking[target[c]]
    IN  /\ cpc[c] = "update"
        /\ claimed' = [claimed EXCEPT ![c] = Cancellable(t)]
        /\ tracking' = [tracking EXCEPT ![target[c]] = CancelRows(t)]

CancelUpdate(c) ==
    /\ CancelWrites(c)
    /\ cpc' = [cpc EXCEPT ![c] = "answered"]
    /\ UNCHANGED <<day, healthy, topic, subVars, agentVars, target, alone>>

\* The UPDATE is answered with an error, or the request is dropped while it
\* executes: it may have been committed or not.
CancelFails(c) ==
    /\ Faults
    /\ cpc[c] = "update"
    /\ CancelWrites(c) \/ UNCHANGED <<tracking, claimed>>
    /\ cpc' = [cpc EXCEPT ![c] = "failed"]
    /\ UNCHANGED <<day, healthy, topic, subVars, agentVars, target, alone>>

----------------------------------------------------------------------------
SubmissionStep(s) ==
    CheckQuota(s) \/ AssignAgent(s) \/ TrackAgent(s) \/ TrackFails(s) \/ SendBatch(s)

Next ==
    \/ NewDay
    \/ HealthChanges
    \/ \E s \in Submission :
          Submit(s) \/ Reject(s) \/ SubmissionStep(s) \/ SendFails(s) \/ Abort(s)
    \/ \E a \in Agent, s \in Submission : Consume(a, s)
    \/ \E r \in reports : ReportLookup(r) \/ ReportApply(r) \/ ReportFails(r)
    \/ \E c \in Canceller : CancelRead(c) \/ CancelUpdate(c) \/ CancelFails(c)

Spec == Init /\ [][Next]_vars

\* Tokio runs every handler that is ready; agents keep consuming and posting.
Fairness ==
    /\ \A s \in Submission : WF_vars(SubmissionStep(s))
    /\ \A a \in Agent, s \in Submission : WF_vars(Consume(a, s)) /\ WF_vars(ReportStep(a, s))
    /\ \A c \in Canceller : WF_vars(CancelUpdate(c))

FairSpec == Spec /\ Fairness

----------------------------------------------------------------------------
(* Invariants.                                                             *)

\* Every variable keeps to its type.
TypeOK ==
    /\ day \in 0..MaxDay
    /\ healthy \subseteq Agent
    /\ tracking \in [Submission -> Table]
    /\ topic \in [Submission -> Seq(Message)]
    /\ pc \in [Submission -> {"idle"} \union Working \union Answered]
    /\ req \in [Submission -> Request \union {None}]
    /\ next \in [Submission -> Nat \ {0}]
    /\ assigned \in [Submission -> Seq(Agent)]
    /\ untracked \in [Submission -> SUBSET Agent]
    /\ consumed \in [Agent -> [Submission -> Nat]]
    /\ reports \subseteq Report
    /\ cpc \in [Canceller -> {"idle", "update", "terminal", "answered", "failed"}]
    /\ target \in [Canceller -> Submission \union {None}]
    /\ claimed \in [Canceller -> SUBSET Agent]
    /\ alone \in [Submission -> BOOLEAN]

\* A row is complete only once Kafka holds every batch of its measurement: the
\* end_of_measurement header that makes an agent say so travels with the last
\* batch, which submit_probes sends after all the others.
CompleteMeansAllSent ==
    \A s \in Submission : \A a \in Tracked(tracking[s]) :
        tracking[s][a].complete => Len(topic[s]) = req[s].batches

\* update_measurement_status never answers 404 to an agent that was assigned and
\* whose INSERT succeeded: the rows are all there before the first batch is sent.
ReportsFindTheirRow ==
    \A r \in reports :
        \/ r.a \in ToSet(assigned[r.m]) \ untracked[r.m]
        \/ r.stage = "found"
        => tracking[r.m][r.a] # None

\* the rows that are cancelled
Cancelled(t) == {a \in Tracked(t) : t[a].cancelled}

\* the agents_cancelled that a cancellation is answered with
AgentsCancelled(c) == IF cpc[c] = "answered" THEN claimed[c] ELSE {}

\* Cancellations that race with each other and with the INSERTs and reports of
\* the measurement share its cancelled rows out exactly: each row was cancelled by
\* one UPDATE and is in the agents_cancelled of that call, of no other, and of
\* none only if that call failed after its UPDATE was committed; and no row is in
\* an agents_cancelled that is not cancelled.
ClaimsShareOutRows ==
    \A s \in Submission :
        LET calls == {c \in Canceller : target[c] = s}
        IN  /\ \A c, d \in calls : c # d => claimed[c] \intersect claimed[d] = {}
            /\ UNION {AgentsCancelled(c) : c \in calls} \subseteq Cancelled(tracking[s])
            /\ Cancelled(tracking[s]) \ UNION {AgentsCancelled(c) : c \in calls}
                 = UNION {claimed[c] : c \in {d \in calls : cpc[d] = "failed"}}

\* A submission answered with an error before its rows are created leaves no row
\* and no message behind, whatever runs beside it.
RejectedLeavesNothing ==
    \A s \in Submission :
        pc[s] = "rejected" => ~Listed(tracking[s]) /\ topic[s] = <<>>

\* The probe count a successful submission is answered with is what it is charged
\* for, if none of its INSERTs failed.
AnswerMatchesCharge ==
    \A s \in Submission :
        pc[s] = "done" /\ untracked[s] = {}
        => TotalExpected(tracking[s]) = req[s].probes * Len(assigned[s])

\* What the quota check does guarantee: a user is within the limit today if each
\* measurement charged today was charged to one agent, with no other submission
\* of the user and no midnight between its check and its INSERT.
QuotaKeptWhenAlone ==
    \A u \in User :
        LET charged == {s \in SubmissionsOf(u) : ExpectedOn(tracking[s], day) > 0}
        IN  (\A s \in charged : alone[s] /\ Cardinality(Tracked(tracking[s])) = 1)
            => Usage(u) <= Limit[u]

----------------------------------------------------------------------------
(* The inductive invariant behind the invariants above: it ties where each *)
(* handler is to what it has left in the database and in Kafka.            *)

\* the first k assigned agents of s have a row, or a logged error
TrackedUpTo(s, k) ==
    \A i \in 1..k : tracking[s][assigned[s][i]] # None \/ assigned[s][i] \in untracked[s]

SubmissionShape(s) ==
    /\ pc[s] # "idle" => req[s] \in Request
    /\ pc[s] \in {"idle", "quota", "assign", "rejected"} => ~Listed(tracking[s])
    /\ pc[s] \in {"idle", "quota", "assign", "rejected", "track"} => topic[s] = <<>>
    /\ pc[s] \in {"idle", "quota"} => next[s] = 1 /\ assigned[s] = <<>>
    /\ pc[s] = "assign" => next[s] <= Len(req[s].metadata)
    /\ pc[s] = "track" => next[s] <= Len(assigned[s]) /\ TrackedUpTo(s, next[s] - 1)
    /\ pc[s] = "send" => /\ Len(topic[s]) = next[s] - 1
                         /\ next[s] <= req[s].batches
                         /\ TrackedUpTo(s, Len(assigned[s]))

TopicShape(s) ==
    topic[s] # <<>> =>
        /\ pc[s] # "idle"
        /\ Len(topic[s]) <= req[s].batches
        /\ TrackedUpTo(s, Len(assigned[s]))
        /\ \A i \in 1..Len(topic[s]) : topic[s][i].eom => i = req[s].batches

ReportShape(r) ==
    /\ topic[r.m] # <<>>
    /\ r.complete => Len(topic[r.m]) = req[r.m].batches
    /\ r.stage = "found" => tracking[r.m][r.a] # None

CancelShape(c) ==
    /\ cpc[c] \in {"update", "terminal", "answered", "failed"} => target[c] \in Submission
    /\ cpc[c] \notin {"answered", "failed"} => claimed[c] = {}

\* Handlers, Kafka, reports and cancellations are where their program counters
\* say: the strengthening that makes the invariants above inductive.
IInv ==
    /\ TypeOK
    /\ \A s \in Submission : SubmissionShape(s) /\ TopicShape(s)
    /\ \A r \in reports : ReportShape(r)
    /\ \A c \in Canceller : CancelShape(c)

\* a row is charged what the request was checked for, on a day that has come, and
\* the loop over assigned_agents adds a row at a time
RowsShape(s) ==
    /\ IsFiniteSet(Tracked(tracking[s]))
    /\ \A a \in Tracked(tracking[s]) : /\ tracking[s][a].expected = req[s].probes
                                       /\ tracking[s][a].day <= day
    /\ untracked[s] = {} =>
          /\ pc[s] = "track" => Cardinality(Tracked(tracking[s])) = next[s] - 1
          /\ pc[s] \in {"send", "done"} =>
                Cardinality(Tracked(tracking[s])) = Len(assigned[s])

\* A submission that is alone has no rival, and what its quota check found still
\* holds until it is charged.
AloneShape(s) ==
    pc[s] \in Charging /\ alone[s] =>
        /\ Rivals(s) = {}
        /\ ~Listed(tracking[s]) => CanSubmit(s)

\* What the tables' sums add to the inductive invariant.
ChargesInv ==
    /\ IsFiniteSet({s \in Submission : pc[s] # "idle"})
    /\ \A s \in Submission : RowsShape(s) /\ AloneShape(s)

\* The inductive invariant in full, whatever the order of reports.
FullInv == IInv /\ ChargesInv

\* Batches are numbered as they lie in Kafka, and are no more than the probes.
TopicOrder(s) ==
    /\ pc[s] # "idle" => req[s].batches <= req[s].probes
    /\ \A i \in 1..Len(topic[s]) : topic[s][i].batch = i

\* An agent that waits for each answer has at most one report under way, of the
\* last batch it processed; its row is behind it, and complete only at the end.
ProgressShape(a, s) ==
    /\ consumed[a][s] <= Len(topic[s])
    /\ \A r \in ReportsOf(a, s) :
          /\ r.sent = SentAfter(s, consumed[a][s])
          /\ r.complete => consumed[a][s] = req[s].batches
          /\ ReportsOf(a, s) = {r}
    /\ tracking[s][a] # None =>
          /\ tracking[s][a].sent <= SentAfter(s, consumed[a][s])
          /\ tracking[s][a].complete => consumed[a][s] = req[s].batches /\ ReportsOf(a, s) = {}

\* What agents that wait add to the inductive invariant.
InOrderInv ==
    InOrder => \A s \in Submission : TopicOrder(s) /\ \A a \in Agent : ProgressShape(a, s)

----------------------------------------------------------------------------
(* Action properties.                                                      *)

\* A row is never deleted, re-charged or moved to another day, and a cancelled
\* row stays cancelled, whatever late reports do to its other columns.
RowsPersist ==
    [][\A s \in Submission : \A a \in Tracked(tracking[s]) :
          /\ tracking'[s][a] # None
          /\ tracking'[s][a].expected = tracking[s][a].expected
          /\ tracking'[s][a].day = tracking[s][a].day
          /\ tracking[s][a].cancelled => tracking'[s][a].cancelled]_vars

\* The UPDATE of a cancellation leaves the measurement terminal, and changes no
\* row only if the measurement became terminal after the handler's status read
\* (the comment at lib.rs:954).
CancelIsDecisive ==
    [][\A c \in Canceller :
          cpc[c] = "update" /\ cpc'[c] = "answered"
          => /\ MeasurementComplete(tracking'[target[c]])
             /\ claimed'[c] = {} <=> MeasurementComplete(tracking[target[c]])]_vars

\* If agents wait for each answer, a row's progress never goes back: sent_probes
\* does not shrink and a complete row stays complete, although the UPDATE
\* overwrites both columns.
ProgressNeverRegresses ==
    [][\A s \in Submission : \A a \in Tracked(tracking[s]) :
          /\ tracking'[s][a].sent >= tracking[s][a].sent
          /\ tracking[s][a].complete => tracking'[s][a].complete]_vars

\* If agents wait for each answer, a measurement whose rows are all created and
\* that is terminal stays terminal.
TerminalIsStable ==
    [][\A s \in Submission :
          pc[s] \notin Charging /\ Listed(tracking[s]) /\ MeasurementComplete(tracking[s])
          => MeasurementComplete(tracking'[s])]_vars

----------------------------------------------------------------------------
(* The handlers implement the abstract measurement.                        *)

\* submit_probes has left its loops over agents, or has ended before
Closed == {s \in Submission : pc[s] \notin {"idle", "quota", "assign", "track"}}

Completed(t) == {a \in Tracked(t) : t[a].complete}

Life == INSTANCE MeasurementLife
    WITH Measurement <- Submission,
         closed <- Closed,
         joined <- [s \in Submission |-> Tracked(tracking[s])],
         finished <- [s \in Submission |-> Completed(tracking[s])],
         cancelled <- [s \in Submission |-> Cancelled(tracking[s])]

\* If agents wait for each answer, every statement of every handler is to the
\* measurements a joining, closing, finishing or cancelling, or nothing: rows
\* written one by one and overwritten by reports look like one atomic record.
ImplementsLife == Life!Spec

----------------------------------------------------------------------------
(* Liveness.                                                               *)

\* Every submission is answered.
SubmissionAnswered == \A s \in Submission : pc[s] = "quota" ~> pc[s] \in Answered

\* Without faults, and with agents that wait for each answer, every row of a
\* successful submission ends complete and stays so.
MeasurementsFinish ==
    \A s \in Submission :
        pc[s] = "done" ~> [](\A a \in Tracked(tracking[s]) : tracking[s][a].complete)

----------------------------------------------------------------------------
(* What the repository says and the code does not keep.                    *)

\* README.md:11, "while ensuring a given quota is respected": a user's usage of
\* the day stays within the user's limit.
QuotaRespected == \A u \in User : Usage(u) <= Limit[u]

\* lib.rs:491, "Only include healthy agents": the batches are addressed to the
\* agents found healthy, the ones that have a row.
OnlyAssignedAddressed ==
    \A s \in Submission : \A i \in DOMAIN topic[s] :
        topic[s][i].to \subseteq ToSet(assigned[s])

\* 20260619000001_add_measurement_cancellation.sql:2-3, cancelling "makes the
\* measurement terminal so it stops showing as in progress forever": once a call
\* has answered that it cancelled the measurement, the view shows it terminal.
CancelledStaysTerminal ==
    \A c \in Canceller :
        cpc[c] = "answered" /\ claimed[c] # {} => MeasurementComplete(tracking[target[c]])
=============================================================================
