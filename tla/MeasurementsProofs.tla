------------------------- MODULE MeasurementsProofs -------------------------
(***************************************************************************)
(* Proofs about Measurements, for any users, agents, measurements, limits  *)
(* and bounds, with and without faults and in-order reports.               *)
(***************************************************************************)
EXTENDS Measurements, TLAPS

----------------------------------------------------------------------------
(* What the three statements that write to the table do to it.             *)

\* A cancellation's UPDATE keeps the rows and their other columns.
LEMMA CancelTable ==
    ASSUME NEW t \in Table
    PROVE  /\ CancelRows(t) \in Table
           /\ Tracked(CancelRows(t)) = Tracked(t)
           /\ \A a \in Tracked(t) :
                 /\ CancelRows(t)[a].expected = t[a].expected
                 /\ CancelRows(t)[a].day = t[a].day
                 /\ CancelRows(t)[a].sent = t[a].sent
                 /\ CancelRows(t)[a].complete = t[a].complete
                 /\ CancelRows(t)[a].cancelled <=> t[a].cancelled \/ a \in Cancellable(t)
<1>1. \A a \in Agent : a \in Tracked(t) => t[a] \in Row
  BY DEF Table, Tracked
<1>2. \A r \in Row : /\ [r EXCEPT !.cancelled = TRUE] \in Row
                     /\ [r EXCEPT !.cancelled = TRUE].expected = r.expected
                     /\ [r EXCEPT !.cancelled = TRUE].day = r.day
                     /\ [r EXCEPT !.cancelled = TRUE].sent = r.sent
                     /\ [r EXCEPT !.cancelled = TRUE].complete = r.complete
                     /\ [r EXCEPT !.cancelled = TRUE].cancelled = TRUE
  BY DEF Row
<1>3. Cancellable(t) \subseteq Tracked(t)
  BY DEF Cancellable
<1>4. \A a \in Agent : CancelRows(t)[a] = IF a \in Cancellable(t)
                                         THEN [t[a] EXCEPT !.cancelled = TRUE] ELSE t[a]
  BY DEF CancelRows
<1>5. CancelRows(t) \in Table
  BY <1>1, <1>2, <1>3, <1>4 DEF Table, CancelRows
<1>6. Tracked(CancelRows(t)) = Tracked(t)
  <2>1. ASSUME NEW a \in Agent PROVE CancelRows(t)[a] # None <=> t[a] # None
    <3>1. a \in Cancellable(t) => t[a] # None /\ CancelRows(t)[a] \in Row
      BY <1>1, <1>2, <1>3, <1>4 DEF Tracked
    <3>2. QED
      BY <1>4, <3>1, NoneAssumption
  <2>2. QED
    BY <2>1 DEF Tracked
<1>7. ASSUME NEW a \in Tracked(t)
      PROVE  /\ CancelRows(t)[a].expected = t[a].expected
             /\ CancelRows(t)[a].day = t[a].day
             /\ CancelRows(t)[a].sent = t[a].sent
             /\ CancelRows(t)[a].complete = t[a].complete
             /\ CancelRows(t)[a].cancelled <=> t[a].cancelled \/ a \in Cancellable(t)
  <2>1. a \in Agent /\ t[a] \in Row
    BY <1>1 DEF Tracked
  <2>2. CASE a \in Cancellable(t)
    BY <1>2, <1>4, <2>1, <2>2
  <2>3. CASE a \notin Cancellable(t)
    BY <1>4, <2>1, <2>3
  <2>4. QED
    BY <2>2, <2>3
<1>8. QED
  BY <1>5, <1>6, <1>7

\* create_measurement_tracking adds one row.
LEMMA TrackEffect ==
    ASSUME IInv, NEW s \in Submission, TrackWrites(s),
           NEW a, a = assigned[s][next[s]]
    PROVE  /\ tracking' \in [Submission -> Table]
           /\ a \in Agent /\ tracking[s][a] = None
           /\ tracking'[s][a] # None
           /\ tracking'[s][a].sent = 0
           /\ tracking'[s][a].complete = FALSE
           /\ tracking'[s][a].cancelled = FALSE
           /\ \A b \in Agent \ {a} : tracking'[s][b] = tracking[s][b]
           /\ \A t \in Submission \ {s} : tracking'[t] = tracking[t]
           /\ Tracked(tracking'[s]) = Tracked(tracking[s]) \union {a}
<1>1. TypeOK /\ SubmissionShape(s)
  BY DEF IInv
<1>2. assigned[s][next[s]] \in Agent /\ req[s] \in Request
  BY <1>1 DEF TypeOK, SubmissionShape, TrackWrites
<1>3. req[s].probes \in Nat /\ day \in Nat /\ tracking[s] \in Table
  BY <1>1, <1>2, MeasurementsAssumption DEF TypeOK, Request
<1>4. PICK r \in Row :
        /\ r.sent = 0 /\ r.complete = FALSE /\ r.cancelled = FALSE
        /\ tracking' = [tracking EXCEPT ![s] = [tracking[s] EXCEPT ![a] = r]]
  BY <1>3 DEF TrackWrites, CreateTracking, NewRow, Row
<1>5. /\ tracking'[s] = [tracking[s] EXCEPT ![a] = r]
      /\ \A t \in Submission \ {s} : tracking'[t] = tracking[t]
      /\ tracking' \in [Submission -> Table]
  BY <1>1, <1>2, <1>3, <1>4 DEF TypeOK, Table
<1>6. tracking'[s][a] = r /\ \A b \in Agent \ {a} : tracking'[s][b] = tracking[s][b]
  BY <1>2, <1>3, <1>5 DEF Table
<1>7. r # None
  BY NoneAssumption
<1>8. Tracked(tracking'[s]) = Tracked(tracking[s]) \union {a}
  BY <1>2, <1>6, <1>7 DEF Tracked
<1>9. QED
  BY <1>2, <1>4, <1>5, <1>6, <1>7, <1>8 DEF TrackWrites

\* update_measurement_probe_count sets two columns of one row.
LEMMA UpdateEffect ==
    ASSUME IInv, NEW r \in reports, ReportWrites(r),
           NEW s, s = r.m, NEW a, a = r.a
    PROVE  /\ tracking' \in [Submission -> Table]
           /\ s \in Submission /\ a \in Agent /\ tracking[s][a] # None
           /\ tracking'[s][a] # None
           /\ tracking'[s][a].expected = tracking[s][a].expected
           /\ tracking'[s][a].day = tracking[s][a].day
           /\ tracking'[s][a].sent = r.sent
           /\ tracking'[s][a].complete = r.complete
           /\ tracking'[s][a].cancelled = tracking[s][a].cancelled
           /\ \A b \in Agent \ {a} : tracking'[s][b] = tracking[s][b]
           /\ \A t \in Submission \ {s} : tracking'[t] = tracking[t]
           /\ Tracked(tracking'[s]) = Tracked(tracking[s])
<1>1. TypeOK /\ r \in Report /\ ReportShape(r)
  BY DEF IInv, TypeOK
<1>2. /\ s \in Submission /\ a \in Agent /\ r.sent \in Nat /\ r.complete \in BOOLEAN
      /\ tracking[s] \in Table /\ tracking[s][a] # None
  BY <1>1 DEF TypeOK, Report, ReportShape, ReportWrites
<1>3. tracking[s][a] \in Row
  BY <1>2 DEF Table
<1>4. PICK q : q = [tracking[s][a] EXCEPT !.sent = r.sent, !.complete = r.complete]
  OBVIOUS
<1>5. /\ q \in Row /\ q.sent = r.sent /\ q.complete = r.complete
      /\ q.expected = tracking[s][a].expected /\ q.day = tracking[s][a].day
      /\ q.cancelled = tracking[s][a].cancelled
  BY <1>2, <1>3, <1>4 DEF Row
<1>6. tracking' = [tracking EXCEPT ![s] = [tracking[s] EXCEPT ![a] = q]]
  BY <1>4 DEF ReportWrites, UpdateProbeCount
<1>7. /\ tracking'[s] = [tracking[s] EXCEPT ![a] = q]
      /\ \A t \in Submission \ {s} : tracking'[t] = tracking[t]
      /\ tracking' \in [Submission -> Table]
  BY <1>1, <1>2, <1>5, <1>6 DEF TypeOK, Table
<1>8. tracking'[s][a] = q /\ \A b \in Agent \ {a} : tracking'[s][b] = tracking[s][b]
  BY <1>2, <1>7 DEF Table
<1>9. q # None
  BY <1>5, NoneAssumption
<1>10. Tracked(tracking'[s]) = Tracked(tracking[s])
  BY <1>2, <1>8, <1>9 DEF Tracked
<1>11. QED
  BY <1>2, <1>5, <1>7, <1>8, <1>9, <1>10

\* cancel_measurement sets one column of the rows that are not terminal.
LEMMA CancelEffect ==
    ASSUME IInv, NEW c \in Canceller, CancelWrites(c),
           NEW s, s = target[c]
    PROVE  /\ tracking' \in [Submission -> Table]
           /\ s \in Submission /\ claimed'[c] = Cancellable(tracking[s])
           /\ Tracked(tracking'[s]) = Tracked(tracking[s])
           /\ \A a \in Tracked(tracking[s]) :
                 /\ tracking'[s][a].expected = tracking[s][a].expected
                 /\ tracking'[s][a].day = tracking[s][a].day
                 /\ tracking'[s][a].sent = tracking[s][a].sent
                 /\ tracking'[s][a].complete = tracking[s][a].complete
                 /\ tracking'[s][a].cancelled <=> \/ tracking[s][a].cancelled
                                                  \/ a \in Cancellable(tracking[s])
           /\ \A t \in Submission \ {s} : tracking'[t] = tracking[t]
<1>1. TypeOK /\ CancelShape(c)
  BY DEF IInv
<1>2. s \in Submission /\ tracking[s] \in Table
  BY <1>1 DEF TypeOK, CancelShape, CancelWrites
<1>3. PICK t : t = CancelRows(tracking[s])
  OBVIOUS
<1>4. /\ t \in Table
      /\ Tracked(t) = Tracked(tracking[s])
      /\ \A a \in Tracked(tracking[s]) :
            /\ t[a].expected = tracking[s][a].expected
            /\ t[a].day = tracking[s][a].day
            /\ t[a].sent = tracking[s][a].sent
            /\ t[a].complete = tracking[s][a].complete
            /\ t[a].cancelled <=> \/ tracking[s][a].cancelled
                                  \/ a \in Cancellable(tracking[s])
  BY <1>2, <1>3, CancelTable
<1>5. tracking' = [tracking EXCEPT ![s] = t]
  BY <1>3 DEF CancelWrites
<1>6. /\ tracking'[s] = t /\ \A u \in Submission \ {s} : tracking'[u] = tracking[u]
      /\ tracking' \in [Submission -> Table]
  BY <1>1, <1>2, <1>4, <1>5 DEF TypeOK
<1>7. claimed'[c] = Cancellable(tracking[s])
  BY <1>1 DEF TypeOK, CancelWrites
<1>8. QED
  BY <1>2, <1>4, <1>6, <1>7

----------------------------------------------------------------------------
(* Types.                                                                  *)

LEMMA InitTypeOK == Init => TypeOK
<1>1. EmptyTable \in Table
  BY DEF EmptyTable, Table
<1>2. QED
  BY <1>1, MeasurementsAssumption DEF Init, TypeOK, Report, Working, Answered

\* Every batch submit_probes builds is a message.
LEMMA BatchType ==
    ASSUME TypeOK, NEW s \in Submission, req[s] \in Request, NEW i \in 1..req[s].batches
    PROVE  Batch(s, i) \in Message
<1>1. req[s].metadata \in Seq(Agent) /\ req[s].batches \in 1..MaxBatches
  BY MeasurementsAssumption DEF Request
<1>2. ToSet(req[s].metadata) \subseteq Agent
  BY <1>1 DEF ToSet
<1>3. i \in 1..MaxBatches
  BY <1>1, MeasurementsAssumption
<1>4. QED
  BY <1>2, <1>3 DEF Batch, Message

LEMMA SubmitType ==
    ASSUME IInv, NEW s \in Submission, Submit(s) \/ Reject(s) \/ CheckQuota(s) \/ AssignAgent(s)
    PROVE  TypeOK'
<1>1. TypeOK /\ SubmissionShape(s)
  BY DEF IInv
<1>2. CASE Submit(s)
  BY <1>1, <1>2 DEF TypeOK, Submit, Request, Working, agentVars, cancelVars
<1>3. CASE Reject(s)
  BY <1>1, <1>3 DEF TypeOK, Reject, Answered, agentVars, cancelVars
<1>4. CASE CheckQuota(s)
  BY <1>1, <1>4 DEF TypeOK, CheckQuota, Working, Answered, agentVars, cancelVars
<1>5. CASE AssignAgent(s)
  <2>1. /\ req[s].metadata \in Seq(Agent) /\ next[s] \in 1..Len(req[s].metadata)
        /\ assigned[s] \in Seq(Agent)
    BY <1>1, <1>5, MeasurementsAssumption DEF TypeOK, SubmissionShape, AssignAgent, Request
  <2>2. req[s].metadata[next[s]] \in Agent
    BY <2>1
  <2>3. assigned' \in [Submission -> Seq(Agent)]
    BY <1>1, <1>5, <2>1, <2>2 DEF TypeOK, AssignAgent
  <2>4. next' \in [Submission -> Nat \ {0}]
    BY <1>1, <1>5 DEF TypeOK, AssignAgent
  <2>5. pc' \in [Submission -> {"idle"} \union Working \union Answered]
    BY <1>1, <1>5 DEF TypeOK, AssignAgent, Working, Answered
  <2>6. QED
    BY <1>1, <1>5, <2>3, <2>4, <2>5 DEF TypeOK, AssignAgent, agentVars, cancelVars
<1>6. QED
  BY <1>2, <1>3, <1>4, <1>5

LEMMA ChargeType ==
    ASSUME IInv, NEW s \in Submission, TrackAgent(s) \/ TrackFails(s)
    PROVE  TypeOK'
<1>1. TypeOK /\ SubmissionShape(s)
  BY DEF IInv
<1>2. assigned[s][next[s]] \in Agent /\ req[s] \in Request
  BY <1>1 DEF TypeOK, SubmissionShape, TrackAgent, TrackWrites, TrackFails
<1>3. next' \in [Submission -> Nat \ {0}]
  <2>1. next[s] \in Nat \ {0} /\ next[s] + 1 \in Nat \ {0}
    BY <1>1 DEF TypeOK
  <2>2. \E n \in {1, next[s] + 1} : next' = [next EXCEPT ![s] = n]
    BY <1>1 DEF TypeOK, TrackAgent, TrackFails, AfterRow
  <2>3. QED
    BY <1>1, <2>1, <2>2 DEF TypeOK
<1>4. pc' \in [Submission -> {"idle"} \union Working \union Answered]
  BY <1>1 DEF TypeOK, TrackAgent, TrackFails, AfterRow, Working, Answered
<1>5. tracking' \in [Submission -> Table]
  BY <1>1, TrackEffect DEF TypeOK, TrackAgent, TrackFails, MaybeTracked
<1>6. untracked' \in [Submission -> SUBSET Agent]
  <2>1. \E x \in SUBSET Agent : untracked' = [untracked EXCEPT ![s] = x] \/ untracked' = untracked
    BY <1>1, <1>2 DEF TypeOK, TrackAgent, TrackFails
  <2>2. QED
    BY <1>1, <2>1 DEF TypeOK
<1>7. QED
  BY <1>1, <1>3, <1>4, <1>5, <1>6
  DEF TypeOK, TrackAgent, TrackFails, AfterRow, agentVars, cancelVars

LEMMA SendType ==
    ASSUME IInv, NEW s \in Submission, SendBatch(s) \/ SendFails(s) \/ Abort(s)
    PROVE  TypeOK'
<1>1. TypeOK /\ SubmissionShape(s)
  BY DEF IInv
<1>2. topic' \in [Submission -> Seq(Message)]
  <2>1. CASE pc[s] = "send"
    <3>1. req[s] \in Request /\ next[s] \in 1..req[s].batches
      BY <1>1, <2>1 DEF TypeOK, SubmissionShape, Request
    <3>2. Batch(s, next[s]) \in Message
      BY <1>1, <3>1, BatchType
    <3>3. Append(topic[s], Batch(s, next[s])) \in Seq(Message)
      BY <1>1, <3>2 DEF TypeOK
    <3>4. \/ topic' = topic
          \/ topic' = [topic EXCEPT ![s] = Append(topic[s], Batch(s, next[s]))]
      BY DEF SendBatch, SendFails, Abort, MaybeSent
    <3>5. QED
      BY <1>1, <3>3, <3>4 DEF TypeOK
  <2>2. CASE pc[s] # "send"
    BY <1>1, <2>2 DEF TypeOK, SendBatch, SendFails, Abort, MaybeSent
  <2>3. QED
    BY <2>1, <2>2
<1>3. next' \in [Submission -> Nat \ {0}]
  <2>1. next[s] \in Nat \ {0} /\ next[s] + 1 \in Nat \ {0}
    BY <1>1 DEF TypeOK
  <2>2. next' = next \/ \E n \in {next[s], next[s] + 1} : next' = [next EXCEPT ![s] = n]
    BY DEF SendBatch, SendFails, Abort
  <2>3. QED
    BY <1>1, <2>1, <2>2 DEF TypeOK
<1>4. pc' \in [Submission -> {"idle"} \union Working \union Answered]
  BY <1>1 DEF TypeOK, SendBatch, SendFails, Abort, Working, Answered
<1>5. tracking' \in [Submission -> Table]
  BY <1>1, TrackEffect DEF TypeOK, SendBatch, SendFails, Abort, MaybeTracked
<1>6. QED
  BY <1>1, <1>2, <1>3, <1>4, <1>5
  DEF TypeOK, SendBatch, SendFails, Abort, agentVars, cancelVars

LEMMA ConsumeType ==
    ASSUME IInv, NEW a \in Agent, NEW s \in Submission, Consume(a, s)
    PROVE  TypeOK'
<1>1. TypeOK
  BY DEF IInv
<1>2. req[s] \in Request
  BY DEF IInv, Consume, TypeOK, SubmissionShape, TopicShape
<1> DEFINE msg == topic[s][consumed[a][s] + 1]
<1>3. msg \in Message
  BY <1>1 DEF TypeOK, Consume
<1>4. SentAfter(s, msg.batch) \in Nat /\ msg.eom \in BOOLEAN
  BY <1>2, <1>3, MeasurementsAssumption DEF SentAfter, Message, Request
<1>5. [m |-> s, a |-> a, sent |-> SentAfter(s, msg.batch), complete |-> msg.eom,
       stage |-> "posted"] \in Report
  BY <1>4 DEF Report
<1>6. reports' \subseteq Report
  BY <1>1, <1>5 DEF TypeOK, Consume
<1>7. consumed' \in [Agent -> [Submission -> Nat]]
  BY <1>1 DEF TypeOK, Consume
<1>8. QED
  BY <1>1, <1>6, <1>7 DEF TypeOK, Consume, subVars, cancelVars

LEMMA ReportType ==
    ASSUME IInv, NEW r \in reports, ReportLookup(r) \/ ReportApply(r) \/ ReportFails(r)
    PROVE  TypeOK'
<1>1. TypeOK /\ r \in Report /\ ReportShape(r)
  BY DEF IInv, TypeOK
<1>2. [r EXCEPT !.stage = "found"] \in Report
  BY <1>1 DEF Report
<1>3. reports' \subseteq Report
  BY <1>1, <1>2 DEF TypeOK, ReportLookup, ReportApply, ReportFails
<1>4. tracking' \in [Submission -> Table]
  BY <1>1, UpdateEffect DEF TypeOK, ReportLookup, ReportApply, ReportFails
<1>5. QED
  BY <1>1, <1>3, <1>4
  DEF TypeOK, ReportLookup, ReportApply, ReportFails, subVars, cancelVars

LEMMA CancelType ==
    ASSUME IInv, NEW c \in Canceller, CancelRead(c) \/ CancelUpdate(c) \/ CancelFails(c)
    PROVE  TypeOK'
<1>1. TypeOK /\ CancelShape(c)
  BY DEF IInv
<1>2. CASE CancelRead(c)
  BY <1>1, <1>2 DEF TypeOK, CancelRead, subVars, agentVars
<1>3. CASE CancelUpdate(c) \/ CancelFails(c)
  <2>1. tracking' \in [Submission -> Table]
    BY <1>1, <1>3, CancelEffect DEF TypeOK, CancelUpdate, CancelFails
  <2>2. Cancellable(tracking[target[c]]) \subseteq Agent
    BY DEF Cancellable, Tracked
  <2>3. claimed' \in [Canceller -> SUBSET Agent]
    BY <1>1, <1>3, <2>2 DEF TypeOK, CancelUpdate, CancelFails, CancelWrites
  <2>4. QED
    BY <1>1, <1>3, <2>1, <2>3 DEF TypeOK, CancelUpdate, CancelFails, subVars, agentVars
<1>4. QED
  BY <1>2, <1>3

\* Every step keeps the types.
LEMMA StepTypeOK == IInv /\ [Next]_vars => TypeOK'
<1> SUFFICES ASSUME IInv, [Next]_vars PROVE TypeOK'
  OBVIOUS
<1>1. TypeOK
  BY DEF IInv
<1>2. CASE NewDay
  BY <1>1, <1>2, MeasurementsAssumption DEF TypeOK, NewDay, subVars, agentVars, cancelVars
<1>3. CASE HealthChanges
  BY <1>1, <1>3 DEF TypeOK, HealthChanges, subVars, agentVars, cancelVars
<1>4. CASE UNCHANGED vars
  BY <1>1, <1>4 DEF TypeOK, vars, subVars, agentVars, cancelVars
<1>5. QED
  BY <1>2, <1>3, <1>4, SubmitType, ChargeType, SendType, ConsumeType, ReportType, CancelType
  DEF Next, SubmissionStep

----------------------------------------------------------------------------
(* What a step leaves alone.                                               *)

OwnStep(s) == Submit(s) \/ Reject(s) \/ SubmissionStep(s) \/ SendFails(s) \/ Abort(s)

\* Only its own handler moves a submission, sends its batches and adds its rows.
LEMMA Frame ==
    ASSUME IInv, [Next]_vars, NEW s \in Submission, ~OwnStep(s)
    PROVE  /\ UNCHANGED <<pc[s], req[s], next[s], assigned[s], untracked[s], topic[s]>>
           /\ Tracked(tracking'[s]) = Tracked(tracking[s])
<1>1. TypeOK /\ tracking[s] \in Table
  BY DEF IInv, TypeOK
<1>2. CASE NewDay \/ HealthChanges \/ UNCHANGED vars
  BY <1>2 DEF NewDay, HealthChanges, vars, subVars
<1>3. ASSUME NEW t \in Submission \ {s}, OwnStep(t)
      PROVE  /\ UNCHANGED <<pc[s], req[s], next[s], assigned[s], untracked[s], topic[s]>>
             /\ tracking'[s] = tracking[s]
  BY <1>1, <1>3
  DEF TypeOK, OwnStep, SubmissionStep, Submit, Reject, CheckQuota, AssignAgent, TrackAgent,
      TrackFails, TrackWrites, MaybeTracked, AfterRow, SendBatch, SendFails, Abort, MaybeSent
<1>4. ASSUME NEW a \in Agent, NEW t \in Submission, Consume(a, t)
      PROVE  UNCHANGED <<subVars, topic, tracking>>
  BY <1>4 DEF Consume
<1>5. ASSUME NEW r \in reports, ReportLookup(r) \/ ReportApply(r) \/ ReportFails(r)
      PROVE  UNCHANGED <<subVars, topic>> /\ Tracked(tracking'[s]) = Tracked(tracking[s])
  <2>1. UNCHANGED <<subVars, topic>> /\ (UNCHANGED tracking \/ ReportWrites(r))
    BY <1>5 DEF ReportLookup, ReportApply, ReportFails
  <2>2. QED
    BY <2>1, UpdateEffect
<1>6. ASSUME NEW c \in Canceller, CancelRead(c) \/ CancelUpdate(c) \/ CancelFails(c)
      PROVE  UNCHANGED <<subVars, topic>> /\ Tracked(tracking'[s]) = Tracked(tracking[s])
  <2>1. UNCHANGED <<subVars, topic>> /\ (UNCHANGED tracking \/ CancelWrites(c))
    BY <1>6 DEF CancelRead, CancelUpdate, CancelFails
  <2>2. QED
    BY <2>1, CancelEffect
<1>7. QED
  BY <1>2, <1>3, <1>4, <1>5, <1>6 DEF Next, OwnStep, subVars

\* No step deletes a row.
LEMMA RowsOnlyAdded ==
    ASSUME IInv, [Next]_vars, NEW s \in Submission
    PROVE  Tracked(tracking[s]) \subseteq Tracked(tracking'[s])
<1>1. CASE ~OwnStep(s)
  BY <1>1, Frame
<1>2. CASE TrackWrites(s)
  BY <1>2, TrackEffect
<1>3. CASE OwnStep(s) /\ ~TrackWrites(s)
  BY <1>3 DEF OwnStep, SubmissionStep, Submit, Reject, CheckQuota, AssignAgent, TrackAgent,
              TrackFails, MaybeTracked, SendBatch, SendFails, Abort
<1>4. QED
  BY <1>1, <1>2, <1>3

----------------------------------------------------------------------------
(* The shape of a submission, and of its topic.                            *)

\* Rows persist, so what a submission has tracked stays tracked.
LEMMA TrackedUpToPersists ==
    ASSUME IInv, [Next]_vars, NEW s \in Submission, NEW k \in 0..Len(assigned[s]),
           TrackedUpTo(s, k), assigned'[s] = assigned[s]
    PROVE  TrackedUpTo(s, k)'
<1>1. untracked[s] \subseteq untracked'[s]
  <2>1. CASE ~OwnStep(s)
    BY <2>1, Frame
  <2>2. CASE OwnStep(s)
    BY <2>2 DEF IInv, TypeOK, OwnStep, SubmissionStep, Submit, Reject, CheckQuota, AssignAgent,
                TrackAgent, TrackFails, AfterRow, SendBatch, SendFails, Abort
  <2>3. QED
    BY <2>1, <2>2
<1>2. \A i \in 1..k : assigned[s][i] \in Agent
  BY DEF IInv, TypeOK
<1>3. ASSUME NEW i \in 1..k
      PROVE  tracking'[s][assigned[s][i]] # None \/ assigned[s][i] \in untracked'[s]
  BY <1>1, <1>2, <1>3, RowsOnlyAdded DEF TrackedUpTo, Tracked
<1>4. QED
  BY <1>3 DEF TrackedUpTo

\* The shape of a submission that does not move.
LEMMA FrameShape ==
    ASSUME IInv, [Next]_vars, NEW s \in Submission, ~OwnStep(s)
    PROVE  SubmissionShape(s)' /\ TopicShape(s)'
<1>1. TypeOK /\ SubmissionShape(s) /\ TopicShape(s)
  BY DEF IInv
<1>2. /\ UNCHANGED <<pc[s], req[s], next[s], assigned[s], untracked[s], topic[s]>>
      /\ Tracked(tracking'[s]) = Tracked(tracking[s])
  BY Frame
<1>3. assigned[s] \in Seq(Agent) /\ next[s] \in Nat \ {0}
  BY <1>1 DEF TypeOK
<1>4. pc[s] = "track" => TrackedUpTo(s, next[s] - 1)'
  <2>1. ASSUME pc[s] = "track"
        PROVE  /\ next[s] - 1 \in 0..Len(assigned[s])
               /\ TrackedUpTo(s, next[s] - 1)
    BY <1>1, <1>3, <2>1 DEF SubmissionShape
  <2>2. ASSUME NEW k \in 0..Len(assigned[s]), k = next[s] - 1, TrackedUpTo(s, k)
        PROVE  TrackedUpTo(s, next[s] - 1)'
    <3>1. TrackedUpTo(s, k)'
      BY <1>2, <2>2, TrackedUpToPersists
    <3>2. QED
      BY <1>2, <2>2, <3>1 DEF TrackedUpTo
  <2>3. QED
    BY <2>1, <2>2
<1>5. pc[s] = "send" \/ topic[s] # <<>> => TrackedUpTo(s, Len(assigned[s]))'
  <2>1. Len(assigned[s]) \in 0..Len(assigned[s])
    BY <1>3
  <2>2. ASSUME NEW k \in 0..Len(assigned[s]), k = Len(assigned[s]), TrackedUpTo(s, k)
        PROVE  TrackedUpTo(s, Len(assigned[s]))'
    <3>1. TrackedUpTo(s, k)'
      BY <1>2, <2>2, TrackedUpToPersists
    <3>2. QED
      BY <1>2, <2>2, <3>1 DEF TrackedUpTo
  <2>3. pc[s] = "send" \/ topic[s] # <<>> => TrackedUpTo(s, Len(assigned[s]))
    BY <1>1 DEF SubmissionShape, TopicShape
  <2>4. QED
    BY <2>1, <2>2, <2>3
<1>6. SubmissionShape(s)'
  BY <1>1, <1>2, <1>4, <1>5 DEF SubmissionShape, Listed
<1>7. TopicShape(s)'
  BY <1>1, <1>2, <1>5 DEF TopicShape
<1>8. QED
  BY <1>6, <1>7

\* Up to the agents' assignment nothing has been written.
LEMMA SubmitShape ==
    ASSUME IInv, NEW s \in Submission, Submit(s) \/ Reject(s) \/ CheckQuota(s) \/ AssignAgent(s)
    PROVE  SubmissionShape(s)' /\ TopicShape(s)'
<1>1. TypeOK /\ SubmissionShape(s) /\ TopicShape(s)
  BY DEF IInv
<1>2. /\ ~Listed(tracking[s]) /\ topic[s] = <<>>
      /\ tracking' = tracking /\ topic' = topic
  BY <1>1 DEF SubmissionShape, Submit, Reject, CheckQuota, AssignAgent
<1>3. TopicShape(s)'
  BY <1>2 DEF TopicShape
<1>4. CASE Submit(s)
  <2>1. /\ req'[s] \in Request /\ next'[s] = 1 /\ assigned'[s] = <<>> /\ pc'[s] = "quota"
    BY <1>1, <1>4 DEF TypeOK, SubmissionShape, Submit, Request
  <2>2. QED
    BY <1>2, <1>3, <2>1 DEF SubmissionShape
<1>5. CASE Reject(s)
  BY <1>1, <1>2, <1>3, <1>5 DEF TypeOK, SubmissionShape, Reject
<1>6. CASE CheckQuota(s)
  <2>1. /\ req'[s] = req[s] /\ next'[s] = 1 /\ pc'[s] \in {"assign", "rejected"}
        /\ pc'[s] = "assign" => req[s].metadata # <<>>
    BY <1>1, <1>6 DEF TypeOK, SubmissionShape, CheckQuota
  <2>2. req[s] \in Request /\ req[s].metadata \in Seq(Agent)
    BY <1>1, <1>6, MeasurementsAssumption DEF SubmissionShape, CheckQuota, Request
  <2>3. req[s].metadata # <<>> => 1 <= Len(req[s].metadata)
    BY <2>2
  <2>4. QED
    BY <1>2, <1>3, <2>1, <2>2, <2>3 DEF SubmissionShape
<1>7. CASE AssignAgent(s)
  <2>1. req[s] \in Request /\ req[s].metadata \in Seq(Agent) /\ next[s] <= Len(req[s].metadata)
    BY <1>1, <1>7, MeasurementsAssumption DEF SubmissionShape, AssignAgent, Request
  <2>2. req'[s] = req[s]
    BY <1>7 DEF AssignAgent
  <2>3. CASE next[s] # Len(req[s].metadata)
    <3>1. pc'[s] = "assign" /\ next'[s] = next[s] + 1
      BY <1>1, <1>7, <2>3 DEF TypeOK, AssignAgent
    <3>2. QED
      BY <1>1, <1>2, <1>3, <2>1, <2>2, <2>3, <3>1 DEF TypeOK, SubmissionShape
  <2>4. CASE next[s] = Len(req[s].metadata)
    <3>1. /\ pc'[s] \in {"rejected", "track"} /\ next'[s] = 1
          /\ pc'[s] = "track" => assigned'[s] # <<>>
      BY <1>1, <1>7, <2>4 DEF TypeOK, AssignAgent
    <3>2. assigned'[s] \in Seq(Agent)
      BY SubmitType, <1>7 DEF TypeOK
    <3>3. pc'[s] = "track" => next'[s] <= Len(assigned'[s])
      BY <3>1, <3>2
    <3>4. pc'[s] = "track" => TrackedUpTo(s, next[s] - 1)'
      BY <3>1 DEF TrackedUpTo
    <3>5. QED
      BY <1>2, <1>3, <2>1, <2>2, <3>1, <3>3, <3>4 DEF SubmissionShape
  <2>5. QED
    BY <2>3, <2>4
<1>8. QED
  BY <1>3, <1>4, <1>5, <1>6, <1>7

\* One more agent has a row, or an error in the log.
LEMMA ChargeShape ==
    ASSUME IInv, [Next]_vars, NEW s \in Submission, TrackAgent(s) \/ TrackFails(s)
    PROVE  SubmissionShape(s)' /\ TopicShape(s)'
<1>1. TypeOK /\ SubmissionShape(s) /\ TopicShape(s)
  BY DEF IInv
<1>2. /\ pc[s] = "track" /\ req'[s] = req[s] /\ assigned'[s] = assigned[s]
      /\ topic'[s] = topic[s]
  BY DEF TrackAgent, TrackWrites, TrackFails, AfterRow
<1>3. /\ req[s] \in Request /\ topic[s] = <<>> /\ assigned[s] \in Seq(Agent)
      /\ next[s] \in 1..Len(assigned[s]) /\ TrackedUpTo(s, next[s] - 1)
  BY <1>1, <1>2 DEF TypeOK, SubmissionShape
<1>4. PICK a : a = assigned[s][next[s]]
  OBVIOUS
<1>5. tracking'[s][a] # None \/ a \in untracked'[s]
  <2>1. CASE TrackAgent(s)
    BY <1>4, <2>1, TrackEffect DEF TrackAgent
  <2>2. CASE TrackFails(s)
    BY <1>1, <1>4, <2>2 DEF TypeOK, TrackFails
  <2>3. QED
    BY <2>1, <2>2
<1>6. PICK k \in 0..Len(assigned[s]) : k = next[s] - 1
  BY <1>3
<1>7. TrackedUpTo(s, k)'
  BY <1>2, <1>3, <1>6, TrackedUpToPersists
<1>8. \A i \in 1..next[s] : \/ tracking'[s][assigned[s][i]] # None
                            \/ assigned[s][i] \in untracked'[s]
  BY <1>2, <1>3, <1>4, <1>5, <1>6, <1>7 DEF TrackedUpTo
<1>9. CASE next[s] # Len(assigned[s])
  <2>1. pc'[s] = "track" /\ next'[s] = next[s] + 1
    BY <1>1, <1>9 DEF TypeOK, TrackAgent, TrackFails, AfterRow
  <2>2. TrackedUpTo(s, next[s] - 1)'
    BY <1>2, <1>3, <1>8, <2>1 DEF TrackedUpTo
  <2>3. QED
    BY <1>2, <1>3, <1>9, <2>1, <2>2 DEF SubmissionShape, TopicShape
<1>10. CASE next[s] = Len(assigned[s])
  <2>1. pc'[s] = "send" /\ next'[s] = 1
    BY <1>1, <1>10 DEF TypeOK, TrackAgent, TrackFails, AfterRow
  <2>2. TrackedUpTo(s, Len(assigned[s]))'
    BY <1>2, <1>8, <1>10, <2>1 DEF TrackedUpTo
  <2>3. 1 <= req[s].batches
    BY <1>3, MeasurementsAssumption DEF Request
  <2>4. QED
    BY <1>2, <1>3, <2>1, <2>2, <2>3 DEF SubmissionShape, TopicShape
<1>11. QED
  BY <1>9, <1>10

\* A batch is sent after all the batches before it, and the last one says so.
LEMMA SendShape ==
    ASSUME IInv, [Next]_vars, NEW s \in Submission, SendBatch(s) \/ SendFails(s) \/ Abort(s)
    PROVE  SubmissionShape(s)' /\ TopicShape(s)'
<1>1. TypeOK /\ SubmissionShape(s) /\ TopicShape(s)
  BY DEF IInv
<1>2. req'[s] = req[s] /\ assigned'[s] = assigned[s] /\ pc[s] \in Working
  BY DEF SendBatch, SendFails, Abort, Working
<1>3. req[s] \in Request /\ topic[s] \in Seq(Message) /\ next[s] \in Nat \ {0}
  BY <1>1, <1>2 DEF TypeOK, SubmissionShape, Working
<1>4. TrackedUpTo(s, Len(assigned[s])) => TrackedUpTo(s, Len(assigned[s]))'
  <2>1. PICK k \in 0..Len(assigned[s]) : k = Len(assigned[s])
    BY <1>1 DEF TypeOK
  <2>2. TrackedUpTo(s, k) => TrackedUpTo(s, k)'
    BY <1>2, TrackedUpToPersists
  <2>3. QED
    BY <1>2, <2>1, <2>2 DEF TrackedUpTo
<1>5. CASE topic'[s] = topic[s]
  <2>1. pc'[s] \in {"failed", "aborted"}
    BY <1>1, <1>3, <1>5 DEF TypeOK, SendBatch, SendFails, Abort
  <2>2. QED
    BY <1>1, <1>2, <1>3, <1>4, <1>5, <2>1 DEF SubmissionShape, TopicShape
<1>6. CASE topic'[s] = Append(topic[s], Batch(s, next[s])) /\ pc[s] = "send"
  <2>1. /\ Len(topic[s]) = next[s] - 1 /\ next[s] <= req[s].batches
        /\ TrackedUpTo(s, Len(assigned[s]))
    BY <1>1, <1>6 DEF SubmissionShape
  <2>2. Len(topic'[s]) = next[s]
    BY <1>3, <1>6, <2>1
  <2>3. \A i \in 1..Len(topic'[s]) :
           topic'[s][i] = IF i = next[s] THEN Batch(s, next[s]) ELSE topic[s][i]
    BY <1>3, <1>6, <2>1
  <2>4. \A i \in 1..Len(topic[s]) : topic[s][i].eom => i = req[s].batches
    BY <1>1 DEF TopicShape
  <2>5. \A i \in 1..Len(topic'[s]) : topic'[s][i].eom => i = req[s].batches
    <3>1. Batch(s, next[s]).eom => next[s] = req[s].batches
      BY DEF Batch
    <3>2. \A i \in 1..Len(topic'[s]) : i # next[s] => i \in 1..Len(topic[s])
      BY <1>3, <2>1, <2>2
    <3>3. QED
      BY <2>3, <2>4, <3>1, <3>2
  <2>6. TrackedUpTo(s, Len(assigned[s]))'
    BY <1>4, <2>1
  <2>7. pc'[s] # "idle" /\ (pc'[s] = "send" => /\ next'[s] = next[s] + 1
                                                /\ next[s] # req[s].batches)
    BY <1>1, <1>6 DEF TypeOK, SendBatch, SendFails, Abort
  <2>8. TopicShape(s)'
    BY <1>2, <2>1, <2>2, <2>5, <2>6, <2>7 DEF TopicShape
  <2>9. pc'[s] \in {"send", "done", "failed", "aborted"}
    BY <1>1 DEF TypeOK, SendBatch, SendFails, Abort
  <2>10. req[s].batches \in Nat
    BY <1>3, MeasurementsAssumption DEF Request
  <2>11. QED
    BY <1>2, <1>3, <2>1, <2>2, <2>6, <2>7, <2>8, <2>9, <2>10 DEF SubmissionShape
<1>7. topic'[s] = topic[s] \/ (topic'[s] = Append(topic[s], Batch(s, next[s])) /\ pc[s] = "send")
  BY <1>1 DEF TypeOK, SendBatch, SendFails, Abort, MaybeSent
<1>8. QED
  BY <1>5, <1>6, <1>7

\* Every step keeps every submission and every topic in shape.
LEMMA StepShapes ==
    IInv /\ [Next]_vars => \A s \in Submission : SubmissionShape(s)' /\ TopicShape(s)'
BY FrameShape, SubmitShape, ChargeShape, SendShape DEF OwnStep, SubmissionStep

\* Messages are only added, and a request is read once.
LEMMA TopicGrows ==
    ASSUME IInv, [Next]_vars, NEW s \in Submission
    PROVE  /\ Len(topic[s]) \in Nat /\ Len(topic'[s]) \in Nat
           /\ Len(topic[s]) <= Len(topic'[s])
           /\ pc[s] # "idle" => req'[s] = req[s]
<1>1. TypeOK /\ TypeOK' /\ SubmissionShape(s)
  BY StepTypeOK DEF IInv
<1>2. topic[s] \in Seq(Message) /\ topic'[s] \in Seq(Message)
  BY <1>1 DEF TypeOK
<1>3. CASE ~OwnStep(s)
  BY <1>2, <1>3, Frame
<1>4. CASE OwnStep(s)
  <2>1. pc[s] # "idle" => req'[s] = req[s]
    BY <1>4 DEF OwnStep, SubmissionStep, Submit, Reject, CheckQuota, AssignAgent, TrackAgent,
                TrackFails, AfterRow, SendBatch, SendFails, Abort
  <2>2. topic'[s] = topic[s] \/ topic'[s] = Append(topic[s], Batch(s, next[s]))
    BY <1>1, <1>4
    DEF TypeOK, OwnStep, SubmissionStep, Submit, Reject, CheckQuota, AssignAgent, TrackAgent,
        TrackFails, AfterRow, SendBatch, SendFails, Abort, MaybeSent
  <2>3. QED
    BY <1>2, <2>1, <2>2
<1>5. QED
  BY <1>3, <1>4

\* Once every batch of a measurement is in Kafka, no more are added.
LEMMA AllSentPersists ==
    ASSUME IInv, [Next]_vars, NEW s \in Submission, pc[s] # "idle",
           Len(topic[s]) = req[s].batches
    PROVE  Len(topic'[s]) = req'[s].batches
<1>1. req[s] \in Request /\ req'[s] = req[s]
  BY TopicGrows DEF IInv, SubmissionShape
<1>2. req[s].batches \in Nat \ {0}
  BY <1>1, MeasurementsAssumption DEF Request
<1>3. Len(topic[s]) <= Len(topic'[s]) /\ Len(topic'[s]) \in Nat
  BY TopicGrows
<1>4. topic'[s] # <<>>
  BY <1>2, <1>3
<1>5. Len(topic'[s]) <= req'[s].batches
  BY <1>4, StepShapes DEF TopicShape
<1>6. QED
  BY <1>1, <1>2, <1>3, <1>5

----------------------------------------------------------------------------
(* Reports and cancellations.                                              *)

\* A report that is still unanswered keeps its shape.
LEMMA ReportPersists ==
    ASSUME IInv, [Next]_vars, NEW r \in reports
    PROVE  ReportShape(r)'
<1>1. TypeOK /\ r \in Report /\ ReportShape(r)
  BY DEF IInv, TypeOK
<1>2. PICK s \in Submission : s = r.m
  BY <1>1 DEF Report
<1>3. PICK a \in Agent : a = r.a
  BY <1>1 DEF Report
<1>4. topic[s] # <<>> /\ pc[s] # "idle" /\ topic[s] \in Seq(Message)
  BY <1>1, <1>2 DEF IInv, ReportShape, TopicShape, TypeOK
<1>5. topic'[s] # <<>>
  BY <1>4, TopicGrows
<1>6. r.complete => Len(topic'[s]) = req'[s].batches
  BY <1>1, <1>2, <1>4, AllSentPersists DEF ReportShape
<1>7. r.stage = "found" => tracking'[s][a] # None
  BY <1>1, <1>2, <1>3, RowsOnlyAdded DEF ReportShape, Tracked
<1>8. QED
  BY <1>2, <1>3, <1>5, <1>6, <1>7 DEF ReportShape

\* The report an agent posts after a batch.
LEMMA ConsumeShape ==
    ASSUME IInv, NEW a \in Agent, NEW s \in Submission, Consume(a, s),
           NEW r \in reports' \ reports
    PROVE  ReportShape(r)'
<1>1. TypeOK /\ TopicShape(s)
  BY DEF IInv
<1>2. PICK i : i = consumed[a][s] + 1
  OBVIOUS
<1>3. i \in 1..Len(topic[s]) /\ topic[s] \in Seq(Message)
  BY <1>1, <1>2 DEF TypeOK, Consume
<1>4. r = [m |-> s, a |-> a, sent |-> SentAfter(s, topic[s][i].batch),
           complete |-> topic[s][i].eom, stage |-> "posted"]
  BY <1>2 DEF Consume
<1>5. topic' = topic /\ req' = req
  BY DEF Consume, subVars
<1>6. topic[s] # <<>>
  BY <1>3
<1>7. Len(topic[s]) <= req[s].batches /\ pc[s] # "idle"
  BY <1>1, <1>6 DEF TopicShape
<1>8. req[s].batches \in Nat
  BY <1>7, MeasurementsAssumption DEF IInv, SubmissionShape, Request
<1>9. topic[s][i].eom => Len(topic[s]) = req[s].batches
  BY <1>1, <1>3, <1>6, <1>7, <1>8 DEF TopicShape
<1>10. r.m = s /\ r.complete = topic[s][i].eom /\ r.stage = "posted"
  BY <1>4
<1>11. QED
  BY <1>5, <1>6, <1>9, <1>10 DEF ReportShape

\* Every step keeps every report in shape.
LEMMA StepReports ==
    ASSUME IInv, [Next]_vars, NEW r \in reports'
    PROVE  ReportShape(r)'
<1>1. CASE r \in reports
  BY <1>1, ReportPersists
<1>2. ASSUME r \notin reports, NEW a \in Agent, NEW s \in Submission, Consume(a, s)
      PROVE  ReportShape(r)'
  BY <1>2, ConsumeShape
<1>3. ASSUME r \notin reports, NEW q \in reports, ReportLookup(q)
      PROVE  ReportShape(r)'
  <2>1. q \in Report /\ ReportShape(q)'
    BY <1>3, ReportPersists DEF IInv, TypeOK
  <2>2. r = [q EXCEPT !.stage = "found"] /\ tracking[q.m][q.a] # None
    BY <1>3 DEF ReportLookup
  <2>3. r.m = q.m /\ r.a = q.a /\ r.complete = q.complete
    BY <2>1, <2>2 DEF Report
  <2>4. tracking' = tracking
    BY <1>3 DEF ReportLookup
  <2>5. QED
    BY <2>1, <2>2, <2>3, <2>4 DEF ReportShape
<1>4. ASSUME r \notin reports PROVE \/ \E a \in Agent, s \in Submission : Consume(a, s)
                                    \/ \E q \in reports : ReportLookup(q)
  BY <1>4 DEF Next, vars, agentVars, NewDay, HealthChanges, Submit, Reject, SubmissionStep,
              CheckQuota, AssignAgent, TrackAgent, TrackFails, AfterRow, SendBatch, SendFails,
              Abort, ReportApply, ReportFails, CancelRead, CancelUpdate, CancelFails
<1>5. QED
  BY <1>1, <1>2, <1>3, <1>4

\* Every step keeps every cancellation in shape.
LEMMA StepCancels ==
    ASSUME IInv, [Next]_vars, NEW c \in Canceller
    PROVE  CancelShape(c)'
<1>1. TypeOK /\ CancelShape(c)
  BY DEF IInv
<1>2. CASE UNCHANGED cancelVars
  BY <1>1, <1>2 DEF CancelShape, cancelVars
<1>3. ASSUME NEW d \in Canceller, CancelRead(d) \/ CancelUpdate(d) \/ CancelFails(d)
      PROVE  CancelShape(c)'
  BY <1>1, <1>3 DEF TypeOK, CancelShape, CancelRead, CancelUpdate, CancelFails, CancelWrites
<1>4. QED
  BY <1>2, <1>3 DEF Next, vars, NewDay, HealthChanges, Submit, Reject, SubmissionStep,
              CheckQuota, AssignAgent, TrackAgent, TrackFails, AfterRow, SendBatch, SendFails,
              Abort, Consume, ReportLookup, ReportApply, ReportFails

----------------------------------------------------------------------------
(* The inductive invariant.                                                *)

\* The gateway starts with no request, no row and no message.
LEMMA InitIInv == Init => IInv
<1> SUFFICES ASSUME Init PROVE IInv
  OBVIOUS
<1>1. TypeOK
  BY InitTypeOK
<1>2. ASSUME NEW s \in Submission PROVE SubmissionShape(s) /\ TopicShape(s)
  BY DEF Init, SubmissionShape, TopicShape, Listed, Tracked, EmptyTable
<1>3. ASSUME NEW c \in Canceller PROVE CancelShape(c)
  BY DEF Init, CancelShape
<1>4. reports = {}
  BY DEF Init
<1>5. QED
  BY <1>1, <1>2, <1>3, <1>4 DEF IInv

\* Every step keeps the invariant.
LEMMA StepIInv == IInv /\ [Next]_vars => IInv'
<1> SUFFICES ASSUME IInv, [Next]_vars PROVE IInv'
  OBVIOUS
<1>1. TypeOK'
  BY StepTypeOK DEF IInv
<1>2. \A s \in Submission : SubmissionShape(s)' /\ TopicShape(s)'
  BY StepShapes
<1>3. \A r \in reports' : ReportShape(r)'
  BY StepReports
<1>4. \A c \in Canceller : CancelShape(c)'
  BY StepCancels
<1>5. QED
  BY <1>1, <1>2, <1>3, <1>4 DEF IInv

\* Handlers, Kafka, reports and cancellations are always where their program
\* counters say, in every interleaving of the handlers.
THEOREM Invariance == Spec => []IInv
BY InitIInv, StepIInv, PTL DEF Spec

\* Every variable keeps to its type.
THEOREM TypeCorrect == Spec => []TypeOK
<1>1. IInv => TypeOK
  BY DEF IInv
<1>2. QED
  BY <1>1, Invariance, PTL
=============================================================================
