------------------------- MODULE MeasurementsInOrder -------------------------
(***************************************************************************)
(* Proofs about measurements whose agents wait for each answer: reports    *)
(* then reach the table in the order of the batches, and the UPDATE that   *)
(* overwrites a row's columns never takes them back.  What users are shown *)
(* by queries of two statements or two requests rests on that.             *)
(***************************************************************************)
EXTENDS MeasurementsSafety, MeasurementQueries

----------------------------------------------------------------------------
(* The order of the batches.                                               *)

\* What a step does to one topic and to the request behind it.
LEMMA TopicEffect ==
    ASSUME IInv, [Next]_vars, NEW s \in Submission
    PROVE  /\ topic[s] \in Seq(Message)
           /\ \/ topic'[s] = topic[s]
              \/ /\ pc[s] = "send"
                 /\ topic'[s] = Append(topic[s], Batch(s, next[s]))
           /\ pc[s] # "idle" => req'[s] = req[s] /\ pc'[s] # "idle"
           /\ pc[s] = "idle" /\ pc'[s] # "idle" =>
                 req'[s].batches <= req'[s].probes /\ topic'[s] = <<>>
<1>1. TypeOK /\ SubmissionShape(s)
  BY DEF IInv
<1>2. CASE ~OwnStep(s)
  BY <1>1, <1>2, Frame DEF TypeOK
<1>3. CASE OwnStep(s)
  <2>1. \/ topic'[s] = topic[s]
        \/ pc[s] = "send" /\ topic'[s] = Append(topic[s], Batch(s, next[s]))
    BY <1>1, <1>3
    DEF TypeOK, OwnStep, SubmissionStep, Submit, Reject, CheckQuota, AssignAgent, TrackAgent,
        TrackFails, AfterRow, SendBatch, SendFails, Abort, MaybeSent
  <2>2. CASE Submit(s)
    BY <1>1, <2>1, <2>2 DEF TypeOK, Submit, SubmissionShape
  <2>3. CASE ~Submit(s)
    <3>1. req'[s] = req[s] /\ pc[s] # "idle" /\ pc'[s] # "idle"
      BY <1>1, <1>3, <2>3
      DEF TypeOK, OwnStep, SubmissionStep, Reject, CheckQuota, AssignAgent, TrackAgent,
          TrackWrites, TrackFails, AfterRow, SendBatch, SendFails, Abort, Working
    <3>2. QED
      BY <1>1, <2>1, <3>1 DEF TypeOK
  <2>4. QED
    BY <2>2, <2>3
<1>4. QED
  BY <1>2, <1>3

LEMMA OrderKept ==
    ASSUME IInv, [Next]_vars, NEW s \in Submission, TopicOrder(s)
    PROVE  TopicOrder(s)'
<1>1. TypeOK /\ SubmissionShape(s) /\ TypeOK'
  BY StepTypeOK DEF IInv
<1>2. pc'[s] # "idle" => req'[s].batches <= req'[s].probes
  BY TopicEffect DEF TopicOrder
<1>3. CASE topic'[s] = topic[s]
  BY <1>2, <1>3 DEF TopicOrder
<1>4. CASE pc[s] = "send" /\ topic'[s] = Append(topic[s], Batch(s, next[s]))
  <2>1. next[s] = Len(topic[s]) + 1 /\ Len(topic[s]) \in Nat
    BY <1>1, <1>4 DEF SubmissionShape, TypeOK
  <2>2. Batch(s, next[s]).batch = next[s]
    BY DEF Batch
  <2>3. \A i \in 1..Len(topic'[s]) : topic'[s][i].batch = i
    BY <1>1, <1>4, <2>1, <2>2 DEF TopicOrder, TypeOK
  <2>4. QED
    BY <1>2, <2>3 DEF TopicOrder
<1>5. QED
  BY <1>3, <1>4, TopicEffect

----------------------------------------------------------------------------
(* Progress.                                                               *)

\* What has been counted after i batches grows with i.
LEMMA SentGrows ==
    ASSUME IInv, NEW s \in Submission, TopicOrder(s), pc[s] # "idle", NEW i \in Nat, i < req[s].batches
    PROVE  /\ SentAfter(s, i) \in Nat /\ SentAfter(s, i + 1) \in Nat
           /\ SentAfter(s, i) <= SentAfter(s, i + 1)
<1>1. req[s].batches \in Nat /\ req[s].probes \in Nat /\ req[s].batches <= req[s].probes
  BY MeasurementsAssumption DEF IInv, SubmissionShape, TopicOrder, Request
<1>2. QED
  BY <1>1 DEF SentAfter

\* A measurement with a message, a row or a report under way is not idle.
LEMMA Begun ==
    ASSUME IInv, NEW s \in Submission, NEW a \in Agent,
           topic[s] # <<>> \/ tracking[s][a] # None \/ ReportsOf(a, s) # {}
    PROVE  pc[s] # "idle"
BY DEF IInv, SubmissionShape, TopicShape, ReportShape, ReportsOf, Listed, Tracked

\* An agent's reports on a measurement, as each step changes them.
LEMMA ConsumeEffect ==
    ASSUME IInv, InOrder, NEW s \in Submission, NEW a \in Agent, TopicOrder(s), Consume(a, s)
    PROVE  /\ ReportsOf(a, s) = {}
           /\ consumed'[a][s] = consumed[a][s] + 1
           /\ consumed[a][s] + 1 \in 1..Len(topic[s])
           /\ \E r : /\ ReportsOf(a, s)' = {r}
                     /\ r.sent = SentAfter(s, consumed[a][s] + 1)
                     /\ r.complete => consumed[a][s] + 1 = req[s].batches
           /\ UNCHANGED <<topic, tracking, subVars>>
<1>1. TypeOK /\ TopicShape(s)
  BY DEF IInv
<1>2. consumed[a][s] + 1 \in 1..Len(topic[s]) /\ topic[s] \in Seq(Message)
  BY <1>1 DEF TypeOK, Consume
<1> DEFINE msg == topic[s][consumed[a][s] + 1]
           r   == [m |-> s, a |-> a, sent |-> SentAfter(s, msg.batch), complete |-> msg.eom,
                   stage |-> "posted"]
<1>3. msg.batch = consumed[a][s] + 1 /\ (msg.eom => consumed[a][s] + 1 = req[s].batches)
  BY <1>1, <1>2 DEF TopicOrder, TopicShape
<1>4. ReportsOf(a, s) = {} /\ reports' = reports \union {r}
  BY DEF Consume
<1>5. ReportsOf(a, s)' = {r}
  BY <1>4 DEF ReportsOf
<1>6. consumed'[a][s] = consumed[a][s] + 1
  BY <1>1 DEF TypeOK, Consume
<1>7. r.sent = SentAfter(s, consumed[a][s] + 1) /\ (r.complete => consumed[a][s] + 1 = req[s].batches)
  BY <1>3
<1>8. QED
  BY <1>2, <1>4, <1>5, <1>6, <1>7 DEF Consume

\* Another agent, or the agent on another measurement, leaves them alone.
LEMMA OtherConsumes ==
    ASSUME IInv, NEW s \in Submission, NEW a \in Agent,
           NEW t \in Submission, NEW b \in Agent, Consume(b, t), b # a \/ t # s
    PROVE  /\ ReportsOf(a, s)' = ReportsOf(a, s)
           /\ consumed'[a][s] = consumed[a][s]
BY DEF Consume, ReportsOf, IInv, TypeOK

\* What a report's own steps do to the reports of one agent.
LEMMA ReportEffect ==
    ASSUME IInv, NEW s \in Submission, NEW a \in Agent, NEW r \in reports,
           ReportLookup(r) \/ ReportApply(r) \/ ReportFails(r)
    PROVE  /\ r.a # a \/ r.m # s => ReportsOf(a, s)' = ReportsOf(a, s)
           /\ r.a = a /\ r.m = s =>
                 \/ ReportsOf(a, s)' = ReportsOf(a, s) \ {r}
                 \/ \E q : /\ ReportsOf(a, s)' = (ReportsOf(a, s) \ {r}) \union {q}
                           /\ q.sent = r.sent /\ q.complete = r.complete
                           /\ ReportLookup(r)
<1>1. r \in Report
  BY DEF IInv, TypeOK
<1> DEFINE q == [r EXCEPT !.stage = "found"]
<1>2. q.a = r.a /\ q.m = r.m /\ q.sent = r.sent /\ q.complete = r.complete
  BY <1>1 DEF Report
<1>3. \/ reports' = reports \ {r}
      \/ ReportLookup(r) /\ reports' = (reports \ {r}) \union {q}
  BY DEF ReportLookup, ReportApply, ReportFails
<1>4. QED
  BY <1>2, <1>3 DEF ReportsOf

\* What has been counted so far is a number.
LEMMA SentIsNat ==
    ASSUME IInv, NEW s \in Submission, NEW a \in Agent, pc[s] # "idle"
    PROVE  SentAfter(s, consumed[a][s]) \in Nat
<1>1. req[s] \in Request /\ consumed[a][s] \in Nat
  BY DEF IInv, TypeOK, SubmissionShape
<1>2. req[s].probes \in Nat
  BY <1>1, MeasurementsAssumption DEF Request
<1>3. QED
  BY <1>1, <1>2 DEF SentAfter

\* A step in which the agent neither posts a report on s nor gets an answer: its
\* row stays, is cancelled or is inserted.
LEMMA ProgressFrame ==
    ASSUME IInv, [Next]_vars, NEW s \in Submission, NEW a \in Agent, ProgressShape(a, s),
           ReportsOf(a, s)' = ReportsOf(a, s), consumed'[a][s] = consumed[a][s],
           \/ tracking'[s][a] = None
           \/ tracking'[s][a].sent = 0 /\ tracking'[s][a].complete = FALSE
           \/ /\ tracking[s][a] # None
              /\ tracking'[s][a].sent = tracking[s][a].sent
              /\ tracking'[s][a].complete = tracking[s][a].complete
    PROVE  ProgressShape(a, s)'
<1>1. consumed[a][s] \in Nat /\ consumed'[a][s] <= Len(topic'[s])
  BY TopicGrows DEF IInv, TypeOK, ProgressShape
<1>2. CASE pc[s] = "idle"
  <2>1. ReportsOf(a, s)' = {} /\ tracking[s][a] = None
    BY <1>2, Begun
  <2>2. tracking'[s][a] = None
    <3>1. CASE ~OwnStep(s)
      BY <2>1, <3>1, Frame DEF Tracked
    <3>2. CASE OwnStep(s)
      BY <1>2, <2>1, <3>2
      DEF OwnStep, SubmissionStep, Submit, Reject, CheckQuota, AssignAgent, TrackAgent,
          TrackWrites, TrackFails, SendBatch, SendFails, Abort, Working
    <3>3. QED
      BY <3>1, <3>2
  <2>3. QED
    BY <1>1, <2>1, <2>2 DEF ProgressShape
<1>3. CASE pc[s] # "idle"
  <2>1. req'[s] = req[s]
    BY <1>3, TopicGrows
  <2>2. SentAfter(s, consumed[a][s])' = SentAfter(s, consumed[a][s])
    BY <2>1 DEF SentAfter
  <2>3. SentAfter(s, consumed[a][s]) \in Nat
    BY <1>3, SentIsNat
  <2>4. \A r \in ReportsOf(a, s)' :
           /\ r.sent = SentAfter(s, consumed[a][s])'
           /\ r.complete => consumed'[a][s] = req'[s].batches
           /\ ReportsOf(a, s)' = {r}
    BY <2>1, <2>2 DEF ProgressShape
  <2>5. tracking'[s][a] # None =>
           /\ tracking'[s][a].sent <= SentAfter(s, consumed[a][s])'
           /\ tracking'[s][a].complete => consumed'[a][s] = req'[s].batches /\ ReportsOf(a, s)' = {}
    BY <2>1, <2>2, <2>3 DEF ProgressShape
  <2>6. QED
    BY <1>1, <2>4, <2>5 DEF ProgressShape
<1>4. QED
  BY <1>2, <1>3

\* The agent processes a batch: its row was not complete, and stays behind.
LEMMA ProgressConsumes ==
    ASSUME IInv, InOrder, NEW s \in Submission, NEW a \in Agent, TopicOrder(s),
           ProgressShape(a, s), Consume(a, s)
    PROVE  ProgressShape(a, s)'
<1>1. consumed[a][s] \in Nat /\ topic[s] \in Seq(Message)
  BY DEF IInv, TypeOK
<1>2. /\ consumed'[a][s] = consumed[a][s] + 1 /\ consumed[a][s] + 1 \in 1..Len(topic[s])
      /\ UNCHANGED <<topic, tracking, subVars>>
  BY ConsumeEffect
<1>3. topic[s] # <<>>
  BY <1>1, <1>2
<1>4. pc[s] # "idle" /\ Len(topic[s]) <= req[s].batches
  BY <1>3 DEF IInv, TopicShape
<1>5. req[s].batches \in Nat
  BY <1>4, MeasurementsAssumption DEF IInv, SubmissionShape, Request
<1>6. consumed[a][s] < req[s].batches
  BY <1>1, <1>2, <1>4, <1>5
<1>7. PICK i \in Nat : i = consumed[a][s]
  BY <1>1
<1>8. /\ SentAfter(s, i) \in Nat /\ SentAfter(s, i + 1) \in Nat
      /\ SentAfter(s, i) <= SentAfter(s, i + 1)
  BY <1>4, <1>6, <1>7, SentGrows
<1>9. req' = req /\ tracking' = tracking /\ topic' = topic
  BY <1>2 DEF subVars
<1>10. SentAfter(s, consumed[a][s])' = SentAfter(s, i + 1)
  BY <1>2, <1>7, <1>9 DEF SentAfter
<1>11. PICK r : /\ ReportsOf(a, s)' = {r}
                /\ r.sent = SentAfter(s, i + 1)
                /\ r.complete => i + 1 = req[s].batches
  BY <1>7, ConsumeEffect
<1>12. tracking[s][a] # None =>
          /\ tracking[s][a] \in Row
          /\ tracking[s][a].sent <= SentAfter(s, i)
          /\ ~tracking[s][a].complete
  BY <1>1, <1>6, <1>7 DEF ProgressShape, IInv, TypeOK, Table
<1>13. tracking'[s][a] # None =>
          /\ tracking'[s][a].sent <= SentAfter(s, consumed[a][s])'
          /\ ~tracking'[s][a].complete
  BY <1>8, <1>9, <1>10, <1>12 DEF Row
<1>14. consumed'[a][s] <= Len(topic'[s])
  BY <1>1, <1>2, <1>9
<1>15. QED
  BY <1>2, <1>7, <1>9, <1>10, <1>11, <1>13, <1>14 DEF ProgressShape

\* The agent's report is looked up, applied or lost.
LEMMA ProgressAnswers ==
    ASSUME IInv, NEW s \in Submission, NEW a \in Agent, ProgressShape(a, s),
           NEW r \in ReportsOf(a, s), ReportLookup(r) \/ ReportApply(r) \/ ReportFails(r)
    PROVE  ProgressShape(a, s)'
<1>1. r \in reports /\ r.a = a /\ r.m = s /\ ReportsOf(a, s) = {r}
  BY DEF ReportsOf, ProgressShape
<1>2. UNCHANGED <<topic, req, consumed>>
  BY DEF ReportLookup, ReportApply, ReportFails, subVars
<1>3. SentAfter(s, consumed[a][s])' = SentAfter(s, consumed[a][s])
  BY <1>2 DEF SentAfter
<1>4. pc[s] # "idle"
  BY <1>1, Begun
<1>5. SentAfter(s, consumed[a][s]) \in Nat
  BY <1>4, SentIsNat
<1>6. r.sent = SentAfter(s, consumed[a][s]) /\ (r.complete => consumed[a][s] = req[s].batches)
  BY DEF ProgressShape
<1>7. \A q \in ReportsOf(a, s)' :
         /\ q.sent = r.sent /\ q.complete = r.complete
         /\ ReportsOf(a, s)' = {q}
  BY <1>1, ReportEffect
<1>8. CASE ReportWrites(r) /\ reports' = reports \ {r}
  <2>1. tracking'[s][a].sent = r.sent /\ tracking'[s][a].complete = r.complete
    BY <1>1, <1>8, UpdateEffect
  <2>2. ReportsOf(a, s)' = {}
    BY <1>1, <1>8 DEF ReportsOf
  <2>3. QED
    BY <1>2, <1>3, <1>5, <1>6, <2>1, <2>2 DEF ProgressShape
<1>9. CASE tracking' = tracking
  <2>1. tracking[s][a] # None => ~tracking[s][a].complete
    BY <1>1 DEF ProgressShape
  <2>2. QED
    BY <1>2, <1>3, <1>6, <1>7, <1>9, <2>1 DEF ProgressShape
<1>10. QED
  BY <1>8, <1>9 DEF ReportLookup, ReportApply, ReportFails

\* Every step keeps an agent's row behind its reports, and them behind its work.
LEMMA ProgressKept ==
    ASSUME IInv, InOrder, [Next]_vars, NEW s \in Submission, NEW a \in Agent,
           TopicOrder(s), ProgressShape(a, s)
    PROVE  ProgressShape(a, s)'
<1> DEFINE SameRow == tracking'[s][a] = tracking[s][a]
           Quiet == ReportsOf(a, s)' = ReportsOf(a, s) /\ consumed'[a][s] = consumed[a][s]
<1>1. ASSUME Quiet, SameRow PROVE ProgressShape(a, s)'
  BY <1>1, ProgressFrame
<1>2. ASSUME NEW t \in Submission, TrackWrites(t)
      PROVE  ProgressShape(a, s)'
  <2>1. Quiet
    BY <1>2, WhoInserts DEF TrackAgent, TrackFails, AfterRow, Abort, agentVars, ReportsOf
  <2>2. PICK b : b = assigned[t][next[t]]
    OBVIOUS
  <2>3. \/ SameRow
        \/ tracking'[s][a].sent = 0 /\ tracking'[s][a].complete = FALSE
    BY <1>2, <2>2, TrackEffect
  <2>4. QED
    BY <1>1, <2>1, <2>3, ProgressFrame
<1>3. ASSUME NEW b \in Agent, NEW t \in Submission, Consume(b, t)
      PROVE  ProgressShape(a, s)'
  <2>1. CASE b = a /\ t = s
    BY <1>3, <2>1, ProgressConsumes
  <2>2. CASE b # a \/ t # s
    BY <1>1, <1>3, <2>2, OtherConsumes DEF Consume
  <2>3. QED
    BY <2>1, <2>2
<1>4. ASSUME NEW r \in reports, ReportLookup(r) \/ ReportApply(r) \/ ReportFails(r)
      PROVE  ProgressShape(a, s)'
  <2>1. CASE r.a = a /\ r.m = s
    BY <1>4, <2>1, ProgressAnswers DEF ReportsOf
  <2>2. CASE r.a # a \/ r.m # s
    <3>1. Quiet
      BY <1>4, <2>2, ReportEffect DEF ReportLookup, ReportApply, ReportFails
    <3>2. SameRow
      <4>1. CASE ReportWrites(r)
        BY <2>2, <4>1, UpdateEffect
      <4>2. CASE ~ReportWrites(r)
        BY <1>4, <4>2 DEF ReportLookup, ReportApply, ReportFails
      <4>3. QED
        BY <4>1, <4>2
    <3>3. QED
      BY <1>1, <3>1, <3>2
  <2>3. QED
    BY <2>1, <2>2
<1>5. ASSUME NEW c \in Canceller, CancelCommits(c)
      PROVE  ProgressShape(a, s)'
  <2>1. Quiet
    BY <1>5 DEF CancelCommits, CancelUpdate, CancelFails, agentVars, ReportsOf
  <2>2. \/ tracking'[s][a] = None
        \/ /\ tracking[s][a] # None
           /\ tracking'[s][a].sent = tracking[s][a].sent
           /\ tracking'[s][a].complete = tracking[s][a].complete
    BY <1>5, CancelEffect DEF CancelCommits, Tracked
  <2>3. QED
    BY <2>1, <2>2, ProgressFrame
<1>6. \/ UNCHANGED <<tracking, agentVars>>
      \/ \E t \in Submission : TrackWrites(t)
      \/ \E b \in Agent, t \in Submission : Consume(b, t)
      \/ \E r \in reports : ReportLookup(r) \/ ReportApply(r) \/ ReportFails(r)
      \/ \E c \in Canceller : CancelCommits(c)
  BY DEF Next, vars, NewDay, HealthChanges, Submit, Reject, SubmissionStep, CheckQuota,
         AssignAgent, TrackAgent, TrackFails, MaybeTracked, AfterRow, SendBatch, SendFails,
         Abort, CancelRead, CancelUpdate, CancelFails, CancelCommits
<1>7. CASE UNCHANGED <<tracking, agentVars>>
  BY <1>1, <1>7 DEF agentVars, ReportsOf
<1>8. QED
  BY <1>2, <1>3, <1>4, <1>5, <1>6, <1>7

----------------------------------------------------------------------------
\* At the start nothing is under way.
LEMMA InitInOrder == Init => InOrderInv
BY DEF Init, InOrderInv, TopicOrder, ProgressShape, ReportsOf, EmptyTable

\* Agents that wait keep at most one report under way, of the last batch they
\* processed, and their rows behind it, through every interleaving.
THEOREM InOrderInvariance == Spec => []InOrderInv
<1>1. IInv /\ InOrderInv /\ [Next]_vars => InOrderInv'
  BY OrderKept, ProgressKept DEF InOrderInv
<1>2. QED
  BY <1>1, InitInOrder, Invariance, PTL DEF Spec

\* What a report of an agent that waits does to the row it overwrites.
LEMMA ApplyAdvances ==
    ASSUME IInv, InOrder, InOrderInv, NEW r \in reports, ReportWrites(r),
           NEW s, s = r.m, NEW a, a = r.a
    PROVE  /\ tracking'[s][a].sent >= tracking[s][a].sent
           /\ ~tracking[s][a].complete
<1>1. s \in Submission /\ a \in Agent /\ tracking[s][a] # None /\ tracking'[s][a].sent = r.sent
  BY UpdateEffect
<1>2. r \in ReportsOf(a, s) /\ ProgressShape(a, s)
  BY <1>1 DEF ReportsOf, InOrderInv
<1>3. /\ r.sent = SentAfter(s, consumed[a][s]) /\ tracking[s][a].sent <= r.sent
      /\ ~tracking[s][a].complete
  BY <1>1, <1>2 DEF ProgressShape
<1>4. pc[s] # "idle"
  BY <1>1, <1>2, Begun
<1>5. r.sent \in Nat /\ tracking[s][a].sent \in Nat
  BY <1>1, <1>3, <1>4, SentIsNat DEF IInv, TypeOK, Table, Row
<1>6. QED
  BY <1>1, <1>3, <1>5

\* What every statement leaves of a row's progress.
LEMMA ForwardStep ==
    ASSUME IInv, InOrder, InOrderInv, [Next]_vars,
           NEW s \in Submission, NEW a \in Tracked(tracking[s])
    PROVE  /\ tracking'[s][a].sent >= tracking[s][a].sent
           /\ tracking[s][a].complete => tracking'[s][a].complete
<1>1. a \in Agent /\ tracking[s][a] # None /\ tracking[s][a].sent \in Nat
  BY DEF Tracked, IInv, TypeOK, Table, Row
<1>2. CASE tracking'[s][a] = tracking[s][a]
  BY <1>1, <1>2
<1>3. ASSUME NEW t \in Submission, TrackWrites(t)
      PROVE  tracking'[s][a] = tracking[s][a]
  BY <1>1, <1>3, TrackEffect
<1>4. ASSUME NEW r \in reports, ReportWrites(r), r.m = s, r.a = a
      PROVE  /\ tracking'[s][a].sent >= tracking[s][a].sent
             /\ tracking[s][a].complete => tracking'[s][a].complete
  BY <1>4, ApplyAdvances
<1>5. ASSUME NEW r \in reports, ReportWrites(r), r.m # s \/ r.a # a
      PROVE  tracking'[s][a] = tracking[s][a]
  BY <1>1, <1>5, UpdateEffect
<1>6. ASSUME NEW c \in Canceller, CancelCommits(c)
      PROVE  /\ tracking'[s][a].sent = tracking[s][a].sent
             /\ tracking'[s][a].complete = tracking[s][a].complete
  BY <1>6, CancelEffect DEF CancelCommits
<1>7. QED
  BY <1>1, <1>2, <1>3, <1>4, <1>5, <1>6, WhoWritesRows

\* The UPDATE of a report overwrites sent_probes and is_complete with what the
\* agent says; if agents wait for each answer, neither goes back.
THEOREM ProgressIsMonotone ==
    ASSUME InOrder PROVE Spec => ProgressNeverRegresses
<1> DEFINE Forward == \A s \in Submission : \A a \in Tracked(tracking[s]) :
                         /\ tracking'[s][a].sent >= tracking[s][a].sent
                         /\ tracking[s][a].complete => tracking'[s][a].complete
<1>1. IInv /\ InOrderInv /\ [Next]_vars => [Forward]_vars
  BY ForwardStep
<1>2. QED
  BY <1>1, Invariance, InOrderInvariance, PTL DEF Spec, ProgressNeverRegresses

\* A measurement the view shows terminal, with all its rows created, stays
\* terminal: no late report reopens a complete row, no row is added.
THEOREM TerminalStays ==
    ASSUME InOrder PROVE Spec => TerminalIsStable
<1> DEFINE Stable == \A s \in Submission :
              pc[s] \notin Charging /\ Listed(tracking[s]) /\ MeasurementComplete(tracking[s])
              => MeasurementComplete(tracking'[s])
<1>1. ASSUME IInv, InOrderInv, [Next]_vars PROVE Stable
  <2> SUFFICES ASSUME NEW s \in Submission, pc[s] \notin Charging,
                      MeasurementComplete(tracking[s]),
                      NEW a \in Tracked(tracking'[s])
               PROVE  tracking'[s][a].complete \/ tracking'[s][a].cancelled
    BY DEF MeasurementComplete
  <2>1. a \in Agent /\ tracking'[s][a] # None
    BY DEF Tracked
  <2>2. CASE tracking'[s][a] = tracking[s][a]
    BY <2>1, <2>2 DEF MeasurementComplete, Tracked
  <2>3. ASSUME NEW t \in Submission, TrackWrites(t)
        PROVE  tracking'[s][a] = tracking[s][a]
    <3>1. t # s
      BY <2>3 DEF TrackWrites, Charging
    <3>2. QED
      BY <1>1, <2>3, <3>1, TrackEffect
  <2>4. ASSUME NEW r \in reports, ReportWrites(r), r.m = s, r.a = a
        PROVE  tracking'[s][a].cancelled
    <3>1. tracking[s][a] # None /\ tracking'[s][a].cancelled = tracking[s][a].cancelled
      BY <1>1, <2>4, UpdateEffect
    <3>2. ~tracking[s][a].complete
      BY <1>1, <2>4, ApplyAdvances
    <3>3. QED
      BY <2>1, <3>1, <3>2 DEF MeasurementComplete, Tracked
  <2>5. ASSUME NEW r \in reports, ReportWrites(r), r.m # s \/ r.a # a
        PROVE  tracking'[s][a] = tracking[s][a]
    BY <1>1, <2>1, <2>5, UpdateEffect
  <2>6. ASSUME NEW c \in Canceller, CancelCommits(c), target[c] = s
        PROVE  tracking'[s][a].complete \/ tracking'[s][a].cancelled
    BY <1>1, <2>6, CancelEffect DEF CancelCommits, MeasurementComplete
  <2>7. ASSUME NEW c \in Canceller, CancelCommits(c), target[c] # s
        PROVE  tracking'[s][a] = tracking[s][a]
    BY <1>1, <2>7, CancelEffect DEF CancelCommits
  <2>8. QED
    BY <1>1, <2>2, <2>3, <2>4, <2>5, <2>6, <2>7, WhoWritesRows
<1>2. IInv /\ InOrderInv /\ [Next]_vars => [Stable]_vars
  BY <1>1
<1>3. QED
  BY <1>2, Invariance, InOrderInvariance, PTL DEF Spec, TerminalIsStable

----------------------------------------------------------------------------
(* Measurements implements MeasurementLife.                                *)

Joined == [s \in Submission |-> Tracked(tracking[s])]
Finished == [s \in Submission |-> Completed(tracking[s])]
CancelledOf == [s \in Submission |-> Cancelled(tracking[s])]

\* No measurement has an agent to begin with.
LEMMA InitRefines == Init => Life!Init
<1> SUFFICES ASSUME Init PROVE Life!Init
  OBVIOUS
<1>1. Closed = {}
  BY DEF Init, Closed
<1>2. \A s \in Submission : /\ Tracked(tracking[s]) = {}
                            /\ Completed(tracking[s]) = {}
                            /\ Cancelled(tracking[s]) = {}
  BY DEF Init, EmptyTable, Tracked, Completed, Cancelled
<1>3. QED
  BY <1>1, <1>2 DEF Life!Init

\* A step closes at most the measurement whose handler takes it.
LEMMA ClosedEffect ==
    ASSUME IInv, [Next]_vars
    PROVE  Closed' = Closed \/ \E s \in Submission \ Closed : Closed' = Closed \union {s}
<1>1. TypeOK
  BY DEF IInv
<1>2. CASE \A s \in Submission : ~OwnStep(s)
  <2>1. \A s \in Submission : pc'[s] = pc[s]
    BY <1>2, Frame
  <2>2. QED
    BY <2>1 DEF Closed
<1>3. ASSUME NEW s \in Submission, OwnStep(s)
      PROVE  Closed' = Closed \/ (s \notin Closed /\ Closed' = Closed \union {s})
  <2>1. \A t \in Submission \ {s} : pc'[t] = pc[t]
    BY <1>1, <1>3
    DEF TypeOK, OwnStep, SubmissionStep, Submit, Reject, CheckQuota, AssignAgent, TrackAgent,
        TrackWrites, TrackFails, AfterRow, SendBatch, SendFails, Abort
  <2>2. s \in Closed => s \in Closed'
    BY <1>1, <1>3
    DEF TypeOK, Closed, OwnStep, SubmissionStep, Submit, Reject, CheckQuota, AssignAgent,
        TrackAgent, TrackWrites, TrackFails, AfterRow, SendBatch, SendFails, Abort
  <2>3. QED
    BY <2>1, <2>2 DEF Closed
<1>4. QED
  BY <1>2, <1>3

\* What a step leaves of the mapped state if it leaves the tables.
LEMMA SameTables ==
    ASSUME tracking' = tracking
    PROVE  Joined' = Joined /\ Finished' = Finished /\ CancelledOf' = CancelledOf
BY DEF Joined, Finished, CancelledOf

\* An INSERT is an agent that joins.
LEMMA TrackRefines ==
    ASSUME IInv, [Next]_vars, NEW s \in Submission, TrackWrites(s)
    PROVE  Life!Next
<1> DEFINE a == assigned[s][next[s]]
<1>1. /\ a \in Agent /\ tracking[s][a] = None
      /\ tracking'[s][a] # None
      /\ tracking'[s][a].complete = FALSE
      /\ tracking'[s][a].cancelled = FALSE
      /\ \A b \in Agent \ {a} : tracking'[s][b] = tracking[s][b]
      /\ \A t \in Submission \ {s} : tracking'[t] = tracking[t]
      /\ Tracked(tracking'[s]) = Tracked(tracking[s]) \union {a}
  BY TrackEffect
<1> HIDE DEF a
<1>2. s \notin Closed
  BY DEF TrackWrites, Closed
<1>3. \A t \in Submission \ {s} : pc'[t] = pc[t]
  BY WhoInserts DEF IInv, TypeOK, TrackAgent, TrackFails, AfterRow, Abort
<1>4. Closed' \in {Closed, Closed \union {s}}
  BY <1>2, <1>3 DEF Closed
<1>5. Completed(tracking'[s]) = Completed(tracking[s])
  BY <1>1 DEF Completed, Tracked
<1>6. Cancelled(tracking'[s]) = Cancelled(tracking[s])
  BY <1>1 DEF Cancelled, Tracked
<1>7. Joined' = [Joined EXCEPT ![s] = @ \union {a}] /\ a \notin Joined[s]
  BY <1>1 DEF Joined, Tracked
<1>8. Finished' = Finished
  BY <1>1, <1>5 DEF Finished
<1>9. CancelledOf' = CancelledOf
  BY <1>1, <1>6 DEF CancelledOf
<1>10. Life!Join(s, a)
  BY <1>2, <1>4, <1>7, <1>8, <1>9 DEF Life!Join, Joined, Finished, CancelledOf
<1>11. QED
  BY <1>1, <1>10 DEF Life!Next

\* A report that says so finishes its agent, on a measurement that is closed; any
\* other changes nothing the measurement shows.
LEMMA ApplyRefines ==
    ASSUME IInv, InOrder, InOrderInv, [Next]_vars, NEW r \in reports,
           ReportWrites(r), ReportApply(r) \/ ReportFails(r)
    PROVE  Life!Next \/ UNCHANGED <<Closed, Joined, Finished, CancelledOf>>
<1>1. PICK s, a : s = r.m /\ a = r.a
  OBVIOUS
<1>2. /\ s \in Submission /\ a \in Agent /\ tracking[s][a] # None
      /\ tracking'[s][a] # None
      /\ tracking'[s][a].complete = r.complete
      /\ tracking'[s][a].cancelled = tracking[s][a].cancelled
      /\ \A b \in Agent \ {a} : tracking'[s][b] = tracking[s][b]
      /\ \A t \in Submission \ {s} : tracking'[t] = tracking[t]
      /\ Tracked(tracking'[s]) = Tracked(tracking[s])
  BY <1>1, UpdateEffect
<1>3. ~tracking[s][a].complete
  BY <1>1, ApplyAdvances
<1>4. r.complete \in BOOLEAN
  BY DEF IInv, TypeOK, Report
<1>5. Closed' = Closed
  BY DEF ReportApply, ReportFails, subVars, Closed
<1>6. s \in Closed
  BY <1>1, <1>2 DEF IInv, ReportShape, SubmissionShape, Closed
<1>7. Joined' = Joined
  BY <1>2 DEF Joined
<1>8. Cancelled(tracking'[s]) = Cancelled(tracking[s])
  BY <1>2 DEF Cancelled, Tracked
<1>9. CancelledOf' = CancelledOf
  BY <1>2, <1>8 DEF CancelledOf
<1>10. CASE r.complete
  <2>1. Completed(tracking'[s]) = Completed(tracking[s]) \union {a}
    BY <1>2, <1>10 DEF Completed, Tracked
  <2>2. Finished' = [Finished EXCEPT ![s] = @ \union {a}]
    BY <1>2, <2>1 DEF Finished
  <2>3. a \in Joined[s] \ Finished[s]
    BY <1>2, <1>3 DEF Joined, Finished, Completed, Tracked
  <2>4. Life!Finish(s, a)
    BY <1>5, <1>6, <1>7, <1>9, <2>2, <2>3 DEF Life!Finish, Joined, Finished, CancelledOf
  <2>5. QED
    BY <1>2, <2>4 DEF Life!Next
<1>11. CASE ~r.complete
  <2>1. Completed(tracking'[s]) = Completed(tracking[s])
    BY <1>2, <1>3, <1>11 DEF Completed, Tracked
  <2>2. Finished' = Finished
    BY <1>2, <2>1 DEF Finished
  <2>3. QED
    BY <1>5, <1>7, <1>9, <2>2
<1>12. QED
  BY <1>10, <1>11

\* A cancellation's UPDATE cancels whatever is open, in one step.
LEMMA CancelRefines ==
    ASSUME IInv, [Next]_vars, NEW c \in Canceller, CancelCommits(c)
    PROVE  Life!Next \/ UNCHANGED <<Closed, Joined, Finished, CancelledOf>>
<1>1. PICK s : s = target[c]
  OBVIOUS
<1>2. /\ s \in Submission
      /\ Tracked(tracking'[s]) = Tracked(tracking[s])
      /\ \A a \in Tracked(tracking[s]) :
            /\ tracking'[s][a].complete = tracking[s][a].complete
            /\ tracking'[s][a].cancelled <=> \/ tracking[s][a].cancelled
                                             \/ a \in Cancellable(tracking[s])
      /\ \A t \in Submission \ {s} : tracking'[t] = tracking[t]
  BY <1>1, CancelEffect DEF CancelCommits
<1>3. Closed' = Closed
  BY DEF CancelCommits, CancelUpdate, CancelFails, subVars, Closed
<1>4. Joined' = Joined
  BY <1>2 DEF Joined
<1>5. Completed(tracking'[s]) = Completed(tracking[s])
  BY <1>2 DEF Completed
<1>6. Finished' = Finished
  BY <1>2, <1>5 DEF Finished
<1>7. Cancellable(tracking[s])
         = Joined[s] \ (Finished[s] \union CancelledOf[s])
  BY <1>2 DEF Joined, Finished, CancelledOf, Cancellable, Completed, Cancelled
<1>8. Cancelled(tracking'[s]) = Cancelled(tracking[s]) \union Cancellable(tracking[s])
  BY <1>2 DEF Cancelled, Cancellable
<1>9. CancelledOf' = [CancelledOf EXCEPT ![s] = @ \union Cancellable(tracking[s])]
  BY <1>2, <1>8 DEF CancelledOf
<1>10. CASE Cancellable(tracking[s]) = {}
  <2>1. Cancelled(tracking'[s]) = Cancelled(tracking[s])
    BY <1>8, <1>10
  <2>2. CancelledOf' = CancelledOf
    BY <1>2, <2>1 DEF CancelledOf
  <2>3. QED
    BY <1>3, <1>4, <1>6, <2>2
<1>11. CASE Cancellable(tracking[s]) # {}
  <2>1. Life!Open(s) = Cancellable(tracking[s])
    BY <1>7 DEF Life!Open, Joined, Finished, CancelledOf
  <2>2. Life!Cancel(s)
    BY <1>3, <1>4, <1>6, <1>9, <1>11, <2>1 DEF Life!Cancel, Joined, Finished, CancelledOf
  <2>3. QED
    BY <1>2, <2>2 DEF Life!Next
<1>12. QED
  BY <1>10, <1>11

\* Every step of handlers and agents is a step of the abstract measurements, or
\* a stutter.
LEMMA StepRefines ==
    ASSUME IInv, InOrder, InOrderInv, [Next]_vars
    PROVE  Life!Next \/ UNCHANGED <<Closed, Joined, Finished, CancelledOf>>
<1>1. CASE tracking' = tracking
  <2>1. UNCHANGED <<Joined, Finished, CancelledOf>>
    BY <1>1, SameTables
  <2>2. ASSUME NEW s \in Submission \ Closed, Closed' = Closed \union {s}
        PROVE  Life!Next
    BY <2>1, <2>2 DEF Life!Next, Life!Close, Joined, Finished, CancelledOf
  <2>3. QED
    BY <2>1, <2>2, ClosedEffect
<1>2. QED
  BY <1>1, TrackRefines, ApplyRefines, CancelRefines, WhoWritesRows

\* Handlers that write and overwrite rows one by one implement measurements that
\* are only ever added to, if agents wait for each answer.
THEOREM Refinement ==
    ASSUME InOrder PROVE Spec => ImplementsLife
<1> DEFINE lifeVars == <<Closed, Joined, Finished, CancelledOf>>
<1>1. IInv /\ InOrderInv /\ [Next]_vars => [Life!Next]_lifeVars
  BY StepRefines
<1>2. IInv /\ InOrderInv /\ [Next]_vars
         => [Life!Next]_<<Closed, [s \in Submission |-> Tracked(tracking[s])],
                          [s \in Submission |-> Completed(tracking[s])],
                          [s \in Submission |-> Cancelled(tracking[s])]>>
  BY <1>1 DEF Joined, Finished, CancelledOf
<1>3. QED
  BY <1>2, InitRefines, Invariance, InOrderInvariance, PTL
  DEF Spec, ImplementsLife, Life!Spec

----------------------------------------------------------------------------
(* The queries, between whose two statements the measurements change.      *)

\* Queries write nothing that measurements are made of.
LEMMA QueriesImplement == QSpec => Spec
<1>1. QInit => Init
  BY DEF QInit
<1>2. [QNext]_<<vars, readVars, listVars>> => [Next]_vars
  BY DEF QNext, Query, ReadStatus, ReadDetails, DetailsFail, List, ListRest
<1>3. QED
  BY <1>1, <1>2, PTL DEF QSpec, Spec

\* what later steps make of a table whose agents wait for each answer
Grows(t, u) ==
    /\ Tracked(t) \subseteq Tracked(u)
    /\ \A a \in Tracked(t) : /\ u[a].expected = t[a].expected
                             /\ u[a].sent >= t[a].sent
                             /\ t[a].complete => u[a].complete
                             /\ t[a].cancelled => u[a].cancelled

LEMMA TablesGrow ==
    ASSUME IInv, ChargesInv, InOrder, InOrderInv, [Next]_vars, NEW s \in Submission
    PROVE  /\ tracking[s] \in Table /\ IsFiniteSet(Tracked(tracking[s]))
           /\ tracking'[s] \in Table /\ IsFiniteSet(Tracked(tracking'[s]))
           /\ Grows(tracking[s], tracking'[s])
<1>1. tracking[s] \in Table /\ tracking'[s] \in Table
  BY StepTypeOK DEF IInv, TypeOK
<1>2. RowsShape(s) /\ RowsShape(s)'
  BY StepChargesInv DEF ChargesInv
<1>3. Tracked(tracking[s]) \subseteq Tracked(tracking'[s])
  BY RowsOnlyAdded
<1>4. \A a \in Tracked(tracking[s]) : /\ tracking'[s][a].expected = tracking[s][a].expected
                                      /\ tracking[s][a].cancelled => tracking'[s][a].cancelled
  BY KeptRow
<1>5. \A a \in Tracked(tracking[s]) : /\ tracking'[s][a].sent >= tracking[s][a].sent
                                      /\ tracking[s][a].complete => tracking'[s][a].complete
  BY ForwardStep
<1>6. QED
  BY <1>1, <1>2, <1>3, <1>4, <1>5 DEF Grows, RowsShape

\* A line of the view is made of numbers.
LEMMA SummaryIsLine ==
    ASSUME NEW t \in Table, IsFiniteSet(Tracked(t))
    PROVE  Summary(t) \in Line
<1> DEFINE f == [a \in Tracked(t) |-> t[a].expected]
           g == [a \in Tracked(t) |-> t[a].sent]
           Done == {a \in Tracked(t) : t[a].complete}
<1>1. IsFiniteSet(Done)
  BY FS_Subset
<1>2. Cardinality(Tracked(t)) \in Nat /\ Cardinality(Done) \in Nat
  BY <1>1, FS_CardinalityType
<1>3. /\ DOMAIN f = Tracked(t) /\ \A a \in Tracked(t) : f[a] \in Nat
      /\ DOMAIN g = Tracked(t) /\ \A a \in Tracked(t) : g[a] \in Nat
  BY DEF Table, Row, Tracked
<1>4. TotalExpected(t) = SumFunctionOnSet(f, Tracked(t)) /\ TotalSent(t) = SumFunctionOnSet(g, Tracked(t))
  BY DEF TotalExpected, TotalSent, SumFunction
<1> HIDE DEF f, g
<1>5. TotalExpected(t) \in Nat /\ TotalSent(t) \in Nat
  BY <1>3, <1>4, SumIsNat
<1>6. MeasurementComplete(t) \in BOOLEAN /\ MeasurementCancelled(t) \in BOOLEAN
  BY DEF MeasurementComplete, MeasurementCancelled
<1>7. QED
  BY <1>2, <1>5, <1>6 DEF Summary, Line

\* The totals of a table that has grown are no smaller.
LEMMA SummaryGrows ==
    ASSUME NEW t \in Table, NEW u \in Table, IsFiniteSet(Tracked(t)), IsFiniteSet(Tracked(u)),
           Grows(t, u)
    PROVE  /\ Summary(u).total_agents >= Summary(t).total_agents
           /\ Summary(u).completed_agents >= Summary(t).completed_agents
           /\ Summary(u).total_expected_probes >= Summary(t).total_expected_probes
           /\ Summary(u).total_sent_probes >= Summary(t).total_sent_probes
           /\ Summary(t).measurement_cancelled => Summary(u).measurement_cancelled
           /\ Cardinality(Terminal(u)) \in Nat /\ Cardinality(Terminal(t)) \in Nat
           /\ Cardinality(Terminal(u)) >= Cardinality(Terminal(t))
<1> DEFINE e(x) == [a \in Tracked(x) |-> x[a].expected]
           n(x) == [a \in Tracked(x) |-> x[a].sent]
           Done(x) == {a \in Tracked(x) : x[a].complete}
<1>1. Tracked(t) \subseteq Tracked(u) /\ Done(t) \subseteq Done(u) /\ Terminal(t) \subseteq Terminal(u)
  BY DEF Grows, Terminal
<1>2. IsFiniteSet(Done(u)) /\ IsFiniteSet(Terminal(u)) /\ IsFiniteSet(Done(t)) /\ IsFiniteSet(Terminal(t))
  BY FS_Subset DEF Terminal
<1>3. /\ Cardinality(Tracked(u)) >= Cardinality(Tracked(t))
      /\ Cardinality(Done(u)) >= Cardinality(Done(t))
      /\ Cardinality(Terminal(u)) \in Nat /\ Cardinality(Terminal(t)) \in Nat
      /\ Cardinality(Terminal(u)) >= Cardinality(Terminal(t))
  BY <1>1, <1>2, FS_Subset, FS_CardinalityType
<1>4. /\ \A a \in Tracked(t) : t[a].expected \in Nat /\ t[a].sent \in Nat
      /\ \A a \in Tracked(u) : u[a].expected \in Nat /\ u[a].sent \in Nat
  BY DEF Table, Row, Tracked
<1>5. /\ \A a \in Tracked(u) : e(u)[a] \in Nat /\ n(u)[a] \in Nat
      /\ \A a \in Tracked(t) : /\ e(t)[a] \in Nat /\ e(t)[a] <= e(u)[a]
                               /\ n(t)[a] \in Nat /\ n(t)[a] <= n(u)[a]
  BY <1>1, <1>4 DEF Grows
<1>6. \A x : /\ TotalExpected(x) = SumFunctionOnSet(e(x), Tracked(x))
             /\ TotalSent(x) = SumFunctionOnSet(n(x), Tracked(x))
  BY DEF TotalExpected, TotalSent, SumFunction
<1> HIDE DEF e, n
<1>7. TotalExpected(t) <= TotalExpected(u)
  <2>1. SumFunctionOnSet(e(t), Tracked(t)) <= SumFunctionOnSet(e(u), Tracked(u))
    BY <1>1, <1>5, SumIsMonotone
  <2>2. QED
    BY <1>6, <2>1
<1>8. TotalSent(t) <= TotalSent(u)
  <2>1. SumFunctionOnSet(n(t), Tracked(t)) <= SumFunctionOnSet(n(u), Tracked(u))
    BY <1>1, <1>5, SumIsMonotone
  <2>2. QED
    BY <1>6, <2>1
<1>9. Summary(t) \in Line /\ Summary(u) \in Line
  BY SummaryIsLine
<1>10. MeasurementCancelled(t) => MeasurementCancelled(u)
  BY <1>1 DEF Grows, MeasurementCancelled
<1>11. QED
  BY <1>3, <1>7, <1>8, <1>9, <1>10 DEF Summary, Line

\* A table covers its own line of the view, and what it covers it keeps covering.
LEMMA CoversItself ==
    ASSUME NEW t \in Table, IsFiniteSet(Tracked(t))
    PROVE  Covers(t, Summary(t))
<1>1. Summary(t) \in Line
  BY SummaryIsLine
<1>2. Summary(t).measurement_complete => Terminal(t) = Tracked(t)
  BY DEF Summary, MeasurementComplete, Terminal
<1>3. Summary(t).total_agents = Cardinality(Tracked(t))
  BY DEF Summary
<1>4. Summary(t).measurement_complete => Cardinality(Terminal(t)) >= Summary(t).total_agents
  BY <1>1, <1>2, <1>3 DEF Line
<1>5. QED
  BY <1>1, <1>4 DEF Covers, Line

LEMMA CoverGrows ==
    ASSUME NEW t \in Table, NEW u \in Table, IsFiniteSet(Tracked(t)), IsFiniteSet(Tracked(u)),
           Grows(t, u), NEW total \in Line, Covers(t, total)
    PROVE  Covers(u, total)
<1>1. Summary(t) \in Line /\ Summary(u) \in Line
  BY SummaryIsLine
<1>2. /\ Summary(u).total_agents >= Summary(t).total_agents
      /\ Summary(u).completed_agents >= Summary(t).completed_agents
      /\ Summary(u).total_expected_probes >= Summary(t).total_expected_probes
      /\ Summary(u).total_sent_probes >= Summary(t).total_sent_probes
      /\ Summary(t).measurement_cancelled => Summary(u).measurement_cancelled
      /\ Cardinality(Terminal(u)) \in Nat /\ Cardinality(Terminal(t)) \in Nat
      /\ Cardinality(Terminal(u)) >= Cardinality(Terminal(t))
  BY SummaryGrows
<1> HIDE DEF Summary
<1>3. QED
  BY <1>1, <1>2 DEF Covers, Line

\* What a list has passed over as terminal stays so: nothing revives a cancelled
\* row, and a cancellation finds no row to cancel when all are complete.
LEMMA PassedOverStays ==
    ASSUME IInv, InOrder, InOrderInv, CompleteMeansAllSent, [Next]_vars,
           NEW s \in Submission, NEW states, PassedOver(tracking[s], states)
    PROVE  PassedOver(tracking'[s], states) /\ req'[s] = req[s]
<1>1. TypeOK /\ SubmissionShape(s)
  BY DEF IInv
<1>2. Listed(tracking[s]) /\ pc[s] # "idle"
  BY <1>1 DEF PassedOver, MeasurementCancelled, Listed, SubmissionShape
<1>3. req'[s] = req[s]
  BY <1>2, TopicGrows
<1>4. CASE "cancelled" \notin states /\ MeasurementCancelled(tracking[s])
  <2>1. PICK a \in Tracked(tracking[s]) : tracking[s][a].cancelled
    BY <1>4 DEF MeasurementCancelled
  <2>2. a \in Tracked(tracking'[s]) /\ tracking'[s][a].cancelled
    BY <2>1, KeptRow, RowsOnlyAdded
  <2>3. QED
    BY <1>3, <1>4, <2>2 DEF PassedOver, MeasurementCancelled
<1>5. CASE /\ "complete" \notin states
           /\ \A a \in Tracked(tracking[s]) : tracking[s][a].complete /\ ~tracking[s][a].cancelled
  <2>1. req[s] \in Request /\ topic[s] \in Seq(Message)
    BY <1>1, <1>2 DEF SubmissionShape, TypeOK
  <2>2. topic[s] # <<>>
    <3>1. Len(topic[s]) = req[s].batches
      BY <1>2, <1>5 DEF CompleteMeansAllSent, Listed
    <3>2. req[s].batches > 0
      BY <2>1, MeasurementsAssumption DEF Request
    <3>3. QED
      BY <2>1, <3>1, <3>2
  <2>3. Tracked(tracking'[s]) = Tracked(tracking[s])
    <3>1. ~TrackWrites(s)
      BY <1>1, <2>2 DEF SubmissionShape, TrackWrites
    <3>2. CASE ~OwnStep(s)
      BY <3>2, Frame
    <3>3. CASE OwnStep(s)
      BY <3>1, <3>3 DEF OwnStep, SubmissionStep, Submit, Reject, CheckQuota, AssignAgent,
                        TrackAgent, TrackFails, MaybeTracked, SendBatch, SendFails, Abort
    <3>4. QED
      BY <3>2, <3>3
  <2>4. \A a \in Tracked(tracking'[s]) : tracking'[s][a].complete
    BY <1>5, <2>3, ForwardStep
  <2>5. Cancelled(tracking'[s]) = {}
    <3>1. Cancelled(tracking[s]) = {} /\ Cancellable(tracking[s]) = {}
      BY <1>5 DEF Cancelled, Cancellable
    <3>2. ASSUME NEW c \in Canceller, CancelCommits(c), target[c] = s
          PROVE  Cancelled(tracking'[s]) = {}
      <4>1. \A a \in Tracked(tracking[s]) :
               tracking'[s][a].cancelled <=> \/ tracking[s][a].cancelled
                                             \/ a \in Cancellable(tracking[s])
        BY <3>2, CancelEffect DEF CancelCommits
      <4>2. QED
        BY <1>5, <2>3, <3>1, <4>1 DEF Cancelled
    <3>3. QED
      BY <3>1, <3>2, OtherSteps
  <2>6. QED
    BY <1>2, <1>3, <1>5, <2>3, <2>4, <2>5 DEF PassedOver, Cancelled, Listed
<1>6. QED
  BY <1>4, <1>5 DEF PassedOver

----------------------------------------------------------------------------
(* The steps.                                                              *)

\* What the measurements do between a query's statements.
LEMMA StatusKept ==
    ASSUME IInv, ChargesInv, InOrder, InOrderInv, [Next]_vars, UNCHANGED readVars,
           NEW r \in Reader, StatusShape(r)
    PROVE  StatusShape(r)'
<1>1. rpc' = rpc /\ about' = about /\ summary' = summary
  BY DEF readVars
<1>2. ASSUME rpc[r] = "details" PROVE Covers(tracking[about[r]], summary[r])'
  <2>1. PICK s \in Submission : s = about[r]
    BY <1>2 DEF StatusShape
  <2>2. PICK total \in Line : total = summary[r]
    BY <1>2 DEF StatusShape
  <2>3. Covers(tracking[s], total)
    BY <1>2, <2>1, <2>2 DEF StatusShape
  <2>4. /\ tracking[s] \in Table /\ IsFiniteSet(Tracked(tracking[s]))
        /\ tracking'[s] \in Table /\ IsFiniteSet(Tracked(tracking'[s]))
        /\ Grows(tracking[s], tracking'[s])
    BY TablesGrow
  <2>5. Covers(tracking'[s], total)
    BY <2>3, <2>4, CoverGrows
  <2>6. QED
    BY <1>1, <2>1, <2>2, <2>5
<1>3. QED
  BY <1>1, <1>2 DEF StatusShape

LEMMA ListKept ==
    ASSUME IInv, InOrder, InOrderInv, CompleteMeansAllSent, [Next]_vars,
           UNCHANGED <<readVars, listVars>>, QTypeOK, NEW r \in Reader, ListShape(r)
    PROVE  ListShape(r)'
<1>1. rpc' = rpc /\ listing' = listing /\ unseen' = unseen
  BY DEF readVars, listVars
<1>2. SUFFICES ASSUME rpc[r] = "more", NEW s \in unseen[r]
               PROVE  /\ req'[s].user = listing[r].user
                      /\ listing[r].agent # None => tracking'[s][listing[r].agent] # None
                      /\ PassedOver(tracking'[s], listing[r].states)
  BY <1>1 DEF ListShape
<1>3. PICK l \in Listing : l = listing[r]
  BY <1>2 DEF ListShape
<1>4. /\ s \in Submission /\ req[s].user = l.user
      /\ l.agent # None => tracking[s][l.agent] # None
      /\ PassedOver(tracking[s], l.states)
  BY <1>2, <1>3 DEF ListShape, QTypeOK
<1>5. PassedOver(tracking'[s], l.states) /\ req'[s] = req[s]
  BY <1>4, PassedOverStays
<1>6. l.agent # None => tracking'[s][l.agent] # None
  BY <1>4, RowsOnlyAdded DEF Tracked, Listing
<1>7. QED
  BY <1>1, <1>3, <1>4, <1>5, <1>6

\* what is known of one reader
ReaderShape(r) ==
    /\ StatusShape(r) /\ ListShape(r)
    /\ rpc[r] = "answered" => Covers(shown[r], summary[r])
    /\ rpc[r] = "listed" => unseen[r] = {}

\* The first statement of a status query reads a line that its rows cover.
LEMMA ReadStatusKeeps ==
    ASSUME IInv, ChargesInv, QTypeOK, NEW r \in Reader, ReadStatus(r)
    PROVE  QTypeOK' /\ ReaderShape(r)'
<1>1. PICK s \in Submission :
         \/ /\ about' = [about EXCEPT ![r] = s] /\ summary' = [summary EXCEPT ![r] = Summary(tracking[s])]
            /\ rpc' = [rpc EXCEPT ![r] = "details"]
         \/ /\ about' = [about EXCEPT ![r] = s] /\ summary' = [summary EXCEPT ![r] = None]
            /\ rpc' = [rpc EXCEPT ![r] = "notfound"]
  BY DEF ReadStatus
<1>2. tracking[s] \in Table /\ IsFiniteSet(Tracked(tracking[s]))
  BY DEF IInv, TypeOK, ChargesInv, RowsShape
<1>3. Summary(tracking[s]) \in Line /\ Covers(tracking[s], Summary(tracking[s]))
  BY <1>2, SummaryIsLine, CoversItself
<1>4. tracking' = tracking /\ UNCHANGED <<shown, listing, unseen>>
  BY DEF ReadStatus, vars, listVars
<1>5. QTypeOK'
  BY <1>1, <1>3, <1>4 DEF QTypeOK
<1>6. \/ rpc'[r] = "notfound"
      \/ rpc'[r] = "details" /\ about'[r] = s /\ summary'[r] = Summary(tracking[s])
  BY <1>1 DEF QTypeOK
<1>7. QED
  BY <1>3, <1>4, <1>5, <1>6 DEF ReaderShape, StatusShape, ListShape

\* The second statement reads rows that still cover it, or fails.
LEMMA ReadDetailsKeeps ==
    ASSUME IInv, QTypeOK, NEW r \in Reader, ReaderShape(r), ReadDetails(r) \/ DetailsFail(r)
    PROVE  QTypeOK' /\ ReaderShape(r)'
<1>1. /\ rpc[r] = "details" /\ UNCHANGED <<tracking, about, summary, listing, unseen>>
      /\ about[r] \in Submission /\ summary[r] \in Line
      /\ Covers(tracking[about[r]], summary[r])
  BY DEF ReadDetails, DetailsFail, vars, listVars, ReaderShape, StatusShape
<1>2. tracking[about[r]] \in Table
  BY <1>1 DEF IInv, TypeOK
<1>3. QTypeOK'
  BY <1>1, <1>2 DEF QTypeOK, ReadDetails, DetailsFail
<1>4. \/ rpc'[r] = "answered" /\ shown'[r] = tracking[about[r]]
      \/ rpc'[r] = "bare"
  BY DEF QTypeOK, ReadDetails, DetailsFail
<1>5. QED
  BY <1>1, <1>3, <1>4 DEF ReaderShape, StatusShape, ListShape

\* A first list passes over terminal measurements only.
LEMMA ListKeeps ==
    ASSUME IInv, QTypeOK, NEW r \in Reader, List(r)
    PROVE  QTypeOK' /\ ReaderShape(r)'
<1>1. PICK u \in User, agent \in Agent \union {None}, others \in SUBSET (State \ {"in-progress"}) :
         LET states == {"in-progress"} \union others
         IN  /\ listing' = [listing EXCEPT ![r] = [user |-> u, states |-> states, agent |-> agent]]
             /\ unseen' = [unseen EXCEPT ![r] = ListUserMeasurements(u, {}, agent)
                                                 \ ListUserMeasurements(u, states, agent)]
  BY DEF List
<1> DEFINE states == {"in-progress"} \union others
           l == [user |-> u, states |-> states, agent |-> agent]
           passed == ListUserMeasurements(u, {}, agent) \ ListUserMeasurements(u, states, agent)
<1>2. /\ rpc' = [rpc EXCEPT ![r] = "more"] /\ UNCHANGED <<tracking, req, about, summary, shown>>
  BY DEF List, vars, subVars
<1>3. l \in Listing /\ passed \in SUBSET Submission
  BY DEF Listing, State, ListUserMeasurements
<1>4. QTypeOK'
  BY <1>1, <1>2, <1>3 DEF QTypeOK
<1>5. /\ rpc'[r] = "more" /\ listing'[r] = l /\ unseen'[r] = passed
  BY <1>1, <1>2 DEF QTypeOK
<1>6. ASSUME NEW s \in passed
      PROVE  /\ req[s].user = u
             /\ agent # None => tracking[s][agent] # None
             /\ PassedOver(tracking[s], states)
  <2>1. /\ s \in Submission /\ Listed(tracking[s]) /\ req[s].user = u
        /\ agent # None => tracking[s][agent] # None
        /\ \A state \in states : ~InState(tracking[s], state)
    BY <1>6 DEF ListUserMeasurements
  <2>2. MeasurementComplete(tracking[s])
    BY <2>1 DEF InState
  <2>3. CASE MeasurementCancelled(tracking[s])
    BY <2>1, <2>3 DEF InState, PassedOver
  <2>4. CASE ~MeasurementCancelled(tracking[s])
    <3>1. "complete" \notin states
      BY <2>1, <2>2, <2>4 DEF InState
    <3>2. \A a \in Tracked(tracking[s]) : tracking[s][a].complete /\ ~tracking[s][a].cancelled
      BY <2>2, <2>4 DEF MeasurementComplete, MeasurementCancelled
    <3>3. QED
      BY <2>1, <3>1, <3>2 DEF PassedOver
  <2>5. QED
    BY <2>1, <2>3, <2>4
<1>7. ListShape(r)'
  <2>1. l.user = u /\ l.states = states /\ l.agent = agent
    OBVIOUS
  <2> HIDE DEF l, states, passed
  <2>2. QED
    BY <1>2, <1>3, <1>5, <1>6, <2>1 DEF ListShape
<1>8. QED
  BY <1>4, <1>5, <1>7 DEF ReaderShape, StatusShape

\* The other list shows all of them.
LEMMA ListRestKeeps ==
    ASSUME IInv, QTypeOK, NEW r \in Reader, ReaderShape(r), ListRest(r)
    PROVE  QTypeOK' /\ ReaderShape(r)'
<1>1. PICK l \in Listing : l = listing[r]
  BY DEF ListRest, ReaderShape, ListShape
<1> DEFINE shownNow == ListUserMeasurements(l.user, State \ l.states, l.agent)
<1>2. /\ rpc[r] = "more" /\ rpc' = [rpc EXCEPT ![r] = "listed"]
      /\ unseen' = [unseen EXCEPT ![r] = unseen[r] \ shownNow]
      /\ UNCHANGED <<about, summary, shown, listing>>
  BY <1>1 DEF ListRest
<1>3. QTypeOK'
  BY <1>2 DEF QTypeOK
<1>4. rpc'[r] = "listed" /\ unseen'[r] = unseen[r] \ shownNow
  BY <1>2 DEF QTypeOK
<1>5. ASSUME NEW s \in unseen[r] PROVE s \in shownNow
  <2>1. /\ s \in Submission /\ req[s].user = l.user
        /\ l.agent # None => tracking[s][l.agent] # None
        /\ PassedOver(tracking[s], l.states)
    BY <1>1, <1>2, <1>5 DEF QTypeOK, ReaderShape, ListShape
  <2>2. Listed(tracking[s])
    BY <2>1 DEF PassedOver, Listed, MeasurementCancelled
  <2>3. CASE "cancelled" \notin l.states /\ MeasurementCancelled(tracking[s])
    <3>1. "cancelled" \in State \ l.states /\ InState(tracking[s], "cancelled")
      BY <2>3 DEF State, InState
    <3>2. QED
      BY <2>1, <2>2, <3>1 DEF ListUserMeasurements
  <2>4. CASE /\ "complete" \notin l.states
             /\ \A a \in Tracked(tracking[s]) : /\ tracking[s][a].complete
                                                /\ ~tracking[s][a].cancelled
    <3>1. "complete" \in State \ l.states /\ InState(tracking[s], "complete")
      BY <2>4 DEF State, InState, MeasurementComplete, MeasurementCancelled
    <3>2. QED
      BY <2>1, <2>2, <3>1 DEF ListUserMeasurements
  <2>5. QED
    BY <2>1, <2>3, <2>4 DEF PassedOver
<1>6. QED
  BY <1>3, <1>4, <1>5 DEF ReaderShape, StatusShape, ListShape

\* Queries do not meet.
LEMMA OtherReaders ==
    ASSUME QTypeOK, NEW q \in Reader, Query(q), NEW r \in Reader, r # q, ReaderShape(r)
    PROVE  ReaderShape(r)'
<1>1. /\ UNCHANGED <<rpc[r], about[r], summary[r], shown[r], listing[r], unseen[r]>>
      /\ UNCHANGED <<tracking, req>>
  BY DEF QTypeOK, Query, ReadStatus, ReadDetails, DetailsFail, List, ListRest, listVars, vars, subVars
<1>2. QED
  BY <1>1 DEF ReaderShape, StatusShape, ListShape

----------------------------------------------------------------------------
(* The invariant of the queries, and what follows from it.                 *)

\* all the invariants of the measurements that the queries' one rests on
Grounds == IInv /\ ChargesInv /\ InOrderInv /\ CompleteMeansAllSent

Readers == QTypeOK /\ \A r \in Reader : ReaderShape(r)

LEMMA StepReaders ==
    ASSUME InOrder, Grounds, Readers, [QNext]_<<vars, readVars, listVars>>
    PROVE  Readers'
<1> USE DEF Grounds, Readers
<1>1. CASE [Next]_vars /\ UNCHANGED <<readVars, listVars>>
  <2>1. QTypeOK'
    BY <1>1 DEF QTypeOK, readVars, listVars
  <2>2. \A r \in Reader : StatusShape(r)' /\ ListShape(r)'
    BY <1>1, StatusKept, ListKept DEF ReaderShape
  <2>3. UNCHANGED <<rpc, shown, summary, unseen>>
    BY <1>1 DEF readVars, listVars
  <2>4. QED
    BY <2>1, <2>2, <2>3 DEF ReaderShape
<1>2. ASSUME NEW r \in Reader, Query(r) PROVE Readers'
  <2>1. QTypeOK' /\ ReaderShape(r)'
    BY <1>2, ReadStatusKeeps, ReadDetailsKeeps, ListKeeps, ListRestKeeps DEF Query
  <2>2. QED
    BY <1>2, <2>1, OtherReaders
<1>3. QED
  BY <1>1, <1>2 DEF QNext

\* Whatever a query has read so far stays covered, or findable, until it is done.
LEMMA ReadersInvariance ==
    ASSUME InOrder PROVE QSpec => []Readers
<1>1. QInit => Readers
  <2>1. EmptyTable \in Table
    BY DEF EmptyTable, Table
  <2>2. QED
    BY <2>1 DEF QInit, Readers, QTypeOK, ReaderShape, StatusShape, ListShape
<1>2. Grounds /\ Readers /\ [QNext]_<<vars, readVars, listVars>> => Readers'
  BY StepReaders
<1>3. Spec => []Grounds
  BY Invariance, ChargesInvariance, InOrderInvariance, CompletionIsTruthful, PTL DEF Grounds
<1>4. QED
  BY <1>1, <1>2, <1>3, QueriesImplement, PTL DEF QSpec

\* Reports, rows and what queries have read of them keep step with each other.
THEOREM QueriesInvariance ==
    ASSUME InOrder PROVE QSpec => []QueriesInv
<1>1. InOrderInv /\ Readers => QueriesInv
  BY DEF Readers, ReaderShape, QueriesInv
<1>2. QED
  BY <1>1, ReadersInvariance, InOrderInvariance, QueriesImplement, PTL

\* The rows of a status answer account for the totals above them, whatever is
\* inserted, reported or cancelled between the two statements.
THEOREM DetailsAreCovered ==
    ASSUME InOrder PROVE QSpec => []DetailsCoverSummary
<1>1. Readers => DetailsCoverSummary
  BY DEF Readers, ReaderShape, DetailsCoverSummary
<1>2. QED
  BY <1>1, ReadersInvariance, PTL

\* Two lists, those in progress first, leave no measurement of the user out.
THEOREM PartsAreComplete ==
    ASSUME InOrder PROVE QSpec => []PartsMissNothing
<1>1. Readers => PartsMissNothing
  BY DEF Readers, ReaderShape, PartsMissNothing
<1>2. QED
  BY <1>1, ReadersInvariance, PTL
=============================================================================
