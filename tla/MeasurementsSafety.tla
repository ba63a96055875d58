------------------------- MODULE MeasurementsSafety -------------------------
(***************************************************************************)
(* The safety properties of Measurements, from the inductive invariant of  *)
(* MeasurementsProofs, from what its statements do to the table and, for   *)
(* what measurements are charged, from facts about the table's sums.       *)
(***************************************************************************)
EXTENDS MeasurementsProofs, Sums

\* the UPDATE of a call is committed, whether the call is answered or fails
CancelCommits(c) == CancelWrites(c) /\ (CancelUpdate(c) \/ CancelFails(c))

\* Three statements write to the table, acknowledged or not.
LEMMA WhoWritesRows ==
    ASSUME [Next]_vars
    PROVE  \/ tracking' = tracking
           \/ \E s \in Submission : TrackWrites(s)
           \/ \E r \in reports : ReportWrites(r) /\ (ReportApply(r) \/ ReportFails(r))
           \/ \E c \in Canceller : CancelCommits(c)
BY DEF Next, vars, NewDay, HealthChanges, Submit, Reject, SubmissionStep, CheckQuota, AssignAgent,
       TrackAgent, TrackFails, MaybeTracked, SendBatch, SendFails, Abort, Consume, ReportLookup,
       ReportApply, ReportFails, CancelRead, CancelUpdate, CancelFails, CancelCommits

\* The handlers that insert a row, whether they are told so or not.
LEMMA WhoInserts ==
    ASSUME IInv, [Next]_vars, NEW s \in Submission, TrackWrites(s)
    PROVE  TrackAgent(s) \/ TrackFails(s) \/ Abort(s)
<1>1. Tracked(tracking'[s]) # Tracked(tracking[s])
  <2>1. PICK a : a = assigned[s][next[s]]
    OBVIOUS
  <2>2. a \in Tracked(tracking'[s]) /\ a \notin Tracked(tracking[s])
    BY <2>1, TrackEffect DEF Tracked
  <2>3. QED
    BY <2>2
<1>2. OwnStep(s) /\ pc[s] = "track"
  BY <1>1, Frame DEF TrackWrites
<1>3. QED
  BY <1>2 DEF OwnStep, SubmissionStep, Submit, Reject, CheckQuota, AssignAgent, SendBatch,
              SendFails

----------------------------------------------------------------------------
\* A submission answered with an error before its rows are created has left no
\* row and no message.
THEOREM RejectionsAreClean == Spec => []RejectedLeavesNothing
<1>1. IInv => RejectedLeavesNothing
  BY DEF IInv, SubmissionShape, RejectedLeavesNothing
<1>2. QED
  BY <1>1, Invariance, PTL

\* A report of an assigned agent whose INSERT succeeded finds its row, since the
\* agent learns of the measurement from a message sent after all the INSERTs.
THEOREM ReportsAreNeverLost == Spec => []ReportsFindTheirRow
<1>1. IInv => ReportsFindTheirRow
  <2> SUFFICES ASSUME IInv, NEW r \in reports,
                      r.a \in ToSet(assigned[r.m]) \ untracked[r.m] \/ r.stage = "found"
               PROVE  tracking[r.m][r.a] # None
    BY DEF ReportsFindTheirRow
  <2>1. ReportShape(r) /\ r.m \in Submission
    BY DEF IInv, TypeOK, Report
  <2>2. CASE r.a \in ToSet(assigned[r.m]) \ untracked[r.m]
    <3>1. PICK i \in DOMAIN assigned[r.m] : assigned[r.m][i] = r.a
      BY <2>2 DEF ToSet
    <3>2. i \in 1..Len(assigned[r.m])
      BY <2>1, <3>1 DEF IInv, TypeOK
    <3>3. TrackedUpTo(r.m, Len(assigned[r.m]))
      BY <2>1 DEF IInv, TopicShape, ReportShape
    <3>4. QED
      BY <2>2, <3>1, <3>2, <3>3 DEF TrackedUpTo
  <2>3. QED
    BY <2>1, <2>2 DEF ReportShape
<1>2. QED
  BY <1>1, Invariance, PTL

----------------------------------------------------------------------------
\* A row turns complete only when an agent has been told, by the last batch,
\* that every batch was sent.
THEOREM CompletionIsTruthful == Spec => []CompleteMeansAllSent
<1>1. Init => CompleteMeansAllSent
  BY DEF Init, CompleteMeansAllSent, Tracked, EmptyTable
<1>2. ASSUME IInv, CompleteMeansAllSent, [Next]_vars
      PROVE  CompleteMeansAllSent'
  <2> SUFFICES ASSUME NEW s \in Submission, NEW a \in Tracked(tracking'[s]),
                      tracking'[s][a].complete
               PROVE  Len(topic'[s]) = req'[s].batches
    BY DEF CompleteMeansAllSent
  <2>1. a \in Agent
    BY DEF Tracked
  <2>2. ASSUME Len(topic[s]) = req[s].batches, pc[s] # "idle"
        PROVE  Len(topic'[s]) = req'[s].batches
    BY <1>2, <2>2, AllSentPersists
  <2>3. ASSUME a \in Tracked(tracking[s]), tracking[s][a].complete
        PROVE  Len(topic'[s]) = req'[s].batches
    <3>1. pc[s] # "idle"
      BY <1>2, <2>3 DEF IInv, SubmissionShape, Listed
    <3>2. QED
      BY <1>2, <2>2, <2>3, <3>1 DEF CompleteMeansAllSent
  <2>4. CASE tracking' = tracking
    BY <2>3, <2>4
  <2>5. ASSUME NEW t \in Submission, TrackWrites(t)
        PROVE  a \in Tracked(tracking[s]) /\ tracking[s][a].complete
    BY <1>2, <2>1, <2>5, TrackEffect DEF Tracked
  <2>6. ASSUME NEW r \in reports, ReportWrites(r)
        PROVE  \/ a \in Tracked(tracking[s]) /\ tracking[s][a].complete
               \/ Len(topic[s]) = req[s].batches /\ pc[s] # "idle"
    <3>1. CASE r.m = s /\ r.a = a
      <4>1. r.complete
        BY <1>2, <2>6, <3>1, UpdateEffect
      <4>2. ReportShape(r) /\ TopicShape(s)
        BY <1>2 DEF IInv
      <4>3. QED
        BY <3>1, <4>1, <4>2 DEF ReportShape, TopicShape
    <3>2. CASE ~(r.m = s /\ r.a = a)
      BY <1>2, <2>1, <2>6, <3>2, UpdateEffect DEF Tracked
    <3>3. QED
      BY <3>1, <3>2
  <2>7. ASSUME NEW c \in Canceller, CancelWrites(c)
        PROVE  a \in Tracked(tracking[s]) /\ tracking[s][a].complete
    BY <1>2, <2>7, CancelEffect
  <2>8. QED
    BY <1>2, <2>2, <2>3, <2>4, <2>5, <2>6, <2>7, WhoWritesRows DEF CancelCommits
<1>3. QED
  BY <1>1, <1>2, Invariance, PTL DEF Spec

----------------------------------------------------------------------------
\* What every statement leaves of a row.
LEMMA KeptRow ==
    ASSUME IInv, [Next]_vars, NEW s \in Submission, NEW a \in Tracked(tracking[s])
    PROVE  /\ tracking'[s][a] # None
           /\ tracking'[s][a].expected = tracking[s][a].expected
           /\ tracking'[s][a].day = tracking[s][a].day
           /\ tracking[s][a].cancelled => tracking'[s][a].cancelled
<1>1. a \in Agent /\ tracking[s][a] # None
  BY DEF Tracked
<1>2. tracking'[s][a] # None
  BY RowsOnlyAdded DEF Tracked
<1>3. CASE tracking' = tracking
  BY <1>1, <1>3
<1>4. ASSUME NEW t \in Submission, TrackWrites(t)
      PROVE  tracking'[s][a] = tracking[s][a]
  BY <1>1, <1>4, TrackEffect
<1>5. ASSUME NEW r \in reports, ReportWrites(r)
      PROVE  /\ tracking'[s][a].expected = tracking[s][a].expected
             /\ tracking'[s][a].day = tracking[s][a].day
             /\ tracking'[s][a].cancelled = tracking[s][a].cancelled
  BY <1>1, <1>5, UpdateEffect
<1>6. ASSUME NEW c \in Canceller, CancelWrites(c)
      PROVE  /\ tracking'[s][a].expected = tracking[s][a].expected
             /\ tracking'[s][a].day = tracking[s][a].day
             /\ tracking[s][a].cancelled => tracking'[s][a].cancelled
  BY <1>6, CancelEffect
<1>7. QED
  BY <1>2, <1>3, <1>4, <1>5, <1>6, WhoWritesRows DEF CancelCommits

\* Rows are never deleted, re-charged, moved to another day or un-cancelled.
THEOREM RowsAreKept == Spec => RowsPersist
<1> DEFINE Kept == \A s \in Submission : \A a \in Tracked(tracking[s]) :
                      /\ tracking'[s][a] # None
                      /\ tracking'[s][a].expected = tracking[s][a].expected
                      /\ tracking'[s][a].day = tracking[s][a].day
                      /\ tracking[s][a].cancelled => tracking'[s][a].cancelled
<1>1. IInv /\ [Next]_vars => Kept
  BY KeptRow
<1>2. IInv /\ [Next]_vars => [Kept]_vars
  BY <1>1
<1>3. QED
  BY <1>2, Invariance, PTL DEF Spec, RowsPersist

----------------------------------------------------------------------------
\* A cancellation's UPDATE leaves no row open, and changes nothing only if it
\* found none open.
THEOREM CancellationsDecide == Spec => CancelIsDecisive
<1> DEFINE Decisive == \A c \in Canceller :
                          cpc[c] = "update" /\ cpc'[c] = "answered"
                          => /\ MeasurementComplete(tracking'[target[c]])
                             /\ claimed'[c] = {} <=> MeasurementComplete(tracking[target[c]])
<1>1. ASSUME IInv, [Next]_vars PROVE Decisive
  <2> SUFFICES ASSUME NEW c \in Canceller, cpc[c] = "update", cpc'[c] = "answered"
               PROVE  /\ MeasurementComplete(tracking'[target[c]])
                      /\ claimed'[c] = {} <=> MeasurementComplete(tracking[target[c]])
    OBVIOUS
  <2>1. CancelUpdate(c)
    BY <1>1
    DEF IInv, TypeOK, Next, vars, cancelVars, NewDay, HealthChanges, Submit, Reject,
        SubmissionStep, CheckQuota, AssignAgent, TrackAgent, TrackFails, AfterRow, SendBatch,
        SendFails, Abort, Consume, ReportLookup, ReportApply, ReportFails, CancelRead,
        CancelUpdate, CancelFails
  <2>2. PICK s : s = target[c]
    OBVIOUS
  <2>3. /\ claimed'[c] = Cancellable(tracking[s])
        /\ Tracked(tracking'[s]) = Tracked(tracking[s])
        /\ \A a \in Tracked(tracking[s]) :
              /\ tracking'[s][a].complete = tracking[s][a].complete
              /\ tracking'[s][a].cancelled <=> \/ tracking[s][a].cancelled
                                               \/ a \in Cancellable(tracking[s])
    BY <1>1, <2>1, <2>2, CancelEffect DEF CancelUpdate
  <2>4. MeasurementComplete(tracking'[s])
    BY <2>3 DEF MeasurementComplete, Cancellable
  <2>5. claimed'[c] = {} <=> MeasurementComplete(tracking[s])
    BY <2>3 DEF MeasurementComplete, Cancellable
  <2>6. QED
    BY <2>2, <2>4, <2>5
<1>2. IInv /\ [Next]_vars => [Decisive]_vars
  BY <1>1
<1>3. QED
  BY <1>2, Invariance, PTL DEF Spec, CancelIsDecisive

----------------------------------------------------------------------------
\* what the cancellations of a measurement have claimed, answered or not
ClaimsOn(s) ==
    /\ \A c \in Canceller : target[c] = s => claimed[c] \subseteq Cancelled(tracking[s])
    /\ \A a \in Cancelled(tracking[s]) : \E c \in Canceller : target[c] = s /\ a \in claimed[c]
    /\ \A c, d \in Canceller :
          c # d /\ target[c] = s /\ target[d] = s => claimed[c] \intersect claimed[d] = {}

\* A step that claims no row cancels none.
LEMMA OtherSteps ==
    ASSUME IInv, [Next]_vars, NEW s \in Submission,
           ~ \E c \in Canceller : CancelCommits(c) /\ target[c] = s
    PROVE  Cancelled(tracking'[s]) = Cancelled(tracking[s])
<1>1. tracking[s] \in Table
  BY DEF IInv, TypeOK
<1>2. CASE tracking' = tracking
  BY <1>2 DEF Cancelled
<1>3. ASSUME NEW t \in Submission, TrackWrites(t)
      PROVE  Cancelled(tracking'[s]) = Cancelled(tracking[s])
  <2>1. PICK b : b = assigned[t][next[t]]
    OBVIOUS
  <2>2. \A a \in Agent : tracking'[s][a] = tracking[s][a]
                         \/ /\ tracking[s][a] = None /\ tracking'[s][a] # None
                            /\ tracking'[s][a].cancelled = FALSE
    BY <1>3, <2>1, TrackEffect
  <2>3. QED
    BY <2>2 DEF Cancelled, Tracked
<1>4. ASSUME NEW r \in reports, ReportWrites(r)
      PROVE  Cancelled(tracking'[s]) = Cancelled(tracking[s])
  <2>1. \A a \in Agent : tracking'[s][a] = tracking[s][a]
                         \/ /\ tracking[s][a] # None /\ tracking'[s][a] # None
                            /\ tracking'[s][a].cancelled = tracking[s][a].cancelled
    BY <1>4, UpdateEffect
  <2>2. QED
    BY <2>1 DEF Cancelled, Tracked
<1>5. ASSUME NEW c \in Canceller, CancelCommits(c)
      PROVE  Cancelled(tracking'[s]) = Cancelled(tracking[s])
  <2>1. tracking'[s] = tracking[s]
    BY <1>5, CancelEffect DEF CancelCommits
  <2>2. QED
    BY <2>1 DEF Cancelled
<1>6. QED
  BY <1>2, <1>3, <1>4, <1>5, WhoWritesRows

\* Every step keeps the claims of a measurement exact and disjoint.
LEMMA StepClaims ==
    ASSUME IInv, [Next]_vars, NEW s \in Submission, ClaimsOn(s)
    PROVE  ClaimsOn(s)'
<1>1. TypeOK /\ (\A c \in Canceller : CancelShape(c))
  BY DEF IInv
<1>2. ASSUME NEW c \in Canceller, CancelCommits(c), target[c] = s
      PROVE  ClaimsOn(s)'
  <2>1. /\ claimed'[c] = Cancellable(tracking[s])
        /\ Tracked(tracking'[s]) = Tracked(tracking[s])
        /\ \A a \in Tracked(tracking[s]) :
              tracking'[s][a].cancelled <=> \/ tracking[s][a].cancelled
                                            \/ a \in Cancellable(tracking[s])
    BY <1>2, CancelEffect DEF CancelCommits
  <2>2. Cancelled(tracking'[s]) = Cancelled(tracking[s]) \union Cancellable(tracking[s])
    BY <2>1 DEF Cancelled, Cancellable
  <2>3. Cancelled(tracking[s]) \intersect Cancellable(tracking[s]) = {}
    BY DEF Cancelled, Cancellable
  <2>4. /\ target' = target
        /\ \A d \in Canceller \ {c} : claimed'[d] = claimed[d]
    BY <1>1, <1>2 DEF TypeOK, CancelCommits, CancelWrites, CancelUpdate, CancelFails
  <2>5. claimed[c] = {}
    BY <1>1, <1>2 DEF CancelShape, CancelCommits, CancelWrites
  <2>6. QED
    BY <1>2, <2>1, <2>2, <2>3, <2>4, <2>5 DEF ClaimsOn
<1>3. CASE ~ \E c \in Canceller : CancelCommits(c) /\ target[c] = s
  <2>1. Cancelled(tracking'[s]) = Cancelled(tracking[s])
    BY <1>3, OtherSteps
  <2>2. CASE UNCHANGED <<target, claimed>>
    BY <2>1, <2>2 DEF ClaimsOn
  <2>3. ASSUME NEW c \in Canceller, CancelRead(c)
        PROVE  ClaimsOn(s)'
    <3>1. claimed' = claimed /\ claimed[c] = {}
      BY <1>1, <2>3 DEF CancelShape, CancelRead
    <3>2. \A d \in Canceller \ {c} : target'[d] = target[d]
      BY <1>1, <2>3 DEF TypeOK, CancelRead
    <3>3. QED
      BY <2>1, <3>1, <3>2 DEF ClaimsOn
  <2>4. ASSUME NEW c \in Canceller, CancelCommits(c)
        PROVE  ClaimsOn(s)'
    <3>1. /\ target' = target /\ target[c] # s
          /\ \A d \in Canceller \ {c} : claimed'[d] = claimed[d]
      BY <1>1, <1>3, <2>4 DEF TypeOK, CancelCommits, CancelWrites, CancelUpdate, CancelFails
    <3>2. QED
      BY <2>1, <3>1 DEF ClaimsOn
  <2>5. \/ UNCHANGED <<target, claimed>>
        \/ \E c \in Canceller : CancelRead(c) \/ CancelCommits(c)
    BY DEF Next, vars, cancelVars, NewDay, HealthChanges, Submit, Reject, SubmissionStep,
           CheckQuota, AssignAgent, TrackAgent, TrackFails, AfterRow, SendBatch, SendFails,
           Abort, Consume, ReportLookup, ReportApply, ReportFails, CancelUpdate, CancelFails, CancelCommits
  <2>6. QED
    BY <2>2, <2>3, <2>4, <2>5
<1>4. QED
  BY <1>2, <1>3

\* Racing cancellations, answered or cut off, share the cancelled rows out: no row
\* is in two answers, none is in an answer that another call, or no call,
\* cancelled, and the rows in no answer are those of the calls that failed after
\* their UPDATE.
THEOREM ClaimsAreExact == Spec => []ClaimsShareOutRows
<1> DEFINE Claims == \A s \in Submission : ClaimsOn(s)
<1>1. Init => Claims
  BY DEF Init, ClaimsOn, Cancelled, Tracked, EmptyTable
<1>2. IInv /\ Claims /\ [Next]_vars => Claims'
  BY StepClaims
<1>3. IInv /\ Claims => ClaimsShareOutRows
  <2> SUFFICES ASSUME IInv, NEW s \in Submission, ClaimsOn(s),
                      NEW calls, calls = {c \in Canceller : target[c] = s},
                      NEW answers, answers = UNION {AgentsCancelled(c) : c \in calls}
               PROVE  /\ \A c, d \in calls : c # d => claimed[c] \intersect claimed[d] = {}
                      /\ answers \subseteq Cancelled(tracking[s])
                      /\ Cancelled(tracking[s]) \ answers
                           = UNION {claimed[c] : c \in {d \in calls : cpc[d] = "failed"}}
    BY DEF ClaimsShareOutRows
  <2>1. \A c, d \in calls : c # d => claimed[c] \intersect claimed[d] = {}
    BY DEF ClaimsOn
  <2>2. answers \subseteq Cancelled(tracking[s])
    BY DEF ClaimsOn, AgentsCancelled
  <2>3. ASSUME NEW a \in Cancelled(tracking[s]) \ answers
        PROVE  \E c \in calls : cpc[c] = "failed" /\ a \in claimed[c]
    <3>1. PICK c \in calls : a \in claimed[c]
      BY <2>3 DEF ClaimsOn
    <3>2. cpc[c] \in {"answered", "failed"}
      BY <3>1 DEF IInv, CancelShape
    <3>3. cpc[c] # "answered"
      BY <2>3, <3>1 DEF AgentsCancelled
    <3>4. QED
      BY <3>1, <3>2, <3>3
  <2>4. ASSUME NEW c \in calls, cpc[c] = "failed", NEW a \in claimed[c]
        PROVE  a \in Cancelled(tracking[s]) \ answers
    <3>1. a \in Cancelled(tracking[s])
      BY <2>4 DEF ClaimsOn
    <3>2. \A d \in calls : a \notin AgentsCancelled(d)
      BY <2>1, <2>4 DEF AgentsCancelled
    <3>3. QED
      BY <3>1, <3>2
  <2>5. QED
    BY <2>1, <2>2, <2>3, <2>4
<1>4. QED
  BY <1>1, <1>2, <1>3, Invariance, PTL DEF Spec

----------------------------------------------------------------------------
(* The sums of a table.                                                    *)

\* Only rows of the day count, and rows are charged numbers.
LEMMA ChargeIsNat ==
    ASSUME NEW t \in Table, IsFiniteSet(Tracked(t)), NEW d
    PROVE  /\ ExpectedOn(t, d) \in Nat
           /\ (\A a \in Tracked(t) : t[a].day # d) => ExpectedOn(t, d) = 0
           /\ \A a \in Tracked(t) : t[a].day = d => ExpectedOn(t, d) >= t[a].expected
<1> DEFINE S == TrackedOn(t, d)
           f == [a \in S |-> t[a].expected]
<1>1. IsFiniteSet(S) /\ S \subseteq Tracked(t)
  BY FS_Subset DEF TrackedOn
<1>2. \A a \in S : f[a] \in Nat /\ f[a] = t[a].expected
  BY <1>1 DEF Table, Row, Tracked, TrackedOn
<1>3. DOMAIN f = S
  OBVIOUS
<1> HIDE DEF f
<1>4. ExpectedOn(t, d) = SumFunctionOnSet(f, S)
  BY <1>3 DEF ExpectedOn, SumFunction, f
<1>5. ExpectedOn(t, d) \in Nat
  BY <1>1, <1>2, <1>4, SumIsNat
<1>6. ASSUME \A a \in Tracked(t) : t[a].day # d PROVE ExpectedOn(t, d) = 0
  <2>1. S = {}
    BY <1>6 DEF TrackedOn
  <2>2. QED
    BY <1>1, <1>4, <2>1, SumUnfolds
<1>7. ASSUME NEW a \in Tracked(t), t[a].day = d PROVE ExpectedOn(t, d) >= t[a].expected
  <2>1. a \in S
    BY <1>7 DEF TrackedOn
  <2>2. SumFunctionOnSet(f, S) = f[a] + SumFunctionOnSet(f, S \ {a})
    BY <1>1, <1>2, <2>1, SumTakesOut
  <2>3. SumFunctionOnSet(f, S \ {a}) \in Nat
    BY <1>1, <1>2, FS_RemoveElement, SumIsNat
  <2>4. f[a] \in Nat /\ f[a] = t[a].expected
    BY <1>2, <2>1
  <2>5. QED
    BY <1>4, <2>2, <2>3, <2>4
<1>8. QED
  BY <1>5, <1>6, <1>7

\* A table is charged by its rows, their expected_probes and days alone.
LEMMA ChargeStays ==
    ASSUME NEW t \in Table, NEW u \in Table, IsFiniteSet(Tracked(t)),
           Tracked(u) = Tracked(t),
           \A a \in Tracked(t) : u[a].expected = t[a].expected /\ u[a].day = t[a].day, NEW d
    PROVE  ExpectedOn(u, d) = ExpectedOn(t, d)
<1> DEFINE S == TrackedOn(t, d)
           f == [a \in S |-> t[a].expected]
           g == [a \in TrackedOn(u, d) |-> u[a].expected]
<1>1. TrackedOn(u, d) = S /\ S \subseteq Tracked(t)
  BY DEF TrackedOn
<1>2. f = g
  BY <1>1
<1>3. QED
  BY <1>2 DEF ExpectedOn

\* A table of one row of the day is charged for it.
LEMMA ChargeOfOne ==
    ASSUME NEW t \in Table, NEW a, Tracked(t) = {a}, NEW d, t[a].day = d
    PROVE  ExpectedOn(t, d) = t[a].expected
<1> DEFINE f == [b \in {a} |-> t[b].expected]
<1>1. TrackedOn(t, d) = {a} /\ t[a].expected \in Nat
  BY DEF TrackedOn, Tracked, Table, Row
<1>2. IsFiniteSet({a}) /\ {a} \ {a} = {} /\ IsFiniteSet({})
  BY FS_Singleton, FS_EmptySet
<1>3. DOMAIN f = {a} /\ f[a] = t[a].expected
  OBVIOUS
<1> HIDE DEF f
<1>4. ExpectedOn(t, d) = SumFunctionOnSet(f, {a})
  BY <1>1, <1>3 DEF ExpectedOn, SumFunction, f
<1>5. SumFunctionOnSet(f, {a}) = f[a] + SumFunctionOnSet(f, {a} \ {a})
  BY <1>1, <1>2, <1>3, SumTakesOut
<1>6. SumFunctionOnSet(f, {a} \ {a}) = 0
  <2>1. SumFunctionOnSet(f, {}) = 0
    BY <1>2, SumUnfolds
  <2>2. QED
    BY <1>2, <2>1
<1>7. QED
  BY <1>1, <1>3, <1>4, <1>5, <1>6

\* A table whose rows expect the same is charged that many times.
LEMMA TotalOfEquals ==
    ASSUME NEW t, IsFiniteSet(Tracked(t)), NEW k \in Nat,
           \A a \in Tracked(t) : t[a].expected = k
    PROVE  TotalExpected(t) = k * Cardinality(Tracked(t))
<1> DEFINE f == [a \in Tracked(t) |-> t[a].expected]
<1>1. DOMAIN f = Tracked(t) /\ \A a \in Tracked(t) : f[a] = k
  OBVIOUS
<1> HIDE DEF f
<1>2. TotalExpected(t) = SumFunctionOnSet(f, Tracked(t))
  BY <1>1 DEF TotalExpected, SumFunction, f
<1>3. QED
  BY <1>1, <1>2, SumOfEquals

----------------------------------------------------------------------------
(* Rows and requests.                                                      *)

\* The one statement that inserts rows, on the columns a charge is made of.
LEMMA TrackCharges ==
    ASSUME IInv, NEW s \in Submission, TrackWrites(s)
    PROVE  \E a \in Agent :
              /\ tracking[s][a] = None
              /\ Tracked(tracking'[s]) = Tracked(tracking[s]) \union {a}
              /\ tracking'[s][a].expected = req[s].probes /\ tracking'[s][a].day = day
              /\ \A t \in Submission \ {s} : tracking'[t] = tracking[t]
<1>1. PICK a : a = assigned[s][next[s]]
  OBVIOUS
<1>2. /\ a \in Agent /\ tracking[s][a] = None
      /\ Tracked(tracking'[s]) = Tracked(tracking[s]) \union {a}
      /\ \A t \in Submission \ {s} : tracking'[t] = tracking[t]
  BY <1>1, TrackEffect
<1>3. tracking \in [Submission -> Table]
  BY DEF IInv, TypeOK
<1>4. tracking'[s][a] = NewRow(req[s].probes, day)
  BY <1>1, <1>2, <1>3 DEF TrackWrites, CreateTracking, Table
<1>5. QED
  BY <1>2, <1>4 DEF NewRow

\* Days do not go back.
LEMMA DayAdvances ==
    ASSUME IInv, [Next]_vars
    PROVE  /\ day \in Nat /\ day' \in Nat /\ day <= day'
           /\ NewDay \/ day' = day
<1>1. day \in Nat
  BY MeasurementsAssumption DEF IInv, TypeOK
<1>2. NewDay \/ day' = day
  BY DEF Next, vars, HealthChanges, Submit, Reject, SubmissionStep, CheckQuota, AssignAgent,
         TrackAgent, TrackFails, AfterRow, SendBatch, SendFails, Abort, Consume, ReportLookup,
         ReportApply, ReportFails, CancelRead, CancelUpdate, CancelFails
<1>3. QED
  BY <1>1, <1>2 DEF NewDay

\* At any time finitely many requests have come.
LEMMA StartedStaysFinite ==
    ASSUME IInv, [Next]_vars, IsFiniteSet({s \in Submission : pc[s] # "idle"})
    PROVE  IsFiniteSet({s \in Submission : pc'[s] # "idle"})
<1> DEFINE Started == {s \in Submission : pc[s] # "idle"}
<1>1. ASSUME NEW s \in Submission, pc[s] = "idle", pc'[s] # "idle" PROVE Submit(s)
  <2>1. OwnStep(s)
    BY <1>1, Frame
  <2>2. QED
    BY <1>1, <2>1
    DEF OwnStep, SubmissionStep, Reject, CheckQuota, AssignAgent, TrackAgent, TrackWrites,
        TrackFails, SendBatch, SendFails, Abort, Working
<1>2. ASSUME NEW s \in Submission, Submit(s) PROVE Started' \subseteq Started \union {s}
  BY <1>2 DEF IInv, TypeOK, Submit
<1>3. CASE \E s \in Submission : Submit(s)
  BY <1>2, <1>3, FS_AddElement, FS_Subset
<1>4. CASE ~ \E s \in Submission : Submit(s)
  <2>1. Started' \subseteq Started
    BY <1>1, <1>4
  <2>2. QED
    BY <2>1, FS_Subset
<1>5. QED
  BY <1>3, <1>4

\* Every step keeps the rows of a submission in step with its loop.
LEMMA RowsShapeKept ==
    ASSUME IInv, [Next]_vars, NEW s \in Submission, RowsShape(s)
    PROVE  RowsShape(s)'
<1>1. TypeOK /\ SubmissionShape(s)
  BY DEF IInv
<1>2. day \in Nat /\ day' \in Nat /\ day <= day'
  BY DayAdvances
<1>3. \A a \in Tracked(tracking[s]) : /\ tracking'[s][a].expected = tracking[s][a].expected
                                      /\ tracking'[s][a].day <= day'
  <2>1. \A a \in Tracked(tracking[s]) : tracking[s][a].day \in Nat
    BY <1>1 DEF TypeOK, Table, Row, Tracked
  <2>2. QED
    BY <1>2, <2>1, KeptRow DEF RowsShape
<1>4. CASE ~OwnStep(s)
  <2>1. /\ UNCHANGED <<pc[s], req[s], next[s], assigned[s], untracked[s]>>
        /\ Tracked(tracking'[s]) = Tracked(tracking[s])
    BY <1>4, Frame
  <2>2. QED
    BY <1>3, <2>1 DEF RowsShape
<1>5. CASE Submit(s) \/ Reject(s) \/ CheckQuota(s) \/ AssignAgent(s)
  <2>1. Tracked(tracking[s]) = {} /\ tracking' = tracking
    BY <1>1, <1>5 DEF SubmissionShape, Listed, Submit, Reject, CheckQuota, AssignAgent
  <2>2. pc'[s] \notin {"send", "done"} /\ (pc'[s] = "track" => next'[s] = 1)
    BY <1>1, <1>5 DEF TypeOK, Submit, Reject, CheckQuota, AssignAgent
  <2>3. Tracked(tracking'[s]) = {} /\ IsFiniteSet({}) /\ Cardinality({}) = 0
    BY <2>1, FS_EmptySet
  <2>4. QED
    BY <2>2, <2>3 DEF RowsShape
<1>6. ASSUME TrackAgent(s) \/ TrackFails(s) \/ Abort(s)
      PROVE  /\ IsFiniteSet(Tracked(tracking'[s]))
             /\ \A b \in Tracked(tracking'[s]) : /\ tracking'[s][b].expected = req'[s].probes
                                                 /\ tracking'[s][b].day <= day'
             /\ TrackWrites(s) => /\ pc[s] = "track"
                                  /\ Cardinality(Tracked(tracking'[s]))
                                       = Cardinality(Tracked(tracking[s])) + 1
  <2>1. req' = req /\ (TrackWrites(s) \/ UNCHANGED tracking)
    BY <1>6 DEF TrackAgent, TrackFails, AfterRow, Abort, MaybeTracked
  <2>2. CASE TrackWrites(s)
    <3>1. PICK a \in Agent :
             /\ tracking[s][a] = None
             /\ Tracked(tracking'[s]) = Tracked(tracking[s]) \union {a}
             /\ tracking'[s][a].expected = req[s].probes /\ tracking'[s][a].day = day
      BY <2>2, TrackCharges
    <3>2. a \notin Tracked(tracking[s])
      BY <3>1 DEF Tracked
    <3>3. /\ IsFiniteSet(Tracked(tracking'[s]))
          /\ Cardinality(Tracked(tracking'[s])) = Cardinality(Tracked(tracking[s])) + 1
      BY <3>1, <3>2, FS_AddElement DEF RowsShape
    <3>4. \A b \in Tracked(tracking'[s]) : /\ tracking'[s][b].expected = req'[s].probes
                                           /\ tracking'[s][b].day <= day'
      BY <1>2, <1>3, <2>1, <3>1 DEF RowsShape
    <3>5. QED
      BY <2>2, <3>3, <3>4 DEF TrackWrites
  <2>3. CASE UNCHANGED tracking
    <3>1. ~TrackWrites(s)
      BY <2>3, TrackEffect
    <3>2. QED
      BY <1>3, <2>1, <2>3, <3>1 DEF RowsShape
  <2>4. QED
    BY <2>1, <2>2, <2>3
<1>7. CASE TrackAgent(s)
  <2>1. /\ TrackWrites(s) /\ assigned' = assigned /\ untracked' = untracked
        /\ next'[s] = (IF next[s] = Len(assigned[s]) THEN 1 ELSE next[s] + 1)
        /\ pc'[s] = (IF next[s] = Len(assigned[s]) THEN "send" ELSE "track")
    BY <1>1, <1>7 DEF TypeOK, TrackAgent, AfterRow
  <2>2. next[s] \in Nat
    BY <1>1 DEF TypeOK
  <2>3. QED
    BY <1>6, <1>7, <2>1, <2>2 DEF RowsShape
<1>8. CASE TrackFails(s)
  <2>1. untracked'[s] # {}
    BY <1>1, <1>8 DEF TypeOK, TrackFails
  <2>2. QED
    BY <1>6, <1>8, <2>1 DEF RowsShape
<1>9. CASE Abort(s)
  <2>1. pc'[s] = "aborted"
    BY <1>1, <1>9 DEF TypeOK, Abort
  <2>2. QED
    BY <1>6, <1>9, <2>1 DEF RowsShape
<1>10. CASE SendBatch(s) \/ SendFails(s)
  <2>1. UNCHANGED <<tracking, req, assigned, untracked>>
    BY <1>10 DEF SendBatch, SendFails
  <2>2. pc'[s] # "track" /\ (pc'[s] \in {"send", "done"} => pc[s] = "send")
    BY <1>1, <1>10 DEF TypeOK, SendBatch, SendFails
  <2>3. QED
    BY <1>3, <2>1, <2>2 DEF RowsShape
<1>11. QED
  BY <1>4, <1>5, <1>7, <1>8, <1>9, <1>10 DEF OwnStep, SubmissionStep

----------------------------------------------------------------------------
(* What a user is charged today.                                           *)

\* Without an INSERT for it, and on the same day, a measurement's charge stays.
LEMMA ChargeKept ==
    ASSUME IInv, [Next]_vars, day' = day, NEW s \in Submission, RowsShape(s), ~TrackWrites(s)
    PROVE  /\ Tracked(tracking'[s]) = Tracked(tracking[s])
           /\ ExpectedOn(tracking'[s], day') = ExpectedOn(tracking[s], day)
<1>1. tracking[s] \in Table /\ tracking'[s] \in Table
  BY StepTypeOK DEF IInv, TypeOK
<1>2. Tracked(tracking'[s]) = Tracked(tracking[s])
  <2>1. CASE ~OwnStep(s)
    BY <2>1, Frame
  <2>2. CASE OwnStep(s)
    BY <2>2 DEF OwnStep, SubmissionStep, Submit, Reject, CheckQuota, AssignAgent, TrackAgent,
                TrackFails, MaybeTracked, SendBatch, SendFails, Abort
  <2>3. QED
    BY <2>1, <2>2
<1>3. \A a \in Tracked(tracking[s]) : /\ tracking'[s][a].expected = tracking[s][a].expected
                                      /\ tracking'[s][a].day = tracking[s][a].day
  BY KeptRow
<1>4. ExpectedOn(tracking'[s], day) = ExpectedOn(tracking[s], day)
  BY <1>1, <1>2, <1>3, ChargeStays DEF RowsShape
<1>5. QED
  BY <1>2, <1>4

\* A submission stays its user's, and a new one has no rows.
LEMMA SubmissionsStay ==
    ASSUME IInv, [Next]_vars, NEW u
    PROVE  /\ SubmissionsOf(u) \subseteq SubmissionsOf(u)'
           /\ \A s \in SubmissionsOf(u)' \ SubmissionsOf(u) :
                 ~TrackWrites(s) /\ Tracked(tracking[s]) = {}
<1>1. ASSUME NEW s \in Submission, pc[s] # "idle" PROVE pc'[s] # "idle" /\ req'[s] = req[s]
  <2>1. CASE ~OwnStep(s)
    BY <1>1, <2>1, Frame
  <2>2. CASE OwnStep(s)
    BY <1>1, <2>2 DEF IInv, TypeOK, OwnStep, SubmissionStep, Submit, Reject, CheckQuota,
                      AssignAgent, TrackAgent, TrackFails, AfterRow, SendBatch, SendFails, Abort
  <2>3. QED
    BY <2>1, <2>2
<1>2. ASSUME NEW s \in SubmissionsOf(u)' \ SubmissionsOf(u)
      PROVE  ~TrackWrites(s) /\ Tracked(tracking[s]) = {}
  <2>1. s \in Submission /\ pc[s] = "idle"
    BY <1>1 DEF SubmissionsOf
  <2>2. QED
    BY <2>1 DEF IInv, SubmissionShape, Listed, TrackWrites
<1>3. QED
  BY <1>1, <1>2 DEF SubmissionsOf

\* A user's usage is a sum of numbers over finitely many submissions.
LEMMA UsageIsSum ==
    ASSUME IInv, ChargesInv, NEW u
    PROVE  /\ IsFiniteSet(SubmissionsOf(u)) /\ Usage(u) \in Nat
           /\ \A s \in SubmissionsOf(u) : ExpectedOn(tracking[s], day) \in Nat
<1> DEFINE f == [s \in SubmissionsOf(u) |-> ExpectedOn(tracking[s], day)]
<1>1. IsFiniteSet(SubmissionsOf(u))
  <2>1. SubmissionsOf(u) \subseteq {s \in Submission : pc[s] # "idle"}
    BY DEF SubmissionsOf
  <2>2. QED
    BY <2>1, FS_Subset DEF ChargesInv
<1>2. \A s \in SubmissionsOf(u) : ExpectedOn(tracking[s], day) \in Nat
  <2>1. ASSUME NEW s \in SubmissionsOf(u) PROVE ExpectedOn(tracking[s], day) \in Nat
    <3>1. s \in Submission /\ tracking[s] \in Table /\ IsFiniteSet(Tracked(tracking[s]))
      BY DEF SubmissionsOf, IInv, TypeOK, ChargesInv, RowsShape
    <3>2. QED
      BY <3>1, ChargeIsNat
  <2>2. QED
    BY <2>1
<1>3. DOMAIN f = SubmissionsOf(u) /\ \A s \in SubmissionsOf(u) : f[s] \in Nat
  BY <1>2
<1> HIDE DEF f
<1>4. Usage(u) = SumFunctionOnSet(f, SubmissionsOf(u))
  BY <1>3 DEF Usage, SumFunction, f
<1>5. QED
  BY <1>1, <1>2, <1>3, <1>4, SumIsNat

\* Only an INSERT for one of the user's measurements changes a day's usage.
LEMMA UsageKept ==
    ASSUME IInv, ChargesInv, [Next]_vars, day' = day, NEW u,
           ~ \E t \in SubmissionsOf(u) : TrackWrites(t)
    PROVE  Usage(u)' = Usage(u)
<1> DEFINE S == SubmissionsOf(u)
           T == SubmissionsOf(u)'
           f == [s \in S |-> ExpectedOn(tracking[s], day)]
           g == [s \in T |-> ExpectedOn(tracking'[s], day')]
<1>1. S \subseteq T /\ T \subseteq Submission
  BY SubmissionsStay DEF SubmissionsOf
<1>2. \A s \in S : ExpectedOn(tracking[s], day) \in Nat
  BY UsageIsSum
<1>3. \A s \in T : RowsShape(s) /\ ~TrackWrites(s)
  BY <1>1, SubmissionsStay DEF ChargesInv
<1>4. \A s \in T : ExpectedOn(tracking'[s], day') = ExpectedOn(tracking[s], day)
  BY <1>1, <1>3, ChargeKept
<1>5. \A s \in T \ S : ExpectedOn(tracking[s], day) = 0
  <2>1. ASSUME NEW s \in T \ S PROVE ExpectedOn(tracking[s], day) = 0
    <3>1. tracking[s] \in Table /\ Tracked(tracking[s]) = {} /\ IsFiniteSet(Tracked(tracking[s]))
      BY <1>1, <1>3, SubmissionsStay DEF IInv, TypeOK, RowsShape
    <3>2. QED
      BY <3>1, ChargeIsNat
  <2>2. QED
    BY <2>1
<1>6. IsFiniteSet(S) /\ IsFiniteSet(T)
  <2>1. IsFiniteSet({s \in Submission : pc'[s] # "idle"})
    BY StartedStaysFinite DEF ChargesInv
  <2>2. T \subseteq {s \in Submission : pc'[s] # "idle"}
    BY DEF SubmissionsOf
  <2>3. QED
    BY <1>1, <2>1, <2>2, FS_Subset
<1>7. /\ DOMAIN f = S /\ \A s \in S : f[s] \in Nat /\ g[s] = f[s]
      /\ DOMAIN g = T /\ (\A s \in T : g[s] \in Nat) /\ (\A s \in T \ S : g[s] = 0)
  BY <1>1, <1>2, <1>4, <1>5
<1>8. Usage(u) = SumFunctionOnSet(f, S) /\ Usage(u)' = SumFunctionOnSet(g, T)
  BY DEF Usage, SumFunction
<1> HIDE DEF f, g, S, T
<1>9. SumFunctionOnSet(g, T) = SumFunctionOnSet(g, S)
  BY <1>1, <1>6, <1>7, SumsSkipZero
<1>10. SumFunctionOnSet(g, S) = SumFunctionOnSet(f, S)
  BY <1>6, <1>7, SumsAgree
<1>11. QED
  BY <1>8, <1>9, <1>10

\* The first INSERT of a measurement adds its probes to its user's usage.
LEMMA UsageGrows ==
    ASSUME IInv, ChargesInv, [Next]_vars, NEW t \in Submission, TrackWrites(t),
           Tracked(tracking[t]) = {}, NEW u, u = req[t].user
    PROVE  Usage(u)' = Usage(u) + req[t].probes
<1> DEFINE S == SubmissionsOf(u)
           f == [s \in S |-> ExpectedOn(tracking[s], day)]
           g == [s \in S |-> ExpectedOn(tracking'[s], day')]
<1>1. day' = day /\ req' = req /\ pc[t] = "track"
  BY WhoInserts DEF TrackWrites, TrackAgent, TrackFails, AfterRow, Abort
<1>2. PICK a \in Agent :
         /\ Tracked(tracking'[t]) = {a}
         /\ tracking'[t][a].expected = req[t].probes /\ tracking'[t][a].day = day
         /\ \A s \in Submission \ {t} : tracking'[s] = tracking[s]
  BY TrackCharges
<1>3. tracking[t] \in Table /\ tracking'[t] \in Table /\ IsFiniteSet(Tracked(tracking[t]))
  BY StepTypeOK DEF IInv, TypeOK, ChargesInv, RowsShape
<1>4. ExpectedOn(tracking[t], day) = 0
  BY <1>3, ChargeIsNat
<1>5. ExpectedOn(tracking'[t], day') = req[t].probes
  <2>1. ExpectedOn(tracking'[t], day) = tracking'[t][a].expected
    BY <1>2, <1>3, ChargeOfOne
  <2>2. QED
    BY <1>1, <1>2, <2>1
<1>6. SubmissionsOf(u)' = S /\ t \in S
  <2>1. \A s \in Submission : pc'[s] # "idle" <=> pc[s] # "idle"
    BY <1>1, WhoInserts DEF IInv, TypeOK, TrackAgent, TrackFails, AfterRow, Abort
  <2>2. QED
    BY <1>1, <2>1 DEF SubmissionsOf
<1>7. IsFiniteSet(S) /\ \A s \in S : ExpectedOn(tracking[s], day) \in Nat
  BY UsageIsSum
<1>8. req[t].probes \in Nat
  BY <1>1, MeasurementsAssumption DEF IInv, SubmissionShape, Request
<1>9. \A s \in S \ {t} : ExpectedOn(tracking'[s], day') = ExpectedOn(tracking[s], day)
  BY <1>1, <1>2 DEF SubmissionsOf
<1>10. /\ DOMAIN f = S /\ \A s \in S : f[s] \in Nat
       /\ DOMAIN g = S /\ \A s \in S : g[s] \in Nat
       /\ \A s \in S \ {t} : g[s] = f[s]
       /\ f[t] = 0 /\ g[t] = req[t].probes
  BY <1>4, <1>5, <1>6, <1>7, <1>8, <1>9
<1>11. Usage(u) = SumFunctionOnSet(f, S) /\ Usage(u)' = SumFunctionOnSet(g, S)
  BY <1>6 DEF Usage, SumFunction
<1> HIDE DEF f, g, S
<1>12. /\ SumFunctionOnSet(f, S) = f[t] + SumFunctionOnSet(f, S \ {t})
       /\ SumFunctionOnSet(g, S) = g[t] + SumFunctionOnSet(g, S \ {t})
  BY <1>6, <1>7, <1>10, SumTakesOut
<1>13. IsFiniteSet(S \ {t})
  BY <1>7, FS_RemoveElement
<1>14. /\ SumFunctionOnSet(g, S \ {t}) = SumFunctionOnSet(f, S \ {t})
       /\ SumFunctionOnSet(f, S \ {t}) \in Nat
  BY <1>10, <1>13, SumsAgree, SumIsNat
<1>15. QED
  BY <1>8, <1>10, <1>11, <1>12, <1>14

----------------------------------------------------------------------------
(* Submissions that are alone between their quota check and their INSERTs. *)

\* A submission enters Charging by its quota check, and is not alone again once
\* it was not.
LEMMA ChargingBegins ==
    ASSUME IInv, [Next]_vars, NEW s \in Submission
    PROVE  /\ pc'[s] \in Charging => CheckQuota(s) \/ (pc[s] \in Charging /\ req'[s] = req[s])
           /\ alone'[s] => alone[s]
<1>1. TypeOK
  BY DEF IInv
<1>2. pc'[s] \in Charging => CheckQuota(s) \/ (pc[s] \in Charging /\ req'[s] = req[s])
  <2>1. CASE ~OwnStep(s)
    BY <2>1, Frame
  <2>2. CASE OwnStep(s)
    BY <1>1, <2>2 DEF TypeOK, OwnStep, SubmissionStep, Submit, Reject, AssignAgent, TrackAgent,
                      TrackWrites, TrackFails, AfterRow, SendBatch, SendFails, Abort, Charging
  <2>3. QED
    BY <2>1, <2>2
<1>3. \/ alone' = alone
      \/ NewDay
      \/ \E t \in Submission : CheckQuota(t)
  BY DEF Next, vars, HealthChanges, Submit, Reject, SubmissionStep, AssignAgent,
         TrackAgent, TrackFails, AfterRow, SendBatch, SendFails, Abort, Consume, ReportLookup,
         ReportApply, ReportFails, CancelRead, CancelUpdate, CancelFails
<1>4. alone'[s] => alone[s]
  BY <1>3 DEF NewDay, CheckQuota
<1>5. QED
  BY <1>2, <1>4

\* The quota check itself, of this submission or of another.
LEMMA AloneChecks ==
    ASSUME IInv, ChargesInv, [Next]_vars, NEW s \in Submission,
           NEW t \in Submission, CheckQuota(t), pc'[s] \in Charging, alone'[s]
    PROVE  Rivals(s)' = {} /\ CanSubmit(s)' = CanSubmit(s)
                           /\ (t = s \/ (pc[s] \in Charging /\ alone[s] /\ Rivals(s) = {}))
                           /\ (t = s => CanSubmit(s))
<1>1. TypeOK /\ AloneShape(s)
  BY DEF IInv, ChargesInv
<1>2. /\ day' = day /\ req' = req /\ tracking' = tracking /\ pc[t] = "quota"
      /\ \A x \in Submission \ {t} : pc'[x] = pc[x]
      /\ pc'[t] \in {"assign", "rejected"}
      /\ pc'[t] = "assign" => /\ CanSubmit(t)
                              /\ \A x \in Submission : alone'[x] => /\ x \notin Rivals(t)
                                                                    /\ x = t => Rivals(t) = {}
  BY <1>1 DEF TypeOK, CheckQuota
<1>3. CanSubmit(s)' = CanSubmit(s)
  <2>1. ~ \E x \in SubmissionsOf(req[s].user) : TrackWrites(x)
    <3>1. ASSUME NEW x \in SubmissionsOf(req[s].user), TrackWrites(x) PROVE FALSE
      <4>1. pc[x] = "track" /\ x \in Submission /\ x # t
        BY <1>2, <3>1 DEF TrackWrites, SubmissionsOf
      <4>2. pc'[x] = "track" /\ tracking'[x] = tracking[x]
        BY <1>2, <4>1
      <4>3. Tracked(tracking'[x]) # Tracked(tracking[x])
        BY <3>1, <4>1, TrackCharges DEF Tracked
      <4>4. QED
        BY <4>2, <4>3
    <3>2. QED
      BY <3>1
  <2>2. Usage(req[s].user)' = Usage(req[s].user)
    BY <1>2, <2>1, UsageKept
  <2>3. QED
    BY <1>2, <2>2 DEF CanSubmit
<1>4. CASE t = s
  <2>1. CanSubmit(s) /\ Rivals(s) = {}
    BY <1>2, <1>4 DEF Charging
  <2>2. Rivals(s)' = {}
    BY <1>2, <1>4, <2>1 DEF Rivals
  <2>3. QED
    BY <1>3, <1>4, <2>1, <2>2
<1>5. CASE t # s
  <2>1. pc[s] \in Charging /\ alone[s] /\ Rivals(s) = {}
    BY <1>1, <1>2, <1>5, ChargingBegins DEF AloneShape
  <2>2. t \notin Rivals(s)'
    BY <1>2, <1>5, <2>1 DEF Rivals, Charging
  <2>3. Rivals(s)' = {}
    BY <1>2, <2>1, <2>2 DEF Rivals
  <2>4. QED
    BY <1>3, <1>5, <2>1, <2>3
<1>6. QED
  BY <1>4, <1>5

\* Every step keeps what the quota check of a submission that is alone found.
LEMMA AloneShapeKept ==
    ASSUME IInv, ChargesInv, [Next]_vars, NEW s \in Submission
    PROVE  AloneShape(s)'
<1> SUFFICES ASSUME pc'[s] \in Charging, alone'[s]
             PROVE  Rivals(s)' = {} /\ (~Listed(tracking'[s]) => CanSubmit(s)')
  BY DEF AloneShape
<1>1. TypeOK /\ AloneShape(s)
  BY DEF IInv, ChargesInv
<1>2. CASE NewDay
  BY <1>1, <1>2 DEF NewDay, subVars
<1>3. ~Listed(tracking'[s]) => ~Listed(tracking[s])
  BY RowsOnlyAdded DEF Listed
<1>4. ASSUME NEW t \in Submission, CheckQuota(t)
      PROVE  Rivals(s)' = {} /\ (~Listed(tracking'[s]) => CanSubmit(s)')
  <2>1. /\ Rivals(s)' = {} /\ CanSubmit(s)' = CanSubmit(s)
        /\ t = s => CanSubmit(s)
        /\ t # s => pc[s] \in Charging /\ alone[s]
    BY <1>4, AloneChecks
  <2>2. QED
    BY <1>1, <1>3, <2>1 DEF AloneShape
<1>5. CASE ~NewDay /\ ~ \E t \in Submission : CheckQuota(t)
  <2>1. pc[s] \in Charging /\ alone[s] /\ req'[s] = req[s]
    BY <1>5, ChargingBegins
  <2>2. Rivals(s) = {} /\ (~Listed(tracking[s]) => CanSubmit(s))
    BY <1>1, <2>1 DEF AloneShape
  <2>3. Rivals(s)' = {}
    BY <1>5, <2>1, <2>2, ChargingBegins DEF Rivals
  <2>4. day' = day
    BY <1>5, DayAdvances
  <2>5. ASSUME ~Listed(tracking'[s]) PROVE CanSubmit(s)'
    <3>1. ASSUME NEW t \in SubmissionsOf(req[s].user), TrackWrites(t) PROVE FALSE
      <4>1. t \in Submission /\ req[t].user = req[s].user /\ pc[t] \in Charging
        BY <3>1 DEF SubmissionsOf, TrackWrites, Charging
      <4>2. t = s
        BY <2>2, <4>1 DEF Rivals
      <4>3. QED
        BY <2>5, <3>1, <4>1, <4>2, TrackCharges DEF Listed
    <3>2. Usage(req[s].user)' = Usage(req[s].user)
      BY <2>1, <2>4, <3>1, UsageKept
    <3>3. QED
      BY <1>3, <2>1, <2>2, <2>5, <3>2 DEF CanSubmit
  <2>6. QED
    BY <2>3, <2>5
<1>6. QED
  BY <1>2, <1>4, <1>5

----------------------------------------------------------------------------
(* The invariant of the charges, and what follows from it.                 *)

LEMMA InitChargesInv == Init => ChargesInv
<1> SUFFICES ASSUME Init PROVE ChargesInv
  OBVIOUS
<1>1. {s \in Submission : pc[s] # "idle"} = {} /\ IsFiniteSet({})
  BY FS_EmptySet DEF Init
<1>2. ASSUME NEW s \in Submission PROVE RowsShape(s) /\ AloneShape(s)
  <2>1. Tracked(tracking[s]) = {} /\ pc[s] = "idle"
    BY DEF Init, Tracked, EmptyTable
  <2>2. QED
    BY <1>1, <2>1 DEF RowsShape, AloneShape, Charging
<1>3. QED
  BY <1>1, <1>2 DEF ChargesInv

LEMMA StepChargesInv == IInv /\ ChargesInv /\ [Next]_vars => ChargesInv'
<1> SUFFICES ASSUME IInv, ChargesInv, [Next]_vars PROVE ChargesInv'
  OBVIOUS
<1>1. IsFiniteSet({s \in Submission : pc[s] # "idle"})'
  BY StartedStaysFinite DEF ChargesInv
<1>2. \A s \in Submission : RowsShape(s)'
  BY RowsShapeKept DEF ChargesInv
<1>3. \A s \in Submission : AloneShape(s)'
  BY AloneShapeKept
<1>4. QED
  BY <1>1, <1>2, <1>3 DEF ChargesInv

\* Rows are charged what was asked for, one by one as the loop over the assigned
\* agents goes, and a check made alone still holds when its INSERT is made.
THEOREM ChargesInvariance == Spec => []ChargesInv
BY InitChargesInv, StepChargesInv, Invariance, PTL DEF Spec

\* Positions, rows, messages, reports, cancellations and charges keep step with
\* each other, in whatever order reports arrive.
THEOREM FullInvariance == Spec => []FullInv
<1>1. IInv /\ ChargesInv => FullInv
  BY DEF FullInv
<1>2. QED
  BY <1>1, Invariance, ChargesInvariance, PTL

\* A successful submission is answered with what it is charged.
THEOREM AnswersMatchCharges == Spec => []AnswerMatchesCharge
<1>1. IInv /\ ChargesInv => AnswerMatchesCharge
  <2> SUFFICES ASSUME IInv, ChargesInv, NEW s \in Submission,
                      pc[s] = "done", untracked[s] = {}
               PROVE  TotalExpected(tracking[s]) = req[s].probes * Len(assigned[s])
    BY DEF AnswerMatchesCharge
  <2>1. req[s].probes \in Nat
    BY MeasurementsAssumption DEF IInv, SubmissionShape, Request
  <2>2. RowsShape(s)
    BY DEF ChargesInv
  <2>3. /\ IsFiniteSet(Tracked(tracking[s]))
        /\ \A a \in Tracked(tracking[s]) : tracking[s][a].expected = req[s].probes
        /\ Cardinality(Tracked(tracking[s])) = Len(assigned[s])
    BY <2>2 DEF RowsShape
  <2>4. QED
    BY <2>1, <2>3, TotalOfEquals
<1>2. QED
  BY <1>1, Invariance, ChargesInvariance, PTL

\* At midnight every usage is zero: no row is of a day to come.
LEMMA UsageEnds ==
    ASSUME IInv, ChargesInv, [Next]_vars, NewDay, NEW u
    PROVE  Usage(u)' = 0
<1> DEFINE S == SubmissionsOf(u)
           g == [s \in S |-> ExpectedOn(tracking[s], day')]
<1>1. tracking' = tracking /\ SubmissionsOf(u)' = S
  BY DEF NewDay, subVars, SubmissionsOf
<1>2. IsFiniteSet(S)
  BY UsageIsSum
<1>3. \A s \in S : ExpectedOn(tracking[s], day') = 0
  <2>1. ASSUME NEW s \in S PROVE ExpectedOn(tracking[s], day') = 0
    <3>1. /\ s \in Submission /\ RowsShape(s) /\ tracking[s] \in Table
      BY DEF SubmissionsOf, ChargesInv, IInv, TypeOK
    <3>2. ASSUME NEW a \in Tracked(tracking[s]) PROVE tracking[s][a].day # day'
      <4>1. tracking[s][a].day \in Nat /\ tracking[s][a].day <= day /\ day \in Nat
        BY <3>1, MeasurementsAssumption DEF RowsShape, Table, Row, Tracked, IInv, TypeOK
      <4>2. QED
        BY <4>1 DEF NewDay
    <3>3. QED
      BY <3>1, <3>2, ChargeIsNat DEF RowsShape
  <2>2. QED
    BY <2>1
<1>4. DOMAIN g = S /\ \A s \in S : g[s] = 0
  BY <1>3
<1>5. Usage(u)' = SumFunctionOnSet(g, S)
  BY <1>1 DEF Usage, SumFunction
<1> HIDE DEF g, S
<1>6. SumFunctionOnSet(g, S) = 0 * Cardinality(S)
  BY <1>2, <1>4, SumOfEquals
<1>7. Cardinality(S) \in Nat
  BY <1>2, FS_CardinalityType
<1>8. QED
  BY <1>5, <1>6, <1>7

\* one user's part of QuotaKeptWhenAlone
Charged(u) == {s \in SubmissionsOf(u) : ExpectedOn(tracking[s], day) > 0}

QuotaKept(u) ==
    (\A s \in Charged(u) : alone[s] /\ Cardinality(Tracked(tracking[s])) = 1)
    => Usage(u) <= Limit[u]

\* Each step keeps a user within the limit: an INSERT of a submission that was
\* alone adds what its quota check allowed, and nothing else adds to the usage.
LEMMA QuotaStaysKept ==
    ASSUME IInv, ChargesInv, [Next]_vars, NEW u \in User, QuotaKept(u)
    PROVE  QuotaKept(u)'
<1> SUFFICES ASSUME \A s \in Charged(u)' : alone'[s] /\ Cardinality(Tracked(tracking'[s])) = 1
             PROVE  Usage(u)' <= Limit[u]
  BY DEF QuotaKept
<1>1. Limit[u] \in Nat
  BY MeasurementsAssumption
<1>2. CASE NewDay
  BY <1>1, <1>2, UsageEnds
<1>3. ASSUME day' = day, NEW t \in SubmissionsOf(u), TrackWrites(t)
      PROVE  Usage(u)' <= Limit[u]
  <2>1. t \in Submission /\ req[t].user = u /\ pc[t] = "track"
    BY <1>3 DEF SubmissionsOf, TrackWrites
  <2>2. PICK a \in Agent :
           /\ tracking[t][a] = None
           /\ Tracked(tracking'[t]) = Tracked(tracking[t]) \union {a}
           /\ tracking'[t][a].expected = req[t].probes /\ tracking'[t][a].day = day
    BY <1>3, <2>1, TrackCharges
  <2>3. req[t].probes \in Nat \ {0}
    BY <2>1, MeasurementsAssumption DEF IInv, SubmissionShape, Request
  <2>4. tracking'[t] \in Table /\ IsFiniteSet(Tracked(tracking[t]))
    BY <2>1, StepTypeOK DEF TypeOK, ChargesInv, RowsShape
  <2>5. /\ IsFiniteSet(Tracked(tracking'[t]))
        /\ Cardinality(Tracked(tracking'[t])) = Cardinality(Tracked(tracking[t])) + 1
        /\ Cardinality(Tracked(tracking[t])) \in Nat
    <3>1. a \notin Tracked(tracking[t])
      BY <2>2 DEF Tracked
    <3>2. QED
      BY <2>2, <2>4, <3>1, FS_AddElement, FS_CardinalityType
  <2>6. t \in Charged(u)'
    <3>1. a \in Tracked(tracking'[t])
      BY <2>2
    <3>2. ExpectedOn(tracking'[t], day) \in Nat /\ ExpectedOn(tracking'[t], day) >= req[t].probes
      BY <2>2, <2>4, <2>5, <3>1, ChargeIsNat
    <3>3. t \in SubmissionsOf(u)'
      BY <1>3, SubmissionsStay
    <3>4. QED
      BY <1>3, <2>3, <3>2, <3>3 DEF Charged
  <2>7. Tracked(tracking[t]) = {}
    BY <2>4, <2>5, <2>6, FS_EmptySet
  <2>8. alone[t] /\ pc[t] \in Charging
    BY <2>1, <2>6, ChargingBegins DEF Charging
  <2>9. CanSubmit(t)
    BY <2>1, <2>7, <2>8 DEF ChargesInv, AloneShape, Listed
  <2>10. Usage(u)' = Usage(u) + req[t].probes
    BY <1>3, <2>1, <2>7, UsageGrows
  <2>11. QED
    BY <2>1, <2>9, <2>10 DEF CanSubmit
<1>4. CASE day' = day /\ ~ \E t \in SubmissionsOf(u) : TrackWrites(t)
  <2>1. Usage(u)' = Usage(u)
    BY <1>4, UsageKept
  <2>2. ASSUME NEW s \in Charged(u)
        PROVE  alone[s] /\ Cardinality(Tracked(tracking[s])) = 1
    <3>1. s \in SubmissionsOf(u) /\ s \in Submission /\ s \in SubmissionsOf(u)' /\ ~TrackWrites(s)
      BY <1>4, SubmissionsStay DEF Charged, SubmissionsOf
    <3>2. /\ Tracked(tracking'[s]) = Tracked(tracking[s])
          /\ ExpectedOn(tracking'[s], day') = ExpectedOn(tracking[s], day)
      BY <1>4, <3>1, ChargeKept DEF ChargesInv
    <3>3. s \in Charged(u)'
      BY <3>1, <3>2 DEF Charged
    <3>4. QED
      BY <3>1, <3>2, <3>3, ChargingBegins
  <2>3. QED
    BY <2>1, <2>2 DEF QuotaKept
<1>5. QED
  BY <1>2, <1>3, <1>4, DayAdvances

\* What the quota check does guarantee, with any number of users, submissions,
\* agents and days: a user whose measurements of the day were each charged to one
\* agent, alone since their quota check, is within the limit.
THEOREM QuotaIsKept == Spec => []QuotaKeptWhenAlone
<1> DEFINE Kept == \A u \in User : QuotaKept(u)
<1>1. Init => Kept
  <2> SUFFICES ASSUME Init, NEW u \in User PROVE Usage(u) <= Limit[u]
    BY DEF QuotaKept
  <2>1. SubmissionsOf(u) = {}
    BY DEF Init, SubmissionsOf
  <2> DEFINE f == [s \in SubmissionsOf(u) |-> ExpectedOn(tracking[s], day)]
  <2>2. DOMAIN f = {}
    BY <2>1
  <2> HIDE DEF f
  <2>3. Usage(u) = SumFunctionOnSet(f, {})
    BY <2>2 DEF Usage, SumFunction, f
  <2>4. SumFunctionOnSet(f, {}) = 0
    BY FS_EmptySet, SumUnfolds
  <2>5. QED
    BY <2>3, <2>4, MeasurementsAssumption
<1>2. IInv /\ ChargesInv /\ Kept /\ [Next]_vars => Kept'
  BY QuotaStaysKept
<1>3. Kept <=> QuotaKeptWhenAlone
  BY DEF QuotaKept, Charged, QuotaKeptWhenAlone
<1>4. QED
  BY <1>1, <1>2, <1>3, Invariance, ChargesInvariance, PTL DEF Spec
=============================================================================
