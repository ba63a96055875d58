-------------------------- MODULE AgentStoreProofs --------------------------
(***************************************************************************)
(* Proofs about AgentStore, for any agents, secrets and number of requests *)
(* in progress, and any duration of its delays.                            *)
(*                                                                         *)
(* Nothing in the store or its readers bounds the age of a healthy agent's *)
(* report: it follows from the clean-up's being due within its period, and *)
(* from handlers that do not take longer than an agent may be silent.       *)
(***************************************************************************)
EXTENDS AgentStore, TLAPS

USE AgentStoreAssumption

----------------------------------------------------------------------------
(* Types.                                                                  *)

LEMMA Typing == TypeOK /\ [Next]_vars => TypeOK'
<1> SUFFICES ASSUME TypeOK, [Next]_vars
             PROVE  TypeOK'
    OBVIOUS
<1> USE DEF Idle, At, Answer
<1>0. \A k \in Call : ~Idle(k) => call[k] \in Request
    BY DEF TypeOK
<1>1. ASSUME NEW k \in Call, NEW a \in Agent, NEW secret \in Secret, AddAgent(k, a, secret)
      PROVE  TypeOK'
    <2>1. [secret |-> secret, config |-> FALSE, health |-> None] \in Record
        BY DEF Record
    <2>2. [op |-> "register", agent |-> a, secret |-> secret, stage |-> "added",
           since |-> clock] \in Request
        BY DEF TypeOK, Request
    <2> QED
        BY <1>1, <2>1, <2>2 DEF AddAgent, TypeOK
<1>2. ASSUME NEW k \in Call, NEW a \in Agent, VerifyForConfig(k, a)
      PROVE  TypeOK'
    <2>1. [op |-> "config", agent |-> a, stage |-> "verified", since |-> clock] \in Request
        BY DEF TypeOK, Request
    <2> QED
        BY <1>2, <2>1 DEF VerifyForConfig, TypeOK
<1>3. ASSUME NEW k \in Call, NEW a \in Agent, PostHealth(k, a)
      PROVE  TypeOK'
    <2>1. PICK healthy \in BOOLEAN, d \in -Behind..Ahead :
              call' = [call EXCEPT ![k] = [op |-> "health", agent |-> a,
                                           health |-> [healthy |-> healthy, last_check |-> clock + d],
                                           stage |-> "parsed", since |-> clock]]
        BY <1>3 DEF PostHealth
    <2>2. [healthy |-> healthy, last_check |-> clock + d] \in Health
        BY DEF TypeOK, Health
    <2>3. [op |-> "health", agent |-> a,
           health |-> [healthy |-> healthy, last_check |-> clock + d],
           stage |-> "parsed", since |-> clock] \in Request
        BY <2>2 DEF TypeOK, Request
    <2> QED
        BY <1>3, <2>1, <2>3 DEF PostHealth, TypeOK
<1>4. ASSUME NEW k \in Call, ReadBack(k)
      PROVE  TypeOK'
    <2> DEFINE r == [call[k] EXCEPT !.stage = "panicked"]
    <2>1. r \in Request
        BY <1>0, <1>4 DEF ReadBack, Request
    <2> QED
        BY <1>4, <2>1 DEF ReadBack, TypeOK
<1>5. ASSUME NEW k \in Call, Unwind(k)
      PROVE  TypeOK'
    BY <1>5 DEF Unwind, TypeOK
<1>6. ASSUME NEW k \in Call, UpdateConfig(k)
      PROVE  TypeOK'
    <2>1. \A a \in Agent : agents[a] # None => [agents[a] EXCEPT !.config = TRUE] \in Record
        BY DEF TypeOK, Record
    <2>2. call[k].agent \in Agent
        BY <1>0, <1>6 DEF UpdateConfig, Request
    <2> QED
        BY <1>6, <2>1, <2>2 DEF UpdateConfig, TypeOK
<1>7. ASSUME NEW k \in Call, VerifyForHealth(k)
      PROVE  TypeOK'
    <2> DEFINE r == [call[k] EXCEPT !.stage = "verified"]
    <2>1. r \in Request
        BY <1>0, <1>7 DEF VerifyForHealth, Request
    <2> QED
        BY <1>7, <2>1 DEF VerifyForHealth, TypeOK
<1>8. ASSUME NEW k \in Call, UpdateHealth(k)
      PROVE  TypeOK'
    <2>1. /\ call[k].agent \in Agent
          /\ call[k].health \in Health
          /\ call[k].since \in Nat
        BY <1>0, <1>8 DEF UpdateHealth, Request
    <2>2. \A a \in Agent : agents[a] # None => [agents[a] EXCEPT !.health = call[k].health] \in Record
        BY <2>1 DEF TypeOK, Record
    <2> QED
        BY <1>8, <2>1, <2>2 DEF UpdateHealth, TypeOK, Later
<1>9. CASE Tick
    BY <1>9 DEF Tick, TypeOK
<1>10. CASE Cleanup
    BY <1>10 DEF Cleanup, TypeOK
<1>11. CASE Restart
    BY <1>11 DEF Restart, TypeOK
<1>12. CASE UNCHANGED vars
    BY <1>12 DEF vars, TypeOK
<1> QED
    BY <1>1, <1>2, <1>3, <1>4, <1>5, <1>6, <1>7, <1>8, <1>9, <1>10, <1>11, <1>12 DEF Next

----------------------------------------------------------------------------
(* The invariant.                                                          *)

LEMMA Initially == Init => IInv
BY DEF Init, IInv, TypeOK, CleanupIsDue, CallsAreYoung, RecordsFollowReports, Idle, Checked

LEMMA DueKept == IInv /\ [Next]_vars => CleanupIsDue'
<1> SUFFICES ASSUME IInv, [Next]_vars
             PROVE  CleanupIsDue'
    OBVIOUS
<1> USE DEF IInv, TypeOK, CleanupIsDue
<1>1. CASE Tick
    BY <1>1 DEF Tick
<1>2. CASE Cleanup
    BY <1>2 DEF Cleanup
<1>3. CASE Restart
    BY <1>3 DEF Restart
<1>4. CASE UNCHANGED <<clock, due>>
    BY <1>4
<1> QED
    BY <1>1, <1>2, <1>3, <1>4
    DEF Next, vars, AddAgent, VerifyForConfig, PostHealth, ReadBack, Unwind, UpdateConfig,
        VerifyForHealth, UpdateHealth

\* What a step makes of a request that is there after it: it is new, or it goes on.
LEMMA CallEffect ==
    ASSUME IInv, [Next]_vars, NEW k \in Call, ~Idle(k)'
    PROVE  \/ /\ call'[k].since = clock
              /\ call'[k].op = "health" => call'[k].health.last_check - clock \in -Behind..Ahead
           \/ /\ ~Idle(k)
              /\ call'[k].since = call[k].since
              /\ call'[k].op = call[k].op
              /\ call'[k].op = "health" => call'[k].health = call[k].health
<1> USE DEF IInv, TypeOK, Idle, At, Answer
<1>0. ~Idle(k) => call[k] \in Request
    OBVIOUS
<1>1. CASE \E i \in Call, a \in Agent : \E secret \in Secret : AddAgent(i, a, secret)
    BY <1>1 DEF AddAgent
<1>2. CASE \E i \in Call, a \in Agent : VerifyForConfig(i, a)
    BY <1>2 DEF VerifyForConfig
<1>3. CASE \E i \in Call, a \in Agent : PostHealth(i, a)
    BY <1>3 DEF PostHealth
<1>4. CASE \E i \in Call : ReadBack(i)
    BY <1>0, <1>4 DEF ReadBack, Request
<1>5. CASE \E i \in Call : Unwind(i) \/ UpdateConfig(i) \/ UpdateHealth(i)
    BY <1>5 DEF Unwind, UpdateConfig, UpdateHealth
<1>6. CASE \E i \in Call : VerifyForHealth(i)
    BY <1>0, <1>6 DEF VerifyForHealth, Request
<1>7. CASE UNCHANGED call
    BY <1>7
<1>8. CASE Restart
    BY <1>8 DEF Restart
<1> QED
    BY <1>1, <1>2, <1>3, <1>4, <1>5, <1>6, <1>7, <1>8 DEF Next, vars, Tick, Cleanup

LEMMA CallsKept == IInv /\ [Next]_vars => CallsAreYoung'
<1> SUFFICES ASSUME IInv, [Next]_vars, NEW k \in Call, ~Idle(k)'
             PROVE  /\ clock' - Latency <= call'[k].since /\ call'[k].since <= clock'
                    /\ call'[k].op = "health" =>
                          /\ call'[k].health.last_check >= call'[k].since - Behind
                          /\ call'[k].health.last_check <= call'[k].since + Ahead
    BY DEF CallsAreYoung
<1>1. clock' = clock \/ Tick
    BY DEF Next, vars, AddAgent, VerifyForConfig, PostHealth, ReadBack, Unwind, UpdateConfig,
           VerifyForHealth, UpdateHealth, Cleanup, Restart
<1>2. CASE Tick
    BY <1>2 DEF Tick, IInv, CallsAreYoung, TypeOK, Idle, Request, Health
<1>3. CASE clock' = clock
    <2>1. CASE /\ call'[k].since = clock
               /\ call'[k].op = "health" => call'[k].health.last_check - clock \in -Behind..Ahead
        <3>1. TypeOK'
            BY Typing DEF IInv
        <3>2. call'[k].op = "health" => call'[k].health.last_check \in Int
            BY <3>1 DEF TypeOK, Idle, Request, Health
        <3> QED
            BY <1>3, <2>1, <3>2 DEF IInv, TypeOK
    <2>2. CASE /\ ~Idle(k)
               /\ call'[k].since = call[k].since
               /\ call'[k].op = call[k].op
               /\ call'[k].op = "health" => call'[k].health = call[k].health
        BY <1>3, <2>2 DEF IInv, CallsAreYoung
    <2> QED
        BY <2>1, <2>2, CallEffect
<1> QED
    BY <1>1, <1>2, <1>3

\* What a step makes of a record with a health status: it is the one it had, and its
\* last report too, or a handler brings it a new one.
LEMMA RecordEffect ==
    ASSUME IInv, [Next]_vars, NEW a \in Agent, Checked(a)'
    PROVE  \/ /\ Checked(a)
              /\ agents'[a].health = agents[a].health
              /\ received'[a] = received[a]
              /\ Cleanup => Age(agents[a].health) <= MaxAge
           \/ \E k \in Call :
                 /\ At(k, "health", "verified")
                 /\ agents'[a].health = call[k].health
                 /\ received'[a] = Later(received[a], call[k].since)
                 /\ UNCHANGED <<clock, due>>
<1> USE DEF IInv, TypeOK, Checked
<1>0. agents[a] # None => agents[a] \in Record
    OBVIOUS
<1>1. CASE \E k \in Call, b \in Agent : \E secret \in Secret : AddAgent(k, b, secret)
    BY <1>1 DEF AddAgent, Cleanup, Idle
<1>2. CASE UNCHANGED <<agents, received>> /\ ~Cleanup
    BY <1>2
<1>3. CASE \E k \in Call : UpdateConfig(k)
    BY <1>0, <1>3 DEF UpdateConfig, Record, At, Answer, Idle, Cleanup
<1>4. CASE \E k \in Call : UpdateHealth(k)
    <2>1. PICK k \in Call : UpdateHealth(k)
        BY <1>4
    <2>2. call[k].agent \in Agent
        BY <2>1 DEF UpdateHealth, At, Idle, Request
    <2>3. CASE call[k].agent = a
        BY <1>0, <2>1, <2>2, <2>3 DEF UpdateHealth, Record
    <2>4. CASE call[k].agent # a
        BY <2>1, <2>2, <2>4 DEF UpdateHealth, At, Idle, Answer, Cleanup
    <2> QED
        BY <2>3, <2>4
<1>5. CASE Cleanup
    BY <1>0, <1>5 DEF Cleanup, Stale, Age, Record, Health
<1>6. CASE Restart
    BY <1>6 DEF Restart
<1> QED
    BY <1>1, <1>2, <1>3, <1>4, <1>5, <1>6
    DEF Next, vars, VerifyForConfig, PostHealth, ReadBack, Unwind, VerifyForHealth, Tick,
        Cleanup, At, Idle, Answer

\* What moves the time and the reports received.
LEMMA Moves ==
    ASSUME [Next]_vars
    PROVE  /\ UNCHANGED <<clock, due>> \/ Tick \/ Cleanup \/ Restart
           /\ UNCHANGED received \/ \E k \in Call : UpdateHealth(k)
BY DEF Next, vars, AddAgent, VerifyForConfig, PostHealth, ReadBack, Unwind, UpdateConfig,
       VerifyForHealth, UpdateHealth, Tick, Cleanup, Restart

LEMMA RecordsKept == IInv /\ [Next]_vars => RecordsFollowReports'
<1> SUFFICES ASSUME IInv, [Next]_vars, NEW a \in Agent
             PROVE  /\ received'[a] <= clock'
                    /\ Checked(a)' =>
                          /\ agents'[a].health.last_check <= received'[a] + Ahead
                          /\ agents'[a].health.last_check >= received'[a] - Latency - Behind
                          /\ due' - received'[a] <= MaxAge + Ahead + Period
    BY DEF RecordsFollowReports
<1> USE DEF IInv, RecordsFollowReports
<1>1. TypeOK /\ TypeOK'
    BY Typing
<1>2. received'[a] <= clock'
    <2>1. CASE \E k \in Call : UpdateHealth(k)
        BY <1>1, <2>1 DEF UpdateHealth, CallsAreYoung, TypeOK, Later, At, Idle, Request
    <2>2. CASE UNCHANGED received
        <3>1. clock' >= clock
            BY <1>1, Moves DEF TypeOK, Tick, Cleanup, Restart
        <3> QED
            BY <1>1, <2>2, <3>1 DEF TypeOK
    <2> QED
        BY <2>1, <2>2, Moves
<1>3. CASE Checked(a)'
    <2>1. agents'[a].health \in Health
        BY <1>1, <1>3 DEF TypeOK, Checked, Record
    <2>2. CASE /\ Checked(a)
               /\ agents'[a].health = agents[a].health
               /\ received'[a] = received[a]
               /\ Cleanup => Age(agents[a].health) <= MaxAge
        <3>1. CASE Cleanup
            BY <1>1, <1>2, <2>1, <2>2, <3>1 DEF Cleanup, CleanupIsDue, Age, TypeOK, Health
        <3>2. CASE due' <= due
            BY <1>1, <1>2, <2>1, <2>2, <3>2 DEF TypeOK, Health
        <3>3. due' <= due \/ Cleanup
            BY <1>1, Moves DEF CleanupIsDue, TypeOK, Tick, Restart
        <3> QED
            BY <3>1, <3>2, <3>3
    <2>3. ASSUME NEW k \in Call,
                 At(k, "health", "verified"),
                 agents'[a].health = call[k].health,
                 received'[a] = Later(received[a], call[k].since),
                 UNCHANGED <<clock, due>>
          PROVE  /\ agents'[a].health.last_check <= received'[a] + Ahead
                 /\ agents'[a].health.last_check >= received'[a] - Latency - Behind
                 /\ due' - received'[a] <= MaxAge + Ahead + Period
        <3>1. call[k].since \in Nat
            BY <1>1, <2>3 DEF TypeOK, At, Idle, Request
        <3>2. /\ clock - Latency <= call[k].since /\ call[k].since <= clock
              /\ call[k].health.last_check >= call[k].since - Behind
              /\ call[k].health.last_check <= call[k].since + Ahead
            BY <2>3 DEF CallsAreYoung, At
        <3>3. /\ call[k].since <= received'[a]
              /\ received'[a] <= clock
              /\ received'[a] \in Nat
            BY <1>1, <2>3, <3>1, <3>2 DEF TypeOK, Later
        <3> QED
            BY <1>1, <2>1, <2>3, <3>1, <3>2, <3>3 DEF TypeOK, Health, CleanupIsDue
    <2> QED
        BY <1>2, <1>3, <2>2, <2>3, RecordEffect
<1> QED
    BY <1>2, <1>3

\* Types, the nearness of the clean-up, the age of handlers and the age of records.
THEOREM Invariance == Spec => []IInv
<1>1. IInv /\ [Next]_vars => IInv'
    BY Typing, DueKept, CallsKept, RecordsKept DEF IInv
<1> QED
    BY <1>1, Initially, PTL DEF Spec

\* Every variable of the store keeps to its type.
THEOREM TypeCorrect == Spec => []TypeOK
BY Invariance, PTL DEF IInv

----------------------------------------------------------------------------
(* What the readers of the store may rely on.                              *)

\* An agent that submit_probes takes for healthy has reported within the age, the
\* period of the clean-up, and what its clock runs ahead.
THEOREM HealthyIsRecent == Spec => []EligibleReportedLately
<1>1. IInv => EligibleReportedLately
    <2> SUFFICES ASSUME IInv, NEW a \in Eligible
                 PROVE  clock - received[a] <= MaxAge + Ahead + Period
        BY DEF EligibleReportedLately
    <2>1. due - received[a] <= MaxAge + Ahead + Period
        BY DEF IInv, RecordsFollowReports, Eligible
    <2> QED
        BY <2>1 DEF IInv, TypeOK, CleanupIsDue, Eligible
<1> QED
    BY <1>1, Invariance, PTL

\* list_agents lists an agent no longer after its last report than the age and what
\* its clock runs ahead.
THEOREM ListedIsRecent == Spec => []ListedReportedRecently
<1>1. IInv => ListedReportedRecently
    <2> SUFFICES ASSUME IInv, NEW a \in Listed
                 PROVE  clock - received[a] <= MaxAge + Ahead
        BY DEF ListedReportedRecently
    <2>1. agents[a].health \in Health
        BY DEF IInv, TypeOK, Listed, Checked, Record
    <2> QED
        BY <2>1 DEF IInv, TypeOK, RecordsFollowReports, Listed, Age, Health
<1> QED
    BY <1>1, Invariance, PTL

\* The clean-up removes only agents that were silent for the age, less what
\* overtaking handlers and the agent's clock take off.
THEOREM RemovedIsSilent == Spec => ReportingAgentsStay
<1>1. IInv /\ [Next]_vars
      => [Cleanup => \A a \in Agent :
             agents[a] # None /\ agents'[a] = None
             => clock - received[a] > MaxAge - Latency - Behind]_vars
    <2> SUFFICES ASSUME IInv, Cleanup, NEW a \in Agent, agents[a] # None, agents'[a] = None
                 PROVE  clock - received[a] > MaxAge - Latency - Behind
        OBVIOUS
    <2>1. a \in Stale
        BY DEF Cleanup, IInv, TypeOK
    <2>2. agents[a].health \in Health
        BY <2>1 DEF IInv, TypeOK, Stale, Checked, Record
    <2> QED
        BY <2>1, <2>2 DEF IInv, TypeOK, RecordsFollowReports, Stale, Age, Health
<1> QED
    BY <1>1, Invariance, PTL DEF Spec, ReportingAgentsStay

\* No registration or update takes from a record what another has put there.
THEOREM RecordsPersist == Spec => RecordsAreKept
<1> DEFINE Kept == \A a \in Agent :
                      agents[a] # None /\ agents'[a] # None
                      => /\ agents'[a].secret = agents[a].secret
                         /\ agents[a].config => agents'[a].config
                         /\ agents[a].health # None => agents'[a].health # None
<1>1. IInv /\ [Next]_vars => [Kept]_vars
    <2> SUFFICES ASSUME IInv, Next, NEW a \in Agent, agents[a] # None, agents'[a] # None
                 PROVE  /\ agents'[a].secret = agents[a].secret
                        /\ agents[a].config => agents'[a].config
                        /\ agents[a].health # None => agents'[a].health # None
        OBVIOUS
    <2>1. agents[a] \in Record
        BY DEF IInv, TypeOK
    <2>2. CASE \E k \in Call, b \in Agent : \E secret \in Secret : AddAgent(k, b, secret)
        BY <2>2 DEF IInv, TypeOK, AddAgent
    <2>3. CASE \E k \in Call : UpdateConfig(k)
        BY <2>1, <2>3 DEF IInv, TypeOK, UpdateConfig, Record
    <2>4. CASE \E k \in Call : UpdateHealth(k)
        <3>1. PICK k \in Call : UpdateHealth(k)
            BY <2>4
        <3>2. call[k].health # None
            BY <3>1, NoneIsNoRecord DEF IInv, TypeOK, UpdateHealth, At, Idle, Request
        <3> QED
            BY <2>1, <3>1, <3>2 DEF IInv, TypeOK, UpdateHealth, Record
    <2>5. CASE Cleanup \/ Restart \/ UNCHANGED agents
        BY <2>5 DEF Cleanup, Restart
    <2> QED
        BY <2>2, <2>3, <2>4, <2>5
        DEF Next, VerifyForConfig, PostHealth, ReadBack, Unwind, VerifyForHealth, Tick
<1> QED
    BY <1>1, Invariance, PTL DEF Spec, RecordsAreKept
=============================================================================
