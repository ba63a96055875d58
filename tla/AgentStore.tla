----------------------------- MODULE AgentStore -----------------------------
(***************************************************************************)
(* The agent store: a map behind one read-write lock, in memory, that the   *)
(* agents' handlers fill, that a task cleans up every Period, and that a   *)
(* restart empties.  A handler takes the lock once per call of the store,  *)
(* so the handlers with two calls are two actions here, and others run in  *)
(* between.                                                                *)
(*                                                                         *)
(* Time is in units of the shortest delay that matters.  Of a record the   *)
(* model keeps what the program decides by: the secret, whether there is a *)
(* configuration, and the health status with its last_check.               *)
(***************************************************************************)
EXTENDS Integers

CONSTANTS
    Agent,         \* agent ids
    Secret,        \* secrets agents register with
    Call,          \* requests in progress at a time
    None,          \* no record, no health status, no request
    MaxAge,        \* the 10 minutes of list_agents and of the clean-up
    Period,        \* the 5 minutes of the clean-up task's interval
    Latency,       \* how long a handler may take, from parsing its request
    Behind,        \* the last_check an agent posts is of its own clock, which may
    Ahead,         \* run this far behind or ahead of the gateway's
    MaxTime,       \* bound: time
    Restarts       \* may the gateway restart?

ASSUME AgentStoreAssumption ==
    /\ MaxAge \in Nat
    /\ Period \in Nat \ {0}
    /\ Latency \in 0..MaxAge
    /\ Behind \in Nat
    /\ Ahead \in Nat
    /\ MaxTime \in Nat
    /\ Restarts \in BOOLEAN

VARIABLES
    clock,         \* the gateway's time
    due,           \* when the clean-up task's interval ticks next
    agents,        \* AgentStore.agents
    call,          \* the requests that have begun
    received       \* history: of the health statuses applied to a record of
                   \* each id, when the last one to arrive was received

vars == <<clock, due, agents, call, received>>

Health == [healthy : BOOLEAN, last_check : Int]

Record == [secret : Secret, config : BOOLEAN, health : Health \union {None}]

Request ==
    [op : {"register"}, agent : Agent, secret : Secret,
     stage : {"added", "panicked"}, since : Nat]
    \union [op : {"config"}, agent : Agent, stage : {"verified"}, since : Nat]
    \union [op : {"health"}, agent : Agent, health : Health,
            stage : {"parsed", "verified"}, since : Nat]

ASSUME NoneIsNoRecord == None \notin Record \union Health \union Request

Init ==
    /\ clock = 0
    /\ due = 0
    /\ agents = [a \in Agent |-> None]
    /\ call = [k \in Call |-> None]
    /\ received = [a \in Agent |-> 0]

----------------------------------------------------------------------------
(* What the store answers.                                                 *)

Age(health) == clock - health.last_check

Checked(a) == agents[a] # None /\ agents[a].health # None

\* Mutation of Listed: by the agents' verdict instead.
ListedByVerdict == {a \in Agent : Checked(a) /\ agents[a].health.healthy}

\* list_healthy_agents, by the time of the last check only
Listed == {a \in Agent : Checked(a) /\ Age(agents[a].health) <= MaxAge}

\* the agents submit_probes takes, by their own verdict only
Eligible == {a \in Agent : Checked(a) /\ agents[a].health.healthy}

\* Mutations of Stale: agents that called themselves healthy are kept; the period
\* is taken for the age.
StaleByVerdict ==
    {a \in Agent : /\ Checked(a)
                   /\ ~agents[a].health.healthy
                   /\ Age(agents[a].health) > MaxAge}

StaleByPeriod == {a \in Agent : Checked(a) /\ Age(agents[a].health) > Period}

\* the records remove_stale_agents removes
Stale == {a \in Agent : Checked(a) /\ Age(agents[a].health) > MaxAge}

----------------------------------------------------------------------------
(* The requests.                                                           *)

Idle(k) == call[k] = None

Answer(k) == call' = [call EXCEPT ![k] = None]

At(k, op, stage) == ~Idle(k) /\ call[k].op = op /\ call[k].stage = stage

\* Mutation of AddAgent: registering again starts afresh.
AddAgentAfresh(k, a, secret) ==
    /\ Idle(k)
    /\ agents[a] # None => agents[a].secret = secret
    /\ agents' = [agents EXCEPT ![a] = [secret |-> secret, config |-> FALSE, health |-> None]]
    /\ call' = [call EXCEPT ![k] = [op |-> "register", agent |-> a, secret |-> secret,
                                    stage |-> "added", since |-> clock]]
    /\ UNCHANGED <<clock, due, received>>

\* register_agent: add_agent refuses an id registered with another secret (409)
\* and leaves the record of one registered with the same secret as it is.
AddAgent(k, a, secret) ==
    /\ Idle(k)
    /\ agents[a] # None => agents[a].secret = secret
    /\ agents' = [agents EXCEPT ![a] =
                    IF @ = None THEN [secret |-> secret, config |-> FALSE, health |-> None] ELSE @]
    /\ call' = [call EXCEPT ![k] = [op |-> "register", agent |-> a, secret |-> secret,
                                    stage |-> "added", since |-> clock]]
    /\ UNCHANGED <<clock, due, received>>

\* The record is read back and unwrapped: the handler panics if it is gone.
ReadBack(k) ==
    /\ At(k, "register", "added")
    /\ IF agents[call[k].agent] # None
       THEN Answer(k)
       ELSE call' = [call EXCEPT ![k].stage = "panicked"]
    /\ UNCHANGED <<clock, due, agents, received>>

\* The connection of the panicked handler is closed.
Unwind(k) ==
    /\ At(k, "register", "panicked")
    /\ Answer(k)
    /\ UNCHANGED <<clock, due, agents, received>>

\* update_agent_config: "Verify agent exists" (404 if not), then update_config,
\* which does nothing, with the same answer, if the record has gone since.
VerifyForConfig(k, a) ==
    /\ Idle(k)
    /\ agents[a] # None
    /\ call' = [call EXCEPT ![k] = [op |-> "config", agent |-> a, stage |-> "verified",
                                    since |-> clock]]
    /\ UNCHANGED <<clock, due, agents, received>>

UpdateConfig(k) ==
    LET a == call[k].agent
    IN  /\ At(k, "config", "verified")
        /\ agents' = IF agents[a] # None THEN [agents EXCEPT ![a].config = TRUE] ELSE agents
        /\ Answer(k)
        /\ UNCHANGED <<clock, due, received>>

\* update_agent_health: a status without last_check gets the time it is parsed.
PostHealth(k, a) ==
    /\ Idle(k)
    /\ \E healthy \in BOOLEAN, d \in -Behind..Ahead :
          call' = [call EXCEPT ![k] = [op |-> "health", agent |-> a,
                                       health |-> [healthy |-> healthy, last_check |-> clock + d],
                                       stage |-> "parsed", since |-> clock]]
    /\ UNCHANGED <<clock, due, agents, received>>

Later(s, t) == IF s > t THEN s ELSE t

VerifyForHealth(k) ==
    /\ At(k, "health", "parsed")
    /\ IF agents[call[k].agent] # None
       THEN call' = [call EXCEPT ![k].stage = "verified"]
       ELSE Answer(k)
    /\ UNCHANGED <<clock, due, agents, received>>

UpdateHealth(k) ==
    LET a == call[k].agent
    IN  /\ At(k, "health", "verified")
        /\ IF agents[a] # None
           THEN /\ agents' = [agents EXCEPT ![a].health = call[k].health]
                /\ received' = [received EXCEPT ![a] = Later(@, call[k].since)]
           ELSE UNCHANGED <<agents, received>>
        /\ Answer(k)
        /\ UNCHANGED <<clock, due>>

----------------------------------------------------------------------------
(* Time, the clean-up task and restarts.                                   *)

\* Time passes while the task waits and no handler has reached its Latency.
Tick ==
    /\ clock < MaxTime
    /\ clock < due
    /\ \A k \in Call : ~Idle(k) => clock - call[k].since < Latency
    /\ clock' = clock + 1
    /\ UNCHANGED <<due, agents, call, received>>

\* The first tick of the interval is immediate.
Cleanup ==
    /\ clock >= due
    /\ due' = due + Period
    /\ agents' = [a \in Agent |-> IF a \in Stale THEN None ELSE agents[a]]
    /\ UNCHANGED <<clock, call, received>>

Restart ==
    /\ Restarts
    /\ due' = clock
    /\ agents' = [a \in Agent |-> None]
    /\ call' = [k \in Call |-> None]
    /\ UNCHANGED <<clock, received>>

Next ==
    \/ \E k \in Call, a \in Agent :
          \/ \E secret \in Secret : AddAgent(k, a, secret)
          \/ VerifyForConfig(k, a)
          \/ PostHealth(k, a)
    \/ \E k \in Call :
          \/ ReadBack(k) \/ Unwind(k)
          \/ UpdateConfig(k)
          \/ VerifyForHealth(k) \/ UpdateHealth(k)
    \/ Tick \/ Cleanup \/ Restart

Spec == Init /\ [][Next]_vars

----------------------------------------------------------------------------
(* Properties.                                                             *)

\* Every variable keeps to its type.
TypeOK ==
    /\ clock \in 0..MaxTime
    /\ due \in Nat
    /\ agents \in [Agent -> Record \union {None}]
    /\ call \in [Call -> Request \union {None}]
    /\ received \in [Agent -> Nat]

\* An agent that submit_probes would take has reported lately, although neither
\* the handler nor the store compares its last_check with the time: the clean-up
\* task alone keeps it fresh, to within its period and the agent's clock.
EligibleReportedLately ==
    \A a \in Eligible : clock - received[a] <= MaxAge + Ahead + Period

\* list_agents, "Only return agents that have sent a health check in the last 10
\* minutes" (lib.rs:127), is as exact as the clocks of the agents.
ListedReportedRecently == \A a \in Listed : clock - received[a] <= MaxAge + Ahead

\* register_agent asserts, by its unwrap (lib.rs:313), that the record it has
\* just added or found is there to be read back.
RegisteredIsThere == \A k \in Call : ~At(k, "register", "panicked")

\* The clean-up removes no agent that keeps reporting: a removed one has had no
\* report applied that was received within MaxAge, less what handlers that
\* overtake each other, and the agent's clock, can take off its last_check.
ReportingAgentsStay ==
    [][Cleanup => \A a \in Agent :
          agents[a] # None /\ agents'[a] = None
          => clock - received[a] > MaxAge - Latency - Behind]_vars

\* Short of a removal, an id keeps its secret, its configuration and its health
\* status, whichever registrations and updates of it overlap.
RecordsAreKept ==
    [][\A a \in Agent :
          agents[a] # None /\ agents'[a] # None
          => /\ agents'[a].secret = agents[a].secret
             /\ agents[a].config => agents'[a].config
             /\ agents[a].health # None => agents'[a].health # None]_vars

----------------------------------------------------------------------------
(* The inductive invariant behind them.                                    *)

\* The clean-up task is never late, and its next tick never far.
CleanupIsDue == clock <= due /\ due <= clock + Period

\* Handlers keep within their Latency, and the times they carry within the clocks.
CallsAreYoung ==
    \A k \in Call : ~Idle(k) =>
        /\ clock - Latency <= call[k].since /\ call[k].since <= clock
        /\ call[k].op = "health" =>
              /\ call[k].health.last_check >= call[k].since - Behind
              /\ call[k].health.last_check <= call[k].since + Ahead

\* A record's last_check follows the reports received, and what the last clean-up
\* left, or a handler brought since, will not be too old by the next.
RecordsFollowReports ==
    \A a \in Agent :
        /\ received[a] <= clock
        /\ Checked(a) =>
              /\ agents[a].health.last_check <= received[a] + Ahead
              /\ agents[a].health.last_check >= received[a] - Latency - Behind
              /\ due - received[a] <= MaxAge + Ahead + Period

\* All of it holds in every state, and is kept by every step.
IInv == TypeOK /\ CleanupIsDue /\ CallsAreYoung /\ RecordsFollowReports
=============================================================================
