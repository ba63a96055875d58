# A verification development of saimiris-gateway

saimiris-gateway is an HTTP service between clients who submit network probes, the
agents that send them, a Kafka topic that carries them and a PostgreSQL database that
remembers who asked for what. This directory holds TLA+ modules that model its
handlers, TLC configurations that check them on small instances, and proofs checked by
TLAPS for every value of the constants.

Paths below are relative to the repository (`src/lib.rs` is the program's `lib.rs`);
`PROJECT.json` maps every definition to the lines it models, with the repository under
`src/`.

## Inventory

| Component | State | Operations | Interacts with |
|---|---|---|---|
| Measurement submission, `submit_probes` (lib.rs:353) | locals of the handler: user id, assigned agents, batches | check the probes, the user id, the source address, the quota; assign healthy agents; one INSERT per agent; one Kafka message per batch | database, agent store, Kafka |
| Status reports, `update_measurement_status` (lib.rs:990) | none | look the row up, UPDATE it | database; called by agents |
| Cancellation, `cancel_measurement_handler` (lib.rs:882) | none | read the status, UPDATE the open rows | database |
| Measurement queries (lib.rs:674, 795) | none | list, filter, show | database |
| `measurement_tracking` and the view `measurement_status` (database.rs, migrations) | one row per measurement and agent | INSERT, UPDATE progress, UPDATE cancelled, SELECT | all handlers |
| User ids, `get_or_create_user_id` (lib.rs:1087) | table `user_id_mappings` | look up; insert a deterministic, then random ids | database; called by most client handlers |
| User prefixes (lib.rs:189, 1223-1290) | none | address arithmetic | user ids, agent configurations |
| Agent store (agent.rs) and agent handlers (lib.rs:126, 254-350) | in-memory map behind a read-write lock | register, configure, report health, list, clean up | submission reads it |
| Clean-up task (main.rs:235) | an interval timer | remove agents with an old health check | agent store |
| Client authentication (jwt.rs) | cache of signing keys, time of its last refresh | validate a token, refresh the keys | every client handler |
| Agent authentication (lib.rs:105) | none | compare a header | every agent handler |
| Probe validation and packing (probe.rs) | none | validate, convert, pack to 1 MB batches | submission |
| Kafka producer (kafka.rs) | librdkafka's queue | send, with a 5 s message timeout and no idempotence | submission |

What is hard here is not in any single function. Handlers run concurrently and share
the database without transactions: every handler reads with one statement and writes
with another, and `submit_probes` makes a series of independent writes to two systems.
Requests are dropped when their client disconnects, at any await. Statements fail though
the database may have committed them, and sends time out though the message may be
delivered. Agents report concurrently with the handler that still
creates and sends their measurement, and with users who cancel it. The agent store has
its own clock-driven task and forgets everything at a restart. Client requests share a
cache of signing keys whose content and age are behind two locks.

`PROJECT.json` lists each hazard at its line with the properties that cover it.

What makes each component correct:

* submission: rows before messages, messages in order with the end mark on the last,
  no trace of a rejected request, the charge the answer states, the quota;
* reports and cancellations: rows never lost or un-cancelled, racing cancellations
  decisive, and every cancelled row in one answer unless its call failed; completion only after everything was sent, progress monotone
  for agents that report in order, every measurement ends;
* user ids: one id per user, unique, stable, the same for all concurrent callers, and
  the deterministic one unless another user holds it or an error was misread;
* queries: a status answer whose parts fit together, lists by state that miss nothing;
* agent store: agents offered and taken are fresh, reporting agents are kept, updates
  and repeated registrations preserve a record;
* client authentication: keys no older than the cache's duration, whoever refreshes them
  and in whatever order, and no request stuck on a lock;
* user prefixes: disjoint for users of one agent, inside its prefix, and the same where
  they are offered and where addresses are checked;
* validation and packing: what is validated can be packed; batches hold every probe once
  and in order, within the limit, and none is closed early.

## Modules

| Module | What it is |
|---|---|
| `Tracking` | The rows of one measurement as a function from agents to rows, the statements that write them, the view's columns. Constant-level, no state. |
| `Measurements` | The handlers of submission, reports and cancellation, with agents, Kafka and the agent store as their environment. |
| `MeasurementLife` | What they promise of a measurement whose agents report in order: the abstract specification that `Measurements` implements. |
| `MCMeasurements` | Instances for TLC. |
| `MeasurementQueries` | `Measurements` with a user who asks for a status or for lists meanwhile. |
| `MCMeasurementQueries` | Instances for TLC. |
| `MeasurementsProofs` | The inductive invariant `IInv` of `Measurements`. |
| `Sums` | Facts about sums over finite sets, for the quota and the totals. |
| `MeasurementsSafety` | The safety and action properties of `Measurements`, what measurements are charged included, from `IInv` and `ChargesInv`. |
| `MeasurementsInOrder` | What holds with agents that await each answer: progress, the abstract measurement, and `MeasurementQueries`. |
| `UserIds` | Concurrent calls of `get_or_create_user_id`, a statement per action. |
| `UserIdAllocation` | What they promise: the abstract specification that `UserIds` implements, and that `SubmitProbes` uses. |
| `MCUserIds` | Instances for TLC. |
| `UserIdsProofs` | Proofs of the invariants and of the implementation. |
| `AgentStore` | The store, its handlers, the clean-up task, time and restarts. |
| `MCAgentStore` | Instances for TLC. |
| `AgentStoreProofs` | Proofs of its properties from an inductive invariant over times. |
| `JwksCache` | The signing keys that concurrent requests share and refresh. |
| `MCJwksCache` | Instances for TLC. |
| `JwksCacheProofs` | Proofs of its properties. |
| `ProbeBatches` | Validation of probes and their packing into batches. |
| `UserPrefix` | The address arithmetic. Constant-level, no state. |
| `SubmitProbes` | `submit_probes` up to its batches: composes `ProbeBatches`, `UserPrefix`, `UserIdAllocation` and the agents' configurations. |
| `MCSubmitProbes` | Instances for TLC. |
| `SubmitProbesProofs` | Proofs about the packing, the arithmetic and the handler. |

Definitions whose comment begins with "Mutation of" are plausible bugs: variants of the
definition that follows them. No specification uses them. Substituted for the original
they must make the property that `PROJECT.json` pairs them with fail, which shows that
the property depends on the code it is about.

### Measurements

A step is what a handler does from one await to the next.

| Code | Action |
|---|---|
| `submit_probes` up to the quota check | `Submit`, `Reject` |
| `can_user_submit_probes` | `CheckQuota` (`Usage`, `CanSubmit`) |
| loop over `request.metadata` | `AssignAgent`, once per agent |
| loop over `assigned_agents` | `TrackAgent`, `TrackFails`, once per agent |
| loop over the batches | `SendBatch`, `SendFails`, once per batch |
| the handler's future is dropped | `Abort` |
| `update_measurement_status` | `ReportLookup`, `ReportApply`, `ReportFails` |
| `cancel_measurement_handler` | `CancelRead`, `CancelUpdate`, `CancelFails` |
| the agents | `Consume` |
| the agent store, the calendar | `HealthChanges`, `NewDay` |

The INSERT and the two UPDATEs are operators of their own: `TrackWrites`, `ReportWrites`
and `CancelWrites`. An action that fails, or drops its request, with such a statement
under way either leaves the table alone or makes the same write as the one that succeeds:
a connection that is lost during `execute` says nothing of the commit. So
`TrackFails` may leave the row of an agent it logs as failed, a report that was answered
500 may have counted, and a cancellation that was answered 500 may have cancelled its
rows. `ClaimsShareOutRows` says what remains true then: every cancelled row is in the
`agents_cancelled` of exactly one answer, except the rows of calls that failed after their
UPDATE, which are in none; what those calls changed stays in `claimed` as history. A statement that is not acknowledged is
assumed to commit, if at all, before its failure is noticed; one that the server still
executes after its handler has gone on is not modelled, and neither is a message that
appears in Kafka later than that.

`pc`, `next`, `assigned` and `req` are the handler's position and locals; `cpc` and
`claimed` those of a cancellation; `reports` holds requests in flight with the stage
they have reached. A submission draws a fresh UUID, so the submission itself names its
measurement. `untracked` and `alone` are history variables that no action reads.

Abstracted: a probe is counted, not described; a batch is a number (packing validated
probes does not fail, as `SubmitProbes` shows, so its error branch is not an action, and
makes at least one batch and at most one per probe); source addresses, user ids and their
errors are in `Reject`, which may happen to any request before the quota check; rows drop ids and `updated_at`; the quota's `u32` sum does not wrap, since the
limit keeps it far below 2^32. A unique row per agent comes from the UNIQUE constraint
of the table: an agent named twice in a request makes its second INSERT fail. Agents are
external to the repository. The model lets one consume each message that has a header
for it, in order, and post a report per batch with its running count and the message's
`end_of_measurement`; with `InOrder` it awaits each answer, without it reports are
answered in any order.

### MeasurementLife

The abstract measurement has four sets: which measurements are closed, and for each the
agents that have joined it, that have finished it, and that it was cancelled for. Agents
join until it is closed and finish afterwards, `Cancel` takes every open agent in one
step, and nothing leaves a set. `Life` in `Measurements` maps the program to it: the rows,
their `is_complete` and `cancelled` columns, and the position of `submit_probes`
(`Closed`). The rows are written one at a time by three kinds of statement, one of which
overwrites; `ImplementsLife` says that nobody can tell, as long as agents await each
answer. Without `InOrder` it fails: a late report takes a finished agent back.

### MeasurementQueries

The module adds readers to `Measurements`; every step of `Measurements` is a step here
with the readers unchanged, so its properties are checked here too. `ReadStatus` and
`ReadDetails` (or `DetailsFail`) are the two statements of
`get_measurement_status_handler`. `List` and `ListRest` are two requests to
`list_measurements_handler`, each one statement: a client asks for some states first,
"in-progress" among them, then for the others, perhaps with an agent filter. The filters
overlap in the code: "cancelled" matches whatever has a cancelled row, in progress or
not. `PartsMissNothing` shows what that is good for; `InStateApart`, the filters as a
partition, breaks it. The time window, order and limit of a list are left out.

### UserIds

`Lookup`, `Insert`, `InsertUserExists`, `InsertIdTaken` and `Reread` are the statements
of a call with what it does on each outcome. `create_user_id_mapping` tells conflicts by
the text of the database's message (database.rs:626-641), so an error that is no conflict
but names the table or its index ("permission denied for table user_id_mappings") is
taken for one: `MisreadError` sends the call to its next attempt, or to the re-read,
whatever the table holds, and records the call in the history variable `misread`.
`StatementFails` is any other error, or the drop of the call, after which an INSERT may
have been committed all the same. `DeterministicUnlessTaken`, `ExhaustedOnlyByCollision`
and `RereadFindsRow` make an exception of misread errors and of nothing else. The deterministic id is a constant
function of the user, so that two users may share it; a random id is any id. Database
errors and running out of attempts are told apart (`Error`, `Exhausted`).

### AgentStore

A handler takes the store's lock once per call of the store. `register_agent` is
`AddAgent` and `ReadBack`; the two update handlers are `VerifyFor...` and `Update...`;
a refused registration (409) or an update of an unknown agent (404) changes nothing.
`Cleanup` is one turn of the task of main.rs:235, and `Restart` empties the store and
ends all requests. Time passes while the task waits for its next tick and no handler is
older than `Latency`: `Tick` says that the runtime wakes the task on time and that
handlers are short, which is what the freshness bounds rest on. `last_check` is chosen by
the agent, up to `Behind` before and `Ahead` after the time of receipt. `last_seen` is written and never read by
the program, and `remove_agent` and `update_last_seen` are called by no handler; they are
left out.

### JwksCache

`JWKS_CACHE` and `LAST_JWKS_REFRESH` are `cache` and `refreshed`. A request goes from
`CheckTime`, which holds and releases the lock of the time, either to `ReadCache` or to
`Serve`/`FetchFails` (the request to the issuer) and `StoreKeys`, `StoreTime`. Between
these two it holds the write lock of the cache, so that `ReadCache` and other `StoreKeys`
wait; `Abort`, the drop of its future, may still come there. The lock of the time is held
across no await and is not a variable. A refresh answers its own request with the keys it
has fetched, whatever the cache holds by then. The branch that "should never happen"
(jwt.rs:181) is modelled, with the read lock it keeps, and shown to be unreachable.
Requests take at most `Latency`: the HTTP client's timeout and the runtime's delays.
`removed` and `added` are history: when the issuer last withdrew or added each key. A key
that the issuer serves but that cannot be decoded counts as not published.

### ProbeBatches, UserPrefix and SubmitProbes

`Valid` is `validate_json_probe` and `Serializable` what `deserialize_json_to_capnp`
accepts; a JSON probe is described by what either of them tells apart. The packing loop
is `PackProbe`, once per probe, and `PackLast`. A batch is the interval of its probes,
and sizes are offsets, so that no sum needs a fold: the bytes of a run of probes are the
difference of two. `UserPrefix` writes addresses as sequences of bits, whose shift, OR
and prefix comparison are then exact at every width: 128 and 32 in the code, 3 and 1 in
the run, any in the proofs.

`SubmitProbes` follows the handler to its batches: `Receive` (the checks before the first
await), `GetUserId`, `CheckSource` once per entry of the request, `PassQuota` or
`FailQuota` for what `Measurements` models, and the packing. Beside it users get ids,
agents configure themselves or disappear (`Configure`), and `ListPrefixes` answers
`get_user_prefixes`. A configuration keeps the prefixes that parse; one that does not is
skipped by both readers. `admitted` and `current` are history. The handler accepts an
IPv6 address for an agent that is absent or not configured, by `Admit(None)`; nothing is
claimed of such an address. `SourcesAreOwn` is about the prefix in which an address was
found: it does not say that an agent's configured prefixes do not overlap.

## Runs

| Run | Instance | What it shows |
|---|---|---|
| `races` | 1 submission, 2 agents, 4 agent lists (empty, one, two, one twice), 2 cancellations, 1-2 probes in 1-2 batches, faults before and after an effect, reports in any order | `FullInv`, `CompleteMeansAllSent`, `ReportsFindTheirRow`, `ClaimsShareOutRows`, `RejectedLeavesNothing`, `AnswerMatchesCharge`, `RowsPersist`, `CancelIsDecisive` |
| `quota` | 3 submissions of a user, to 1 agent, limit 2, 2 days, faults | `QuotaKeptWhenAlone`: the precise guarantee of the check |
| `inorder` | `MeasurementQueries`: 1 submission, 2 agents, 1 cancellation, 1 reader, faults, reports in order | `QueriesInv`, `DetailsCoverSummary`, `PartsMissNothing`, `ProgressNeverRegresses`, `TerminalIsStable`, `ImplementsLife` |
| `liveness` | the same without the reader and without faults, with fairness | `SubmissionAnswered`, `MeasurementsFinish` |
| `user_ids` | 3 calls, 3 users, 3 ids, 3 attempts, two users with one deterministic id, faults, errors taken for conflicts, fairness | `IInv`, `CallsAgree`, `RereadFindsRow`, `DeterministicUnlessTaken`, `ExhaustedOnlyByCollision`, `ImplementsAllocation`, `CallReturns` |
| `agent_store` | 1 id, 2 secrets, 2 overlapping requests, age 3, period 2, latency 2, clocks up to 1 behind or ahead, times 0-9, restarts | `IInv`, `EligibleReportedLately`, `ListedReportedRecently`, `ReportingAgentsStay`, `RecordsAreKept` |
| `jwks` | 2 keys, 2 concurrent requests, age 1, latency 1, times 0-3, 1 rotation, restarts, fairness | `IInv`, `CacheIsThere`, `AnswersFollowIssuer`, `CallReturns` |
| `submit` | 2 users, 1 agent, addresses of 3 bits and ids of 1; up to 3 probes of sizes 1-4 with limit 3, 1 probe at each edge of its validation | `SubmitInv`, `BatchesPartition`, `BatchesFit`, `BatchesAreFull`, `AcceptedIsPacked`, `SourcesAreOwn`, `OfferedIsAccepted` |
| `quota_agents_violated` | 1 submission, 2 agents | `QuotaRespected` fails |
| `headers_violated` | 1 submission, 2 agents | `OnlyAssignedAddressed` fails |
| `cancel_violated` | 1 submission, 2 agents, 1 cancellation | `CancelledStaysTerminal` fails |
| `register_violated` | as `agent_store`, clocks in step | `RegisteredIsThere` fails |

The `TypeOK` of each module is a conjunct of its inductive invariant: `FullInv`,
`QueriesInv` (`QTypeOK`), `IInv` or `SubmitInv`. In `inorder` the constraint
`QueryUnderWay` does not follow a query beyond its answer, after which it changes nothing;
the handlers' steps are all explored from the states without a query.

`races`, `quota` and `inorder` use the view `HealthView`, which forgets `healthy` when no
submission is before or in its lookups. Only `AssignAgent` reads `healthy`,
`HealthChanges` may set it to anything in any state, and no property names it, so the
states that the view identifies have the same steps up to `healthy`. `liveness` has no view.

Why the bounds are enough. A measurement interacts with another only through the quota
(`Usage` is the only operator that reads two), so the races within one are explored with
one submission and the quota with three: two that race and one before or after them. Two agents and two batches give a first, a last
and an order; two cancellations race each other. Agent ids do not interact, so one is
enough for the store, with two overlapping requests and two secrets for them to compete
with; the times allow an agent to register, age, be cleaned up and come back, twice. For
user ids, three users cover the caller, a holder of its deterministic id, and another;
three calls let two race for one user while a third changes the table, and three
attempts reach exhaustion. For the signing keys two requests make every overlap of a
refresh with a read or another refresh, and the times let a cache be filled, expire and
be filled again. Three probes of sizes up to one more than the limit make batches that
are just full, one over, or of one probe too large; the words of 3 bits have every
address, and prefixes with room to spare, with just enough and without. What larger words
could add is excluded by the proofs.

Deadlock is not checked: every system here may come to rest, when all requests of the
instance have been answered.

Fairness. Handlers are Tokio tasks, run whenever they are ready, so their next step is
weakly fair (`SubmissionStep`, `ReportStep`, `CancelUpdate`, `Step`). Agents keep
consuming what is in the topic (`Consume`); this is an assumption about agents. Of `JwksCache` the steps that wait for a
lock (`StoreKeys`, `ReadCache`) are strongly fair, since Tokio's locks are first come,
first served: a request gets its turn although others take the lock again and again. The
fetch of the keys returns or times out. Nothing makes requests arrive, agents change health, faults happen or days pass.
`MeasurementsFinish` needs the run without faults: a lost last batch or a lost last
report leaves its rows in progress for ever, which is what cancellation is for.

## What the runs found

* `quota_agents_violated`: the quota is checked for the probes of a request once
  (database.rs:589) and charged once per assigned agent (lib.rs:537). The README's "while
  ensuring a given quota is respected" holds under the conditions of
  `QuotaKeptWhenAlone`: one agent per measurement, no other submission of the user and no
  midnight between check and INSERT. Each is needed: two concurrent submissions to a
  single agent each also exceed the limit, as both are checked before either is charged.
* `headers_violated`: the loop at lib.rs:558 writes a header for every agent of the
  request, though lib.rs:491 says to include healthy agents only. The other agents probe,
  uncharged, and their reports are answered 404.
* `cancel_violated`: a cancellation between two INSERTs of its measurement is answered
  `cancelled: true`, and the rows inserted afterwards keep the measurement in progress.
* `register_violated`: `register_agent` panics at its `unwrap` (lib.rs:313) when the
  clean-up removes a stale agent between the two locks of its repeated registration.

The retries of `get_or_create_user_id` are meant for conflicts, and its random ids for
taken ones. A database error whose message names `user_id_mappings` gets both as well: a
call then repeats a statement that cannot succeed until its attempts are used up, and if
the error passes meanwhile, the user gets a random id though the deterministic one is
free. `user_ids` explores these steps; what the code keeps under them is stated by the
exceptions for `misread`, and `CallsAgree` and `ImplementsAllocation` hold without one.

`list_agents` promises agents with "a health check in the last 10 minutes" (lib.rs:127).
The time of a check is the agent's own, so this is exact for clocks in step only:
`ListedReportedRecently` says by how much a clock that is ahead extends it, and
`ReportingAgentsStay` by how much one that is behind brings the clean-up forward.

## Proofs

All proofs hold for any sets of users, agents, measurements, calls and ids, any limits
and bounds, with and without faults. They assume what the modules state as assumptions:
that the constants have their types and that `None` and the error values are no data.

**Measurements.** The invariants alone are not inductive. That a row is complete only
after everything was sent depends on what reports in flight say, which depends on the
messages in the topic, which depend on the position of the handler that sends them.
`IInv` states this chain: `SubmissionShape` (what each position of `submit_probes` has
left behind: rows for a prefix of the assigned agents, messages for a prefix of the
batches), `TopicShape` (messages exist only once all agents are tracked, and only the
last ends the measurement), `ReportShape` (a report comes from a message, and once found
its row stays) and `CancelShape`. `MeasurementsProofs` proves it in three parts: what
each of the three writing statements does to the table, acknowledged or not
(`TrackEffect`, `UpdateEffect`, `CancelEffect`), a frame lemma (only its own handler moves a submission), and a lemma per
shape. From it:

* `CompletionIsTruthful`, `ReportsAreNeverLost`, `RejectionsAreClean`: the invariants
  `CompleteMeansAllSent`, `ReportsFindTheirRow`, `RejectedLeavesNothing`;
* `RowsAreKept`, `CancellationsDecide`: the action properties `RowsPersist` and
  `CancelIsDecisive`;
* `ClaimsAreExact`: `ClaimsShareOutRows` for any number of cancellations, with the
  further inductive invariant `ClaimsOn`: the claims of the calls, answered or failed, are
  disjoint and together the cancelled rows. That only calls past their UPDATE have claims
  (`CancelShape`) turns this into what the answers say.

**Charges.** The quota, the answer of a submission and the totals of the view are sums
over the rows of a table or over a user's measurements. `SumFunction` is a recursive
function on the subsets of its domain, and what it adds up to is shown in `Sums` without
an induction rule: if it failed for some subset, it would fail for a smallest one
(`SmallestSubset`, from the well-foundedness of strict inclusion), which one unfolding
excludes. `SumTakesOut` (any element may be taken out first), `SumIsMonotone`,
`SumsAgree` and `SumOfEquals` follow in that way. `ChargesInv` then says of every
submission (`RowsShape`) that its rows are charged the request's probes each, and how many
rows there are at each turn of the loop; and (`AloneShape`) that what an undisturbed quota
check has found is still true when its INSERT comes. `AnswersMatchCharges` and
`QuotaIsKept` follow: the usage of a user is the same after any step but the first INSERT
of a measurement, which adds exactly what was checked, and midnight, which leaves the
charges of the new day only. `FullInvariance` is `IInv` and `ChargesInv`, the invariant
that `races` checks.

**UserIds.** `IInv` adds to the invariants that ids are injective and what a call knows
at each statement (`CallShape`): in particular that a call past its first attempt has
seen its deterministic id with another user, which stays so because rows are never
deleted, or has misread an error, which `misread` remembers. `Refinement` proves `Spec => Abstract!Spec`: lookups and re-reads are abstract
answers, an accepted INSERT is an allocation with its answer, a failed one that was
committed is an allocation answered with an error.

**Measurements in order.** With `InOrder`, `InOrderInv` adds what relates the three places
where an agent's progress is: how many messages it has consumed, the one report it may
have under way, and its row. The row is never ahead of the report, the report says what
the agent has consumed, and a complete row has no report under way that could overwrite
it. `ProgressIsMonotone` and `TerminalStays` are proved from it and from `IInv`, under the
assumption `InOrder`; without it both fail, as a late report overwrites the row.

`Refinement` proves `Spec => ImplementsLife` under the same assumption: an INSERT is a
`Join` (which closes the measurement if it is the last), a report that says so a `Finish`,
a cancellation's UPDATE a `Cancel` unless nothing is open, the end of a handler without
an INSERT a `Close`, and every other step a stutter. That a report never takes back comes
from `InOrderInv`, that it comes after the close from `IInv`.

**Queries.** `QueriesImplement` shows that a query leaves the measurements alone, so that
all the above holds beside it. `QueriesInv` says what the first statement of a query is
worth now. The totals of a status query stay covered by the rows because tables only grow
in what the totals count (`TablesGrow`, `SummaryGrows`), by the monotony of sums. A
measurement that the first of two lists passed over was cancelled, which stays, or
complete in every row, after which no row can be added or cancelled (`PassedOverStays`,
which needs `CompleteMeansAllSent`); either way the second list shows it.
`DetailsAreCovered` and `PartsAreComplete` follow.

**AgentStore.** `IInv` relates three times: when the clean-up is due, since when each
request has been under way, and what `last_check` each record holds against the last
report received. The bound of an agent without a look at its age (`EligibleReportedLately`)
needs the clean-up's due time in it: what the last clean-up left will not be too old by
the next one.

**JwksCache.** A set of keys is `Genuine` since a time if each key in it was published,
and each key not in it was missing, at some time since. `IInv` says this of the keys a
request has fetched, since its arrival, and of the cached ones, since `Latency` before
their time stamp; that one request at most is between its two writes keeps the stamp from
being put on keys of another request. From it `CacheIsAlwaysThere` and `AnswersAreRecent`.

**Packing.** `PackInv` says that the batches pushed and the current one lie end to
end over the probes packed so far, and that `current_batch_size` is the current one's.

**SubmitProbes.** `UserWithinAgent` and `UsersApart` are about the arithmetic alone:
for every width, prefix length, id and address. `SubmitInv` composes `PackInv` with what
is known of the request at each step, ids that differ between users, and what the last
answer of the prefix query is worth now.

**Model-checked only.** Liveness: `SubmissionAnswered`, `MeasurementsFinish`, and
`CallReturns` of `UserIds` and of `JwksCache`. It rests on fairness, that is on ENABLED,
which is out of the prover's reach. Every invariant, action property and refinement of
the passing runs is proved.

## Not modelled

* Authentication of agents: a comparison of a header with a constant, without state.
* `bypass_jwt_validation`, a switch for development, and the claims of a token beyond its
  key.
* The read-only handlers of agents, users and quotas, which answer from one read; the time
  window, order and limit of a list.
* A message that reaches Kafka twice: the producer is not idempotent, so librdkafka may
  repeat a batch whose acknowledgement was lost. What an agent reports of a repeated batch
  is not in the repository.
* An agent that never posts its health stays in the store for ever (agent.rs:172); the
  code means it to, and nothing bounds the number of ids.
* The in-memory mock of the database, which serves the tests: the modules model the
  PostgreSQL statements. User limits are constant, since no handler sets them.
* Startup, command line, metrics, the migrations runner, the Cap'n Proto schema, build
  script, benches and CI.

## Order of the development

1. `Tracking`, `Measurements`, their runs and `IInv`; `UserIds` and its abstract
   specification; `AgentStore`; `MeasurementQueries`.
2. `JwksCache`; `ProbeBatches`, `UserPrefix` and their composition `SubmitProbes`; the
   proofs of these, of `AgentStore` and of the in-order properties.
3. `Sums` and the charges; the queries; `MeasurementLife` and its implementation.
4. Left: a producer that may repeat a message, once it is known how agents count it.
