# FleetPulse: TLA+ models and proofs

FleetPulse collects host telemetry from agents, stores it in PostgreSQL, and processes it
asynchronously: a relay publishes a transactional outbox to a Redis Stream and a consumer group of
workers turns each event into fleet state and incidents. This directory models the parts of it in
which a step can fail, be repeated or be overtaken by another process, checks the models with TLC
on small instances, and proves the safety of its components with TLAPS for every instance.

Paths below are relative to the repository (`src/` is its Python source).

## 1. Inventory

| Part | State | Operations | What is hard | What makes it correct |
| --- | --- | --- | --- | --- |
| Agent (`agent/main.py`) | samples in memory, stop event | collect, spool, deliver, flush | answers lost after the commit, kills, termination | a batch is given up only by eviction; every other arrives |
| Spool (`agent/spool.py`) | SQLite rows: size, attempts, next attempt, created_at | enqueue with eviction, next_ready, mark_sent, mark_failed | both limits, wall clock, restarts | bounds at every commit, oldest goes first |
| Client (`agent/client.py`) | none | send, full_jitter_delay | unbounded exponent | retries go on |
| Ingestion (`api/routes.py`) | agents, telemetry_batches, outbox_events | one transaction per request | concurrent retries of one batch, locks | one outbox row per stored batch, true answers, no deadlock |
| Relay (`worker/relay.py`) | open transaction with locked rows | select, XADD per row, commit | failure between the two systems, overlapping relays | no accepted row is lost; copies only after failures |
| Redis Stream | entries, group cursor, pending entries, idle times, dead-letter stream | XADD, XREADGROUP, XAUTOCLAIM, XPENDING, XACK | at-least-once delivery, lost tail | what was flushed and not acknowledged is delivered again |
| Worker (`worker/main.py`) | entries in hand, stop event | claim, read, process, dead-letter, acknowledge | crash between any two calls, reclaim from a slow worker | effects exactly once; acknowledged means settled |
| Fleet-state cache (`api/routes.py`, `worker/main.py`) | cached list with a time to live | get, select, set; delete | a reader that sets after the delete | stale lists do not stay |
| Assistant (`assistant/`) | registry of proposals and receipts | analyze, review | lying or failing provider, registry limit, concurrent reviews | fails closed; one decision per proposal |
| Migrations (`migrations/env.py`) | alembic_version, advisory lock | upgrade head by every replica | simultaneous starts, lost lock connection | revisions once; no replica serves an old schema |
| Telemetry contract, collector, agent list | none of their own | validation, readings, one query | a collector that raises while samples are held | partly: `Ingestion`, `Agent` |
| Other read and deployment routes, logging, metrics, middleware | none of their own, or one row per call | single queries | nothing concurrent | not modelled |
| Failure drills (`tools/reliability_runner.py`) with the alerts of `observability/prometheus` | step of the script, deadlines, request in flight; gauges, last scrape, firing alerts | stop and start services, post, wait for alerts | alerts that last 15 seconds, answers that are old when they arrive, trials that see each other, failures half way | every gauge is alerted, trials are independent, the run ends |
| Load experiments (`tools/performance_runner.py`) | step of the script, counts taken | reset, pause, load, drain | counts read at different moments of a running system, or not at all; calls in flight at a pause | a recorded drain is complete, and it ends |
| `tools/repository_contract.py`, `scripts/`, `deploy/`, other helpers of `fleetpulse_project/` | files | static checks, smoke tests, parsing, configuration | not part of the running system | not modelled |

Components meet at four places: the agent posts batches to ingestion; ingestion and the relay share
`outbox_events`; the relay and the workers share the stream; the workers and the API share `fleet_state`
and the cache key. The harnesses start, stop and freeze these processes and observe them through the
API, SQL, Redis and Prometheus. `PROJECT.json` lists every component, the hazards with their lines and
the properties that cover them.

## 2. Modules

| Module | Models | Role |
| --- | --- | --- |
| `Delivery` | `worker/relay.py`, `worker/main.py`, the tables and the stream between them | the core; no RECURSIVE, named assumptions |
| `EventLedger` | what delivery promises | abstract specification |
| `DeliveryLedger` | the refinement mapping | `Delivery` implements `EventLedger` |
| `DeliveryProofs` | | theorems about `Delivery` and `DeliveryLedger` |
| `RedisRestart` | `compose.yaml`, service `redis` | `Delivery` composed with an append-only file flushed every second |
| `Agent` | `agent/main.py`, `spool.py`, `client.py`; failures of `collector.py` | agent, spool and client against an API that commits, refuses, or commits and loses the answer |
| `Ingestion` | `api/routes.py: ingest_batch, list_agents`, `api/security.py`, `telemetry.py` | the request at the grain of its SQL statements |
| `FleetCache` | `api/routes.py: list_fleet_state`, `worker/main.py: handle_message` | cache-aside reads against invalidation |
| `Assistant` | `assistant/service.py`, `providers.py` | analyses, reviews, registry |
| `Migrations` | `migrations/env.py`, `migrations/versions/` | replicas migrating at their start |
| `Drills` | `tools/reliability_runner.py`, `observability/prometheus/`, the gauges of relay and worker | the failure drills in discrete time |
| `WorkerExperiment` | `tools/performance_runner.py: run_worker_experiment` | the harness composed with `Delivery` |
| `CompositionProofs` | | theorems about the two modules that compose `Delivery`: `RedisRestart` and `WorkerExperiment` |
| `AgentProofs`, `IngestionProofs`, `FleetCacheProofs`, `AssistantProofs`, `MigrationsProofs`, `DrillsProofs` | | theorems about the modules they are named after |
| `MCDelivery`, `MCDeliveryLedger`, `MCRedisRestart`, `MCIngestion`, `MCAssistant`, `MCWorkerExperiment` | | values of the constants for TLC |

Definitions that begin with a comment `Mutant:` are not part of the models: each is a faulty variant
of the definition that follows it, used to confirm that the property it is aimed at can fail.

### Delivery: state and actions

The grain is one awaited call to PostgreSQL or Redis with the local code up to the next one.
A database transaction is visible at its commit: `ApplyEvent` is the remainder of `process_event`
and its commit, and what a rolled back transaction wrote never appears. The unique key of
`processed_events` is modelled as PostgreSQL implements `ON CONFLICT DO NOTHING`: an insert waits
while another open transaction has inserted the key (`InsertBlocked`).

* Stream entries are their positions. `pel[m]` is the delivery count of a pending entry, 0 once it is
  acknowledged. Counts saturate at `max_delivery_attempts`, above which the code does not tell them
  apart. `idle` holds the pending entries that XAUTOCLAIM may take; `IdleElapses` puts any pending
  entry there at any time, so a worker that is merely slow loses its entry too.
* A relay's `held` rows are locked by its open transaction; `sent` are those already added to the
  stream. `RelayFails` stands for a failing XADD or commit and for a crash: rows roll back, the
  stream keeps what it got.
* A worker's `pc` names its next call. `phase` tells which of the two loops of `run` it is in, since
  the stop event is tested only before the first. `WorkerCrashes` may happen at every call.
* `Inject` adds entries no relay writes: malformed ones, ones of another type, and ones whose batch
  does not exist. The code handles each differently: `decode_event` raises before the transaction,
  the type check inside it, and `scalar_one` raises an exception `handle_message` does not catch.
* `fleetState` keeps which event last wrote an agent's row, `incidents` the open incidents by
  deduplication key. Nothing in the repository closes an incident, so the unique constraint on key
  and status makes a second one impossible. `applied` counts commits of an event's effects and exists
  only for the properties.

### The other modules

`Agent` keeps the spool as the sequence of its rows by `created_at`; sizes are counted in samples, and
the loop of deletions in `enqueue` is the least number of oldest rows after which the rest fits
(`Dropped`).
A wall clock set back inserts a row before older ones. Whether a row's delay has elapsed is kept, not
the time. `OverflowAttempt` stands for the 1024 attempts at which the delay no longer converts to a
float. `Ingestion` has one action per statement and the two locks a request
takes; token and body are checked before, and which agent a batch is stored for is kept, since a
second agent may send the same batch id. `FleetCache`
represents a list by the set of events it shows. In `Assistant`, a text is whether it holds a secret
and a citation is the number of an evidence item; requests interleave only at network awaits, because
no await stands between the provider's answer and the registration, nor inside the registry's lock.
In `Migrations` the lock belongs to a session of its own, so it can be lost while the migration's
connection lives on.

`Drills` has a clock. A gauge that holds a timestamp is kept as its age, capped at the width of the
alert's window. Within a tick the processes take their steps in any order; `Tick` waits for what is
due: a scrape, an evaluation, the gauge a worker sets right after its commit. Everything else takes any
time. A wait of the harness tests its deadline (`GiveUp`) only when no request is out; `Send` begins a
request, `Serve` is the moment at which the API, Prometheus or PostgreSQL answers, `Receive` the arrival
of that answer, any number of scrapes and evaluations later and also after the deadline. httpx gives up
a request after 10 s (API) or 5 s (Prometheus) without progress; `Fail` may do so at any moment, and
only the waits for readiness try again. The delivery of a drill's batch may take for ever; then the
harness's deadlines end the run. `Advance` follows the script of `setup` and `run`, `Raise` is an
exception that goes to `close` in `main`'s `finally`. `subprocess.run` has no timeout, so that a docker
command may fail, have its effect and not return, or hang (`InDocker`), and `close` ignores a failure of
`docker compose down`: `Close` leaves any of the services running. The evidence files written between
the calls, and the times recorded of each trial, are left out.

`WorkerExperiment` extends `Delivery` and conjoins each step of a relay or a worker with `Runs`: the
process has a container and is not frozen, or completes the one call it had sent when `docker pause`
froze it. Which processes have a call in flight at a pause is chosen. Deadlines may pass at any time
(`Raise`). `ResetState` truncates the tables and flushes Redis, `StopAll` rolls back what the
containers had open; faults are counted by the round. `queue_state` ignores a failing XINFO: either of its
uses may read 0 instead of the group's pending entries and lag (`QueueState`), and `misread` records that
the last one did. `stop` and `rm` ignore a failure as well; the containers they would leave behind are
left out. The peak of the backlog and the times are left out, and so is `--keep-running`, with which
`close` leaves the containers up.

## 3. Runs

| Run | Module | Question | Instance |
| --- | --- | --- | --- |
| `delivery_workers` | `MCDelivery` | exactly-once effects and nothing lost under duplicates, reclaim, crashes and an entry that ends its worker | 2 workers, 1 event, 1 orphan entry, 1 relay failure, 1 crash or signal |
| `delivery_poison` | `MCDeliveryLedger` | dead-lettering under concurrency; the refinement; the inductive invariant; events are processed, failures dead-lettered, the backlog drains, stopped workers exit | 2 workers, 1 event, 1 unsupported entry, 1 crash or signal, fair |
| `relays_and_redis` | `MCRedisRestart` | overlapping relays; a Redis that forgets its unflushed tail; tables that match the processed events | 2 relays, 2 rows of one agent with LIMIT 1, 1 failure or restart |
| `agent` | `Agent` | spool bounds, no silent loss, eviction order, arrival | 3 batches of at most 2 samples, room for 2 batches or 3 samples, 2 stops, 1 clock step |
| `ingestion` | `MCIngestion` | one event per batch, true answers, every request ends | 6 requests: a retry, a second batch of the agent, the batch under another agent, one without token, one with an invalid body |
| `fleet_cache` | `FleetCache` | acknowledged events are invalidated, stale lists go | 2 events, 2 readers, 2 crashes |
| `assistant` | `MCAssistant` | fail closed, one decision, newest proposals kept, retries end | 3 analyses, 3 reviews, registry of 2, 1 retry, 1 restart |
| `migrations` | `Migrations` | revisions once, lock effective, no early serving, all serve | 3 replicas, 2 revisions, 2 crashes, 1 lost lock |
| `drills` | `Drills` | every gauge is alerted, independent trials, the run ends | 2 trials, every phase, delivery time and request length, failing calls, hanging commands, 1 worker crash, fair |
| `worker_experiment` | `MCWorkerExperiment` | recorded drains are complete, refusals mean faults, the drain ends | 2 events, a round with 1 worker and one with 2, in each 1 relay failure and 1 late request, any backlog reading failing, fair |
| `redis_loss` | `MCRedisRestart` | violated: an accepted event survives a Redis restart | 1 event, 1 restart |
| `agent_overflow` | `Agent` | violated: the agent runs until terminated | 1 batch |

**Bounds.** Two workers are enough for every race on one entry: the handling of an entry touches only
that entry's records and its event's key, and at most one of them can be between insert and commit. In
`relays_and_redis` two events of one agent share a fleet-state row and an incident key; the samples make
one cross both thresholds, one of them exactly, and the other cross them only in samples that do not
count. With `MaxDelivery = 2` the sequence first failure, retry, last failure occurs; with `ReadCount =
2` a worker crashes holding several entries. Malformed entries differ from unsupported ones only in
raising before the transaction; they are in no run, for their interleavings cost more than they show,
and are covered by the proofs. Two rows with `RelayLimit = 1` leave rows for the second relay. In
`agent`, a third batch forces an eviction for each of the two limits, and two stops make a crash after a
termination possible. A tick of `drills` is 2.5 seconds: scrape and evaluation come every other tick at
phases of their own, and every timeout of the script is a whole number of ticks (the 15 s windows are 6,
the 30, 60 and 90 s deadlines 12, 24 and 36); two trials are the fewest that can disturb one another. In
`worker_experiment` the second round starts from what the first left behind, and both have room for a
duplicate copy. No worker crashes in it: one whose call was frozen for longer than the 3 s of
`socket_timeout` may raise at the thaw, restart and claim its entries again, which the runs of
`Delivery` have. `delivery_poison` has no failing relay and no orphan, so that its liveness properties
say nothing of a backlog with repeated publications or with entries that end their workers;
`relays_and_redis` has one worker, since its questions are about relays and restarts. Faults are bounded
by constants (`MaxRelayFaults`, `MaxWorkerFaults`, `MaxStops`, `MaxCrashes`, `MaxLost`, `MaxRestarts`,
`MaxClockSteps`, `MaxLate`); the proofs hold for every value of them. Workers or relays are symmetric
where the specification is checked without fairness.

**Deadlock** is checked except in `ingestion`, `assistant` and `migrations`, whose requests end, and
in `drills` and `worker_experiment`, whose scripts do.

**Fairness.** `Delivery`: weak fairness of each relay and each worker process (the containers have
`restart: unless-stopped` or a Deployment, calls have timeouts and a dead process's transaction is
rolled back) and of the idle clock of each pending entry. Nothing is assumed of producers or faults.
`Agent`: weak fairness of the agent and of its delays, and strong fairness of a successful answer to
each batch: an API tried for ever is not down for ever. `FleetCache`: weak fairness of the workers
and of expiry, since every SET carries `ex`; readers may stall for ever. `Ingestion`, `Assistant`: weak
fairness of each request (deadlines on statements, posts and sleeps). `Migrations`: weak fairness of
each replica and strong fairness of the lock, which PostgreSQL grants in request order. `Drills`: weak
fairness of scrapes, evaluations and the setting of the gauge; of the harness while it is not in a docker
command, since httpx ends every request; and strong fairness of time, which goes on whenever nothing is
due. None of delivery and none of docker: `DrillsEnd` is for runs in which every command returns.
`WorkerExperiment`: weak fairness of the harness, of each relay and worker that is not frozen and of
the idle clock; none of the deadlines, so that `RoundsDrain` is not owed to one of them.

## 4. What the code does that its documents do not say

Two disagreements are runs:

* `redis_loss`: the relay marks a row published when XADD has answered, Redis flushes once a second.
  A restart that loses that second loses an accepted event; ADR 0002 says acknowledged batches survive
  Redis restarts or loss. What had been flushed survives (`FlushedEventSurvives`), and forgotten
  acknowledgements do no harm (`EffectsMatchProcessed` in `relays_and_redis`).
* `agent_overflow`: `base * 2 ** attempt` overflows a float at 1024 attempts, before the cap applies,
  and the exception ends the agent. With the default 60 s cap that is some ten hours of failures of
  one batch. A supervisor restarts the agent, but the row still has its 1024 attempts.

Others follow from reading the models beside the documents:

* Dead letters. An entry without a batch row ends the worker with `NoResultFound` (`main.py:74`,
  `main.py:188`), is claimed again and never dead-lettered, where `CONTRIBUTING.md:14` and `system.md:39`
  ask that permanent failures be (no relay produces such an entry as long as batches are not deleted).
  `FailuresAreDeadLettered` is about the entries whose handling raises a `ValueError` only.
* Publication attempts. `publication_attempts` is incremented in the transaction a failed publication
  rolls back (`relay.py:51`), so only the successful attempt is counted, though `system.md:37` says that
  the relay records attempts. `CommitRows` shows it: nothing else writes the column.
* Detection target. `phase-7-drill-plan.md:30` wants the 95th percentile below 60 s. The drills record
  `target_seconds` (`reliability_runner.py:306`) and compare nothing with it, and no deadline implies it: a
  post of 10 s, a wait for the incident of 30 s whose last request takes another 10 s, two intervals and
  a GET of 5 s are more.
* Short alerts. `FleetPulseIncidentDetected` fires for at most 15 s. Two GETs of just under 10 s in
  `wait_incident` return when it is over, and `wait_alert` then times out although nothing failed. A worker
  that dies between the commit of an incident and its gauge (`main.py:129`) leaves an incident no alert
  fires for at all: it is what `GaugesAreAlerted` excepts.
* Cleanup. `phase-7-drill-plan.md:44` says that cleanup executes after success or failure. A docker command
  that hangs keeps it from being reached, and `docker compose down` runs with `check=False`
  (`reliability_runner.py:417`), so a failure leaves containers and no trace; the runbook describes the
  removal by hand only for a terminated runner.
* Backlog readings. `queue_state` takes a failed XINFO for a backlog of 0 (`performance_runner.py:415`): a
  round is refused for it, or a drain recorded with an entry not yet acknowledged. The processed events are
  right in both cases (`DrainIsComplete`).
* Resource maxima. The two samplers of a worker round number their samples from 0 into one file and
  `resource_metrics` adds up equal numbers, so the reported maxima are sums of a moment under load and one
  of the drain, not "the maximum aggregate Docker CPU percentage" (`performance_runner.py:276, 345, 475,
  633`; `performance.py:66`).
* Termination. A signal between the two loops of a worker's `run` does not keep it from reading fresh
  entries (`system.md:40`).
* Thresholds and order. Only the latest sample of a batch is compared with the thresholds
  (`system.md:64`); a batch that waits for its retry is overtaken by younger ones although the spool is
  called FIFO (`spool.py:23`); a replayed batch is answered `duplicate`, not with its original outcome
  (`system.md:31`); `fleet_state` may go back to an older batch, since its upsert has no condition on
  `observed_at`.

## 5. What is proved

Each component has an inductive invariant: its safety properties, its `TypeOK`, and the named parts
that make them inductive, stated at the end of its module; `ExperimentInv`, which
only a proof needs, is stated where it is proved. Every theorem holds for
all values of the constants, sizes of the sets and numbers of faults, under the module's `ASSUME`. Each
invariant was first checked by TLC on the instances of section 3; `InductiveInvariant` still is, in
`delivery_poison`. Every safety property a passing run checks, invariant or action property, is a
theorem.

| Module | Theorems | Statement |
| --- | --- | --- |
| `DeliveryProofs` | `TypeCorrect`, `Inductive` | `[]TypeOK`, `[]InductiveInvariant` |
| | `ExactlyOnce`, `EffectsMatch` | `[]EffectsExactlyOnce`, `[]EffectsMatchProcessed` |
| | `AckedSettled`, `DeadLettersLate` | `[]AckedMeansSettled`, `[]NoEarlyDeadLetter` |
| | `NothingLost`, `CopiesBounded` | `[]NoAcceptedEventLost`, `[]CopiesBoundedByFailures` |
| | `Refinement` | `Spec => Ledger!Spec` |
| `CompositionProofs` | `RedisInductive`, `FlushedSurvives` | `[]RedisInv`, `[]FlushedEventSurvives` |
| | `RestartEffects`, `RestartPublication` | `[]EffectsMatchProcessed`, `[]CopiesBoundedByFailures`, across Redis restarts |
| | `ExperimentInductive`, `MismatchFault`, `DrainComplete` | `[]ExperimentInv`, `[]MismatchMeansFault`, `[]DrainIsComplete` |
| `AgentProofs` | `AgentInductive`, `BoundedSpool`, `NothingLost` | `[]AgentInv`, `[]SpoolBounded`, `[]NoSilentLoss` |
| | `OldestEvicted` | `EvictsOldest`, an action property |
| `IngestionProofs` | `IngestionInductive`, `EventPerBatch`, `TrueAnswers` | `[]IngestionInv`, `[]OneEventPerBatch`, `[]AnswersAreTrue` |
| `FleetCacheProofs` | `CacheInductive`, `AckedInvalidated` | `[]CacheInv`, `[]AckedIsInvalidated` |
| `AssistantProofs` | `AssistantInductive`, `ClosedFailure`, `DecidedOnce`, `NewestRegistered` | `[]AssistantInv`, `[]FailsClosed`, `[]OneDecision`, `[]RegistryHoldsNewest` |
| `MigrationsProofs` | `MigrationsInductive`, `CreatedOnce`, `LockEffective`, `ServingComplete` | `[]MigrationsInv`, `[]RevisionsOnce`, `[]LockSerializes`, `[]ServesAtHead` |
| `DrillsProofs` | `DrillsInductive`, `IndependentTrials` | `[]DrillsInv`, `[]TrialsAreIndependent` |
| | `AlertsInductive`, `GaugesAlerted` | `[]AlertsInv`, `[]GaugesAreAlerted` |

**Assumptions.** `Delivery`: `EntriesAssumption` (events and the kinds of foreign entries are disjoint,
and the marker of an empty fleet-state row is no event), `BatchAssumption` (each event has a batch of
some agent and a creation time) and `BoundsAssumption` (limits are naturals, those of the code
positive). `Ingestion` assumes finitely many requests and batches, for it counts them, and that the
marker of an absent row is no agent. `Assistant` assumes that provider outputs have the shape of
`ProviderAnalysis`, with no more remediations than the registry holds (20 against 1000 in the code).
`WorkerExperiment`: `RoundsAssumption`, that every round has a worker, that relays and workers are
different containers, and that the events are finitely many, for the harness counts them. The others
assume that limits, timeouts and bounds are naturals, positive where the code needs it; nothing is
assumed about how the limits of the spool relate to one another. For `Drills` that is
`PeriodsAssumption`, and no theorem needs a relation between window, intervals and timeouts: with a window
of two intervals or less `GaugesAreAlerted` would be empty, and 15 s against 5 s is what gives it its
last five seconds.

**Delivery.** `EffectsExactlyOnce` alone is not inductive, since nothing in it keeps a worker from
committing an event that is already processed. `WorkerInv` ties a worker's place in `handle_message`
to what is stored: at the commit its event is not processed, at the acknowledgement it is, in
`dead_letter` the entry is a failure whose deliveries are used up, and no two workers are about to
commit the same event. That last part is where the waiting insert is needed. `RelayInv` says that open
publications hold disjoint sets of unpublished rows and that what they sent is in the stream;
`StreamInv` that the stream holds accepted events only; `RetentionInv` that it holds every published
one. `CopiesInv` counts: a row has as many copies as relays have failed, and one more only once it is
published or sent by an open publication, so that a failure pays for the copy it leaves behind.
`NothingLost` then follows without induction: a published event has an entry, and an acknowledged
entry of an event is a processed one. The refinement uses that a commit applies an accepted,
unprocessed event and that dead-lettered entries are foreign.

**Redis restarts.** A restart takes the stream back to its flushed prefix, so `RetentionInv`,
`AckedMeansSettled` and `NoEarlyDeadLetter` do not survive it (`redis_loss` shows what follows). `KeptInv`
is the rest of `InductiveInvariant`. `SyncedInv` makes the flushed state a well-formed prefix of the
current one, and `AckedInv` says of both states that acknowledged entries are processed or foreign; it
is preserved because the database forgets nothing.

**Agent.** `SpoolInv` orders the rows by creation while the clock was never set back, and bounds their
ids, so that a new row is distinct from all. `PendingInv` says that the row being delivered is in the
spool, once and as it was read; `DeliveryInv` that what is about to be marked as sent is committed.
Lemmas give what `InsertAt`, `RemoveAt` and the suffixes of a sequence contain; that the deletions of
`enqueue` end is that the empty spool fits, and that they stop in time is that one row more adds at most
a full batch (`OneRowMore`).

**Ingestion.** `OpenInsertInv`: between insert and commit a request's insert succeeded exactly if the
batch is not stored, and no other open request has inserted it: the row lock. `CommittedInv` carries
that over to answered requests. The last part of `AnswersAreTrue`, on the fleet list's counts, is an
injection from accepted requests to stored batches.

**Fleet cache.** `WorkerInv` orders commit, delete and acknowledgement across crashes; `ListInv` says
which events a cached list can miss.

**Assistant.** `RegistryInv`: the registry is the tail of what was registered. `DecisionInv`: a decided
proposal that is still registered carries its receipt; one that was evicted is never registered again,
since an analysis is answered once.

**Migrations.** `TransactionInv`: at most one open transaction has created tables, and the committed
revision is still the one it started from, even without the lock, because a second CREATE TABLE of a
name waits for the first and then fails. `LockInv` adds that while no lock was lost nobody else commits
in between.

**Drills.** `GaugeInv`: outside the time from the commit of a trial's incident to the end of its alert
the gauge, its last scrape and the alert are all quiet (`Quiet`), and within it they can tell of one
incident only; in particular an alert that cleared means that the scraped age and the gauge itself
have left the window. Since an answer may be old when it arrives, `SeenFiring` begins when the alert was
served as firing, not when the harness learns of it, and a found answer to the wait for its end means
quiet for good: nothing but the next trial's post can change that.

`AlertsInv` is why no phase of Prometheus misses a gauge. `Alerted` follows a timestamp through its two
stations: while the last scrape does not show it, its age and the time to the next scrape are within one
interval; once it does and the alert does not fire yet, its age and the time to the next evaluation are
within two. So at an age of more than two intervals the alert fires, and the evaluations after it see an
age that is still within the window. A crash of the worker takes the gauge back to zero, hence the
exception; `PrometheusInv` says that Prometheus is up from the end of `setup` on, before which no gauge is
set.

**Worker experiment.** `Delivery`'s invariant carries over to the steps that are `Delivery`'s steps
conjoined with `Runs`, with two exceptions: `ResetState` starts from empty tables, and `StopAll` drops
open publications without a relay failure, so that the bound on copies holds within a round only
(`RoundCopies`). The script's steps fall into phases. While the workers are prepared nothing is
published (`PreparingInv`). While the backlog builds up the workers are frozen: the one call a worker had
sent may still hand it entries, but it handles none, so every delivered entry is pending (`LoadingInv`),
and the backlog, if it could be read, is the length of the stream unless a late request or a repeated
publication adds to it afterwards (`BacklogInv`); with `OutboxInv`, that is `MismatchMeansFault`. While
they drain the relays are frozen, and the call one of them had sent may add one more row, of an event
already counted (`DrainingInv`): so the processed events never exceed the counted ones, and equal numbers
mean equal sets, which is `DrainIsComplete` and does not depend on the backlog's reading. That the group
is empty needs that the reading did not fail, and that it stays so until the second one needs that no
publication was repeated (`DrainedInv`).

**Only model-checked.** The liveness properties: `AcceptedIsProcessed`, `FailuresAreDeadLettered`,
`BacklogDrains` and `TerminatedExits` of delivery, `BatchesArrive`, `RequestsEnd`, `CacheConverges`,
`AnalysesEnd`, `AllServe`, `DrillsEnd` and `RoundsDrain`. Fairness and ENABLED are out of the prover's
reach.

## 6. Not modelled

The fields of telemetry (`telemetry.py`, `collector.py`: a body is valid or not, a sample is taken or
not), deployments, incident lists and cache statistics: single statements or pure validation. The
regular expressions of `redaction.py`: only where redaction is applied is modelled. Logging, metrics
other than the three gauges the drills read, alert rules no drill waits for, health routes, TLS and
manifests. Of the harnesses: the cache experiment, which only posts load under two settings and reads
counters; the resource sampler, the parsers of k6 and docker output and the percentiles and medians of
floats; reports, metadata and evidence files; the times of the drills' trials; containers that a failing
`stop` or `rm` would leave. Of Prometheus: the discovery of targets by DNS, and a relay that dies and
takes its own gauge along. Repository checks and smoke scripts, which inspect files or make one pass of
requests. Wall-clock values (`last_seen_at`, `observed_at` ordering) appear only where they decide
control. A failure of any other call of a process is a crash of it. Timeouts of httpx are per read and
write, so a request that keeps making progress has no total deadline; the fairness of `Assistant`, of
the agent and of the drills assumes that it ends. What secures `RevisionsOnce` is that PostgreSQL makes
a second CREATE TABLE wait for the first, with or without the advisory lock; a COMMIT that is in flight
when its process is killed may outlive the session of the lock, while `Crash` of `Migrations` ends both
at once.

## 7. Plan

Done: the models and runs of section 3, and a proof of every safety property a passing run checks, with
the refinement of delivery. What could follow:

1. Liveness stays with TLC. A proof would need a prover for ENABLED; the invariants of section 5 are
   the ones its leads-to steps would rest on.
2. Four hazards of `PROJECT.json` have no property. Two are what the code does not keep: the newest batch
   in `fleet_state`, and the 60 s of the detection target. Two are data no model here has: `last_seen_at`,
   which concurrent requests of an agent may set back, and the sample numbers of the two resource
   samplers. A condition on `observed_at`, and a comparison of the percentile with its target, would each
   make a property worth stating.
3. If the routes on deployments and incidents, now single statements, come to share state with the
   workers, they become actions of `Ingestion` or `Delivery`.
