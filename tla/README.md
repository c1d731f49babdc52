# TLA+ models of fraudstream

fraudstream scores card transactions in a stream: an HTTP producer puts them on
Kafka, a PyFlink job enriches and judges them, and the results go to Kafka,
PostgreSQL, Iceberg and a Feast online store.  A management API moves rules
between active and shadow mode.  The modules here model the parts that carry the
system's logic, TLC checks them on small instances, and TLAPS proves the central
properties for every value of the constants.

## 1. Inventory

| Component | State it keeps | Operations | Hard behaviour |
|---|---|---|---|
| Velocity operator `operators/velocity.py` | per account: minute buckets, event-time timers | `process_element`, `on_timer` | late and out-of-order events against eviction |
| Device operator `operators/device.py` | per API key: profile, timers | `process_element`, `on_timer` | timers of older events, out-of-order events |
| Geolocation, assembler `geolocation.py`, `enricher.py` | none, but for the sink the assembler owns | `map`, `flat_map` | fields a rule expects and nobody writes |
| Iceberg sinks `iceberg_sink.py`, `iceberg_decisions.py`, `iceberg_sink_base.py` | buffer, last flush time, breaker | `open`, `invoke`, `_flush`, `close` | crash, timeout, late commit, breaker, duplicates, a table that is missing |
| Rule engine `scoring/rules`, `job_extension.py` | rules loaded at start | `dispatch`, `_evaluate` | a rule that raises, shadow and active rules together |
| Management API `management_api.py` | rules in memory, YAML file, replay jobs | promote, demote, start, replay endpoints | failing writes, crash in a write, rollback |
| Deduplication `TransactionDedup` | per transaction: seen-at, 48 h TTL | `process_element` | expiry in processing time |
| Alert sinks `alert_kafka.py`, `alert_postgres.py` | producer queue, connection | `emit`, `persist` | two stores without a transaction, callbacks |
| ML circuit breaker `circuit_breaker.py`, its report in `management_api.py` | pool of one thread, breaker, listener | `score_with_fallback`, `get_circuit_breaker_state` | late outcomes of calls that were given up, two reads that belong together |
| Feature materialisation `feature_materializer.py`, feature serving `feature_serving.py` | online store; pool of one thread | push of three groups; `open`, `get_features`, `close` | a read in front of another that nobody waits for, partial pushes |
| Replay `pipelines/replay` | job status and counts, consumer position, result queue | create, cancel, run, close | a job that keeps the event loop, offset ranges of a growing log, a queue nobody drains |
| Metrics bridge `kafka_metrics_bridge.py` | two threads, stop event, list of threads | `start`, `stop`, `is_healthy` | starts and stops from several callers, a thread that outlives its `stop` |
| Analytics consumer `kafka_consumer.py`, live feed `1_live_feed.py` | thread, bounded queue, consumer group | `start`, `stop`, the loop, a refresh of the page | full queue, errors, commits that fail |
| Ingestion producer `ingestion/api/producer.py`, `dlq_producer.py`, `schema_registry.py` | Kafka producer, DLQ producer | startup, POST, delivery callback, stop | a delivery that fails after the answer, a kill in between |

How they interact: the job is one Flink pipeline (deduplication, velocity,
geolocation, device, assembler, rule evaluation) whose operators hand each other
elements and watermarks in order.  The assembler calls the enriched Iceberg sink
before it yields, and the rule evaluation feeds the alert sinks and the decisions
sink.  The API and the job share one file, `rules.yaml`, and nothing else.  Around the
job stand six services that it shares topics or tables with but no state: the replay
of recorded events, the calls of the ML model, the online features, the live feed, the
metrics bridge and the ingestion API.

What makes each part correct, in short: a velocity is the sum over everything
admitted in its window, a window being measured in whole minutes; state of idle keys goes away and state of others does
not; no record leaves a sink's buffer without a row or a report; a restart costs
at most one more row per record; the breaker spares a failing catalog; an
acknowledged mode change is durable; shadow rules are silent; the strictest rule
decides; an alert exists exactly for what is not allowed; a completed replay reports
every event its source yielded, in the order of the source, and hands over every result;
the job gives a position of the source up only when there is an output for what comes before it,
repeats no output for another message of the transaction within 48 hours, and loses an
alert in two known ways only.  Of the services: a failing model is left alone for the time the
API promises; features are complete and not older than the request; the feed holds the
latest alerts and misses none it did not jump over; a topic has one reader; what a
client of the ingestion API is told stays true; stopped threads end.

## 2. Modules and how they correspond to the code

**`Velocity`** - `VelocityProcessFunction`.  `buckets` is the keyed MapState (an
absent bucket is a count of 0), `timers` and `watermark` are Flink's timer service.
`RejectLate` and `Admit` are the two paths of `process_element`, `OnTimer` is
`on_timer`.  `Deliver`, `Due` and `AdvanceWatermark` are what Flink guarantees: a
watermark fires its due timers in order before the next element.  `admitted` (ghost)
is the bag of the transactions themselves, so that the properties compare the operator
with what it was given, not with a second set of buckets.  Amounts are naturals; the
14-day processing-time TTL of the state is left out: it is reached only if event time
falls a week behind the clock.

**`SlidingWindow`** - what the velocity operator shows the rules, as an abstract
specification: a counter that keeps every transaction that came in time and reports the
number and the sum of those in each trailing window.  `Velocity` implements it with
`history = admitted` and `late = rejected`; `OnTimer` is no step of it.  Its windows are
measured in whole minutes, as the code's buckets are and as
`specs/002-flink-stream-processor/research.md:83` decided.  The specification itself means
the last 60 seconds before the event, and so on (`spec.md:37`, `data-model.md:53-60` and
`:182`): that promise (FR-002) is not kept and not claimed here.  `WindowsByMinutes` says
how far it is missed: a window of w minutes counts everything of the last w minutes, but
also what is up to a minute older, so an event nearly two minutes old is in the one-minute
window, and every later event that was admitted before.

**`DeviceProfile`** - `DeviceProcessFunction`, with the same Flink actions.  Events
too late for the velocity operator upstream do not arrive.  `recent` and `past`
are ghosts.

**`Operators`** - `Velocity` and `DeviceProfile` side by side.  They share no state and no
property speaks of both, so `operator` says which of them runs, and the states of the run
are the sum of theirs.

**`PyBreaker`** - the library's circuit breaker with one caller thread, as the sinks and
the ML breaker configure it (three failures, 30 s).  External: written from how they
use it.

**`IcebergSink`** - five classes whose control flow is one in four variants, chosen by
`class`: `"flink"` for `IcebergEnrichedSink` and `IcebergDecisionsSink` with PyFlink (the
decisions sink is the enriched one whose Feast push does nothing, a behaviour the model
includes), `"enriched"` and `"decisions"` for the classes that stand in for them without
PyFlink, `"base"` for `_IcebergSinkBase`, whose hooks are empty as it defines them.
pybreaker is taken to be installed.  The outcomes of `_flush` are operators
(`ConversionFails`, `ReportsUnwritten`, `DropsUnwritten`, `BreakerRefuses`,
`AppendCommits`, `AppendCommitsLate`, `AppendRaises`), and `FlinkFlush`, `BaseFlush`,
`EnrichedFlush` and `DecisionsFlush` say which of them each class has: `open` of the first
refuses to start without the table, the others warn and carry on (`loaded`), and then
one reports its batches and two discard them (`dropped`); only `"flink"` and `"base"` limit
the time of an append.  `InvokeElapsed`, `InvokeFull` and `InvokeBuffered` are the paths of
`invoke`; the stand-in of the enriched sink appends before it looks at the clock.  A
flush is one step: the operator's thread waits for the pool thread, after a timeout too,
because leaving the `with` block joins it.  An append that raises may have reached the
catalog or not.  `Checkpoint`, `Close`, `Crash` and `Open` are the life of a task; the
source is replayed from the last checkpoint, from the first record for the stand-ins,
which run without Flink.

**`BatchWriter`** - what the sinks promise, as an abstract specification: a writer that ends
what it holds a batch at a time, each batch as a whole.  `IcebergSink` implements it with
`held = Batch(buffer)`, `rows = table`, `reported = rejected` and `discarded = dropped`: every
invoke is `Hold` or `Flush`, whatever the outcome of the flush; the breaker, the clock, the
checkpoints and the features are no part of it.

**`RuleEngine`** - pure operators: the fields of the enriched record the rules read,
the three families, `dispatch`, the decision and the alert.  Comparing with a
threshold of the wrong type raises, as in Python.

**`RuleAdmin`** - the file, the API's memory and the running job.  `ModeChanged` is a
200, `ModeChangeFails` a 500 after any of the failures of `_write_rules_to_yaml`,
`CrashInWrite` the death of the API during the write, `StartJobDuringWrite` a job
that reads the half-written file.  The lock makes a request one step of the API.
404 and 409 change nothing and are not steps.

**`ReplaySource`** - pure operators for the three source adapters: what each makes of a
message (`Reading`), where its iteration ends (`EndsOfRange`), what the count before
the iteration can be (`EventCounts`), where the consumer is after counting
(`FirstPositions`; the poll that waits for the dead letter assignment may drop a
message) and which message the next poll can return (`NextOffsets`).  The offsets of a
range are any integers, as the API accepts them.

**`Replay`** - one replay job.  `Create` and `Cancel` are the endpoints, `Start` is
`ReplayJob.start` up to the adapter, `CountEvents` to `Exhausted` and
`PollFails` are the loop of `_run_replay` with the adapter's generator unrolled
into it, one action per way a message can end: after the range, skipped, raising,
cancelled, failed, replayed.  `PollFails` is the `continue` of the dead letter adapter, which
has no limit (`source_adapters.py:458-460`); it changes nothing of the job, so that the
ghost `errors` tells it from a pause.  `LoopEnds` writes the counts and computes the
summary, which may raise.  `ProcessQueue` and `Close` are the sink's `close`.
`_run_replay` awaits only coroutines that never suspend, so a job that has started
keeps the event loop: `Cancel` is enabled outside `Busy` only.  The sink of a job has
no Iceberg table, so its buffer is never used and its flush thread does nothing.
`Publish` is what others append to the log meanwhile.  Left out: the contents of
results and of the summary, and `filter_expression`, which the code ignores.  The names
of its types, variables and specification carry `Replay`, because `Services` extends it.

**`AlertSinks`** - `AlertKafkaSink`, `AlertPostgresSink` and `_AlertSinkFunction`.  An alert
is known by the position of its message.  `Emit` and `Persist` are the two halves of
`map`, with `handling` the alert between them; `ServeCallbacks` is what `poll` runs of
`_on_delivery`; `DeliverySucceeds` and `DeliveryFails` are the producer's own thread;
`CloseSinks` is `close`, whose flush waits for everything, and `CrashSinks` the death of
the process, which takes along what is in the producer.  A message whose delivery was
given up may be in the topic all the same, and so may a row whose insertion was
reported as failed.  Ghosts: `unreported` (only logged) and `lost`.

**`Pipeline`** - the job of `processing/job.py` around them.  The source reads a stream that
is given as a constant; `ReadMalformed`, `ReadDuplicate`, `ReadLate` and `ReadNew` are
the ways a message goes through `deserialise_with_dlq`, `TransactionDedup` and the late
check of the velocity operator.  `wire` is the network, with the checkpoint barrier in
it; `TriggerCheckpoint` and `CompleteCheckpoint` are Flink's protocol with one
checkpoint at a time.  `HandleClean`, `HandleAlert`, `EmitRaises` and `PersistAlert` are
the rule evaluation and the alert function; `outbox` and `PublishEnriched` Flink's Kafka
sink.  `Close` and `Crash` end the job, `Open` resumes it, `Tick` is processing time, in
which deduplication entries expire whether the job runs or not.  Whether a transaction
is suspicious is a constant (`RuleEngine` says why it is), and `OutOfOrder` says which
events may be late (`Velocity` says when they are); the Iceberg sinks, which take
part in no checkpoint either, are in `IcebergSink`.  Several parallel subtasks, with
barriers that are aligned, are one here.  A job that is submitted anew without a
checkpoint starts from the committed offsets with empty state; that is not modelled.

**`AtLeastOnce`** - what the job promises, as an abstract specification with two
variables: `committed`, the messages that will not be read again, and `done`, the
transactions with an output.  `Pipeline` implements it with
`committed = ckpt.next - 1` and the outputs in the topic, late rejections included.

**`ModelCalls`** - `MLCircuitBreaker.score_with_fallback`.  `SubmitScore` hands the call to the
pool; `CallRefused`, `CallModel`, `ModelReturns`, `ModelRaises` and `OpeningNotified` are
the pool's one thread, which asks the breaker when it gets to the call, so the breaker
sees one caller although many threads score; `ScoreWaitEnds` is a caller's timeout, which
cancels nothing.  `ReadBreaker` and `ReportBreaker` are the two reads of the API's report.
The listener is taken to be called with the names of the states, as its signature and the
tests have it.  Ghosts: `failedCalls`, `sinceFailure` and `promised`, the time a client was
told.

**`FeatureServing`** - `FeatureMaterializer` as the writer (`StartBatch`, `PushGroup`) and
`FeatureServingClient` as the reader (`GetFeatures`, `StartFetch`, `ReadGroup`,
`FetchReturns`, `FetchRaises`, `LookupWaitEnds`) of one online store.  Of a value only the
batch is kept that it is from, 0 for a miss and for None.  The store reads a group at a
time while batches are pushed a group at a time.  `since` in a lookup is a ghost: what the
store held when the lookup was made.

**`AlertFeed`** - `AnalyticsKafkaConsumer` and the page that drains it.  `feedThread` is where
the thread is; `Subscribe`, the ways a `poll` can end, `FeedError`, `CloseConsumer` and
`EndFeed` are its loop; `DropOldest` is apart from `PollAlertFull` because sessions take
alerts between the two (`DrainOne`).  `AutoCommit` is librdkafka's.  Ghosts: `received`,
`gone`, `skipped`.

**`MetricsBridge`** - `start`, `stop` (`StopBridge`, `Join` for each thread, `StopReturns`), and
the two ways a thread ends (`ThreadEnds`, `ThreadDies`).  `forgotten` (ghost) are threads
that were alive when `stop` dropped them.

**`Ingestion`** - the server as a process with a life (`StartServer`, `RegistryAnswers`,
`RegistryFails`, `Interrupt`, `FlushPolls`, `ProcessEnds`) and a request as two steps: it is
handled up to its answer (`PostInvalid`, `PostUnmaskable`, `PostFails`, `PostPublished`), and
the answer is written or the client is gone (`Respond`).  `EventDelivered`, `EventTimesOut`
and `LetterSent` are librdkafka's; `ServeReports` is what `poll` and `flush` make of failed
deliveries.

**`Services`** - `Replay` and the five modules above side by side.  They share no variable
and every property speaks of one of them, and a behaviour of all is an interleaving of a behaviour
of each; so it suffices to check them one at a time, which `focus` does: it names the
service that runs, and the others stay as they are initially (a replay that does not
run has one log and one configuration, `PausedReplay`).  The states of the run are the
sum, not the product, of those of the services.  Fairness and liveness are stated
here.

`MC*` modules give the constants their values.  `*Proofs` modules hold theorems.

## 3. Runs

Passing runs:

| Run | Bounds and why they are enough | Result |
|---|---|---|
| `operators` | velocity: 2 accounts, 2 ticks a minute, windows of 1 and 2 minutes, retention 5 = longest window + lateness 1, idle TTL 7, 3 events up to time 6, watermark to 13: every timer of every event can fire between any two events, and the slack in the retention is used up exactly; device: 2 devices, TTL 3, times to 5, watermark to 9, 3 events: a device is seen, evicted and seen again | `NoOrphanBucket`, `IdleAccountEvicted`, refinement of `SlidingWindow`; `ProfileSummarisesRecent`, `IdleDeviceEvicted` |
| `iceberg_sink` | every class, with and without its table where it starts without one, stream a, b, a, c, buffer of 3, one restart, breaker after 2 failures with a 2-tick timeout: a full, an elapsed and a final flush, a duplicate within and across batches, breaker opening, trial and closing | accounting, rows per delivery, online store, breaker, refinement of `BatchWriter` |
| `rules` | 3 rules, of which one is malformed, 3 mode changes, 2 crashes: damage, restart from the damaged file, further changes on top; transactions of a fast and a slow account on a new device and of a fast one on a known device, judged by every rule set that a job can start with, those of a cut-off file included: each kind of rule matches alone and with the other, and an evaluation raises while another rule matches | durability, exact rollback, `ShadowNeverInterferes`, `StrictestRuleWins` (alerts included) |
| `pipeline` | the stream b, a malformed message, a, a, with a suspicious and its first message possibly late, a TTL of 1 tick, a network of 2 elements and the barrier, one restart: a duplicate before and after the expiry, a checkpoint before, between and after them, failing deliveries to both topics, a stop and a crash in every state, resumption from every checkpoint | one output per TTL, alerts accounted for, row after emission, refinement of `AtLeastOnce` |
| `services` | 2 threads that score and 5 calls, a breaker after 2 failures with a 2-tick timeout: calls pile up behind one that is in the model, the breaker opens under them, is tried, closes and opens again, and a report is read across it; 1 account, 2 batches and 2 lookups, one given up: a read of the first in front of the second, across a push; a queue of 2 for 3 alerts, an error and 2 starts: a full queue, a consumer made anew with and without a commit; 2 starts of the bridge, so a forgotten thread meets its successor; 2 requests in 2 lives of a server with 2 attempts at the registry: a failure reported by the next request, by the flush or by nobody; a replay under 8 configurations (Kafka ranges that are closed, up to the latest offset, empty, beyond the log and from a place the consumer looks up; a dead letter topic with a limit of 2; a table) over 6 logs of up to 4 messages of every kind, which grow while they have fewer than 3, a queue of 1, a report every 2 events, a DELETE: the queue overflows, a range outgrows the log, messages are skipped, raise and fail, polls fail again and again, the request arrives before, during and after the job | types and the bounds of the queues, and the promises that end section 1: breaker, probe time, vectors, feed, readers, answers; of the replay the counts, the order, the hand-over, that each step but a failed poll brings the end nearer, and that the loop comes back; and that stopped threads end |

`CHECK_DEADLOCK FALSE` is set where the system may stop: when the bound on events is
reached (`Operators`), when neither process can load a damaged file (`RuleAdmin`), and
when everything was sent, asked, replayed and stopped (`Services`, `Replay`).

Violation runs state what a document or comment says and the code does not do:

| Run | Statement | What TLC shows |
|---|---|---|
| `device_idle` | the profile of a device expires when the device is idle | an older event's timer clears a profile in use |
| `sink_never_dropped` | decisions are never dropped | a crash after a checkpoint with records in the buffer |
| `rule_impossible_travel` | impossible travel is flagged | the rule reads a field nobody writes |
| `rule_shadow_influence` | shadow rules never influence a decision | one that raises turns a BLOCK into ALLOW |
| `alerts_dropped` | alerts are not silently dropped (`specs/003-fraud-rule-engine/spec.md:130`, `:155`) | a crash after a checkpoint destroys an alert in the producer's memory |
| `replay_range` | the end offset of a Kafka range is inclusive (`models.py:60`) | the message at the end offset is not replayed |
| `replay_cancel` | a DELETE cancels a running job (`management_api.py:774`) | one that arrives before the first event is handled after the job has completed |

Fairness is assumed in `services` and in the two runs of `Replay`, and only where the code
bounds a wait.  `WF(PromptStep)`, `ReplayRuns` in `Services`: the event loop runs a ready
task, and each of its waits with a timeout (polls, the queue) ends.  Calls without one may
hang for ever, and `MayHang` names the places: the watermark queries
(`source_adapters.py:281-284`, `303-307`, `423`), the count and the scan of a table, and the
first flush of `close` (`result_sink.py:273`; with nothing produced it returns at once).
`WF(Cancel)`: the loop runs requests when the task does not have it.  Neither says that
clients ask for anything.  `ThreadsRun`: the consumer threads poll with a timeout, so they
look at their stop event again, and `stop` joins with a timeout.  Nothing is assumed of the
model, the store, the pool's thread or the registry, whose query has no timeout
(`schema_registry.py:27`).

`LoopComesBack` therefore has the form "the loop comes back, or one of three things
happens": a call of `MayHang` never returns, polls of the dead letter topic fail for ever,
or others append to the dead letter topic for ever.  The first two do happen in the
instance.  The third cannot, because `MaxLog` bounds what others append: there
`EveryStepGetsNearer` speaks for every log, and says that an append puts the end of a dead
letter replay off by one message and that of any other replay not at all.

### Divergences met while modelling that no run states

They need no search to be seen, or no statement in the repository is precise enough to
be a property:

* velocity windows are measured in whole minutes and have no upper bound: an event up to
  119 s old and every later event counts in the one-minute window (`velocity.py:190`;
  `specs/002-flink-stream-processor/spec.md:37` says "only those events within the last 60
  seconds", `data-model.md:182` gives the boundary `event_time − 60,000ms`);
  `research.md:83` chose the buckets, so this is known to the project, and
  `CountsLikeSlidingWindow` takes the minute for granted, and `WindowsByMinutes` says how
  far a window reaches; the device's `first_seen` is that of the first event processed,
  not of the earliest (`device.py:78-97`);
* the flush interval is looked at by the next `invoke` only (`iceberg_sink.py:190`), the
  report of a failed batch names its first transaction only, and the buffer is cleared
  also while the breaker is open (`iceberg_sink.py:338`);
* after a failed write the file may hold the change that the API rolled back, and a
  running job never reloads its rules;
* an empty poll completes a job silently; the count before a dead letter replay may
  drop the topic's first message; a start offset after the end of the log replays from
  the earliest message; with an open end, `progress_percent` can exceed 100;
* the sink's queue is documented as background processing (`result_sink.py:111`), but
  only `close` takes anything from it;
* a malformed message and a late one reach no dead letter topic: the record of the first
  is built and dropped (`job.py:162-173`), the side output of the second is not collected
  (FR-010 and FR-014 of `specs/002-flink-stream-processor/spec.md`), and the late one
  makes the deduplication drop every message that repeats it;
* an alert is only logged when it cannot be serialised or reaches neither topic, where
  SC-006 of `specs/003` wants it in the topic.  `alerts_dropped` is about the alert a crash
  destroys, of which there is not even a log line; `AlertsAccounted` excuses that and the
  late events and says that no alert is missing for any other reason;
* a failing PostgreSQL is logged (`job_extension.py:127`), FR-010b of `specs/003` wants
  the record in the DLQ topic;
* the output sink is `AT_LEAST_ONCE` (`job.py:235`), FR-015 of `specs/002` demands
  exactly once: a restart puts a message out again, which `OncePerTTL` allows.
* a call that is given up is no failure of the breaker: it counts when the model returns,
  which may be never, so a model that hangs never opens it
  (`specs/004-operational-excellence/research.md:15` treats a timeout as a failure; the
  wait, `circuit_breaker.py:103`, is outside the breaker); `cb_error_window_seconds` is read
  by nothing;
* `get_features` of a closed client raises the RuntimeError of its pool (`README.md:257` and
  `:849` say that it never raises), and a read that missed its 3 ms goes on (FR-003 of
  `specs/007-feature-serving-contract/spec.md`: "MUST be cancelled immediately");
* the device group of a transaction without a past has None features
  (`feature_schema.py:46-64`), and one None makes the whole vector zero
  (`feature_serving.py:123`): such an account has no velocity features either;
* `start` of the feed right after `stop` finds the thread alive, does nothing and leaves
  nobody running once it has ended (`kafka_consumer.py:113` calls it idempotent);
* `start` of the bridge while `stop` joins creates threads which that `stop` forgets when it
  returns: they go on, `is_healthy` is false, and only another `stop` ends them;
* the feed's thread takes the oldest alert out whenever a put has failed before, also when a
  session has made room meanwhile (`kafka_consumer.py:193-199`): FR-007 of
  `specs/008-analytics-consumer-layer/spec.md` evicts when the buffer is full;
* two sessions of the dashboard share one queue, so each shows a part of the alerts
  (`kafka_consumer.py:93`: "Owned by a single Streamlit session"), and the page forgets an
  arbitrary transaction id, not the oldest (`1_live_feed.py:58`), under the caption "unique
  alerts" (`:77`);
* the dead letter of a failed delivery has no payload, and the DLQ producer is flushed by
  nobody, so an orderly stop can lose it.

## 4. Proofs

All for arbitrary constants under the named assumptions of the modules.

* `SumTheorems`.  Finite sums, as the library's `SumFunction` computes them: of nothing, of
  zeros, with one term more, with one term changed.  The library defines a sum by a
  function over a set from which elements are taken one by one, and the provers cannot
  instantiate an induction theorem with a predicate.  So the induction is made with sets in
  the place of predicates: the naturals are well founded (`LeastNatural`), hence a
  collection of sets that has the empty set and, with each set, the set with one element
  more has every finite set (`SubsetInduction`).
* `VelocityProofs`.  `VelocityExact` compares sums over buckets with sums over transactions.
  The invariant says that from the cutoff of the watermark on the two agree for every
  bucket boundary (`Tallied`): an admission adds the same to both (`TotalOfAdd`,
  `TallyOfAdd`), an eviction touches neither, and `RetentionAssumption` (retention at least
  longest window plus lateness) says that no window of an admissible event reaches below
  that cutoff (`WindowRetained`).  The sums are defined because only finitely many
  transactions were admitted (`FinitelyMany`).  The eviction theorems rest on the pending
  idle timer of an event of each bucket (`IdleTimerPending`) and on `IdleAssumption`.
  `Implementation` is the refinement of `SlidingWindow`, step by step: what the operator
  reports after a step is what the counter reports because `VelocityExact` holds there.
  `WindowsByMinutes` measures the counter's windows: arithmetic of the minute.
* `DeviceProfileProofs`.  The profile is the summary of `recent`; a pending timer for
  `last_seen` gives the eviction.
* `IcebergSinkProofs`.  The invariant adds to the checked properties that the breaker's
  counter is the run of failed appends (`BreakerTracksAppends`) and what a restart
  point may refer to (`RestartPoint`).  The theorems hold for all five classes.  One
  lemma, `FlushEffect`, says what any outcome of a flush does; the actions use only
  that, and the action property `BreakerSparesCatalog` follows from it.  `Implementation` is
  the refinement of `BatchWriter`: any outcome of a flush, of any class, settles its batch as
  a whole (`FlushSettles`), and each action is one step of the writer or a stutter
  (`WriterStep`).
* `RuleAdminProofs`.  `AckedModeDurable` alone is not inductive: after damage, the first
  complete write must restore it, so the invariant claims the acknowledged modes for
  the rules that are left also in a cut-off file and in an API started from one
  (`ModesAgree`).  `ShadowNeverInterferes` and `StrictestRuleWins` speak of inputs on
  which no rule raises; `rule_shadow_influence` shows that they must.  With that, both
  hold for all rule sets, and the alert goes with the decision in any case: the strictest
  severity of a union is that of one member.
* `ReplayProofs`.  The invariant describes the loop between the actions: before it,
  nothing has been read (`NothingYet`); in it, the counts are those of what was seen
  (`LoopCounts`), everything seen lies behind the position and within the log
  (`Behind`), and nothing behind the position was left out (`NoGap`).
  `ResultsReachTheProducer` needs to know where every result is (`HandInv`): the first
  `QueueSize` of them are in the queue, in their order, less those already taken
  (`InTurn`, `QueueFills`); each of the others was handed over or lost when it came, and
  what is in the queue is neither produced nor lost (`OnePlace`).  `EveryStepGetsNearer` is
  the safety half of `LoopComesBack`: the pair of the task's stage and of what its loop has
  left falls with every step of the job but `PollFails`, which leaves it as it is, and no
  other step raises it but an append to the dead letter topic, which raises it by one
  message.  So a job that never ends has a call that hangs, polls that fail for ever or a
  topic that grows for ever, and nothing else.
* `PipelineProofs`.  Two properties, the refinement and `AlertsAccounted`, have the same
  core, `CoverInv`: every message the source has passed is represented, by itself or
  an earlier message of its transaction, among what came through or is on the wire;
  every message before the barrier's snapshot among what came through or is ahead of
  the barrier; every message before the last checkpoint among what outlives a crash.
  One lemma, `CoverStep`, proves that for any such sets; it is used for the outputs and for
  the alerts.  It needs that a deduplication state belongs to its position
  (`SeenInv`: it holds nothing that is not before it, and of that only what is older than
  the TTL is missing, with the age of the transaction as the measure) and where the
  barrier is (`BarrierInv`).  `OncePerTTL` follows from `SeenInv` by `PutInv`,
  `RowAfterEmission` from `HandlingInv`.

* `ServicesProofs`.  A step of `Services` is a step of one service and a stutter of the others
  (`StepOfOne`), so each has an invariant of its own.  `ModelInv`: a closed breaker counts
  exactly the model's failures, the listener's time is that of the latest opening until the
  next trial, and what a client was told is not longer than the breaker stays open; both
  action properties follow at the one step that enters the model.  `ServingInv`: unless it
  holds nothing, the store holds nothing older than what a pending lookup found in it.
  `FeedInv`: what left the queue, what is in it and what is in the thread's hand are all that
  was received; everything before the group's commit was seen.  `BridgeInv`: a thread that
  runs was created by the latest `start`, or is forgotten.  `IngestInv`: the answer that is
  about to be written is as honest as those that were, and a process that does not serve
  has nothing in memory; `OtherStep` proves the step for every action that takes no
  request.  `ServicesTypeOK` needs all of them, and the types of `ReplayProofs`, which the
  module extends.

Only model-checked: `LoopComesBack` and `StoppedThreadsEnd`, which are liveness under
fairness (the prover does not reason about ENABLED), and every violation.  Every other property of a passing run is a theorem.

## 5. Not modelled

* Metrics, tracing and logging: they change nothing that the pipeline computes or stores.
* Avro and Arrow layouts and the records of the dead letter topics: formats.
* PII masking: string handling without state; `Ingestion` has its outcomes.
* Dashboards but for the live feed, queries, scripts: read-only or run once.
* The shadow decisions sink: nothing creates it.
* The replay sink with a table, whose flush thread would race `close`: no job configures one.
* Authentication, rate limits and read-only endpoints of the management API.
* A job that is submitted without a checkpoint; several parallel subtasks.
* The scores and the contents of features, of alerts and of replay results.

## 6. Plan

Done: the operators, the Iceberg sinks in all their classes, the rules with their
administration, the replay job, the composed pipeline with deduplication and alert sinks
and the at-least-once specification it implements, the services around it, and the
theorems above.

1. The ingestion API as the source of `Pipeline`: an event the API has accepted and the
   broker has acknowledged is one of the messages of `Stream`.
2. `Pipeline` with several subtasks and aligned barriers, and with a submission that starts
   from the committed offsets.
3. A measure for `StoppedThreadsEnd`, as `JobRunsOut` is one for `LoopComesBack`: what can
   be proved of a liveness property.
4. `DeviceProfile` against an abstract profile, in the way of `SlidingWindow`.
