# TLA+ verification of the weather-driven demand forecasting platform

The platform ingests simulated demand events and weather readings from Kafka
(Redpanda), keeps them in Postgres, in a Parquet lake (MinIO) and in Redis,
trains models in batch, and serves predictions. This directory models the parts
of it whose correctness depends on the order of steps: who commits what when,
what survives a crash, what a reader may see in between. Modules are translated
from the code under `src/`; `PROJECT.json` maps each definition to its lines.

## 1. The system

| component | code | state it keeps | operations | talks to |
|---|---|---|---|---|
| ingestor, consumers | `services/ingestor/app/{consumers,main,db}.py`, `tools/replay.py` | per thread: batch, pending offsets, position; shared: the DLQ producer's queue; durable: raw tables, committed offsets | poll, validate, bulk insert, dead-letter, commit, stop, replay | Kafka, Postgres, DLQ topic |
| ingestor, lake writer | `services/ingestor/app/parquet_writer.py` | `_written`, `tracked_hour`; durable: `raw/` files | list, catch up, roll over, final flush | Postgres, S3, the wall clock |
| worker, stream consumers | `services/worker/app/stream_features/{consumer,parquet_buffer}.py`, `services/worker/app/main.py` | pending offsets, buffer, flush in progress; stop event | poll, update Redis, append, commit, flush, join | Kafka, Redis, S3 |
| route features | `.../stream_features/redis_ops.py`, `services/api/app/features/online.py`, `tools/reconstruct.py` | two sorted sets and a hash per route | add, trim, count, store; overwrite; read with SLA; reconstruct | Redis, lake |
| batch pipeline | `services/worker/app/{pipeline,staging,marts,sql_runner}.py`, `services/worker/sql/` | staging and mart tables, reject log, the fitted artifact | upsert a sliding window, rebuild marts, set holidays, quality checks, fit once | Postgres, S3 |
| schema | `infra/postgres/init`, `infra/postgres/alembic`, `Makefile` | schemas, tables, the recorded revision | first boot, upgrade, downgrade | Postgres |
| feature store sync | `services/worker/app/feature_store.py` | route hashes, completion sentinel | write in batches, then the sentinel | Postgres, Redis |
| drift and retraining | `services/worker/app/{drift,auto_retrain,scaler}.py`, `services/drift/app/main.py` | retrain lock, time of the last retrain | check, trigger, retrain, stage | Postgres, MLflow |
| trainer, registry | `services/trainer/app/{main,train,promote,data}.py` | versions and stages in MLflow | register, compare, transition, archive | MLflow, lake |
| prediction API | `services/api/app/main.py` | loaded models and versions, lock, subscribers' queues | load, reload, predict, shadow, promote, broadcast | MLflow, Redis, Postgres |
| sources | `services/{event-generator,mock-weather,weather-poller}`, `libs/common/common/{generator,producer}.py` | simulated clock; chaos settings; the producers' queues | produce; fail on purpose; poll; flush | Kafka, HTTP |
| user interface | `services/ui` | socket, timer and back-off of the live stream | reconnect, unmount, show | API |
| tools, infrastructure | `tools/`, `infra/`, `scripts/`, `docker-compose.yml` | alerts, restart policies | back-fill, replay, benchmark, chaos scripts | all |

What is hard in it, by component, and what would make it right:

* **Ingestor.** Three independent stores (offsets, rows, dead letters) move in
  separate steps; a batch insert fails after or before it was applied; the final
  flush in the `finally` clause repeats a flush that just failed; the DLQ
  producer is shared and asynchronous; `main()` waits with deadlines. Right
  means: no committed message is forgotten, none has two rows, a clean stop
  drops nothing, every message is settled in the end.
* **Lake writer.** The clock is read at several places of one pass, query and
  upload are separate, and the memory of what was written is rebuilt from S3.
  Right means: a file is complete, no completed hour is left out.
* **Stream consumers.** Offsets are committed on a shorter timer than buffers
  are uploaded on; errors of one message must not lose it. Right means: what is
  committed was processed and is in the lake or on its way.
* **Route features.** Updates are idempotent only if order and redelivery
  cannot be told from the result. Right means: counts equal the offline
  reconstruction, ages are true.
* **Batch.** The aggregation window slides through hours, two runs may overlap
  and commit in the other order, three transactions and a check follow each
  other with failures in between, the fitted artifact is looked for and then
  put. Right means: no row of the window is left out of its hour in the end,
  marts are what staging and the calendar say, a failed check has a cause.
* **Schema.** First boot makes tables without a revision, downgrades drop whole
  schemas under running programs. Right means: the revision tells what is there.
* **Sources.** A stop in the middle of a tick, a full queue, a restart in the
  middle of a cycle, exceptions the `except` clause leaves out. Right means:
  what was handed over is delivered, every city gets its reading in the end.
* **Feature store sync.** Readers between two batches; right means the sentinel
  never vouches for an unfinished run.
* **Retraining and registry.** Three triggers, a cooldown read outside the lock,
  and registration, comparison and staging as separate calls of two processes,
  each of which may fail. Right means: at most one retrain at a time, drift does
  not start them in close succession, what was rejected is never staged, one
  Production version.
* **API, models.** Models are searched, loaded and published in separate steps,
  the retry loop loads outside the lock that an admin call holds, predictions and
  their audit cross awaits. Right means: what is served and named is Production,
  the audit agrees with the answers, every call returns.
* **API, live updates.** A bounded queue per subscriber, handlers that notice a
  dead connection only when they send, a browser that reconnects by itself.
  Right means: a stream without holes, no subscription left behind, one
  connection per browser, and one that comes back.

## 2. Modules

| module | role |
|---|---|
| `AtLeastOnce` | abstract contract of a consumer group: take over, acknowledge a taken-over prefix, be repositioned while detached |
| `Ingestor`, `MCIngestor` | both consumer threads, DLQ producer, `main()`, kill, restart, replay; implements `AtLeastOnce` |
| `IngestorProofs` | the proofs about `Ingestor` |
| `StreamFeatures`, `MCStreamFeatures` | the worker's stream consumers, their buffers and `main()`; implements `AtLeastOnce` |
| `StreamFeaturesProofs` | the proofs about `StreamFeatures` |
| `RouteFeatures`, `MCRouteFeatures` | one route's sorted sets and hash, the API's age rule, the reconstruction as reference |
| `RouteFeaturesProofs` | the proofs about `RouteFeatures` |
| `ParquetWriter`, `MCParquetWriter` | the ingestor's hourly lake writer |
| `ParquetWriterProofs` | the proofs about `ParquetWriter` |
| `ModelRegistry` | the MLflow registry as its clients use it: register, search by stage, transition |
| `ModelLifecycle` | abstract specification of all writers of the registry: registered, staged, promoted, archived |
| `Serving`, `MCServing` | the API's models: start-up load, retry loop, reload, promotion, predictions and their audit; implements `ModelLifecycle` |
| `ServingProofs` | the proofs about `Serving` |
| `Retrain`, `MCRetrain` | drift check, weekly job and trainer, over the same registry; implements `ModelLifecycle` |
| `RetrainProofs` | what the registry's operators return; the proofs about `Retrain` |
| `LiveFeed`, `MCLiveFeed` | the API's live stream and the browser at its other end |
| `LiveFeedProofs` | the proofs about `LiveFeed` |
| `Clock` | the cities and the wall clock the next five share |
| `Sources` | event generator, weather poller, mock weather API with its chaos, the shared producer |
| `Migrations` | the nine Alembic revisions, up to the head and down, over the tables of the first boot |
| `Batch` | `run_pipeline`: staging, marts, holidays, checks, the first fit, for several processes |
| `FeatureStore` | the route mart SQL and the nightly sync to Redis with its sentinel |
| `DataPath`, `MCDataPath` | `Sources`, `Migrations`, `Batch` and `FeatureStore` composed over one database and one clock, with the backfill |
| `DataPathProofs` | the proofs about `DataPath` and the four modules it composes |

**`Ingestor`.** `position`, `batch`, `pending` and `cursor` are the locals of a
consumer loop (`cursor` is the item of the batch that the DLQ loop is at); `pc`
is where the thread is, with `final` set once control has left the loop for its
`finally` clause. A flush is three places, `insert`, `dlq` and `commit`, because
other threads, the DLQ producer and a kill can come between them; an insert may
be applied and still raise (a connection lost while it commits). The DLQ producer is a set of queued offsets that are
delivered, expire, or are lost with the process. `main()` is `proc`: up,
joining, flushing, exiting; its deadlines may pass. Kafka is the retained topic
and the committed offset of each partition, Postgres the set of rows. Message
payloads are reduced to what the handlers tell apart (`Kind`). The error branch
of a poll only logs and is a stutter. Topics are fixed: a poll may always time
out, which is what a message not yet produced looks like. The two loops are the
same code over two tables and become one set of actions over `Thread`. Pages of
`execute_values` make it open which bad item of a batch is met first, so both
kinds of failure are possible when a batch holds both.

**`StreamFeatures`.** The same shape: `pending` offsets, then a flush that swaps
the buffer out (`uploading`), uploads one (date, hour) group after another and
returns refused groups. `lost` is a history of the records that left the memory
otherwise: with a killed process, with a flush an exception ended, or refused in
the last flush. The buffer is a set: the order of records, and the
duplicates that a redelivered event leaves in the lake, are abstracted. `proc`
distinguishes the start-up pipeline run from the scheduler, because a signal
does different things in them.

**`RouteFeatures`.** `Pipeline` and `StoreCounts` are the two round trips of
`update_demand_features`; `PipelineFails` and `StoreFails` leave any prefix of
them applied (the pipeline is not a transaction). Counts are real counts over
timestamps in ticks, `Second` of them to a second: scores are floats, and the
trim leaves members up to a second older than the longest window (`Trimmed`).
`Reconstruct` is the SQL of `tools/reconstruct.py`, written independently of the
Redis counts. A ratio is kept as its two terms. The offsets
around the update are a summary of `StreamFeatures`.

**`ParquetWriter`.** The hours a pass will visit are a queue in the order of the
code's loops; a visit is a query and an upload, with the transactions of the
ingestor beginning (which stamps `ingested_at`) and committing in between. A
file is the set of its rows; no rows, no file. Start-up reads the clock in `List` (the catch-up)
and again in `DoneWriting` (`tracked_hour`), as the code does.

**`Serving`.** A registry is the sequence of its versions' stages. `loader` holds
the local variables of a load (what the search found, what was loaded) for the
retry loop (`Boot`) and each admin call; `lock` is the queue of `reload_lock`, its
head the holder. An admin call joins the queue first and holds the lock to its
end; `Boot` loads without it and joins it to publish. Search, load of Production
and load of Staging are separate steps because each is a request to MLflow, and
both loads resolve the stage anew. `prod` and `staging` pair a model with the
version in its info, since the two come from different requests. A prediction
takes the model before its inference and the version label after it (`swapped`, a
history, says that they may differ: other models were published in between, or a
promotion had overtaken the load of these); its shadow
task and the two inserts follow, with the failures of each. `overtaken`, `fresh`
and `newest` are history variables that say whether a promotion came after the
search that the served models go back to. `Restart` is a kill: calls, shadow
tasks and the lock are gone. The trainer and worker are `Registers` and
`StagesModel`; `PromotedElsewhere` is a promotion by another client.

**`Retrain`.** `run[r]` is where a run is and its local variables; the trainer's
run passes the drift gate, the worker's does not (`RegisterModel`). `locked` is
a lock without an owner, released in the `finally` clause (`Release`), so the
model can tell a release by somebody who never acquired. `RunFails` is an
exception at any step, with a transition that may have been applied. The tags
on versions are `compared` and `rejected`. Training, statistics and metrics are
a free choice of their outcome. `Promotion` is the API's `Promote`, whole.

**`LiveFeed`.** Connections are numbered; each has its handler's place, queue
and message in hand, and its link. A broadcast runs without an await and is one
step. A link that broke is not known to be closed at once (`noticed`, set by
`Notice`): until then what a handler sends is lost without an error, and from
then on its next `Send` raises, which is how it learns of it. The browser is the state of the hook: `socket`
(`wsRef`), `timer`, `delay` and `status`; the socket's events come some time
after what caused them.

**`Sources`.** `gen` and `poller` are where the two loops are; `asked` is the
`_SHUTDOWN` flag, looked at where the code looks at it: between ticks in the
generator, before every city and while waiting in the poller. `queue` is what
librdkafka has not sent; `__exit__` of the producer (`GenExit`, `PollerExit`)
drops what ten seconds of flush have not delivered, be it that the broker is away
or that it was too slow (`FlushTimesOut`). The six events of a city are one
message of the model; a queue that fills up, or a kill, between them leaves the
first ones handed over (`GenBufferError`, `Kill`), and the message stands for
those. `FetchOutcomes` follows a
request through the chaos middleware and the body through `_flatten` to what
the poller's `except` clause catches and what it leaves out: a timeout while the
response is awaited and a null where an object is expected end the process.
What a reading and a quantity are computed from is kept, not the arithmetic.

**`Migrations`.** A revision is what its `upgrade` creates and its `downgrade`
drops; columns, constraints and indexes come and go with their table.

**`Batch`.** `pc[p]` is where a run of `run_pipeline` is. A statement reads when
it starts and its transaction commits later, so each of the three transactions
is a read into `snap` and a commit. The two staging files are two statements of
one transaction and read one after the other (`DemandRead`, `WeatherRead`), with
commits of others in between. A total is the set of ids of the raw rows it
was computed from, which says what was counted and not only how much. `Raise` is
an exception, or a kill, at any step. A downgrade waits for open transactions;
one that would deadlock with a staging transaction ends by PostgreSQL's choice
as a `Raise` or as a downgrade that did not happen.

**`FeatureStore`.** `sync` is the run in progress: its stamp, the rows it has
read and the places in `Cities` whose rows are still to send. `FlushBatch` is one pipeline of HSETs, `SyncFails`
leaves any part of a batch executed. One feature stands for each way of being
NULL, which is left out of the mapping.

**`DataPath`.** `left` bounds how often each kind of event may still happen; it
is the scenario's budget, named per kind in `MCDataPath`. The ingestor is here
by what it does to the data (`Ingest`). `overtaken` and `disturbed` are
histories that say which of two overlapping runs is the older one, and which
runs have seen staging change since they read it.

Definitions headed *Variant* are alternative bodies of a definition with a
plausible mistake; no specification uses them. They document what each property
is sensitive to: with the variant in place of the definition, TLC finds the
property violated.

### Plan

The modules were written in this order; a module that composes others is named
after them. All are modelled, checked and proved about.

1. `AtLeastOnce`, `Ingestor`.
2. `StreamFeatures`.
3. `RouteFeatures`.
4. `ParquetWriter`.
5. `ModelRegistry`, `ModelLifecycle`, `Serving`, `Retrain`.
6. `LiveFeed`.
7. `Clock`, `Sources`, `Migrations`, `Batch`, `FeatureStore`, composed in
   `DataPath`.

Every invariant and every action property that a run checks, and every
refinement, is a theorem too (section 4). What remains is to say less in the
lemmas: several proofs repeat, per action, what a common frame lemma could say
once (`DataPathProofs`, `ServingProofs`).

## 3. Runs

`pass` runs explore the whole state space, the longest (`DataPath`) in about three minutes.

### Passing

| run | question | bounds |
|---|---|---|
| `IngestorFaults` | whatever fails, is a committed message always settled (`NoUnsettledCommit`), stored once (`OneRowPerEvent`), and is the whole an `AtLeastOnce` group? Does a stop within its deadlines drop a dead letter (`CleanStopDropsNothing`)? Is everything settled and committed in the end, as long as the threads live (`EverythingCommitted`)? | both threads and `main()`; five pairs of partitions of one topic with every kind of message and one event twice, and two pairs of topics with dead letters on both sides; batches of two; any two faults |
| `StreamFaults` | is nothing committed for the sake of a message that Redis refused or that was not looked at (`CommitsRestOnHandled`), does a flush return what it could not upload (`FlushKeepsRecords`), is it an `AtLeastOnce` group? Does a stop at any moment drain the buffers, also one during the start-up run (`CleanStopDrains`)? `Liveness`: a signal ends the consumers (`ConsumersStop`), a stop the worker (`JoinsReturn`), and every event reaches the lake while the consumers live (`ReachesLake`) | both consumers and `main()`; five pairs of partitions of one topic with every kind of message, and two topics; flushes over two hours; two of kill, stop, Redis error, failed commit, refused and failed upload |
| `RouteUpdates` | do counts equal the reconstruction for every window no trim could reach (`WindowsExact`)? After redelivery, does the hash hold the latest values (`LatestWeather`), is what is flagged as degraded old (`FlaggedIsStale`)? | three or four events in any order at times on, inside and outside every window bound, and in the second before the trim (a tick is half a second); three readings with nulls beside an event; two faults, a clock of three values |
| `LakeHours` | are files complete (`FilesComplete`), does the catch-up repair what a crash left (`CaughtUp`), does a stop at any moment flush the hours that are over (`StopFlushesHours`), is every tracked hour written (`TrackedHoursWritten`)? | two tables, three hours, two rows, any two faults |
| `ServingSwaps` | is the Production version served and named, unless a promotion overtook the load (`ServesProduction`), does a promotion end with serving what it promoted (`PromoteServesIt`)? Does an answer name the model it comes from, and do the audit tables agree with the answers and with each other (`AuditMatchesAnswers`)? `Liveness`: an unready process becomes ready (`RetryMakesReady`), every call returns (`CallsReturn`). Does the registry keep its life cycle (`LifecycleSpec`)? | two admin calls, the retry loop, one prediction; registries without and with a Production version, and one where an older version is staged; two versions, any one fault |
| `RetrainRuns` | does one run at a time train in the worker (`OneRetrain`), do drift's runs keep their distance (`DriftRunsApart`), do all end (`RunsEnd`)? Is what was rejected never staged and what was compared with a Production version (`TagsAreTrue`), the life cycle kept (`LifecycleSpec`)? | two drift threads, the weekly job, the trainer; two versions, a cooldown of two ticks in a clock of four values, any one fault |
| `LiveFeed` | is a stream free of holes, and does a full queue cost nobody else a message (`NoGaps`)? Has the browser one connection (`OneConnection`)? `Liveness`: connections known to be closed leave (`DeadOnesLeave`), and the browser has a connection again after every break (`Reconnects`) | three connections, queues of two, three messages, back-off of two values, two faults |
| `DataPath` | eight scenarios, one budget each. Has an event one raw row (`TypeOK`), the schema what its revision says (`SchemaMatchesRevision`), a failed check a cause (`QualityHolds`)? Is nothing lost that was handed to a producer (`NothingLost`), does the sentinel vouch for whole routes of one run (`SentinelConfirms`)? Does a staged event stay staged (`StagedStays`), a holiday flag survive (`HolidaysKept`), do marts come to what they must be (`MartsSettle`), is every city polled (`CitiesPolled`)? | two cities, five hours of clock, windows, days and lags of one or two hours, batches of one route, queues of two, a generator at most two hours ahead |

The scenarios of `DataPath` are: `Overlap` (two runs over the same rows, one may
fail, the window slides), `Late` (rows stamped with the hour before, a business
hour ahead of the clock), `Schema` (from an unmigrated volume up, down by one or
to the base, and up, under the hourly run, with a backfill from the lake),
`Sync` (two nightly syncs over growing marts, one failing), `Generating` (a
generator restarted, stopped, killed, cut off), `Polling` and `Disconnected`
(the poller under two changes of chaos; killed and cut off), `Together` (one
path from the generator to the marts). They are one run because the components
share the next-state relation; a budget of zero turns a kind of event off, which
keeps the product small. A day is one hour and the window is one hour, so that a
row leaves the window and a day ends within the bound of the clock (`MaxHour`).

Why these bounds: every property relates one message (event, row, hour) to one
offset or file, and a counterexample needs the message, one or two neighbours
that move the offset or the clock past it, and one or two faults between the
steps of one operation. Two partitions are enough for an entry to be absent from
`pending_offsets` while another is present; batches of two for one bad item to
fail a good one and for a duplicate inside a batch; two faults for a failure
during the recovery from a failure. Three hours let two end while the writer is
busy or down. Two admin calls, or one and the retry loop, are the writers that
can overtake each other; two versions are the one before and the one after, and
one fault is enough beside promotions by the calls themselves. Queues of two let
a queue fill up while one message is in hand. The variants show that each property can fail at these sizes.

Liveness is stated for as long as the threads live: `Healthy` is the premise
that from some time on the process is up, unstopped, and no thread has ended. A
fault that ends a thread makes the premise false for good, which is itself the
behaviour described below.

### Violations: where the code does not do what it says

| run | what TLC finds |
|---|---|
| `IngestorKillLosesDlq` | offsets are committed while a dead letter is only queued in the producer; a kill loses it |
| `StreamCrash` | one behaviour breaks both promises about a crash (`CrashRedelivers` asks for one of them): a later message of the partition commits past one whose Redis update was refused, against `consumer.py` 26-28, and is itself committed while it is only in the buffer, against `consumer.py` 8-9; a kill follows, and neither is delivered again |
| `ServingRetryOverwrites` | a load of the retry loop that searched before a promotion publishes after it and ends: the API is back at the archived version |
| `DataPathTwoFits` | two first runs of the pipeline both find no artifact and both fit: the second PUT replaces the statistics the first published, which `pipeline.py` calls a distributed lock |

`PROJECT.json` quotes the contradicted doc or comment for each.

### What the passing properties leave out on purpose

The models also contain behaviours that the code has, that its comments do not
promise away entirely, and that the properties above are stated around:

* a message that raises an exception no handler names, or a failed commit, ends
  a consumer thread while the process lives on (`PollRaises`, `CommitRaises`;
  outside `Healthy`);
* after a Redis error the next message of the partition commits past the one
  that failed, in spite of `consumer.py` 26-28. `StreamCrash` shows it;
  `CommitsRestOnHandled` says what does hold, that a refused message is passed
  only for the sake of a later one that was handled, and `AtLeastOnce` takes a
  refused message as taken over (`unapplied` in `Tried`);
* an upload error other than `ClientError` leaves the flush with the records it
  had swapped out (`UploadRaises`; the history variable `lost`);
* a signal during the start-up run stops the consumers, but its
  `scheduler.shutdown()` raises and is swallowed: the worker does not end
  (`Signal` while `starting`; `ConsumersStop` and `CleanStopDrains` cover the
  consumers, `JoinsReturn` begins at `joining`);
* a ZADD executed by an update that then fails counts in Redis and is not in the
  lake's buffer (`counted`, to which `WindowsExact` refers);
* a row committed after its hour has ended can be missing from the hour's file
  (`late`); an hour whose write was refused is not visited again before a
  restart (`missed`); an endpoint that cannot be reached ends the writer (`Dies`);
* an hour that ends while the catch-up still runs belongs neither to the
  catch-up, which read the clock before, nor to `tracked_hour`, read after
  (`parquet_writer.py` 145): it is written by the next start only;
* an event that is late, or delivered again, is counted by its own window's
  bounds over a set a newer event has trimmed (`redis_ops.py` 85 says that
  redelivery gives the same result): `WindowsExact` is about windows no trim
  could reach;
* the age of all fields of a route is that of one stamp, which demand events
  refresh too (`online.py` 22): what is flagged is old (`FlaggedIsStale`), not
  all that is old is flagged;
* the label of a prediction is read after the inference (`Answer`): when a reload
  comes in between, answer and audit both name the version that came after the
  model used, and are thus outside `AuditMatchesAnswers` (`swapped`);
* a load that a promotion overtakes between its search and its load publishes
  the new model under the old version's info (`overtaken`);
* of two queued promotions the second promotes what is staged by then, which may
  be older than what the first promoted (`ModelLifecycle` lets it);
* a kill loses the shadow tasks of predictions already answered (`lost`), a
  failed insert what follows it (`unlogged`);
* what is written to a connection between its break and the moment the API gets
  to know of it is lost (`SendVanishes`): `NoGaps` is about links that are intact
  and about what has arrived, and `DeadOnesLeave` begins with `noticed`;
* a subscriber that was struck off for its full queue keeps an open connection
  on which nothing more arrives; the browser reconnects only when it is closed;
* a registry query that fails counts as "no Production version" and the
  candidate is staged without a comparison (`Query`, `Evaluate`);
* the tag says which version was searched; a promotion before its model is
  loaded means another one was compared (`TagsAreTrue` is about the tag);
* the weekly job does not look at the cooldown, and a drift thread whose check
  passed before a quick weekly run stamped starts right after it
  (`auto_retrain.py` 449-451, `settings.py` 86): `DriftRunsApart` is about two
  runs started by drift;
* the aggregate of the hour at the edge of the staging window becomes one of the
  rows that are still inside it (`staging.py` 62 calls a run idempotent): rows
  older than the window may leave their hour (`StagedStays`);
* of two overlapping runs the older may commit last and take a newer aggregate
  back (`overtaken`) until the next run; a run that another one's new hours
  overtake fails its row count (`disturbed`);
* backfilled rows are stamped with the time of the backfill, so the run that
  `backfill.py` recommends afterwards stages none of them within the same hour:
  `MartsSettle` counts on the hourly runs that follow;
* a feature that is NULL in a newer run keeps its older value in the hash, under
  the newer stamp: `SentinelConfirms` is about the features that were not NULL;
  and the API does not read the sentinel;
* LAG and the rolling windows count rows, whatever hours lie between them
  (`Nth`, `Back`);
* a rate of 1.0 for nulled fields nulls `currentConditions` itself and the poller
  ends with a TypeError in every cycle (`Fetched`): `CitiesPolled` begins when
  the chaos is over;
* a started generator begins its simulated clock at the time of the start, so
  hours it has produced before come again with new ids and other quantities, as
  the seed of a quantity is a string hash that Python salts per process
  (`GenerateQuantity`);
* what the broker gave up on, or a kill or the end of the last flush's ten
  seconds took with it, is gone (`excused`).

### Fairness

`Ingestor!Fairness`: each thread keeps taking steps (the interpreter schedules
it, `poll` returns), the DLQ producer's background thread delivers, and docker's
`restart: unless-stopped` brings a killed process back. `StreamFeatures` assumes
the same of its threads, of the end of the start-up run and of `main()`;
`ParquetWriter` that its wait times out, transactions end, and time goes on.
`Serving` assumes that the event loop runs what is ready and that requests to
MLflow return, with an answer or an error: the steps of the retry loop and of
each admin call are fair, calls are not. `Retrain` assumes that threads and
processes run (`RunStep`), `LiveFeed` that the event loop, the network and the
browser deliver; neither broadcasts nor `Notice` are assumed. `Retrain`'s clock moves only when
no started thread is still about to ask for the lock, since a tick stands for
minutes; `DriftRunsApart` rests on it.
All of it is weak fairness on the program's or runtime's own steps; no fault is
ever fair, and no thread that has ended is restarted by it. In `StreamFeatures`
one weak fairness condition covers a thread's polls, commits and flushes: each
of its steps consumes something, so none can starve the others. `DataPath`
assumes that librdkafka delivers, that the poller and a run or sync that has
begun take their steps, that the scheduler starts the hourly run, and that Docker
restarts a poller that crashed and was not stopped; neither the clock nor the
generator is fair, nor is anybody who stops, kills, migrates or reconfigures.

## 4. Proofs

All theorems are for every value of the constants that satisfies the named
assumptions, which TLC evaluates in every run:

* `IngestorAssumption`, `StreamFeaturesAssumption`: finite sets of threads and
  partitions, topics that are sequences of messages, a positive batch size;
* `RouteFeaturesAssumption`: windows ordered by width, any positive number of
  ticks to a second, ids that name one event, and a `None` that is neither a value nor a time;
* `ParquetWriterAssumption`: a list of tables that is not empty;
* `RetrainAssumption`, `ServingAssumption`: any cooldown, and registries that
  begin with at most one Production version; the retry loop is no admin call;
* `LiveFeedAssumption`: queues of at least one message, an initial back-off not
  above the maximum;
* `ClockAssumption`, `LookbackAssumption`, `RowsAssumption`, `ProcessAssumption`:
  a list of cities that is not empty, a positive window, positive lags, the
  worker and a manual run;
* `ScenarioAssumption`: a scenario starts at one of the revisions, and what is in
  the topics at its start is well formed and has event ids of its own, none of
  which the producers of the scenario would give (`Minted`; they are UUIDs in
  the code).

They do not bound the number of faults; bounds that a module has for TLC
(`MaxVersion`, `MaxTime`, `MaxFaults`, `MaxMessage`, `MaxHour`, a scenario's
`left`) are any number. The strengthened invariants below hold
in TLC on the runs' instances as well, but for `QueuesHold` and `Messages` of
`DataPath`, which TLC cannot evaluate (sequences and ids over all numbers).

**`Ingestor`** (`IngestorProofs`). Type correctness is not inductive:
that a row's id is an event id needs the batch to hold only offsets that exist
in the log, that positions lie within it, that a thread between flushes has no
cursor in a batch, and that a process that is down has no running thread. These parts with `TypeOK`
are `Shape`, the first inductive invariant (`ShapeInvariant`, `TypeCorrect`).
`NoUnsettledCommit` speaks of committed offsets only; to keep it a commit must
be known to cover settled messages. `Account` adds: every polled offset below
`pending + 1` is settled or in the batch (`Accounted`), of a batch being flushed
what lies before the cursor, or all of it after a good insert, is settled
(`FlushProgress`), and an offset to be committed is not behind the committed one
(`Forward`). Every step only adds rows and parked offsets (`Grows`), which
carries all of these over the steps that do not touch them. From `Account`:

* `NothingForgotten`: `[]NoUnsettledCommit`;
* `NoDuplicateRows`: `[]OneRowPerEvent`;
* `NoRewind`: `OffsetsOnlyReplayRewinds`, offsets move back only while no
  ingestor runs;
* `CleanStopSafe`: `CleanStopDropsNothing`, with its own invariant `CleanStop`
  (past the joins and without a passed deadline every thread is closed; past the
  final flush the queue is empty);
* `Implements`: the refinement, `Spec => Contract!Spec`: each step that changes
  what is settled is a `TakeOver`, each commit an `Acknowledge`, a kill or exit
  a `Detach`, the replay tool a `Reposition`.

**`StreamFeatures`** (`StreamFeaturesProofs`). `CommitsRestOnHandled` needs to know
that the offsets noted, and the last one committed of each partition, are those
of messages that were handled (`Rested`): Redis refusing a message notes none.
That whatever lies below was at least tried needs to know of every offset the consumer is past (`Passed`: committed, or polled by a running
thread) that its message was tried and its record is in the lake, in one of the
three places in memory, or counted as lost (`Kept`); that is `Accounted`. It is
kept by a crash only because what was in memory becomes `lost`, and by a commit
only because noted offsets have been polled (`Offsets`). `Control` says which of
the three places may hold records where, and `Doomed` that what the last flush
could not upload is lost from then on. With `TypeOK` and "threads run exactly
while the process lives" (`RunsAlive`) this is inductive (`IInv`). The parts are
per thread, and a lemma says what a step of one thread leaves of the others
(`ThreadFrame`), so that each action is about one thread:

* `TypeCorrect`: `[]TypeOK`; `CommitsRest`: `[]CommitsRestOnHandled`;
* `CleanStop`: `[]CleanStopDrains`;
* `FlushKeeps`: `FlushKeepsRecords`, about every step;
* `Implements`: the refinement of `AtLeastOnce`; its `Acknowledge` takes a prefix
  of what was taken over, which is `AckedWithinTaken`.

**`RouteFeatures`** (`RouteFeaturesProofs`). `IInv` says that the sorted sets
hold, of the events ever added, all that no trim could reach, and nothing else
(`Covered`), and that between the two round trips the counts are those of the
sets (`Pending`). `UpdatesAreExact` (`[]WindowsExact`) follows because a window
that starts within the hour before every trim is then equal to the
reconstruction's, and any window is a subset of it; `SetsKeepTheHour` is
`[]SetsHoldTheHour`: after an update the sets hold every event of the hour
before all trims, and none that is a second or more older than the hour of this
update. No order of the topic is assumed: the theorem says how late an event may
be for each of its windows, an hour minus the width.

The weather fields have an invariant of their own, `WeatherInv`. `LatestWeather`
is about the moment when the newest reading polled is the one last written;
after a restart older readings are written over newer ones, and what makes that
harmless is `Fresh`: a field without a value in the readings still to be written
again holds its latest value already. It needs that no reading is skipped as
long as Redis refuses none (`NoneSkipped`). `Stamped` relates each field's time to
the one stamp of the hash: `LatestWeatherHolds`, `FlaggedAreStale`
(`[]FlaggedIsStale`). With both and the types of what they do not mention
(`Rest`), `TypeCorrect` is `[]TypeOK`.

**`ParquetWriter`** (`ParquetWriterProofs`). `Promise` says what the writer owes
where it is: while it has a queue, every hour it is for is settled or in the
queue; while it waits, everything before `tracked` is settled; when it has
stopped, everything before the hour it stopped in. `BatchComplete` says that
the rows of a query that is about to be uploaded are all the file needs, which
is true because no row that is on time joins an hour that is over (`RowsPast`,
`FilesPast`, and `Steady` for the steps of everybody else). That the queue visits
every table of every hour is arithmetic on its index (`DivMod`):

* `TypeCorrect`: `[]TypeOK`; `Complete`: `[]FilesComplete`;
* `CatchUpComplete`: `[]CaughtUp`; `StopComplete`: `[]StopFlushesHours`.

**`Retrain`** (`RetrainProofs`). Its first lemmas show that
`Latest` returns the highest version of a stage (a stage is a bounded set of
numbers, so it has one) and what a registration and a transition leave alone.
The inductive invariant has two parts (`Invariant`). `LockInv` is `OneRetrain`
with two facts about time: stamps are not in the future (`Stamps`), and a drift
thread that is about to ask for the lock passed its check in this tick
(`StartsApart`); without the second, nothing relates the check to the stamp that
is written later. `RegistryInv` is about versions: the version of a run is its
own, unstaged and not rejected (`Candidates`), what a run compares with is or was
Production (`Baselines`), the stage Production has one version (`OneProduction`),
and there is room for every version about to be registered (`RoomKept`, which
the types need). The steps change the registry in four ways only, named in
`RegistrySteps`: a version is added, staged, promoted, or gets a tag. From the
invariant:

* `TypeCorrect`, `MutualExclusion`: `[]TypeOK`, `[]OneRetrain`;
* `TagsTrue`: `[]TagsAreTrue`;
* `DriftKeepsDistance`: `DriftRunsApart`;
* `LifecycleKept`: the refinement, `Spec => LifecycleSpec`: a registration is a
  `RegisterVersion`, a staging, also one that raises after it was applied, a
  `StageVersion`, a promotion a `PromoteVersion`.

**`Serving`** (`ServingProofs`). `ServesProduction` speaks of what is published
already; to keep it, a load in progress must be known to publish the right
thing. `Lead` says of every load that no promotion has overtaken that what it
has found out so far (the version promoted, the version the search found, the
model loaded) is the latest Production version as the registry has it now: a
step of the load adds a fact, and every promotion, by whomever, marks the loads
it overtakes. Registrations and stagings leave the latest Production version
where it is, for any registry: that is where the lemmas about `Latest` come in.
`Lead` with the types is `LoadInv`, inductive by itself. `LockInv` says that the
queue of `reload_lock` holds the loads that are behind it (`Behind`), each once;
`AuditInv` which rows a prediction has at each place of its way, with the
version it was answered with; `LabelInv` that a prediction under way will name the
version of the model it has taken, unless it is marked as `swapped`, which every
publication does:

* `ServesTheProduction`: `[]ServesProduction`; `PromotionServed`: `PromoteServesIt`;
* `TypeCorrect`: `[]TypeOK`, which states the lock's queue;
* `AuditAgrees`: `[]AuditMatchesAnswers`;
* `LifecycleKept`: the refinement of `ModelLifecycle`.

**`LiveFeed`** (`LiveFeedProofs`). `NoGaps` is about what has arrived; what
arrives next is in the handler's hand or in the queue. `Stream` says that these
continue what has arrived, one message after the other, as long as the handler
lives and its link is intact, and `Subscribed` that for a subscriber they reach to the last broadcast.
The lemmas `Appended`, `Taken` and `Joined` say what the queue operations do to a
sequence. `OneConnection` is inductive with the types:

* `TypeCorrect`: `[]TypeOK`; `NoHoles`: `[]NoGaps`;
* `AtMostOneConnection`: `[]OneConnection`.

**`DataPath`** (`DataPathProofs`). The composition has one invariant of several
parts, each about the variables of one component, and for each component a
lemma that says what any step of the whole does to them (`SchemaSteps`,
`SourceSteps`, `StoreSteps`, `BatchSteps`), so that a part is proved against four
or five kinds of step and not against all actions.

* `SchemaHolds` (`[]SchemaMatchesRevision`) is by induction along the nine
  revisions, up and down, each of which is computed (`RevisionTables`).
* `SourcesLoseNothing` (`[]NothingLost`): a queue holds only what was produced,
  what was produced is in a queue, in a topic, or its program is excused (by a
  kill, a broker that is away, or a last flush that ran out of time), and while the broker is away only the excused have a queue (`SourceInv`).
* `StoreConfirms` (`[]SentinelConfirms`): a run that is sending has stamped
  exactly the routes it has sent (`Sending`), no stamp is ahead of it
  (`StampsPast`), and under the sentinel's stamp a hash has its row's features
  (`Confirmed`).
* `FlagsKept` (`HolidaysKept`): an upsert keeps a flag, and rows on their way
  have none (`Flags`).
* `QualityPasses` (`[]QualityHolds`): a run that nothing disturbed has a mart row
  for every staged hour (`Matching`).
* `EventsStayStaged` (`StagedStays`): what a run that nobody overtook has read
  contains every staged event its window still reaches (`Staged`, `Seen`); this
  needs that an aggregate comes from rows of its hour, ingested before the run
  (`Backed`) and is kept for each of the two statements of a staging transaction.
* `TypeCorrect` (`[]TypeOK`, with "an event has one raw row"): ids name one
  message (`Messages`), since a generator's or a poller's id says what the
  message is, and rows come from messages (`Rows`).

**Only model-checked.** Every invariant, every action property and every
refinement of the passing runs is proved. What only TLC checks are the liveness
properties: `EverythingCommitted`, `TrackedHoursWritten`, `RunsEnd`,
`MartsSettle`, `CitiesPolled` and the three `Liveness` (`ReachesLake`,
`ConsumersStop` and `JoinsReturn`; `RetryMakesReady` and `CallsReturn`; `Reconnects` and
`DeadOnesLeave`): TLAPS's backends do not cover fairness and ENABLED. The
`violation` runs are TLC's by nature. Recursive definitions and induction over
data are out of the prover's reach as well; none of the modules needs them.
`TypeOK` of `Ingestor`, `Retrain`, `StreamFeatures`, `ParquetWriter`,
`RouteFeatures` and `LiveFeed` is a theorem and not part of a run.

## 5. Not modelled

* One replica of each service runs (`docker-compose.yml`), so consumer-group
  rebalances do not move partitions; the models have none.
* Envelopes with a null `event_id` are inserted without deduplication (the
  column is nullable); every producer of the repository sets one, so neither
  `Ingestor` nor `DataPath` has such rows, and the reject branches of the staging
  SQL select nothing.
* `parquet_writer.py` and the consumer threads share one process; a stop ends
  both, and `main()`'s waiting for the writer is in `Ingestor` as a join.
* Formats, SQL dialects, Arrow schemas and feature values; they appear as the kind of a message that
  fails in them.
* What the drift service computes (a report row and gauges nothing in the code
  acts on), the training itself (`train.py`, `data.py`: a free choice of outcome
  in `Retrain`), views of the React application, and the tools that print or
  measure.
* `--dry-run` and the date filters of the tools; the mock API's forecast
  endpoint, which the poller does not call; readings with null values, which the
  ingestor dead-letters or stores (`Ingestor`).
* An API process whose Postgres pool could not be created answers no prediction;
  `Serving` has none. Read-only endpoints are left out.
