------------------------------ MODULE DataPath ------------------------------
(* The sources, the schema, the batch pipeline and the feature store over    *)
(* one database and one clock.  In between stands the ingestor, here only by *)
(* what it does to the data: every message becomes one raw row, stamped with *)
(* the time its transaction began, and one record of the lake partition of   *)
(* that hour (modules Ingestor and ParquetWriter have the rest).             *)
(*                                                                           *)
(* A scenario says what there is at the start and how often each thing that  *)
(* is not bounded by itself may happen.                                      *)
EXTENDS Sources, FeatureStore

CONSTANTS
    worker,      \* the two processes that run the pipeline
    manual,
    Scenarios    \* [topics, revision, at most : Kind -> Nat]

Kind == {"tick", "generator", "poller", "ingestor", "chaos", "stop", "kill", "broker", 
         "worker", "manual", "raise", "sync", "syncfail", "migrate", "backfill", "late"}

ASSUME ProcessAssumption == Process = {worker, manual}
(* The messages that are there at the start are well formed, have an event   *)
(* id each, and none that a generator or a poller would give.                *)
Minted == ({"demand"} \X City \X Nat \X Nat) \cup ({"weather"} \X City \X Nat)

ASSUME ScenarioAssumption ==
    \A s \in Scenarios :
        /\ s.revision \in 0..HeadRevision /\ s.left \in [Kind -> Nat]
        /\ \A m \in s.topics :
              /\ m.table \in {"demand", "weather"} /\ m.city \in City
              /\ \A n \in s.topics : n.id = m.id => n = m
              /\ s.left["generator"] + s.left["poller"] > 0 => m.id \notin Minted

VARIABLES
    left,        \* kind -> how often it may still happen
    taken,       \* the messages the ingestor has consumed
    lake,        \* the rows in the lake, each in the partition of its hour
    overtaken,   \* history: runs whose staging window or rows another run's commit is newer than
    disturbed    \* history: runs since whose marts snapshot staging grew or was dropped

history == <<overtaken, disturbed>>
vars == <<now, raw, schemaVars, sourceVars, batchVars, storeVars, left, taken, lake, history>>

Spend(kind) == left[kind] > 0 /\ left' = [left EXCEPT ![kind] = @ - 1]
Deployed(kind) == left[kind] > 0 /\ UNCHANGED left

-----------------------------------------------------------------------------
(* The database after first boot, migrated or not, and everything else new. *)
Init ==
    \E s \in Scenarios :
        /\ SourcesInit(s.topics)
        /\ revision = s.revision
        /\ db = Upgraded(FirstBoot, 1..s.revision)
        /\ now = 0 /\ raw = {} /\ taken = {} /\ lake = {}
        /\ staging = <<>> /\ marts = <<>> /\ artifact = {}
        /\ pc = [p \in Process |-> "idle"]
        /\ window = [p \in Process |-> 0]
        /\ snap = [p \in Process |-> <<>>]
        /\ routeMart = <<>> /\ redis = [c \in City |-> NoHash]
        /\ sentinel = 0 /\ sync = NoSync /\ confirmed = <<>>
        /\ left = s.left /\ overtaken = {} /\ disturbed = {}

(* Which variables a component's step leaves alone. *)
InSources(A) ==
    A /\ UNCHANGED <<now, raw, schemaVars, batchVars, storeVars, taken, lake, history>>
InBatch(A) == A /\ UNCHANGED <<now, raw, schemaVars, sourceVars, storeVars, taken, lake>>
InStore(A) ==
    A /\ UNCHANGED <<now, raw, schemaVars, sourceVars, batchVars, taken, lake, history>>

HourPasses ==
    /\ Tick /\ Spend("tick")
    /\ UNCHANGED <<raw, schemaVars, sourceVars, batchVars, storeVars, taken, lake, history>>

(* Sources. *)
SourceStep(A) == InSources(A /\ UNCHANGED left)
Source ==
    \/ SourceStep(GenStep)
    \/ SourceStep(PollStep)
    \/ InSources(GenStart /\ Spend("generator"))
    \/ InSources(PollerStart /\ Deployed("poller"))
    \/ InSources(Spend("chaos") /\ SetChaos)
    \/ InSources((BrokerDown \/ BrokerUp) /\ Spend("broker"))
    \/ \E p \in Program : \/ SourceStep(Deliver(p))
                          \/ SourceStep(GiveUp(p))
                          \/ InSources(FlushTimesOut(p) /\ Spend("broker"))
                          \/ InSources(Stop(p) /\ Spend("stop"))
                          \/ InSources(Kill(p) /\ Spend("kill"))

(* The ingestor: one row per event id, with the time its transaction began, *)
(* which may be in the hour before; a record in the lake.                   *)
Row(msg, at) ==
    [table |-> msg.table, id |-> msg.id, city |-> msg.city, hour |-> msg.hour, at |-> at]

Ingest(at) ==
    /\ HasRaw
    /\ \E msg \in topics \ taken :
          /\ raw' = raw \cup {Row(msg, at)}
          /\ lake' = lake \cup {Row(msg, at)}
          /\ taken' = taken \cup {msg}
    /\ UNCHANGED <<now, schemaVars, sourceVars, batchVars, storeVars, history>>

(* tools/backfill.py, one partition: ON CONFLICT DO NOTHING inserts the     *)
(* rows whose event id is not there, with ingested_at left to its default,  *)
(* and a commit of their own.                                               *)
Backfill ==
    /\ HasRaw /\ Spend("backfill")
    /\ \E t \in {"demand", "weather"}, h \in 0..MaxHour :
          LET there   == {r.id : r \in raw}
              missing == {r \in lake : r.table = t /\ r.at = h /\ r.id \notin there}
          IN  missing # {} /\ raw' = raw \cup {[r EXCEPT !.at = now] : r \in missing}
    /\ UNCHANGED <<now, schemaVars, sourceVars, batchVars, storeVars, taken, lake, history>>

(* make migrate, make migrate-down.  A DROP waits for open transactions.    *)
MigrateUp ==
    /\ Migrate /\ Spend("migrate")
    /\ UNCHANGED <<now, raw, sourceVars, batchVars, storeVars, taken, lake, history>>

AfterMarts == {p \in Process : pc[p] \in {"martsTx", "holidays", "holidaysTx", "quality"}}

Downgrade ==
    /\ \E target \in {0, revision - 1} \cap Nat : MigrateDown(target)
    /\ Spend("migrate")
    /\ DropRows(db') /\ DropRouteMart(db')
    /\ disturbed' = disturbed \cup AfterMarts
    /\ UNCHANGED <<now, sourceVars, taken, lake, overtaken>>

(* A commit to staging, as the runs it overlaps see it: those that began     *)
(* staging before it are older, and those past their marts snapshot will     *)
(* count more staged hours than they read.  A run is in overtaken or in      *)
(* disturbed only while that can matter to it.                               *)
Overtakes(p) ==
    IF pc[p] = "stagingTx"
    THEN (overtaken \ {p}) \cup (InStaging \ {p})
    ELSE overtaken \ {p}
Disturbs(p) ==
    CASE pc[p] = "stagingTx"            -> disturbed \cup (AfterMarts \ {p})
      [] pc[p] \in {"marts", "quality"} -> disturbed \ {p}
      [] OTHER                          -> disturbed

RunContinues(p) ==
    /\ RunStep(p) /\ UNCHANGED left
    /\ overtaken' = IF pc'[p] \in {"weather", "stagingTx"} THEN overtaken ELSE Overtakes(p)
    /\ disturbed' = Disturbs(p)

RunRaises(p) ==
    /\ Raise(p) /\ Spend("raise")
    /\ overtaken' = overtaken \ {p} /\ disturbed' = disturbed \ {p}

(* The pipeline: the worker's startup run and its hourly ones, and runs by  *)
(* hand.  More than one of the worker's in an hour stands for the restarts. *)
Begin(p) ==
    /\ StartRun(p)
    /\ IF p = worker THEN Deployed("worker") ELSE Spend("manual")
    /\ UNCHANGED history

Run(p) == \/ InBatch(Begin(p))
          \/ InBatch(RunContinues(p))
          \/ InBatch(RunRaises(p))

Store == \/ InStore(RunRouteMart /\ Spend("sync"))
         \/ InStore(SyncStep /\ UNCHANGED left)
         \/ InStore(SyncFails /\ Spend("syncfail"))

Next ==
    \/ HourPasses \/ Source
    \/ Deployed("ingestor") /\ Ingest(now)
    \/ now > 0 /\ left["ingestor"] > 0 /\ Spend("late") /\ Ingest(now - 1)
    \/ Backfill \/ MigrateUp \/ Downgrade
    \/ \E p \in Process : Run(p)
    \/ Store

(* What keeps going: the programs while they are up, Docker's restarts of    *)
(* those that crashed, librdkafka, the hourly runs, and a run or a sync that *)
(* has begun.  Not the clock, nor anybody who stops, kills or reconfigures.  *)
Fairness ==
    /\ \A p \in Program : WF_vars(SourceStep(Deliver(p)))
    /\ WF_vars(SourceStep(PollStep))
    /\ WF_vars(InSources(PollerStart /\ Deployed("poller") /\ "poller" \notin asked))
    /\ \A p \in Process : WF_vars(InBatch(RunContinues(p)))
    /\ WF_vars(InBatch(Begin(worker)))
    /\ WF_vars(InStore(SyncStep /\ UNCHANGED left))

Spec == Init /\ [][Next]_vars /\ Fairness

-----------------------------------------------------------------------------
(* Types; and every mart row has demand behind it, and an event one raw row, *)
(* also when it went through the lake and back while the ingestor was at it. *)
TypeOK ==
    /\ BatchTypeOK
    /\ left \in [Kind -> Nat]
    /\ \A r \in raw : r.table \in {"demand", "weather"} /\ r.city \in City /\ r.at <= now
    /\ Cardinality({r.id : r \in raw}) = Cardinality(raw)
    /\ sync.stamp >= sentinel

(* The quality check's row count fails a run for one reason only: since the  *)
(* run read staging for its mart rows, another run staged new hours or the   *)
(* schema was taken down.  No mart row is ever without its staged hour, and  *)
(* the upsert leaves none of the staged hours out.                           *)
QualityHolds ==
    \A p \in Process : pc[p] = "quality" /\ p \notin disturbed => QualityOk

(* An event that was staged stays in its hour's aggregate until the window   *)
(* has passed the time it was ingested.  The two exceptions are the tables   *)
(* being dropped and two runs overlapping, the older one committing last.    *)
(* The hour itself lives on with what is left: the aggregate at the window's *)
(* edge becomes a partial one.                                               *)
StagedStays ==
    [][\A k \in DOMAIN staging : \A id \in staging[k] :
          \/ k \in DOMAIN staging' /\ id \in staging'[k]
          \/ \E r \in raw : r.id = id /\ r.at < now - Lookback
          \/ revision' # revision
          \/ \E p \in overtaken : pc[p] = "stagingTx" /\ pc'[p] = "marts"]_vars

(* A mart row that has its holiday flag keeps it through every later upsert, *)
(* also when the run fails before the transaction that would set it again.   *)
HolidaysKept ==
    [][\A k \in DOMAIN marts \cap DOMAIN marts' :
          marts[k].holiday => marts'[k].holiday]_vars

(* With the schema in place the hourly runs bring the marts to where they    *)
(* belong and keep them there: every raw row of the window is counted in its *)
(* staged hour, and every mart row is what staging and the calendar say,     *)
(* whatever runs failed, overlapped or committed out of order before.        *)
Settled ==
    /\ \A r \in raw : now - Lookback <= r.at /\ r.at < now =>
          HourOf(r) \in DOMAIN staging /\ r.id \in staging[HourOf(r)]
    /\ DOMAIN marts = Demand(staging)
    /\ \A k \in DOMAIN marts :
          marts[k] = [Featured(staging)[k] EXCEPT !.holiday = k \in HolidayHours]

MartsSettle == left["worker"] > 0 /\ <>[](revision = HeadRevision) => <>[]Settled

(* "The S3 object acts as a distributed lock so the fitted statistics never  *)
(* drift on incremental runs" (pipeline.py): once there, the artifact stays. *)
FittedOnce == [][artifact # {} => artifact' = artifact]_artifact
=============================================================================
