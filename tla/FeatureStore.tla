---------------------------- MODULE FeatureStore ----------------------------
(* The nightly offline feature store: the route mart SQL for yesterday, then *)
(* the latest row of every route copied to its Redis hash in batches, and a  *)
(* sentinel after the last one.  Only the scheduler runs it, one sync at a   *)
(* time, while the hourly pipeline of module Batch may be running.           *)
(*                                                                           *)
(* A feature is the set of what it was computed from, and {} is NULL.        *)
EXTENDS Batch, Sequences, FiniteSetsExt, SequencesExt

CONSTANTS
    DayHours,    \* hours in a day
    RouteDays,   \* the 90 days of avg_bookings_90d and the lead times
    BatchSize    \* _PIPELINE_BATCH_SIZE

ASSUME FeatureStoreAssumption ==
    {DayHours, RouteDays, BatchSize} \subseteq Nat \ {0}

VARIABLES
    routeMart,   \* marts.route_features_daily: <<route, date>> -> features
    redis,       \* city -> the batch fields of its hash, with batch_computed_at
    sentinel,    \* feat:sync:completed_at, 0 when it was never set
    sync,        \* the run in progress: step, stamp, rows read, positions in Cities
                 \*   of the routes still to send
    confirmed    \* history: the rows read by the run the sentinel is from

storeVars == <<routeMart, redis, sentinel, sync, confirmed>>

(* ROUTE_FEATURES.by_source("batch"), one of each way of being NULL: no      *)
(* history, no lead time that is not negative, fewer than two temperatures.  *)
BatchFeature == {"avg_bookings_90d", "seasonality", "lead_time_p50",
                 "cancellation_rate_180d", "elasticity_estimate"}

NoHash == [f \in BatchFeature \cup {"batch_computed_at"} |->
              IF f = "batch_computed_at" THEN 0 ELSE {}]
NoSync == [step |-> "idle", stamp |-> 0, rows |-> <<>>, left |-> {}]

-----------------------------------------------------------------------------
(* The route mart SQL for one feature date.  Every window ends with that day *)
(* of business time, whatever the hour a row was ingested.                   *)

Day(hour) == hour \div DayHours

DayWindow(date, days) == {d \in 0..date : date - days < d}

MartRows(route, days) == {k \in DOMAIN marts : k[1] = route /\ Day(k[2]) \in days}

(* CORR() is NULL with fewer than two pairs; the cancellation rate is       *)
(* COALESCEd and never NULL, whatever it counts.                             *)
Corr(keys) == IF Cardinality(keys) < 2 THEN {} ELSE keys

RouteFeaturesOf(route, date) ==
    LET recent  == DayWindow(date, RouteDays)
        events  == {r \in raw : r.table = "demand" /\ r.city = route /\ Day(r.hour) \in recent}
        counted(keys) == UNION {marts[k].demand : k \in keys}
        history == MartRows(route, 0..date)
    IN  [avg_bookings_90d       |-> counted(MartRows(route, recent)),
         seasonality            |-> counted(history),
         lead_time_p50          |-> {r.id : r \in {e \in events : e.hour <= e.at}},
         cancellation_rate_180d |-> {"rate"},
         elasticity_estimate    |-> Corr({k \in history : marts[k].weather # {}})]

(* A route has a row when the mart has demand of it in the 90 days. *)
Assembled(date) ==
    [k \in {r \in City : MartRows(r, DayWindow(date, RouteDays)) # {}} \X {date} |->
        RouteFeaturesOf(k[1], date)]

(* DISTINCT ON (route_id) ... ORDER BY route_id, feature_date DESC. *)
LatestDate(route) == Max({k[2] : k \in {j \in DOMAIN routeMart : j[1] = route}})
LatestRows ==
    [r \in {k[1] : k \in DOMAIN routeMart} |-> routeMart[<<r, LatestDate(r)>>]]

-----------------------------------------------------------------------------
(* run_feature_store *)

(* The cron job: one transaction for yesterday's rows. *)
RunRouteMart ==
    /\ sync.step = "idle"
    /\ HasRaw /\ HasMarts /\ Tables("marts", {"route_features_daily"})
    /\ routeMart' = Upsert(routeMart, Assembled(Day(now) - 1))
    /\ sync' = [sync EXCEPT !.step = "latest"]
    /\ UNCHANGED <<redis, sentinel, confirmed>>

(* _sync_to_redis: the latest rows, in order; nothing to do when there are   *)
(* none.  The time of the run is taken once.                                 *)
ReadLatest ==
    /\ sync.step = "latest" /\ Tables("marts", {"route_features_daily"})
    /\ sync' = IF DOMAIN routeMart = {} THEN [NoSync EXCEPT !.stamp = sync.stamp]
               ELSE [step  |-> "flush",
                     stamp |-> sync.stamp + 1,
                     rows  |-> LatestRows,
                     left  |-> {i \in 1..Len(Cities) : Cities[i] \in DOMAIN LatestRows}]
    /\ UNCHANGED <<routeMart, redis, sentinel, confirmed>>

(* HSET of one route: a NULL feature is left out of the mapping, the stamp   *)
(* is always in it, and the other fields of the hash stay.                   *)
Hset(route) ==
    [f \in DOMAIN redis[route] |->
        IF f = "batch_computed_at" THEN sync.stamp
        ELSE IF sync.rows[route][f] # {} THEN sync.rows[route][f]
        ELSE redis[route][f]]

Write(routes) ==
    redis' = [r \in City |-> IF r \in routes THEN Hset(r) ELSE redis[r]]

(* _PIPELINE_BATCH_SIZE commands per round trip, in the order of the routes. *)
Batched == {i \in sync.left : Cardinality({j \in sync.left : j < i}) < BatchSize}
NextBatch == {Cities[i] : i \in Batched}

FlushBatch ==
    /\ sync.step = "flush" /\ sync.left # {}
    /\ Write(NextBatch)
    /\ sync' = [sync EXCEPT !.left = @ \ Batched]
    /\ UNCHANGED <<routeMart, sentinel, confirmed>>

(* Variant: set with the last batch still to be sent. *)
SetSentinelEarly ==
    /\ sync.step = "flush" /\ Cardinality(sync.left) <= BatchSize
    /\ sentinel' = sync.stamp
    /\ confirmed' = sync.rows
    /\ sync' = [NoSync EXCEPT !.stamp = sync.stamp]
    /\ UNCHANGED <<routeMart, redis>>

(* The sentinel follows the last batch. *)
SetSentinel ==
    /\ sync.step = "flush" /\ sync.left = {}
    /\ sentinel' = sync.stamp
    /\ confirmed' = sync.rows
    /\ sync' = [NoSync EXCEPT !.stamp = sync.stamp]
    /\ UNCHANGED <<routeMart, redis>>

(* An exception ends the run, at the mart, at the read or in a batch of      *)
(* which Redis has executed some commands (the pipeline is no transaction).  *)
SyncFails ==
    /\ sync.step # "idle"
    /\ \E done \in SUBSET NextBatch :
          /\ sync.step # "flush" => done = {}
          /\ Write(done)
    /\ sync' = [NoSync EXCEPT !.stamp = sync.stamp]
    /\ UNCHANGED <<routeMart, sentinel, confirmed>>

SyncStep == ReadLatest \/ FlushBatch \/ SetSentinel

DropRouteMart(d) ==
    /\ routeMart' = IF <<"marts", "route_features_daily">> \in d.tables THEN routeMart ELSE <<>>
    /\ UNCHANGED <<redis, sentinel, sync, confirmed>>

-----------------------------------------------------------------------------
(* What the registry says of the sentinel: a route whose stamp is the        *)
(* sentinel is confirmed complete, and one whose stamp is newer comes from a *)
(* run that did not finish.  So every route the finished run read carries    *)
(* its stamp or a newer one, and under its stamp every feature that was not  *)
(* NULL in that run's row, a hash never mixing two runs that wrote it.       *)
SentinelConfirms ==
    sentinel # 0 =>
        /\ \A r \in DOMAIN confirmed : redis[r].batch_computed_at >= sentinel
        /\ \A r \in City : redis[r].batch_computed_at = sentinel =>
              /\ r \in DOMAIN confirmed
              /\ \A f \in BatchFeature :
                    confirmed[r][f] # {} => redis[r][f] = confirmed[r][f]
=============================================================================
