-------------------------------- MODULE Batch --------------------------------
(* The worker's batch pipeline: raw -> staging -> marts -> fitted features   *)
(* artifact, as several processes may run it over one database: the worker,  *)
(* which runs it at start and every hour, and `make worker-pipeline` in a    *)
(* container of its own.                                                     *)
(*                                                                           *)
(* A total, a count or an average is represented by the set of ids of the    *)
(* raw rows it was computed from; the empty set is SQL's NULL.  Every raw    *)
(* row has an event id of its own (UNIQUE) and its required columns are NOT  *)
(* NULL, so the deduplication and the reject branches of the staging SQL     *)
(* select nothing and staging.rejects stays empty.                           *)
EXTENDS Migrations, Clock, Integers, TLC

CONSTANTS
    Process,       \* who runs the pipeline
    Lookback,      \* training_lookback_days, in hours of the model's clock
    LagRows,       \* how many rows back the lag columns look: 1, 24, 168
    RollRows,      \* over how many rows the rolling means go: 3, 24
    HolidayHours   \* the <<city, hour>> on a public holiday of the city

ASSUME LookbackAssumption == Lookback \in Nat \ {0}
ASSUME RowsAssumption == LagRows \subseteq Nat \ {0} /\ RollRows \subseteq Nat \ {0}

VARIABLES
    raw,       \* raw.demand_events and raw.weather_readings, a set of rows
    staging,   \* staging.demand_hourly and weather_hourly: <<table, city, hour>> -> ids
    marts,     \* marts.city_hour_features: <<city, hour>> -> row
    artifact,  \* the keys the features pipeline in S3 was fitted on; {} if none
    pc,        \* process -> its step of run_pipeline
    window,    \* process -> window_end of its staging step
    snap       \* process -> what its open transaction has read or computed

batchVars == <<staging, marts, artifact, pc, window, snap>>

Tables(schema, names) == In(schema, names) \subseteq db.tables
HasRaw     == Tables("raw", {"demand_events", "weather_readings"})
HasStaging == Tables("staging", {"demand_hourly", "weather_hourly"})
HasMarts   == Tables("marts", {"city_hour_features"})

InStaging == {p \in Process : pc[p] \in {"staging", "weather", "stagingTx"}}
InTransaction(p) == pc[p] \in {"weather", "stagingTx", "martsTx", "holidaysTx"}

-----------------------------------------------------------------------------
(* SQL                                                                       *)

(* GROUP BY city and business hour: sim_ts of an event, polled_at of a       *)
(* reading.  One file per table, the same shape.                             *)
HourOf(r) == <<r.table, r.city, r.hour>>
Aggregated(rows) ==
    [k \in {HourOf(r) : r \in rows} |-> {r.id : r \in {q \in rows : HourOf(q) = k}}]

(* Variant: the current hour is in the window, its far end is not. *)
InWindowShifted(end) == {r \in raw : end - Lookback < r.at /\ r.at <= end}

(* The window is on ingested_at, not on the business time. *)
InWindow(end) == {r \in raw : end - Lookback <= r.at /\ r.at < end}

(* Variant: ON CONFLICT DO NOTHING. *)
UpsertNothing(table, rows) == table @@ rows

(* INSERT ... ON CONFLICT DO UPDATE: the new row replaces the old one. *)
Upsert(table, rows) ==
    [k \in DOMAIN rows \cup DOMAIN table |->
        IF k \in DOMAIN rows THEN rows[k] ELSE table[k]]

(* The rows of the same city before k, nearest first: LAG and ROWS BETWEEN   *)
(* count rows, whatever hours lie between them.                              *)
Demand(stg) == {<<k[2], k[3]>> : k \in {j \in DOMAIN stg : j[1] = "demand"}}
Back(keys, k, n) ==
    {j \in keys : /\ j[1] = k[1] /\ j[2] < k[2]
                  /\ Cardinality({i \in keys : i[1] = k[1] /\ j[2] < i[2] /\ i[2] < k[2]}) < n}
Nth(keys, k, n) == Back(keys, k, n) \ Back(keys, k, n - 1)

Total(stg, keys) == UNION {stg[<<"demand", k[1], k[2]>>] : k \in keys}

(* Variant: JOIN for LEFT JOIN, no weather, no row. *)
FeaturedInner(stg) ==
    [k \in {j \in Demand(stg) : <<"weather", j[1], j[2]>> \in DOMAIN stg} |->
        [demand  |-> Total(stg, {k}),
         lags    |-> [n \in LagRows |-> Total(stg, Nth(Demand(stg), k, n))],
         rolls   |-> [n \in RollRows |-> Total(stg, Back(Demand(stg), k, n))],
         weather |-> stg[<<"weather", k[1], k[2]>>],
         holiday |-> FALSE]]

(* Variant: FULL JOIN for LEFT JOIN, an hour of weather alone has a row. *)
FeaturedFull(stg) ==
    LET keys       == {<<k[2], k[3]>> : k \in DOMAIN stg}
        total(hours) == Total(stg, hours \cap Demand(stg))
    IN  [k \in keys |->
           [demand  |-> total({k}),
            lags    |-> [n \in LagRows |-> total(Nth(keys, k, n))],
            rolls   |-> [n \in RollRows |-> total(Back(keys, k, n))],
            weather |-> IF <<"weather", k[1], k[2]>> \in DOMAIN stg
                        THEN stg[<<"weather", k[1], k[2]>>] ELSE {},
            holiday |-> FALSE]]

Featured(stg) ==
    LET keys == Demand(stg)
    IN  [k \in keys |->
           [demand  |-> Total(stg, {k}),
            lags    |-> [n \in LagRows |-> Total(stg, Nth(keys, k, n))],
            rolls   |-> [n \in RollRows |-> Total(stg, Back(keys, k, n))],
            weather |-> IF <<"weather", k[1], k[2]>> \in DOMAIN stg
                        THEN stg[<<"weather", k[1], k[2]>>] ELSE {},
            holiday |-> FALSE]]

(* Variant: the conflict clause takes every column from the SELECT. *)
KeepNoFlags(rows) == rows

(* The conflict clause leaves is_holiday out: a row keeps its flag. *)
KeepFlags(rows) ==
    [k \in DOMAIN rows |->
        IF k \in DOMAIN marts THEN [rows[k] EXCEPT !.holiday = marts[k].holiday] ELSE rows[k]]

-----------------------------------------------------------------------------
(* run_pipeline.  Each step is one statement or one commit; a snapshot is    *)
(* taken when a statement starts and others may commit before it does.       *)

Goto(p, step) == pc' = [pc EXCEPT ![p] = step]
Holding(p, data) == snap' = [snap EXCEPT ![p] = data]
Release(p) == Holding(p, <<>>)
KeysOnly(table) == [k \in DOMAIN table |-> {}]

(* run_staging: the window ends with the last full hour. *)
StartRun(p) ==
    /\ pc[p] = "idle"
    /\ Goto(p, "staging")
    /\ window' = [window EXCEPT ![p] = now]
    /\ UNCHANGED <<staging, marts, artifact, snap>>

(* The two SQL files in the order of their names, in one transaction: each   *)
(* statement reads what is committed when it starts.                         *)
TableRead(p, table) == Aggregated({r \in InWindow(window[p]) : r.table = table})
Joined(f, g) ==
    [k \in DOMAIN f \cup DOMAIN g |-> IF k \in DOMAIN f THEN f[k] ELSE g[k]]

DemandRead(p) ==
    /\ pc[p] = "staging" /\ HasRaw /\ HasStaging
    /\ Goto(p, "weather")
    /\ Holding(p, TableRead(p, "demand"))
    /\ UNCHANGED <<staging, marts, artifact, window>>

WeatherRead(p) ==
    /\ pc[p] = "weather"
    /\ Goto(p, "stagingTx")
    /\ Holding(p, Joined(snap[p], TableRead(p, "weather")))
    /\ UNCHANGED <<staging, marts, artifact, window>>

(* One commit for both. *)
StagingCommit(p) ==
    /\ pc[p] = "stagingTx"
    /\ staging' = Upsert(staging, snap[p])
    /\ Goto(p, "marts") /\ Release(p)
    /\ window' = [window EXCEPT ![p] = 0]
    /\ UNCHANGED <<marts, artifact>>

(* run_marts, its first transaction: the SQL over the whole of staging. *)
MartsRead(p) ==
    /\ pc[p] = "marts" /\ HasStaging /\ HasMarts
    /\ Goto(p, "martsTx")
    /\ Holding(p, Featured(staging))
    /\ UNCHANGED <<staging, marts, artifact, window>>

(* No rows upserted: the step is over, without flags or checks. *)
MartsCommit(p) ==
    /\ pc[p] = "martsTx"
    /\ marts' = Upsert(marts, KeepFlags(snap[p]))
    /\ Goto(p, IF DOMAIN snap[p] = {} THEN "scaler" ELSE "holidays")
    /\ Release(p)
    /\ UNCHANGED <<staging, artifact, window>>

(* _apply_holidays, the second transaction: every key there is, then one     *)
(* UPDATE of those keys.                                                     *)
HolidaysRead(p) ==
    /\ pc[p] = "holidays" /\ HasMarts
    /\ Goto(p, "holidaysTx")
    /\ Holding(p, KeysOnly(marts))
    /\ UNCHANGED <<staging, marts, artifact, window>>

HolidaysCommit(p) ==
    /\ pc[p] = "holidaysTx"
    /\ marts' = [k \in DOMAIN marts |->
                   IF k \in DOMAIN snap[p] THEN [marts[k] EXCEPT !.holiday = k \in HolidayHours]
                                    ELSE marts[k]]
    /\ Goto(p, "quality") /\ Release(p)
    /\ UNCHANGED <<staging, artifact, window>>

(* _assert_quality, after the commits: one mart row per staged demand hour.  *)
(* The columns it wants complete cannot be NULL in the rows written above.   *)
QualityOk == DOMAIN marts # {} /\ Cardinality(DOMAIN marts) = Cardinality(Demand(staging))

AssertQuality(p) ==
    /\ pc[p] = "quality" /\ HasStaging /\ HasMarts
    /\ Goto(p, IF QualityOk THEN "scaler" ELSE "idle")
    /\ UNCHANGED <<staging, marts, artifact, window, snap>>

(* _maybe_fit_features_pipeline: HEAD, and only if the object is missing     *)
(* read the mart, fit, PUT.                                                  *)
HeadArtifact(p) ==
    /\ pc[p] = "scaler"
    /\ Goto(p, IF artifact = {} THEN "fit" ELSE "idle")
    /\ UNCHANGED <<staging, marts, artifact, window, snap>>

FitFeatures(p) ==
    /\ pc[p] = "fit" /\ HasMarts
    /\ Goto(p, IF DOMAIN marts = {} THEN "idle" ELSE "save")
    /\ Holding(p, KeysOnly(marts))
    /\ UNCHANGED <<staging, marts, artifact, window>>

SavePipeline(p) ==
    /\ pc[p] = "save"
    /\ artifact' = DOMAIN snap[p]
    /\ Goto(p, "idle") /\ Release(p)
    /\ UNCHANGED <<staging, marts, window>>

(* A statement on a table that is not there. *)
UndefinedTable(p) ==
    \/ pc[p] = "staging" /\ ~(HasRaw /\ HasStaging)
    \/ pc[p] \in {"marts", "quality"} /\ ~(HasStaging /\ HasMarts)
    \/ pc[p] \in {"holidays", "fit"} /\ ~HasMarts

(* Any exception rolls the open transaction back and ends the run; so does a *)
(* kill of the process.  The worker logs it and goes on to its next run.     *)
Raise(p) ==
    /\ pc[p] # "idle"
    /\ Goto(p, "idle") /\ Release(p)
    /\ window' = [window EXCEPT ![p] = 0]
    /\ UNCHANGED <<staging, marts, artifact>>

RunStep(p) ==
    \/ DemandRead(p) \/ WeatherRead(p) \/ StagingCommit(p) \/ MartsRead(p) \/ MartsCommit(p)
    \/ HolidaysRead(p) \/ HolidaysCommit(p) \/ AssertQuality(p)
    \/ HeadArtifact(p) \/ FitFeatures(p) \/ SavePipeline(p)
    \/ UndefinedTable(p) /\ Raise(p)

(* DROP TABLE and DROP SCHEMA wait for the transactions that use the tables, *)
(* and take their rows.                                                      *)
DropRows(d) ==
    LET left(schema, name) == <<schema, name>> \in d.tables
    IN  /\ \A p \in Process : ~InTransaction(p)
        /\ raw' = {r \in raw : left("raw", IF r.table = "demand" THEN "demand_events"
                                                                 ELSE "weather_readings")}
        /\ staging' = [k \in {j \in DOMAIN staging :
                                left("staging", IF j[1] = "demand" THEN "demand_hourly"
                                                                   ELSE "weather_hourly")}
                         |-> staging[k]]
        /\ marts' = IF left("marts", "city_hour_features") THEN marts ELSE <<>>
        /\ UNCHANGED <<artifact, pc, window, snap>>

-----------------------------------------------------------------------------
BatchTypeOK ==
    /\ pc \in [Process -> {"idle", "staging", "weather", "stagingTx", "marts", "martsTx",
                           "holidays", "holidaysTx", "quality", "scaler", "fit", "save"}]
    /\ window \in [Process -> Nat]
    /\ \A k \in DOMAIN staging : staging[k] # {}
    /\ \A k \in DOMAIN marts : marts[k].demand # {} /\ marts[k].holiday \in BOOLEAN
=============================================================================
