--------------------------- MODULE DataPathProofs ---------------------------
(***************************************************************************)
(* Proofs about DataPath for every set of cities, hours, holidays and lag   *)
(* windows, and every scenario that ScenarioAssumption lets in.             *)
(*                                                                          *)
(* Every component has its own part of the inductive invariant IInv (named  *)
(* in full at the end), and a lemma that says what a step of the whole data *)
(* path does to that component's variables: SchemaSteps, SourceSteps,       *)
(* StoreSteps, BatchSteps.                                                  *)
(***************************************************************************)
EXTENDS DataPath, FiniteSetTheorems, TLAPS

(* What each revision makes and takes away, and the schema at a revision. *)
TablesAt(k) ==
    CASE k = 1 -> {<<"raw", "demand_events">>, <<"raw", "weather_readings">>}
      [] k = 3 -> {<<"staging", "demand_hourly">>, <<"staging", "weather_hourly">>}
      [] k = 4 -> {<<"marts", "city_hour_features">>}
      [] k = 5 -> {<<"staging", "rejects">>}
      [] k = 6 -> {<<"marts", "route_features_daily">>}
      [] k = 7 -> {<<"marts", "prediction_log">>}
      [] k = 8 -> {<<"marts", "prediction_features">>}
      [] k = 9 -> {<<"marts", "drift_reports">>}
      [] OTHER -> {}
SchemasAt(k) ==
    CASE k = 1 -> {"raw"} [] k = 2 -> {"staging", "marts"} [] OTHER -> {}

LEMMA InPairs ==
    ASSUME NEW s, NEW a, NEW b
    PROVE  In(s, {a, b}) = {<<s, a>>, <<s, b>>} /\ In(s, {a}) = {<<s, a>>}
  BY DEF In

LEMMA RevisionTables ==
    ASSUME NEW k \in 1..HeadRevision
    PROVE  /\ Revisions[k].tables = TablesAt(k)
           /\ Revisions[k].schemas = SchemasAt(k)
           /\ Revisions[k].dropSchemas = SchemasAt(k)
           /\ k # 1 => Revisions[k].dropTables = TablesAt(k)
           /\ k = 1 => Revisions[k].dropTables = {}
  <1> k = 1 \/ k = 2 \/ k = 3 \/ k = 4 \/ k = 5 \/ k = 6 \/ k = 7 \/ k = 8 \/ k = 9
    BY DEF HeadRevision
  <1>1. CASE k = 1
    <2>1. Revisions[1] = R0001 BY DEF Revisions
    <2>2. TablesAt(1) = {<<"raw", "demand_events">>, <<"raw", "weather_readings">>} BY DEF TablesAt
    <2>3. SchemasAt(1) = {"raw"} BY DEF SchemasAt
    <2>4. R0001.tables = {<<"raw", "demand_events">>, <<"raw", "weather_readings">>}
      BY InPairs DEF R0001, Nothing
    <2>5. R0001.dropTables = {} BY InPairs DEF R0001, Nothing
    <2>6. R0001.schemas = {"raw"} /\ R0001.dropSchemas = {"raw"} BY DEF R0001, Nothing
    <2> QED BY <1>1, <2>1, <2>2, <2>3, <2>4, <2>5, <2>6
  <1>2. CASE k = 2
    <2>1. Revisions[2] = R0002 BY DEF Revisions
    <2>2. TablesAt(2) = {} BY DEF TablesAt
    <2>3. SchemasAt(2) = {"staging", "marts"} BY DEF SchemasAt
    <2>4. R0002.tables = {} BY InPairs DEF R0002, Nothing
    <2>5. R0002.dropTables = {} BY InPairs DEF R0002, Nothing
    <2>6. R0002.schemas = {"staging", "marts"} /\ R0002.dropSchemas = {"marts", "staging"}
      BY DEF R0002, Nothing
    <2> QED BY <1>2, <2>1, <2>2, <2>3, <2>4, <2>5, <2>6
  <1>3. CASE k = 3
    <2>1. Revisions[3] = R0003 BY DEF Revisions
    <2>2. TablesAt(3) = {<<"staging", "demand_hourly">>, <<"staging", "weather_hourly">>}
      BY DEF TablesAt
    <2>3. SchemasAt(3) = {} BY DEF SchemasAt
    <2>4. R0003.tables = {<<"staging", "demand_hourly">>, <<"staging", "weather_hourly">>}
      BY InPairs DEF R0003, Nothing
    <2>5. R0003.dropTables = {<<"staging", "weather_hourly">>, <<"staging", "demand_hourly">>}
      BY InPairs DEF R0003, Nothing
    <2>6. R0003.schemas = {} /\ R0003.dropSchemas = {} BY DEF R0003, Nothing
    <2> QED BY <1>3, <2>1, <2>2, <2>3, <2>4, <2>5, <2>6
  <1>4. CASE k = 4
    <2>1. Revisions[4] = R0004 BY DEF Revisions
    <2>2. TablesAt(4) = {<<"marts", "city_hour_features">>} BY DEF TablesAt
    <2>3. SchemasAt(4) = {} BY DEF SchemasAt
    <2>4. R0004.tables = {<<"marts", "city_hour_features">>} BY InPairs DEF R0004, Nothing
    <2>5. R0004.dropTables = {<<"marts", "city_hour_features">>} BY InPairs DEF R0004, Nothing
    <2>6. R0004.schemas = {} /\ R0004.dropSchemas = {} BY DEF R0004, Nothing
    <2> QED BY <1>4, <2>1, <2>2, <2>3, <2>4, <2>5, <2>6
  <1>5. CASE k = 5
    <2>1. Revisions[5] = R0005 BY DEF Revisions
    <2>2. TablesAt(5) = {<<"staging", "rejects">>} BY DEF TablesAt
    <2>3. SchemasAt(5) = {} BY DEF SchemasAt
    <2>4. R0005.tables = {<<"staging", "rejects">>} BY InPairs DEF R0005, Nothing
    <2>5. R0005.dropTables = {<<"staging", "rejects">>} BY InPairs DEF R0005, Nothing
    <2>6. R0005.schemas = {} /\ R0005.dropSchemas = {} BY DEF R0005, Nothing
    <2> QED BY <1>5, <2>1, <2>2, <2>3, <2>4, <2>5, <2>6
  <1>6. CASE k = 6
    <2>1. Revisions[6] = R0006 BY DEF Revisions
    <2>2. TablesAt(6) = {<<"marts", "route_features_daily">>} BY DEF TablesAt
    <2>3. SchemasAt(6) = {} BY DEF SchemasAt
    <2>4. R0006.tables = {<<"marts", "route_features_daily">>} BY InPairs DEF R0006, Nothing
    <2>5. R0006.dropTables = {<<"marts", "route_features_daily">>} BY InPairs DEF R0006, Nothing
    <2>6. R0006.schemas = {} /\ R0006.dropSchemas = {} BY DEF R0006, Nothing
    <2> QED BY <1>6, <2>1, <2>2, <2>3, <2>4, <2>5, <2>6
  <1>7. CASE k = 7
    <2>1. Revisions[7] = R0007 BY DEF Revisions
    <2>2. TablesAt(7) = {<<"marts", "prediction_log">>} BY DEF TablesAt
    <2>3. SchemasAt(7) = {} BY DEF SchemasAt
    <2>4. R0007.tables = {<<"marts", "prediction_log">>} BY InPairs DEF R0007, Nothing
    <2>5. R0007.dropTables = {<<"marts", "prediction_log">>} BY InPairs DEF R0007, Nothing
    <2>6. R0007.schemas = {} /\ R0007.dropSchemas = {} BY DEF R0007, Nothing
    <2> QED BY <1>7, <2>1, <2>2, <2>3, <2>4, <2>5, <2>6
  <1>8. CASE k = 8
    <2>1. Revisions[8] = R0008 BY DEF Revisions
    <2>2. TablesAt(8) = {<<"marts", "prediction_features">>} BY DEF TablesAt
    <2>3. SchemasAt(8) = {} BY DEF SchemasAt
    <2>4. R0008.tables = {<<"marts", "prediction_features">>} BY InPairs DEF R0008, Nothing
    <2>5. R0008.dropTables = {<<"marts", "prediction_features">>} BY InPairs DEF R0008, Nothing
    <2>6. R0008.schemas = {} /\ R0008.dropSchemas = {} BY DEF R0008, Nothing
    <2> QED BY <1>8, <2>1, <2>2, <2>3, <2>4, <2>5, <2>6
  <1>9. CASE k = 9
    <2>1. Revisions[9] = R0009 BY DEF Revisions
    <2>2. TablesAt(9) = {<<"marts", "drift_reports">>} BY DEF TablesAt
    <2>3. SchemasAt(9) = {} BY DEF SchemasAt
    <2>4. R0009.tables = {<<"marts", "drift_reports">>} BY InPairs DEF R0009, Nothing
    <2>5. R0009.dropTables = {<<"marts", "drift_reports">>} BY InPairs DEF R0009, Nothing
    <2>6. R0009.schemas = {} /\ R0009.dropSchemas = {} BY DEF R0009, Nothing
    <2> QED BY <1>9, <2>1, <2>2, <2>3, <2>4, <2>5, <2>6
  <1> QED BY <1>1, <1>2, <1>3, <1>4, <1>5, <1>6, <1>7, <1>8, <1>9

LEMMA Unions ==
    ASSUME NEW ks \in SUBSET (1..HeadRevision)
    PROVE  /\ \A x : x \in SchemasOf(ks) <=> \E k \in ks : x \in SchemasAt(k)
           /\ \A t : t \in TablesOf(ks) <=> \E k \in ks : t \in TablesAt(k)
  BY RevisionTables DEF SchemasOf, TablesOf

(* A table belongs to one revision, and its schema to an earlier one. *)
LEMMA TableHome ==
    /\ \A k \in 1..HeadRevision : \A t \in TablesAt(k) :
          \/ k = 1 /\ t[1] = "raw"
          \/ k > 2 /\ t[1] \in {"staging", "marts"}
    /\ \A k, j \in 1..HeadRevision : \A t \in TablesAt(k) : t \in TablesAt(j) => j = k
  <1>1. \A k \in 1..HeadRevision : k = 1 \/ k = 2 \/ k = 3 \/ k = 4 \/ k = 5 \/ k = 6 \/ k = 7 \/ k = 8 \/ k = 9
    BY DEF HeadRevision
  <1>2. \A k \in 1..HeadRevision : \A t \in TablesAt(k) :
          \/ k = 1 /\ t[1] = "raw"
          \/ k > 2 /\ t[1] \in {"staging", "marts"}
    BY <1>1 DEF TablesAt, HeadRevision
  <1>3. ASSUME NEW k \in 1..HeadRevision, NEW j \in 1..HeadRevision, NEW t \in TablesAt(k), t \in TablesAt(j)
        PROVE  j = k
    BY <1>1, <1>3 DEF TablesAt
  <1> QED BY <1>2, <1>3

LEMMA SchemaAtIs ==
    ASSUME NEW r \in 0..HeadRevision
    PROVE  /\ SchemaAt[r] = [schemas |-> SchemasOf(1..r), tables |-> TablesOf(1..r)]
           /\ SchemaAt[r] = [schemas |-> SchemaAt[r].schemas, tables |-> SchemaAt[r].tables]
           /\ \A x : x \in SchemaAt[r].schemas <=> \E k \in 1..HeadRevision : k <= r /\ x \in SchemasAt(k)
           /\ \A t : t \in SchemaAt[r].tables <=> \E k \in 1..HeadRevision : k <= r /\ t \in TablesAt(k)
  <1>1. SchemaAt[r] = [schemas |-> SchemasOf(1..r), tables |-> TablesOf(1..r)] BY DEF SchemaAt
  <1>2. 1..r \in SUBSET (1..HeadRevision) /\ \A k : k \in 1..r <=> k \in 1..HeadRevision /\ k <= r
    BY DEF HeadRevision
  <1> QED BY <1>1, <1>2, Unions

(* From any schema with the raw schema or nothing missing the rest applies. *)
LEMMA RestApplies ==
    ASSUME NEW r \in 0..HeadRevision
    PROVE  Applies(SchemaAt[r], {k \in 1..HeadRevision : k > r})
  <1> DEFINE ks == {k \in 1..HeadRevision : k > r}
  <1> SUFFICES ASSUME NEW k \in ks, NEW t \in Revisions[k].tables
               PROVE  t[1] \in SchemaAt[r].schemas \cup SchemasOf({j \in ks : j <= k})
    BY DEF Applies
  <1>1. k \in 1..HeadRevision /\ k > r /\ t \in TablesAt(k) BY RevisionTables
  <1>2. {j \in ks : j <= k} \in SUBSET (1..HeadRevision) OBVIOUS
  <1>3. 1 \in 1..HeadRevision /\ 2 \in 1..HeadRevision BY DEF HeadRevision
  <1>4. "raw" \in SchemasAt(1) /\ "staging" \in SchemasAt(2) /\ "marts" \in SchemasAt(2)
    BY DEF SchemasAt
  <1>5. \E j \in 1..HeadRevision : j <= k /\ t[1] \in SchemasAt(j)
    <2>1. CASE k = 1 /\ t[1] = "raw" BY <2>1, <1>3, <1>4
    <2>2. CASE k > 2 /\ t[1] \in {"staging", "marts"} BY <2>2, <1>1, <1>3, <1>4
    <2> QED BY <1>1, <2>1, <2>2, TableHome
  <1>6. PICK j \in 1..HeadRevision : j <= k /\ t[1] \in SchemasAt(j) BY <1>5
  <1>7. CASE j <= r BY <1>6, <1>7, SchemaAtIs
  <1>8. CASE j > r
    <2>1. j \in {i \in ks : i <= k} BY <1>6, <1>8
    <2> QED BY <2>1, <1>6, <1>2, Unions
  <1> QED BY <1>7, <1>8

LEMMA FirstBootSchema ==
    /\ \A x : x \in FirstBoot.schemas <=> x \in SchemasAt(1)
    /\ \A t : t \in FirstBoot.tables <=> t \in TablesAt(1)
    /\ FirstBoot = [schemas |-> FirstBoot.schemas, tables |-> FirstBoot.tables]
  <1>1. FirstBoot = [schemas |-> {"raw"},
                     tables |-> {<<"raw", "demand_events">>, <<"raw", "weather_readings">>}]
    <2>1. In("raw", {"demand_events", "weather_readings"})
            = {<<"raw", "demand_events">>, <<"raw", "weather_readings">>}
      BY DEF In
    <2> QED BY <2>1 DEF FirstBoot
  <1>2. SchemasAt(1) = {"raw"} BY DEF SchemasAt
  <1>3. TablesAt(1) = {<<"raw", "demand_events">>, <<"raw", "weather_readings">>} BY DEF TablesAt
  <1> QED BY <1>1, <1>2, <1>3

LEMMA FirstBootApplies ==
    Applies(FirstBoot, {k \in 1..HeadRevision : k > 0})
  <1>1. Applies(SchemaAt[0], {k \in 1..HeadRevision : k > 0})
    <2>1. 0 \in 0..HeadRevision BY DEF HeadRevision
    <2> QED BY <2>1, RestApplies
  <1>2. \A x : x \notin SchemaAt[0].schemas
    <2>1. 0 \in 0..HeadRevision /\ \A k \in 1..HeadRevision : ~(k <= 0) BY DEF HeadRevision
    <2> QED BY <2>1, SchemaAtIs
  <1> QED BY <1>1, <1>2 DEF Applies

(* Upgrading from a revision, or from the first boot, makes the schema of the target. *)
LEMMA UpgradeReaches ==
    ASSUME NEW r \in 0..HeadRevision, NEW n \in 0..HeadRevision, r <= n,
           NEW d, d = SchemaAt[r] \/ (d = FirstBoot /\ r = 0 /\ n > 0)
    PROVE  Upgraded(d, {k \in 1..n : k > r}) = SchemaAt[n]
  <1> DEFINE ks == {k \in 1..n : k > r}
  <1>1. ks \in SUBSET (1..HeadRevision) BY DEF HeadRevision
  <1>2. \A x : x \in d.schemas \cup SchemasOf(ks) <=> x \in SchemaAt[n].schemas
    <2>1. CASE d = SchemaAt[r]
      BY <2>1, <1>1, Unions, SchemaAtIs DEF HeadRevision
    <2>2. CASE d = FirstBoot /\ r = 0 /\ n > 0
      <3>1. 1 \in ks BY <2>2
      <3>2. \A k : k \in ks <=> k \in 1..HeadRevision /\ k <= n BY <2>2 DEF HeadRevision
      <3>3. \A x : x \in SchemasOf(ks) <=> x \in SchemaAt[n].schemas
        BY <3>2, <1>1, Unions, SchemaAtIs
      <3>4. \A x : x \in SchemasAt(1) => x \in SchemasOf(ks) BY <3>1, <1>1, Unions
      <3> QED BY <2>2, <3>3, <3>4, FirstBootSchema
    <2> QED BY <2>1, <2>2
  <1>3. \A t : t \in d.tables \cup TablesOf(ks) <=> t \in SchemaAt[n].tables
    <2>1. CASE d = SchemaAt[r]
      BY <2>1, <1>1, Unions, SchemaAtIs DEF HeadRevision
    <2>2. CASE d = FirstBoot /\ r = 0 /\ n > 0
      <3>1. 1 \in ks BY <2>2
      <3>2. \A k : k \in ks <=> k \in 1..HeadRevision /\ k <= n BY <2>2 DEF HeadRevision
      <3>3. \A x : x \in TablesOf(ks) <=> x \in SchemaAt[n].tables
        BY <3>2, <1>1, Unions, SchemaAtIs
      <3>4. \A x : x \in TablesAt(1) => x \in TablesOf(ks) BY <3>1, <1>1, Unions
      <3> QED BY <2>2, <3>3, <3>4, FirstBootSchema
    <2> QED BY <2>1, <2>2
  <1>4. d.schemas \cup SchemasOf(ks) = SchemaAt[n].schemas BY <1>2
  <1>5. d.tables \cup TablesOf(ks) = SchemaAt[n].tables BY <1>3
  <1>6. SchemaAt[n] = [schemas |-> SchemaAt[n].schemas, tables |-> SchemaAt[n].tables]
    BY SchemaAtIs
  <1> QED BY <1>4, <1>5, <1>6 DEF Upgraded

(* Downgrading takes exactly what the later revisions made. *)
LEMMA DowngradeReaches ==
    ASSUME NEW r \in 0..HeadRevision, NEW target \in 0..HeadRevision, target < r
    PROVE  Downgraded(SchemaAt[r], {k \in 1..HeadRevision : target < k /\ k <= r}) = SchemaAt[target]
  <1> DEFINE ks == {k \in 1..HeadRevision : target < k /\ k <= r}
             gone == UNION {Revisions[k].dropSchemas : k \in ks}
             dropped == UNION {Revisions[k].dropTables : k \in ks}
  <1>1. \A x : x \in gone <=> \E k \in ks : x \in SchemasAt(k) BY RevisionTables
  <1>2. \A t : t \in dropped <=> \E k \in ks : k # 1 /\ t \in TablesAt(k) BY RevisionTables
  <1>3. \A x : x \in SchemaAt[r].schemas \ gone <=> x \in SchemaAt[target].schemas
    <2>1. \A k, j \in 1..HeadRevision : \A x \in SchemasAt(k) : x \in SchemasAt(j) => j = k
      BY DEF SchemasAt
    <2>2. ASSUME NEW x, x \in SchemaAt[r].schemas, x \notin gone
          PROVE  x \in SchemaAt[target].schemas
      <3>1. PICK k \in 1..HeadRevision : k <= r /\ x \in SchemasAt(k) BY <2>2, SchemaAtIs
      <3>2. ~(target < k) BY <3>1, <2>2, <1>1
      <3> QED BY <3>1, <3>2, SchemaAtIs DEF HeadRevision
    <2>3. ASSUME NEW x, x \in SchemaAt[target].schemas
          PROVE  x \in SchemaAt[r].schemas /\ x \notin gone
      <3>1. PICK k \in 1..HeadRevision : k <= target /\ x \in SchemasAt(k) BY <2>3, SchemaAtIs
      <3>2. x \in SchemaAt[r].schemas BY <3>1, SchemaAtIs DEF HeadRevision
      <3>3. \A j \in ks : x \notin SchemasAt(j) BY <3>1, <2>1 DEF HeadRevision
      <3> QED BY <3>2, <3>3, <1>1
    <2> QED BY <2>2, <2>3
  <1>4. \A t : t \in {u \in SchemaAt[r].tables : u[1] \notin gone} \ dropped <=> t \in SchemaAt[target].tables
    <2>1. ASSUME NEW t, t \in SchemaAt[r].tables, t[1] \notin gone, t \notin dropped
          PROVE  t \in SchemaAt[target].tables
      <3>1. PICK k \in 1..HeadRevision : k <= r /\ t \in TablesAt(k) BY <2>1, SchemaAtIs
      <3>2. CASE k <= target BY <3>1, <3>2, SchemaAtIs
      <3>3. CASE k > target
        <4>1. k \in ks BY <3>1, <3>3
        <4>2. k # 1 => t \in dropped BY <4>1, <3>1, <1>2
        <4>3. k = 1 => t[1] \in SchemasAt(1) BY <3>1, TableHome DEF SchemasAt
        <4>4. k = 1 => t[1] \in gone BY <4>1, <4>3, <1>1
        <4> QED BY <4>2, <4>4, <2>1
      <3> QED BY <3>2, <3>3 DEF HeadRevision
    <2>2. ASSUME NEW t, t \in SchemaAt[target].tables
          PROVE  t \in SchemaAt[r].tables /\ t[1] \notin gone /\ t \notin dropped
      <3>1. PICK k \in 1..HeadRevision : k <= target /\ t \in TablesAt(k) BY <2>2, SchemaAtIs
      <3>2. t \in SchemaAt[r].tables BY <3>1, SchemaAtIs DEF HeadRevision
      <3>3. t \notin dropped
        <4> SUFFICES ASSUME NEW j \in ks, t \in TablesAt(j) PROVE FALSE BY <1>2
        <4> QED BY <3>1, TableHome DEF HeadRevision
      <3>4. t[1] \notin gone
        <4> SUFFICES ASSUME NEW j \in ks, t[1] \in SchemasAt(j) PROVE FALSE BY <1>1
        <4>1. j \in 1..HeadRevision /\ k < j BY <3>1 DEF HeadRevision
        <4>2. (j = 1 /\ t[1] = "raw") \/ j = 2 BY DEF SchemasAt
        <4>3. k = 1 /\ j = 2 /\ t[1] = "raw" BY <3>1, <4>1, <4>2, TableHome DEF HeadRevision
        <4> QED BY <4>3 DEF SchemasAt
      <3> QED BY <3>2, <3>3, <3>4
    <2> QED BY <2>1, <2>2
  <1>5. SchemaAt[r].schemas \ gone = SchemaAt[target].schemas BY <1>3
  <1>6. {u \in SchemaAt[r].tables : u[1] \notin gone} \ dropped = SchemaAt[target].tables BY <1>4
  <1>7. SchemaAt[target] = [schemas |-> SchemaAt[target].schemas, tables |-> SchemaAt[target].tables]
    BY SchemaAtIs
  <1> QED BY <1>5, <1>6, <1>7 DEF Downgraded

----------------------------------------------------------------------------
(* The schema *)

LEMMA SchemaSteps ==
    ASSUME [Next]_vars
    PROVE  UNCHANGED schemaVars \/ Migrate \/ \E target \in Nat : MigrateDown(target)
  <1>1. CASE UNCHANGED vars BY <1>1 DEF vars
  <1>2. CASE HourPasses BY <1>2 DEF HourPasses
  <1>3. CASE Source BY <1>3 DEF Source, SourceStep, InSources
  <1>4. ASSUME NEW at, Ingest(at) PROVE UNCHANGED schemaVars BY <1>4 DEF Ingest
  <1>5. CASE Backfill BY <1>5 DEF Backfill
  <1>6. CASE MigrateUp BY <1>6 DEF MigrateUp
  <1>7. CASE Downgrade BY <1>7 DEF Downgrade
  <1>8. ASSUME NEW p \in Process, Run(p) PROVE UNCHANGED schemaVars BY <1>8 DEF Run, InBatch
  <1>9. CASE Store BY <1>9 DEF Store, InStore
  <1> QED BY <1>1, <1>2, <1>3, <1>4, <1>5, <1>6, <1>7, <1>8, <1>9 DEF Next

SchemaInv == revision \in 0..HeadRevision /\ SchemaMatchesRevision

LEMMA SchemaInit == Init => SchemaInv
  <1> SUFFICES ASSUME Init PROVE SchemaInv OBVIOUS
  <1>1. PICK s \in Scenarios : revision = s.revision /\ db = Upgraded(FirstBoot, 1..s.revision)
    BY DEF Init
  <1>2. revision \in 0..HeadRevision /\ db = Upgraded(FirstBoot, 1..revision)
    BY <1>1, ScenarioAssumption
  <1>3. CASE revision = 0
    <2>1. 1..0 = {} OBVIOUS
    <2>2. SchemasOf({}) = {} /\ TablesOf({}) = {} BY Unions
    <2>3. db = FirstBoot BY <1>2, <1>3, <2>1, <2>2, FirstBootSchema DEF Upgraded
    <2> QED BY <1>2, <1>3, <2>3, FirstBootApplies DEF SchemaInv, SchemaMatchesRevision
  <1>4. CASE revision > 0
    <2>1. {k \in 1..revision : k > 0} = 1..revision BY <1>2 DEF HeadRevision
    <2>2. 0 \in 0..HeadRevision BY DEF HeadRevision
    <2>3. 0 <= revision BY <1>2 DEF HeadRevision
    <2>4. Upgraded(FirstBoot, {k \in 1..revision : k > 0}) = SchemaAt[revision]
      BY <1>2, <1>4, <2>2, <2>3, UpgradeReaches
    <2>5. db = SchemaAt[revision] BY <1>2, <2>1, <2>4
    <2> QED BY <1>2, <2>5, RestApplies DEF SchemaInv, SchemaMatchesRevision
  <1> QED BY <1>2, <1>3, <1>4 DEF HeadRevision

LEMMA SchemaDown ==
    ASSUME SchemaInv, NEW target \in Nat, MigrateDown(target)
    PROVE  SchemaInv'
  <1>1. target < revision /\ target \in 0..HeadRevision
    BY DEF MigrateDown, HeadRevision, SchemaInv
  <1>2. db = SchemaAt[revision] BY <1>1 DEF SchemaMatchesRevision, SchemaInv
  <1>3. db' = SchemaAt[target] /\ revision' = target
    BY <1>1, <1>2, DowngradeReaches DEF MigrateDown, SchemaInv
  <1> QED BY <1>1, <1>3, RestApplies DEF SchemaMatchesRevision, SchemaInv

LEMMA SchemaNext ==
    ASSUME SchemaInv, [Next]_vars
    PROVE  SchemaInv'
  <1> USE DEF SchemaInv
  <1>1. CASE UNCHANGED schemaVars BY <1>1 DEF SchemaMatchesRevision, schemaVars
  <1>2. CASE Migrate
    <2> DEFINE pending == {k \in 1..HeadRevision : k > revision}
    <2>1. db' = Upgraded(db, pending) /\ revision' = HeadRevision BY <1>2 DEF Migrate
    <2>2. HeadRevision \in 0..HeadRevision /\ revision <= HeadRevision /\ HeadRevision > 0
      BY DEF HeadRevision
    <2>3. db = SchemaAt[revision] \/ (db = FirstBoot /\ revision = 0) BY DEF SchemaMatchesRevision
    <2>4. Upgraded(db, {k \in 1..HeadRevision : k > revision}) = SchemaAt[HeadRevision]
      BY <2>2, <2>3, UpgradeReaches
    <2>5. Applies(SchemaAt[HeadRevision], {k \in 1..HeadRevision : k > HeadRevision})
      BY <2>2, RestApplies
    <2> QED BY <2>1, <2>2, <2>4, <2>5 DEF SchemaMatchesRevision
  <1>3. ASSUME NEW target \in Nat, MigrateDown(target) PROVE SchemaInv' BY <1>3, SchemaDown
  <1> QED BY <1>1, <1>2, <1>3, SchemaSteps

(* The recorded revision tells what is in the database, after every path up  *)
(* and down: exactly what the revisions up to it made, so that the pending   *)
(* ones apply (Alembic's revisions, make migrate and make migrate-down).     *)
THEOREM SchemaHolds == Spec => []SchemaMatchesRevision
  <1>1. Spec => []SchemaInv BY SchemaInit, SchemaNext, PTL DEF Spec
  <1>2. SchemaInv => SchemaMatchesRevision BY DEF SchemaInv
  <1> QED BY <1>1, <1>2, PTL

(* Which of the pipeline's tables are there. *)
PipelineTables ==
    /\ revision \in Nat
    /\ <<"raw", "demand_events">> \in db.tables \/ revision = 0
    /\ <<"raw", "weather_readings">> \in db.tables \/ revision = 0
    /\ <<"staging", "demand_hourly">> \in db.tables <=> revision >= 3
    /\ <<"staging", "weather_hourly">> \in db.tables <=> revision >= 3
    /\ <<"marts", "city_hour_features">> \in db.tables <=> revision >= 4

LEMMA TablesThere == SchemaInv => PipelineTables
  <1> SUFFICES ASSUME SchemaInv PROVE PipelineTables OBVIOUS
  <1>1. revision \in 0..9 BY DEF SchemaInv, HeadRevision
  <1>2. \A t : t \in db.tables <=> \/ \E k \in 1..HeadRevision : k <= revision /\ t \in TablesAt(k)
                                   \/ revision = 0 /\ db = FirstBoot /\ t \in TablesAt(1)
    BY SchemaAtIs, FirstBootSchema DEF SchemaInv, SchemaMatchesRevision, HeadRevision
  <1>3. TablesAt(1) = {<<"raw", "demand_events">>, <<"raw", "weather_readings">>} BY DEF TablesAt
  <1>4. TablesAt(3) = {<<"staging", "demand_hourly">>, <<"staging", "weather_hourly">>}
    BY DEF TablesAt
  <1>5. TablesAt(4) = {<<"marts", "city_hour_features">>} BY DEF TablesAt
  <1>6. 1 \in 1..HeadRevision /\ 3 \in 1..HeadRevision /\ 4 \in 1..HeadRevision BY DEF HeadRevision
  <1>7. ASSUME NEW t, NEW k \in {3, 4}, t \in TablesAt(k), t \notin TablesAt(1)
        PROVE  t \in db.tables <=> revision >= k
    <2>1. CASE revision >= k BY <1>1, <1>2, <1>6, <1>7, <2>1
    <2>2. CASE ~(revision >= k)
      <3>1. \A j \in 1..HeadRevision : j <= revision => t \notin TablesAt(j)
        BY <1>1, <1>6, <1>7, <2>2, TableHome DEF HeadRevision
      <3> QED BY <1>2, <1>7, <2>2, <3>1
    <2> QED BY <2>1, <2>2
  <1>8. /\ <<"raw", "demand_events">> \in db.tables \/ revision = 0
        /\ <<"raw", "weather_readings">> \in db.tables \/ revision = 0
    BY <1>1, <1>2, <1>3, <1>6
  <1>9. /\ <<"staging", "demand_hourly">> \in TablesAt(3) \ TablesAt(1)
        /\ <<"staging", "weather_hourly">> \in TablesAt(3) \ TablesAt(1)
        /\ <<"marts", "city_hour_features">> \in TablesAt(4) \ TablesAt(1)
    BY <1>3, <1>4, <1>5
  <1>10. /\ <<"staging", "demand_hourly">> \in db.tables <=> revision >= 3
         /\ <<"staging", "weather_hourly">> \in db.tables <=> revision >= 3
         /\ <<"marts", "city_hour_features">> \in db.tables <=> revision >= 4
    BY <1>7, <1>9
  <1> QED BY <1>1, <1>8, <1>10 DEF PipelineTables

LEMMA TablesThereNext == SchemaInv' => PipelineTables'
  BY TablesThere, PTL

----------------------------------------------------------------------------
(* The sources *)

LEMMA SourceSteps ==
    ASSUME [Next]_vars
    PROVE  \/ UNCHANGED sourceVars
           \/ GenStep \/ (GenStart /\ left["generator"] > 0)
           \/ PollStep \/ (PollerStart /\ left["poller"] > 0)
           \/ SetChaos \/ BrokerDown \/ BrokerUp
           \/ \E p \in Program : Deliver(p) \/ GiveUp(p) \/ Stop(p) \/ Kill(p) \/ FlushTimesOut(p)
  <1>1. CASE UNCHANGED vars BY <1>1 DEF vars
  <1>2. CASE HourPasses BY <1>2 DEF HourPasses
  <1>3. CASE Source BY <1>3 DEF Source, SourceStep, InSources, Spend, Deployed
  <1>4. ASSUME NEW at, Ingest(at) PROVE UNCHANGED sourceVars BY <1>4 DEF Ingest
  <1>5. CASE Backfill BY <1>5 DEF Backfill
  <1>6. CASE MigrateUp BY <1>6 DEF MigrateUp
  <1>7. CASE Downgrade BY <1>7 DEF Downgrade
  <1>8. ASSUME NEW p \in Process, Run(p) PROVE UNCHANGED sourceVars BY <1>8 DEF Run, InBatch
  <1>9. CASE Store BY <1>9 DEF Store, InStore
  <1> QED BY <1>1, <1>2, <1>3, <1>4, <1>5, <1>6, <1>7, <1>8, <1>9 DEF Next

(* Whose messages these are. *)
Producer(msg) == IF msg.table = "demand" THEN "generator" ELSE "poller"

(* A queue holds what was handed to it, and while the broker is away only a  *)
(* program that is excused has anything in its queue.                        *)
QueuesHold == queue \in [Program -> Seq(produced)]
AwayExcused == \A p \in Program : ~broker /\ queue[p] # <<>> => p \in excused
NoneLost ==
    \A msg \in produced :
        \/ Producer(msg) \in excused
        \/ msg \in ToSet(queue[Producer(msg)])
        \/ msg \in topics

SourceInv == QueuesHold /\ AwayExcused /\ NoneLost

LEMMA SetOfAppend ==
    ASSUME NEW S, NEW q \in Seq(S), NEW m \in S
    PROVE  ToSet(Append(q, m)) = ToSet(q) \cup {m}
  <1>1. /\ Len(q) \in Nat /\ DOMAIN q = 1..Len(q)
        /\ DOMAIN Append(q, m) = 1..(Len(q) + 1) /\ Append(q, m)[Len(q) + 1] = m
        /\ \A i \in 1..Len(q) : Append(q, m)[i] = q[i]
    OBVIOUS
  <1> QED BY <1>1 DEF ToSet

LEMMA SetOfTail ==
    ASSUME NEW S, NEW q \in Seq(S), q # <<>>
    PROVE  /\ Head(q) \in S /\ Tail(q) \in Seq(S)
           /\ ToSet(q) = {Head(q)} \cup ToSet(Tail(q))
  <1>1. Head(q) \in S /\ Tail(q) \in Seq(S) /\ Len(q) \in Nat \ {0} /\ DOMAIN q = 1..Len(q)
    OBVIOUS
  <1>2. Len(Tail(q)) = Len(q) - 1 /\ \A i \in 1..(Len(q) - 1) : Tail(q)[i] = q[i + 1]
    BY <1>1
  <1>3. Head(q) = q[1] BY <1>1
  <1>4. ASSUME NEW x, x \in ToSet(q) PROVE x \in {Head(q)} \cup ToSet(Tail(q))
    <2>1. PICK i \in 1..Len(q) : x = q[i] BY <1>1, <1>4 DEF ToSet
    <2>2. CASE i = 1 BY <2>1, <2>2, <1>3
    <2>3. CASE i # 1
      <3>1. i - 1 \in 1..Len(Tail(q)) /\ Tail(q)[i - 1] = x BY <1>1, <1>2, <2>1, <2>3
      <3>2. DOMAIN Tail(q) = 1..Len(Tail(q)) BY <1>1
      <3> QED BY <3>1, <3>2 DEF ToSet
    <2> QED BY <2>2, <2>3
  <1>5. ASSUME NEW x, x \in ToSet(Tail(q)) PROVE x \in ToSet(q)
    <2>0. DOMAIN Tail(q) = 1..(Len(q) - 1) BY <1>1, <1>2
    <2>1. PICK i \in 1..(Len(q) - 1) : x = Tail(q)[i] BY <2>0, <1>5 DEF ToSet
    <2>2. i + 1 \in DOMAIN q /\ q[i + 1] = x BY <1>1, <1>2, <2>1
    <2> QED BY <2>2 DEF ToSet
  <1>6. Head(q) \in ToSet(q)
    <2>1. 1 \in DOMAIN q BY <1>1
    <2> QED BY <2>1, <1>3 DEF ToSet
  <1> QED BY <1>1, <1>4, <1>5, <1>6

LEMMA SetOfNone == ToSet(<<>>) = {}
  <1>1. DOMAIN <<>> = {} OBVIOUS
  <1> QED BY <1>1 DEF ToSet

LEMMA SourceInit == Init => SourceInv
  <1> SUFFICES ASSUME Init PROVE SourceInv OBVIOUS
  <1>1. PICK s : SourcesInit(s.topics) BY DEF Init
  <1>2. queue = [p \in Program |-> <<>>] /\ broker = TRUE /\ produced = {} BY <1>1 DEF SourcesInit
  <1> QED BY <1>2 DEF SourceInv, QueuesHold, AwayExcused, NoneLost

(* Handing a message over: it is in the queue, and the program is excused if *)
(* the broker is away.                                                       *)
LEMMA ProduceKeeps ==
    ASSUME SourceInv, NEW p \in Program, NEW msg, Producer(msg) = p,
           Produce(p, msg), Excuse(p), UNCHANGED <<topics, broker>>
    PROVE  SourceInv'
  <1>1. produced' = produced \cup {msg} /\ queue' = [queue EXCEPT ![p] = Append(queue[p], msg)]
    BY DEF Produce
  <1>2. queue \in [Program -> Seq(produced')] BY <1>1 DEF SourceInv, QueuesHold
  <1>3. queue' \in [Program -> Seq(produced')] BY <1>1, <1>2
  <1>4. excused \subseteq excused' /\ (broker \/ p \in excused') BY DEF Excuse
  <1>5. ToSet(queue'[p]) = ToSet(queue[p]) \cup {msg}
        /\ \A q \in Program \ {p} : queue'[q] = queue[q]
    BY <1>1, <1>2, SetOfAppend
  <1>6. AwayExcused' BY <1>1, <1>4, <1>5 DEF SourceInv, AwayExcused
  <1>7. NoneLost'
    <2> SUFFICES ASSUME NEW m \in produced'
                 PROVE  \/ Producer(m) \in excused'
                        \/ m \in ToSet(queue'[Producer(m)])
                        \/ m \in topics'
      BY DEF NoneLost
    <2>1. CASE m = msg BY <2>1, <1>5
    <2>2. CASE m \in produced
      <3>1. Producer(m) \in Program BY DEF Producer, Program
      <3> QED BY <3>1, <2>2, <1>4, <1>5 DEF SourceInv, NoneLost
    <2> QED BY <2>1, <2>2, <1>1
  <1> QED BY <1>3, <1>6, <1>7 DEF SourceInv, QueuesHold

(* A program that ends: its queue is empty, or it is excused.                *)
LEMMA DropKeeps ==
    ASSUME SourceInv, NEW p \in Program, Drop(p),
           queue[p] # <<>> => p \in excused',
           excused \subseteq excused', UNCHANGED <<topics, broker, produced>>
    PROVE  SourceInv'
  <1>1. queue' = [queue EXCEPT ![p] = <<>>] /\ queue \in [Program -> Seq(produced)]
    BY DEF Drop, SourceInv, QueuesHold
  <1>2. QueuesHold' BY <1>1 DEF QueuesHold
  <1>3. AwayExcused' BY <1>1 DEF SourceInv, AwayExcused
  <1>4. NoneLost'
    <2> SUFFICES ASSUME NEW m \in produced
                 PROVE  \/ Producer(m) \in excused'
                        \/ m \in ToSet(queue'[Producer(m)])
                        \/ m \in topics
      BY DEF NoneLost
    <2>1. Producer(m) \in Program BY DEF Producer, Program
    <2>2. CASE Producer(m) # p BY <2>1, <2>2, <1>1 DEF SourceInv, NoneLost
    <2>3. CASE Producer(m) = p /\ queue[p] # <<>> BY <2>3
    <2>4. CASE Producer(m) = p /\ queue[p] = <<>> BY <2>4, SetOfNone DEF SourceInv, NoneLost
    <2> QED BY <2>2, <2>3, <2>4
  <1> QED BY <1>2, <1>3, <1>4 DEF SourceInv

LEMMA SourceNext ==
    ASSUME SourceInv, [Next]_vars
    PROVE  SourceInv'
  <1> DEFINE Same == UNCHANGED <<queue, topics, broker, produced, excused>>
  <1>0. ASSUME Same PROVE SourceInv'
    BY <1>0 DEF SourceInv, QueuesHold, AwayExcused, NoneLost
  <1>1. CASE UNCHANGED sourceVars BY <1>0, <1>1 DEF sourceVars
  <1>2. CASE GenProduce
    <2>1. PICK msg : msg = DemandEvent(Cities[gen.next]) OBVIOUS
    <2>2. Producer(msg) = "generator" BY <2>1 DEF Producer, DemandEvent
    <2>3. "generator" \in Program BY DEF Program
    <2> QED BY <1>2, <2>1, <2>2, <2>3, ProduceKeeps DEF GenProduce
  <1>03. CASE GenBufferError
    <2>1. PICK msg : msg = DemandEvent(Cities[gen.next]) OBVIOUS
    <2>2. Producer(msg) = "generator" BY <2>1 DEF Producer, DemandEvent
    <2>3. "generator" \in Program BY DEF Program
    <2>4. CASE UNCHANGED <<queue, produced, excused>> BY <1>0, <1>03, <2>4 DEF GenBufferError
    <2>5. CASE Produce("generator", DemandEvent(Cities[gen.next])) /\ Excuse("generator")
      BY <1>03, <2>1, <2>2, <2>3, <2>5, ProduceKeeps DEF GenBufferError
    <2> QED BY <1>03, <2>4, <2>5 DEF GenBufferError
  <1>3. CASE GenTick \/ GenStart
    BY <1>0, <1>3 DEF GenTick, GenStart
  <1>4. CASE GenExit
    <2>1. "generator" \in Program BY DEF Program
    <2>2. queue["generator"] # <<>> => "generator" \in excused
      BY <1>4, <2>1 DEF GenExit, Flushed, SourceInv, AwayExcused
    <2> QED BY <1>4, <2>1, <2>2, DropKeeps DEF GenExit
  <1>5. CASE PollCity
    <2>1. PICK msg : msg = WeatherReading(Cities[poller.next]) OBVIOUS
    <2>2. Producer(msg) = "poller" BY <2>1 DEF Producer, WeatherReading
    <2>3. "poller" \in Program BY DEF Program
    <2>4. CASE UNCHANGED <<queue, produced, excused>> BY <1>0, <1>5, <2>4 DEF PollCity
    <2>5. CASE Produce("poller", WeatherReading(Cities[poller.next])) /\ Excuse("poller")
      BY <1>5, <2>1, <2>2, <2>3, <2>5, ProduceKeeps DEF PollCity
    <2> QED BY <1>5, <2>4, <2>5 DEF PollCity
  <1>6. CASE PollRaises \/ PollCycle \/ PollerStart
    BY <1>0, <1>6 DEF PollRaises, PollCycle, PollerStart
  <1>7. CASE PollerExit
    <2>1. "poller" \in Program BY DEF Program
    <2>2. queue["poller"] # <<>> => "poller" \in excused
      BY <1>7, <2>1 DEF PollerExit, Flushed, SourceInv, AwayExcused
    <2> QED BY <1>7, <2>1, <2>2, DropKeeps DEF PollerExit
  <1>8. CASE SetChaos BY <1>0, <1>8 DEF SetChaos
  <1>9. CASE BrokerDown
    <2>1. UNCHANGED <<queue, topics, produced>>
          /\ excused' = excused \cup {p \in Program : queue[p] # <<>>}
      BY <1>9 DEF BrokerDown
    <2> QED BY <2>1 DEF SourceInv, QueuesHold, AwayExcused, NoneLost
  <1>10. CASE BrokerUp
    BY <1>10 DEF BrokerUp, SourceInv, QueuesHold, AwayExcused, NoneLost
  <1>11. ASSUME NEW p \in Program, Deliver(p) PROVE SourceInv'
    <2>1. /\ broker /\ queue[p] # <<>> /\ queue \in [Program -> Seq(produced)]
          /\ UNCHANGED <<broker, produced, excused>>
      BY <1>11 DEF Deliver, SourceInv, QueuesHold
    <2>2. PICK q \in Seq(produced) : q = queue[p] BY <2>1
    <2>3. queue' = [queue EXCEPT ![p] = Tail(q)] /\ topics' = topics \cup {Head(q)}
      BY <1>11, <2>2 DEF Deliver
    <2>4. /\ Head(q) \in produced /\ Tail(q) \in Seq(produced)
          /\ ToSet(q) = {Head(q)} \cup ToSet(Tail(q))
      BY <2>1, <2>2, SetOfTail
    <2>5. QueuesHold' BY <2>1, <2>3, <2>4 DEF QueuesHold
    <2>6. AwayExcused' BY <2>1 DEF AwayExcused
    <2>7. NoneLost'
      <3> SUFFICES ASSUME NEW m \in produced
                   PROVE  \/ Producer(m) \in excused
                          \/ m \in ToSet(queue'[Producer(m)])
                          \/ m \in topics'
        BY <2>1 DEF NoneLost
      <3>1. Producer(m) \in Program BY DEF Producer, Program
      <3>2. CASE Producer(m) # p BY <3>1, <3>2, <2>1, <2>3 DEF SourceInv, NoneLost
      <3>3. CASE Producer(m) = p BY <3>1, <3>3, <2>1, <2>2, <2>3, <2>4 DEF SourceInv, NoneLost
      <3> QED BY <3>2, <3>3
    <2> QED BY <2>5, <2>6, <2>7 DEF SourceInv
  <1>12. ASSUME NEW p \in Program, GiveUp(p) PROVE SourceInv'
    <2>1. /\ ~broker /\ queue[p] # <<>> /\ queue \in [Program -> Seq(produced)]
          /\ UNCHANGED <<topics, broker, produced, excused>>
      BY <1>12 DEF GiveUp, SourceInv, QueuesHold
    <2>2. PICK q \in Seq(produced) : q = queue[p] BY <2>1
    <2>3. queue' = [queue EXCEPT ![p] = Tail(q)] /\ p \in excused
      BY <1>12, <2>1, <2>2 DEF GiveUp, SourceInv, AwayExcused
    <2>4. Tail(q) \in Seq(produced) BY <2>1, <2>2, SetOfTail
    <2>5. QueuesHold' BY <2>1, <2>3, <2>4 DEF QueuesHold
    <2>6. AwayExcused' BY <2>1, <2>3 DEF SourceInv, AwayExcused
    <2>7. NoneLost'
      <3> SUFFICES ASSUME NEW m \in produced
                   PROVE  \/ Producer(m) \in excused
                          \/ m \in ToSet(queue'[Producer(m)])
                          \/ m \in topics
        BY <2>1 DEF NoneLost
      <3>1. Producer(m) \in Program BY DEF Producer, Program
      <3> QED BY <3>1, <2>1, <2>3 DEF SourceInv, NoneLost
    <2> QED BY <2>5, <2>6, <2>7 DEF SourceInv
  <1>13. ASSUME NEW p \in Program, Stop(p) PROVE SourceInv' BY <1>0, <1>13 DEF Stop
  <1>14. ASSUME NEW p \in Program, Kill(p) PROVE SourceInv'
    <2>1. Drop(p) /\ excused \subseteq excused' /\ (queue[p] # <<>> => p \in excused')
          /\ UNCHANGED <<topics, broker, produced>>
      BY <1>14 DEF Kill, Ends
    <2> QED BY <2>1, DropKeeps
  <1>15. ASSUME NEW p \in Program, FlushTimesOut(p) PROVE SourceInv'
    <2>1. Drop(p) /\ excused \subseteq excused' /\ (queue[p] # <<>> => p \in excused')
          /\ UNCHANGED <<topics, broker, produced>>
      BY <1>15 DEF FlushTimesOut, Ends
    <2> QED BY <2>1, DropKeeps
  <1> HIDE DEF Same
  <1> QED
    BY <1>1, <1>2, <1>03, <1>3, <1>4, <1>5, <1>6, <1>7, <1>8, <1>9, <1>10, <1>11, <1>12, <1>13,
       <1>14, <1>15, SourceSteps
    DEF GenStep, PollStep

(* What the generator or the poller handed to its producer is in the queue   *)
(* or in the topic, unless it was killed, cut off from the broker or out of  *)
(* time in its last flush: the flush at the end of the producer's block      *)
(* (EventProducer) lets SIGTERM, an exception and a full queue lose nothing. *)
THEOREM SourcesLoseNothing == Spec => []NothingLost
  <1>1. Spec => []SourceInv BY SourceInit, SourceNext, PTL DEF Spec
  <1>2. SourceInv => NothingLost BY DEF SourceInv, NoneLost, NothingLost, Producer
  <1> QED BY <1>1, <1>2, PTL

----------------------------------------------------------------------------
(* The feature store *)

LEMMA StoreSteps ==
    ASSUME [Next]_vars
    PROVE  \/ UNCHANGED storeVars
           \/ RunRouteMart \/ SyncStep \/ SyncFails
           \/ routeMart' = <<>> /\ UNCHANGED <<redis, sentinel, sync, confirmed>>
  <1>1. CASE UNCHANGED vars BY <1>1 DEF vars
  <1>2. CASE HourPasses BY <1>2 DEF HourPasses
  <1>3. CASE Source BY <1>3 DEF Source, SourceStep, InSources
  <1>4. ASSUME NEW at, Ingest(at) PROVE UNCHANGED storeVars BY <1>4 DEF Ingest
  <1>5. CASE Backfill BY <1>5 DEF Backfill
  <1>6. CASE MigrateUp BY <1>6 DEF MigrateUp
  <1>7. CASE Downgrade BY <1>7 DEF Downgrade, DropRouteMart, storeVars
  <1>8. ASSUME NEW p \in Process, Run(p) PROVE UNCHANGED storeVars BY <1>8 DEF Run, InBatch
  <1>9. CASE Store BY <1>9 DEF Store, InStore
  <1> QED BY <1>1, <1>2, <1>3, <1>4, <1>5, <1>6, <1>7, <1>8, <1>9 DEF Next

Position == 1..Len(Cities)
HashField == BatchFeature \cup {"batch_computed_at"}
Stamp(r) == redis[r].batch_computed_at

StoreShape ==
    /\ sync \in [step : {"idle", "latest", "flush"}, stamp : Nat,
                 rows : {sync.rows}, left : SUBSET Position]
    /\ sentinel \in Nat
    /\ \A r \in City : DOMAIN redis[r] = HashField /\ Stamp(r) \in Nat
    /\ \A k \in DOMAIN routeMart : k[1] \in City

(* No stamp is ahead of the run that is about to end. *)
StampsPast == sentinel <= sync.stamp /\ \A r \in City : Stamp(r) <= sync.stamp

(* Under the stamp of a run a hash has every feature of the run's row. *)
Carries(r, rows) ==
    /\ r \in DOMAIN rows
    /\ \A f \in BatchFeature : rows[r][f] # {} => redis[r][f] = rows[r][f]

(* A run that is sending is newer than the sentinel; its stamp is on every   *)
(* route it has sent and on nothing else.                                    *)
Sending ==
    sync.step = "flush" =>
        /\ sentinel < sync.stamp
        /\ DOMAIN sync.rows \subseteq City
        /\ \A i \in sync.left : Cities[i] \in DOMAIN sync.rows
        /\ \A i \in Position \ sync.left :
              Cities[i] \in DOMAIN sync.rows => Stamp(Cities[i]) = sync.stamp
        /\ \A r \in City : Stamp(r) = sync.stamp => Carries(r, sync.rows)

Confirmed ==
    sentinel # 0 =>
        /\ DOMAIN confirmed \subseteq City
        /\ \A r \in DOMAIN confirmed : Stamp(r) >= sentinel
        /\ \A r \in City : Stamp(r) = sentinel => Carries(r, confirmed)

StoreInv == StoreShape /\ StampsPast /\ Sending /\ Confirmed

LEMMA StoreInit == Init => StoreInv
  <1> SUFFICES ASSUME Init PROVE StoreInv OBVIOUS
  <1>1. /\ routeMart = <<>> /\ redis = [c \in City |-> NoHash]
        /\ sentinel = 0 /\ sync = NoSync
    BY DEF Init
  <1>2. DOMAIN routeMart = {} BY <1>1
  <1>3. \A r \in City : DOMAIN redis[r] = HashField /\ Stamp(r) = 0
    BY <1>1 DEF NoHash, HashField, Stamp
  <1> QED BY <1>1, <1>2, <1>3 DEF StoreInv, StoreShape, StampsPast, Sending, Confirmed, NoSync

(* What a write does to the hashes. *)
LEMMA WriteFacts ==
    ASSUME StoreShape, NEW R \in SUBSET City, Write(R)
    PROVE  /\ \A r \in City : DOMAIN redis'[r] = HashField /\ redis'[r].batch_computed_at \in Nat
           /\ \A r \in R : /\ redis'[r].batch_computed_at = sync.stamp
                           /\ \A f \in BatchFeature :
                                 sync.rows[r][f] # {} => redis'[r][f] = sync.rows[r][f]
           /\ \A r \in City \ R : redis'[r] = redis[r]
  <1>1. redis' = [r \in City |-> IF r \in R THEN Hset(r) ELSE redis[r]] BY DEF Write
  <1>2. ASSUME NEW r \in City
        PROVE  /\ DOMAIN Hset(r) = HashField /\ Hset(r)["batch_computed_at"] = sync.stamp
               /\ \A f \in BatchFeature : sync.rows[r][f] # {} => Hset(r)[f] = sync.rows[r][f]
    <2>1. DOMAIN redis[r] = HashField BY DEF StoreShape
    <2>2. "batch_computed_at" \notin BatchFeature BY DEF BatchFeature
    <2> QED BY <2>1, <2>2 DEF Hset, HashField
  <1>3. sync.stamp \in Nat BY DEF StoreShape
  <1> QED BY <1>1, <1>2, <1>3 DEF StoreShape, Stamp

(* The hashes written by the run that is sending, a batch or a part of one.  *)
LEMMA WriteKeeps ==
    ASSUME StoreInv, NEW R \in SUBSET NextBatch, sync.step = "flush", Write(R),
           UNCHANGED <<routeMart, sentinel, confirmed>>
    PROVE  /\ R \subseteq City
           /\ \A r \in City : DOMAIN redis'[r] = HashField /\ redis'[r].batch_computed_at \in Nat
           /\ \A r \in City : redis'[r].batch_computed_at <= sync.stamp
           /\ \A r \in R : redis'[r].batch_computed_at = sync.stamp
           /\ \A r \in City \ R : redis'[r] = redis[r]
           /\ \A r \in City : redis'[r].batch_computed_at = sync.stamp =>
                 /\ r \in DOMAIN sync.rows
                 /\ \A f \in BatchFeature :
                       sync.rows[r][f] # {} => redis'[r][f] = sync.rows[r][f]
           /\ Confirmed'
  <1>1. sync.left \subseteq Position /\ sync.stamp \in Nat /\ sentinel \in Nat
    BY DEF StoreInv, StoreShape
  <1>2. \A r \in NextBatch : r \in City /\ r \in DOMAIN sync.rows
    BY <1>1 DEF NextBatch, Batched, StoreInv, Sending, City, Position
  <1>3. R \in SUBSET City /\ R \subseteq DOMAIN sync.rows BY <1>2
  <1>4. /\ \A r \in City : DOMAIN redis'[r] = HashField /\ redis'[r].batch_computed_at \in Nat
        /\ \A r \in R : /\ redis'[r].batch_computed_at = sync.stamp
                        /\ \A f \in BatchFeature :
                              sync.rows[r][f] # {} => redis'[r][f] = sync.rows[r][f]
        /\ \A r \in City \ R : redis'[r] = redis[r]
    BY <1>3, WriteFacts DEF StoreInv
  <1>5. \A r \in City : Stamp(r) <= sync.stamp /\ Stamp(r) \in Nat
    BY DEF StoreInv, StampsPast, StoreShape
  <1>6. \A r \in City : redis'[r].batch_computed_at <= sync.stamp
    BY <1>1, <1>4, <1>5 DEF Stamp
  <1>7. \A r \in City : redis'[r].batch_computed_at = sync.stamp =>
           /\ r \in DOMAIN sync.rows
           /\ \A f \in BatchFeature : sync.rows[r][f] # {} => redis'[r][f] = sync.rows[r][f]
    BY <1>3, <1>4 DEF StoreInv, Sending, Carries, Stamp
  <1>8. Confirmed'
    <2>1. sentinel < sync.stamp BY DEF StoreInv, Sending
    <2> SUFFICES ASSUME sentinel # 0
                 PROVE  /\ DOMAIN confirmed \subseteq City
                        /\ \A r \in DOMAIN confirmed : redis'[r].batch_computed_at >= sentinel
                        /\ \A r \in City : redis'[r].batch_computed_at = sentinel =>
                              /\ r \in DOMAIN confirmed
                              /\ \A f \in BatchFeature :
                                    confirmed[r][f] # {} => redis'[r][f] = confirmed[r][f]
      BY DEF Confirmed, Stamp, Carries
    <2>2. DOMAIN confirmed \subseteq City BY DEF StoreInv, Confirmed
    <2>3. ASSUME NEW r \in DOMAIN confirmed PROVE redis'[r].batch_computed_at >= sentinel
      <3>1. r \in City BY <2>2
      <3>2. CASE r \in R BY <3>2, <1>4, <2>1, <1>1
      <3>3. CASE r \notin R BY <3>1, <3>3, <1>4 DEF StoreInv, Confirmed, Stamp
      <3> QED BY <3>2, <3>3
    <2>4. ASSUME NEW r \in City, redis'[r].batch_computed_at = sentinel
          PROVE  /\ r \in DOMAIN confirmed
                 /\ \A f \in BatchFeature :
                       confirmed[r][f] # {} => redis'[r][f] = confirmed[r][f]
      <3>1. r \notin R BY <2>4, <1>4, <2>1, <1>1
      <3> QED BY <3>1, <2>4, <1>4 DEF StoreInv, Confirmed, Stamp, Carries
    <2> QED BY <2>2, <2>3, <2>4
  <1> QED BY <1>3, <1>4, <1>6, <1>7, <1>8

LEMMA StoreNext ==
    ASSUME StoreInv, [Next]_vars
    PROVE  StoreInv'
  <1>0. /\ sync.step \in {"idle", "latest", "flush"} /\ sync.stamp \in Nat
        /\ sync.left \in SUBSET Position /\ sentinel \in Nat
        /\ sync = [step |-> sync.step, stamp |-> sync.stamp, rows |-> sync.rows, left |-> sync.left]
    BY DEF StoreInv, StoreShape
  <1>1. CASE UNCHANGED storeVars
    BY <1>1 DEF storeVars, StoreInv, StoreShape, StampsPast, Sending, Confirmed, Stamp, Carries
  <1>2. CASE routeMart' = <<>> /\ UNCHANGED <<redis, sentinel, sync, confirmed>>
    <2>1. DOMAIN routeMart' = {} BY <1>2
    <2> QED BY <1>2, <2>1 DEF StoreInv, StoreShape, StampsPast, Sending, Confirmed, Stamp, Carries
  <1>3. CASE RunRouteMart
    <2>1. /\ sync.step = "idle" /\ routeMart' = Upsert(routeMart, Assembled(Day(now) - 1))
          /\ sync' = [sync EXCEPT !.step = "latest"]
          /\ UNCHANGED <<redis, sentinel, confirmed>>
      BY <1>3 DEF RunRouteMart
    <2>2. \A k \in DOMAIN routeMart' : k[1] \in City
      BY <2>1 DEF Upsert, Assembled, StoreInv, StoreShape
    <2>3. sync' = [step |-> "latest", stamp |-> sync.stamp, rows |-> sync.rows, left |-> sync.left]
      BY <2>1, <1>0
    <2>4. StoreShape' BY <2>1, <2>2, <2>3, <1>0 DEF StoreInv, StoreShape, Stamp
    <2> QED BY <2>1, <2>3, <2>4 DEF StoreInv, StampsPast, Sending, Confirmed, Stamp, Carries
  <1>4. CASE ReadLatest /\ DOMAIN routeMart = {}
    <2>1. sync' = [step |-> "idle", stamp |-> sync.stamp, rows |-> <<>>, left |-> {}]
          /\ UNCHANGED <<routeMart, redis, sentinel, confirmed>>
      BY <1>4 DEF ReadLatest, NoSync
    <2>2. StoreShape' BY <2>1, <1>0 DEF StoreInv, StoreShape, Stamp
    <2> QED BY <2>1, <2>2 DEF StoreInv, StampsPast, Sending, Confirmed, Stamp, Carries
  <1>5. CASE ReadLatest /\ DOMAIN routeMart # {}
    <2>1. PICK rows : rows = LatestRows OBVIOUS
    <2>2. sync' = [step |-> "flush", stamp |-> sync.stamp + 1, rows |-> rows,
                   left |-> {i \in Position : Cities[i] \in DOMAIN rows}]
          /\ UNCHANGED <<routeMart, redis, sentinel, confirmed>>
      BY <1>5, <2>1 DEF ReadLatest, Position
    <2>3. DOMAIN rows \subseteq City BY <2>1 DEF LatestRows, StoreInv, StoreShape
    <2>4. StoreShape' BY <2>2, <1>0 DEF StoreInv, StoreShape, Stamp
    <2>5. sentinel < sync.stamp + 1 /\ \A r \in City : Stamp(r) < sync.stamp + 1 /\ Stamp(r) \in Nat
      BY <1>0 DEF StoreInv, StampsPast, StoreShape
    <2>6. StampsPast' BY <2>2, <2>5, <1>0 DEF StampsPast, Stamp
    <2>7. Sending'
      <3>1. \A r \in City : redis'[r].batch_computed_at # sync'.stamp BY <2>2, <2>5 DEF Stamp
      <3> QED BY <2>2, <2>3, <2>5, <3>1 DEF Sending, Stamp
    <2>8. Confirmed' BY <2>2 DEF StoreInv, Confirmed, Stamp, Carries
    <2> QED BY <2>4, <2>6, <2>7, <2>8 DEF StoreInv
  <1>6. CASE FlushBatch
    <2>1. /\ sync.step = "flush" /\ Write(NextBatch)
          /\ sync' = [sync EXCEPT !.left = sync.left \ Batched]
          /\ UNCHANGED <<routeMart, sentinel, confirmed>>
      BY <1>6 DEF FlushBatch
    <2>2. /\ NextBatch \subseteq City
          /\ \A r \in City : DOMAIN redis'[r] = HashField /\ redis'[r].batch_computed_at \in Nat
          /\ \A r \in City : redis'[r].batch_computed_at <= sync.stamp
          /\ \A r \in NextBatch : redis'[r].batch_computed_at = sync.stamp
          /\ \A r \in City \ NextBatch : redis'[r] = redis[r]
          /\ \A r \in City : redis'[r].batch_computed_at = sync.stamp =>
                /\ r \in DOMAIN sync.rows
                /\ \A f \in BatchFeature :
                      sync.rows[r][f] # {} => redis'[r][f] = sync.rows[r][f]
          /\ Confirmed'
      BY <2>1, WriteKeeps
    <2>3. sync' = [step |-> "flush", stamp |-> sync.stamp, rows |-> sync.rows,
                   left |-> sync.left \ Batched]
      BY <2>1, <1>0
    <2>4. StoreShape' BY <2>1, <2>2, <2>3, <1>0 DEF StoreInv, StoreShape, Stamp
    <2>5. StampsPast' BY <2>1, <2>2, <2>3 DEF StoreInv, StampsPast, Stamp
    <2>6. Sending'
      <3>1. sync'.left = sync.left \ Batched /\ sync'.stamp = sync.stamp /\ sync'.rows = sync.rows
        BY <2>3
      <3>2. ASSUME NEW i \in Position \ sync'.left, Cities[i] \in DOMAIN sync.rows
            PROVE  redis'[Cities[i]].batch_computed_at = sync.stamp
        <4>1. Cities[i] \in City BY DEF City, Position
        <4>2. CASE Cities[i] \in NextBatch BY <4>2, <2>2
        <4>3. CASE Cities[i] \notin NextBatch
          <5>1. i \notin Batched BY <4>3 DEF NextBatch
          <5>2. i \in Position \ sync.left BY <5>1, <3>1, <3>2
          <5>3. Stamp(Cities[i]) = sync.stamp BY <5>2, <3>2, <2>1 DEF StoreInv, Sending
          <5> QED BY <5>3, <4>1, <4>3, <2>2 DEF Stamp
        <4> QED BY <4>2, <4>3
      <3>3. /\ sentinel < sync.stamp /\ DOMAIN sync.rows \subseteq City
            /\ \A i \in sync.left \ Batched : Cities[i] \in DOMAIN sync.rows
        BY <2>1 DEF StoreInv, Sending
      <3> QED BY <3>1, <3>2, <3>3, <2>1, <2>2 DEF Sending, Stamp, Carries
    <2> QED BY <2>2, <2>4, <2>5, <2>6 DEF StoreInv
  <1>7. CASE SetSentinel
    <2>1. /\ sync.step = "flush" /\ sync.left = {}
          /\ sentinel' = sync.stamp /\ confirmed' = sync.rows
          /\ sync' = [step |-> "idle", stamp |-> sync.stamp, rows |-> <<>>, left |-> {}]
          /\ UNCHANGED <<routeMart, redis>>
      BY <1>7 DEF SetSentinel, NoSync
    <2>2. StoreShape' BY <2>1, <1>0 DEF StoreInv, StoreShape, Stamp
    <2>3. StampsPast' BY <2>1, <1>0 DEF StoreInv, StampsPast, Stamp
    <2>4. Confirmed'
      <3>1. /\ DOMAIN sync.rows \subseteq City
            /\ \A r \in City : Stamp(r) = sync.stamp => Carries(r, sync.rows)
        BY <2>1 DEF StoreInv, Sending
      <3>2. ASSUME NEW r \in DOMAIN sync.rows PROVE Stamp(r) = sync.stamp
        <4>1. PICK i \in Position : r = Cities[i] BY <3>1 DEF City, Position
        <4> QED BY <4>1, <2>1 DEF StoreInv, Sending
      <3> QED BY <2>1, <3>1, <3>2, <1>0 DEF Confirmed, Stamp, Carries
    <2> QED BY <2>1, <2>2, <2>3, <2>4 DEF StoreInv, Sending
  <1>8. CASE SyncFails
    <2>1. /\ sync' = [step |-> "idle", stamp |-> sync.stamp, rows |-> <<>>, left |-> {}]
          /\ UNCHANGED <<routeMart, sentinel, confirmed>>
      BY <1>8 DEF SyncFails, NoSync
    <2>2. PICK done \in SUBSET NextBatch : (sync.step # "flush" => done = {}) /\ Write(done)
      BY <1>8 DEF SyncFails
    <2>3. CASE sync.step = "flush"
      <3>1. /\ \A r \in City : DOMAIN redis'[r] = HashField /\ redis'[r].batch_computed_at \in Nat
            /\ \A r \in City : redis'[r].batch_computed_at <= sync.stamp
            /\ Confirmed'
        BY <2>1, <2>2, <2>3, WriteKeeps
      <3>2. StoreShape' BY <2>1, <3>1, <1>0 DEF StoreInv, StoreShape, Stamp
      <3> QED BY <2>1, <3>1, <3>2 DEF StoreInv, StampsPast, Sending, Stamp
    <2>4. CASE sync.step # "flush"
      <3>1. \A r \in City : redis'[r] = redis[r] BY <2>2, <2>4 DEF Write
      <3>2. StoreShape' BY <2>1, <3>1, <1>0 DEF StoreInv, StoreShape, Stamp
      <3> QED BY <2>1, <3>1, <3>2 DEF StoreInv, StampsPast, Sending, Confirmed, Stamp, Carries
    <2> QED BY <2>3, <2>4
  <1> QED BY <1>1, <1>2, <1>3, <1>4, <1>5, <1>6, <1>7, <1>8, StoreSteps DEF SyncStep

(* A route under the stamp that the sentinel names is complete, and none the *)
(* finished sync read is older, whatever syncs failed half-way before or     *)
(* after (_sync_to_redis: the sentinel is written after the last batch).     *)
THEOREM StoreConfirms == Spec => []SentinelConfirms
  <1>1. Spec => []StoreInv BY StoreInit, StoreNext, PTL DEF Spec
  <1>2. StoreInv => SentinelConfirms BY DEF StoreInv, Confirmed, SentinelConfirms, Stamp, Carries
  <1> QED BY <1>1, <1>2, PTL

----------------------------------------------------------------------------
(* The pipeline *)

RunSteps == {"idle", "staging", "weather", "stagingTx", "marts", "martsTx", "holidays",
             "holidaysTx", "quality", "scaler", "fit", "save"}

(* Rows are records with the time they were ingested, which has come.        *)
RowShape(r) ==
    /\ r = [table |-> r.table, id |-> r.id, city |-> r.city, hour |-> r.hour, at |-> r.at]
    /\ r.at \in Nat /\ r.at <= now

MartRow(row) ==
    row = [demand |-> row.demand, lags |-> row.lags, rolls |-> row.rolls,
           weather |-> row.weather, holiday |-> row.holiday]

Control ==
    /\ now \in Nat
    /\ pc \in [Process -> RunSteps] /\ window \in [Process -> Nat]
    /\ snap = [p \in Process |-> snap[p]]
    /\ \A r \in raw \cup lake : RowShape(r)

LEMMA BatchSteps ==
    ASSUME [Next]_vars
    PROVE  \/ UNCHANGED <<now, raw, lake, schemaVars, batchVars, history>>
           \/ Tick /\ UNCHANGED <<raw, lake, schemaVars, batchVars, history>>
           \/ Ingest(now) \/ (now > 0 /\ Ingest(now - 1)) \/ Backfill
           \/ Migrate /\ UNCHANGED <<now, raw, lake, batchVars, history>>
           \/ Downgrade
           \/ \E p \in Process : Run(p)
  <1>1. CASE UNCHANGED vars BY <1>1 DEF vars
  <1>2. CASE HourPasses BY <1>2 DEF HourPasses
  <1>3. CASE Source BY <1>3 DEF Source, SourceStep, InSources
  <1>6. CASE MigrateUp BY <1>6 DEF MigrateUp
  <1>9. CASE Store BY <1>9 DEF Store, InStore
  <1> QED BY <1>1, <1>2, <1>3, <1>6, <1>9 DEF Next

(* A step of a run, with what it does to the history. *)
Runs(p) ==
    \/ /\ StartRun(p) \/ DemandRead(p) \/ WeatherRead(p)
       /\ UNCHANGED history
    \/ /\ StagingCommit(p)
       /\ overtaken' = (overtaken \ {p}) \cup {q \in Process \ {p} : pc[q] \in {"staging", "weather", "stagingTx"}}
       /\ disturbed' = disturbed \cup (AfterMarts \ {p})
    \/ /\ MartsRead(p)
       /\ overtaken' = overtaken \ {p} /\ disturbed' = disturbed \ {p}
    \/ /\ MartsCommit(p) \/ HolidaysRead(p) \/ HolidaysCommit(p)
       /\ overtaken' = overtaken \ {p} /\ disturbed' = disturbed
    \/ /\ AssertQuality(p) \/ HeadArtifact(p) \/ FitFeatures(p) \/ SavePipeline(p) \/ Raise(p)
       /\ overtaken' = overtaken \ {p} /\ disturbed' \in {disturbed, disturbed \ {p}}

LEMMA RunHistory ==
    ASSUME Control, NEW p \in Process, Run(p)
    PROVE  Runs(p) /\ UNCHANGED <<now, raw, lake, schemaVars>>
  <1>0. UNCHANGED <<now, raw, lake, schemaVars>> BY DEF Run, InBatch
  <1>1. CASE Begin(p) BY <1>0, <1>1 DEF Begin, Runs
  <1>2. CASE RunRaises(p) BY <1>0, <1>2 DEF RunRaises, Runs
  <1>3. CASE RunContinues(p)
    <2>0. /\ overtaken' = IF pc'[p] \in {"weather", "stagingTx"} THEN overtaken ELSE Overtakes(p)
          /\ disturbed' = Disturbs(p) /\ RunStep(p)
      BY <1>3 DEF RunContinues
    <2>1. p \in DOMAIN pc BY DEF Control
    <2>2. CASE DemandRead(p) \/ WeatherRead(p)
      <3>1. pc'[p] \in {"weather", "stagingTx"} /\ pc[p] \in {"staging", "weather"}
        BY <2>1, <2>2 DEF DemandRead, WeatherRead, Goto
      <3> QED BY <1>0, <2>0, <2>2, <3>1 DEF Disturbs, Runs, history
    <2>3. CASE StagingCommit(p)
      <3>1. pc'[p] = "marts" /\ pc[p] = "stagingTx" BY <2>1, <2>3 DEF StagingCommit, Goto
      <3>2. overtaken' = (overtaken \ {p})
                            \cup {q \in Process \ {p} : pc[q] \in {"staging", "weather", "stagingTx"}}
        BY <2>0, <3>1 DEF Overtakes, InStaging
      <3> QED BY <1>0, <2>0, <2>3, <3>1, <3>2 DEF Disturbs, Runs
    <2>4. CASE MartsRead(p)
      <3>1. pc'[p] = "martsTx" /\ pc[p] = "marts" BY <2>1, <2>4 DEF MartsRead, Goto
      <3> QED BY <1>0, <2>0, <2>4, <3>1 DEF Disturbs, Overtakes, Runs
    <2>5. CASE MartsCommit(p) \/ HolidaysRead(p) \/ HolidaysCommit(p)
      <3>1. /\ pc'[p] \in {"scaler", "holidays", "holidaysTx", "quality"}
            /\ pc[p] \in {"martsTx", "holidays", "holidaysTx"}
        BY <2>1, <2>5 DEF MartsCommit, HolidaysRead, HolidaysCommit, Goto
      <3>2. overtaken' = overtaken \ {p} BY <2>0, <3>1 DEF Overtakes
      <3>3. disturbed' = disturbed BY <2>0, <3>1 DEF Disturbs
      <3> QED BY <1>0, <2>5, <3>2, <3>3 DEF Runs
    <2>6. CASE AssertQuality(p) \/ HeadArtifact(p) \/ FitFeatures(p) \/ SavePipeline(p)
      <3>1. /\ pc'[p] \in {"scaler", "idle", "fit", "save"}
            /\ pc[p] \in {"quality", "scaler", "fit", "save"}
        BY <2>1, <2>6 DEF AssertQuality, HeadArtifact, FitFeatures, SavePipeline, Goto
      <3>2. overtaken' = overtaken \ {p} BY <2>0, <3>1 DEF Overtakes
      <3>3. disturbed' \in {disturbed, disturbed \ {p}} BY <2>0, <3>1 DEF Disturbs
      <3> QED BY <1>0, <2>6, <3>2, <3>3 DEF Runs
    <2>7. CASE UndefinedTable(p) /\ Raise(p)
      <3>1. /\ pc'[p] = "idle"
            /\ pc[p] \in {"staging", "marts", "quality", "holidays", "fit"}
        BY <2>1, <2>7 DEF UndefinedTable, Raise, Goto
      <3>2. overtaken' = overtaken \ {p} BY <2>0, <3>1 DEF Overtakes
      <3>3. disturbed' \in {disturbed, disturbed \ {p}} BY <2>0, <3>1 DEF Disturbs
      <3> QED BY <1>0, <2>7, <3>2, <3>3 DEF Runs
    <2> QED BY <2>0, <2>2, <2>3, <2>4, <2>5, <2>6, <2>7 DEF RunStep
  <1> QED BY <1>1, <1>2, <1>3 DEF Run, InBatch

(* Where a step of a run leaves it, and what it leaves alone. *)
LEMMA RunMoves ==
    ASSUME Control, NEW p \in Process, Runs(p)
    PROVE  /\ pc' \in [Process -> RunSteps] /\ window' \in [Process -> Nat]
           /\ snap' = [q \in Process |-> snap'[q]]
           /\ \A q \in Process \ {p} : /\ pc'[q] = pc[q] /\ window'[q] = window[q]
                                       /\ snap'[q] = snap[q]
  <1>0. pc \in [Process -> RunSteps] /\ window \in [Process -> Nat] /\ now \in Nat
        /\ snap = [q \in Process |-> snap[q]]
    BY DEF Control
  <1>1. \E s \in RunSteps : Goto(p, s)
    BY DEF Runs, StartRun, DemandRead, WeatherRead, StagingCommit, MartsRead, MartsCommit, HolidaysRead,
           HolidaysCommit, AssertQuality, HeadArtifact, FitFeatures, SavePipeline, Raise, RunSteps
  <1>2. window' = window \/ \E n \in Nat : window' = [window EXCEPT ![p] = n]
    BY <1>0 DEF Runs, StartRun, DemandRead, WeatherRead, StagingCommit, MartsRead, MartsCommit, HolidaysRead,
           HolidaysCommit, AssertQuality, HeadArtifact, FitFeatures, SavePipeline, Raise
  <1>3. snap' = snap \/ \E d : snap' = [snap EXCEPT ![p] = d]
    BY DEF Runs, StartRun, DemandRead, WeatherRead, StagingCommit, MartsRead, MartsCommit, HolidaysRead,
           HolidaysCommit, AssertQuality, HeadArtifact, FitFeatures, SavePipeline, Raise,
           Holding, Release
  <1>4. pc' \in [Process -> RunSteps] /\ \A q \in Process \ {p} : pc'[q] = pc[q]
    BY <1>0, <1>1 DEF Goto
  <1>5. window' \in [Process -> Nat] /\ \A q \in Process \ {p} : window'[q] = window[q]
    BY <1>0, <1>2
  <1>6. snap' = [q \in Process |-> snap'[q]] /\ \A q \in Process \ {p} : snap'[q] = snap[q]
    BY <1>0, <1>3
  <1> QED BY <1>4, <1>5, <1>6

LEMMA ControlInit == Init => Control
  BY DEF Init, Control, RunSteps

LEMMA IngestRows ==
    ASSUME Control, NEW at \in Nat, at <= now, Ingest(at)
    PROVE  /\ UNCHANGED <<now, schemaVars, batchVars, history>>
           /\ raw \subseteq raw' /\ \A r \in raw' \cup lake' : RowShape(r)
  <1>1. PICK msg \in topics \ taken : raw' = raw \cup {Row(msg, at)} /\ lake' = lake \cup {Row(msg, at)}
    BY DEF Ingest
  <1>2. RowShape(Row(msg, at)) BY DEF RowShape, Row
  <1> QED BY <1>1, <1>2 DEF Ingest, Control

LEMMA BackfillRows ==
    ASSUME Control, Backfill
    PROVE  /\ UNCHANGED <<now, lake, schemaVars, batchVars, history>>
           /\ raw \subseteq raw' /\ \A r \in raw' \cup lake' : RowShape(r)
  <1>1. PICK missing \in SUBSET lake : raw' = raw \cup {[r EXCEPT !.at = now] : r \in missing}
    BY DEF Backfill
  <1>2. ASSUME NEW r \in lake PROVE RowShape([r EXCEPT !.at = now])
    <2>1. RowShape(r) /\ now \in Nat BY DEF Control
    <2>2. [r EXCEPT !.at = now] = [table |-> r.table, id |-> r.id, city |-> r.city, hour |-> r.hour, at |-> now]
      BY <2>1 DEF RowShape
    <2> QED BY <2>1, <2>2 DEF RowShape
  <1> QED BY <1>1, <1>2 DEF Backfill, Control

(* Rows only come, but for a downgrade. *)
LEMMA RowsGrow ==
    ASSUME Control, Ingest(now) \/ (now > 0 /\ Ingest(now - 1)) \/ Backfill
    PROVE  /\ UNCHANGED <<now, schemaVars, batchVars, history>>
           /\ raw \subseteq raw' /\ \A r \in raw' \cup lake' : RowShape(r)
  <1>1. now \in Nat /\ (now > 0 => now - 1 \in Nat /\ now - 1 <= now) BY DEF Control
  <1> QED BY <1>1, IngestRows, BackfillRows

LEMMA ControlNext ==
    ASSUME Control, [Next]_vars
    PROVE  Control'
  <1>1. CASE UNCHANGED <<now, raw, lake, schemaVars, batchVars, history>>
    BY <1>1 DEF Control, RowShape, batchVars
  <1>2. CASE Tick /\ UNCHANGED <<raw, lake, schemaVars, batchVars, history>>
    <2>1. now' = now + 1 /\ now \in Nat BY <1>2 DEF Tick, Control
    <2>2. \A r \in raw \cup lake : RowShape(r)' BY <2>1 DEF Control, RowShape
    <2> QED BY <1>2, <2>1, <2>2 DEF Control, batchVars
  <1>3. CASE Ingest(now) \/ (now > 0 /\ Ingest(now - 1)) \/ Backfill
    BY <1>3, RowsGrow DEF Control, batchVars, RowShape
  <1>4. CASE Migrate /\ UNCHANGED <<now, raw, lake, batchVars, history>>
    BY <1>4 DEF Control, RowShape, batchVars
  <1>5. CASE Downgrade
    <2>1. /\ raw' \subseteq raw /\ UNCHANGED <<now, lake, pc, window, snap>>
      BY <1>5 DEF Downgrade, DropRows
    <2> QED BY <2>1 DEF Control, RowShape
  <1>6. ASSUME NEW p \in Process, Run(p) PROVE Control'
    BY <1>6, RunHistory, RunMoves DEF Control, RowShape
  <1> QED BY <1>1, <1>2, <1>3, <1>4, <1>5, <1>6, BatchSteps

(* How a run gets where it is, and who changes the tables. *)
LEMMA RunArrives ==
    ASSUME Control, NEW p \in Process, Runs(p)
    PROVE  /\ pc'[p] = "staging"    => StartRun(p)
           /\ pc'[p] = "weather"    => DemandRead(p)
           /\ pc'[p] = "stagingTx"  => WeatherRead(p)
           /\ pc'[p] = "martsTx"    => MartsRead(p)
           /\ pc'[p] = "holidays"   => MartsCommit(p)
           /\ pc'[p] = "holidaysTx" => HolidaysRead(p)
           /\ pc'[p] = "quality"    => HolidaysCommit(p)
           /\ MartsCommit(p) \/ HolidaysCommit(p) \/ marts' = marts
           /\ StagingCommit(p) \/ staging' = staging
  <1>0. p \in DOMAIN pc BY DEF Control
  <1>1. CASE StartRun(p) BY <1>0, <1>1 DEF StartRun, Goto
  <1>2. CASE DemandRead(p) \/ WeatherRead(p) BY <1>0, <1>2 DEF DemandRead, WeatherRead, Goto
  <1>3. CASE StagingCommit(p) BY <1>0, <1>3 DEF StagingCommit, Goto
  <1>4. CASE MartsRead(p) BY <1>0, <1>4 DEF MartsRead, Goto
  <1>5. CASE MartsCommit(p) BY <1>0, <1>5 DEF MartsCommit, Goto
  <1>6. CASE HolidaysRead(p) BY <1>0, <1>6 DEF HolidaysRead, Goto
  <1>7. CASE HolidaysCommit(p) BY <1>0, <1>7 DEF HolidaysCommit, Goto
  <1>8. CASE AssertQuality(p) \/ HeadArtifact(p) \/ FitFeatures(p) \/ SavePipeline(p) \/ Raise(p)
    BY <1>0, <1>8 DEF AssertQuality, HeadArtifact, FitFeatures, SavePipeline, Raise, Goto
  <1> QED BY <1>1, <1>2, <1>3, <1>4, <1>5, <1>6, <1>7, <1>8 DEF Runs

(* A downgrade waits for the transactions; the rows that stay are unchanged. *)
LEMMA DowngradeDrops ==
    ASSUME Downgrade
    PROVE  /\ \A p \in Process : pc[p] \notin {"weather", "stagingTx", "martsTx", "holidaysTx"}
           /\ UNCHANGED <<now, pc, window, snap, overtaken>>
           /\ raw' \subseteq raw
           /\ DOMAIN staging' \subseteq DOMAIN staging
           /\ \A k \in DOMAIN staging' : staging'[k] = staging[k]
           /\ marts' = marts \/ marts' = <<>>
           /\ disturbed' = disturbed \cup AfterMarts
  BY DEF Downgrade, DropRows, InTransaction

----------------------------------------------------------------------------
(* Holidays *)

(* A flag is set on holidays only, and a row that is not upserted yet has    *)
(* none.                                                                     *)
Flags ==
    /\ \A k \in DOMAIN marts :
          /\ MartRow(marts[k]) /\ marts[k].holiday \in BOOLEAN
          /\ marts[k].holiday => k \in HolidayHours
    /\ \A p \in Process : pc[p] = "martsTx" =>
          \A k \in DOMAIN snap[p] : MartRow(snap[p][k]) /\ snap[p][k].holiday = FALSE

LEMMA FeaturedRows ==
    ASSUME NEW stg
    PROVE  /\ DOMAIN Featured(stg) = Demand(stg)
           /\ \A k \in Demand(stg) : MartRow(Featured(stg)[k]) /\ Featured(stg)[k].holiday = FALSE
  BY DEF Featured, MartRow

LEMMA MartsUpserted ==
    ASSUME Flags, NEW p \in Process, MartsCommit(p)
    PROVE  /\ DOMAIN marts' = DOMAIN snap[p] \cup DOMAIN marts
           /\ \A k \in DOMAIN marts :
                 /\ MartRow(marts'[k]) /\ marts'[k].holiday = marts[k].holiday
                 /\ marts'[k].demand = marts[k].demand
                    \/ (k \in DOMAIN snap[p] /\ marts'[k].demand = snap[p][k].demand)
           /\ \A k \in DOMAIN snap[p] \ DOMAIN marts : marts'[k] = snap[p][k]
  <1>1. /\ pc[p] = "martsTx"
        /\ marts' = [k \in DOMAIN KeepFlags(snap[p]) \cup DOMAIN marts |->
                        IF k \in DOMAIN KeepFlags(snap[p]) THEN KeepFlags(snap[p])[k] ELSE marts[k]]
    BY DEF MartsCommit, Upsert
  <1>2. DOMAIN KeepFlags(snap[p]) = DOMAIN snap[p] BY DEF KeepFlags
  <1>3. ASSUME NEW k \in DOMAIN marts
        PROVE  /\ MartRow(marts'[k]) /\ marts'[k].holiday = marts[k].holiday
               /\ marts'[k].demand = marts[k].demand
                  \/ (k \in DOMAIN snap[p] /\ marts'[k].demand = snap[p][k].demand)
    <2>1. MartRow(marts[k]) BY DEF Flags
    <2>2. CASE k \in DOMAIN snap[p]
      <3>1. MartRow(snap[p][k]) BY <1>1, <2>2 DEF Flags
      <3>2. marts'[k] = [snap[p][k] EXCEPT !.holiday = marts[k].holiday]
        BY <1>1, <1>2, <2>2 DEF KeepFlags
      <3>3. marts'[k] = [demand |-> snap[p][k].demand, lags |-> snap[p][k].lags,
                         rolls |-> snap[p][k].rolls, weather |-> snap[p][k].weather,
                         holiday |-> marts[k].holiday]
        BY <3>1, <3>2 DEF MartRow
      <3> QED BY <2>2, <3>3 DEF MartRow
    <2>3. CASE k \notin DOMAIN snap[p] BY <1>1, <1>2, <2>1, <2>3
    <2> QED BY <2>2, <2>3
  <1>4. \A k \in DOMAIN snap[p] \ DOMAIN marts : marts'[k] = snap[p][k] BY <1>1, <1>2 DEF KeepFlags
  <1> QED BY <1>1, <1>2, <1>3, <1>4

LEMMA HolidaysSet ==
    ASSUME Flags, NEW p \in Process, HolidaysCommit(p)
    PROVE  /\ DOMAIN marts' = DOMAIN marts
           /\ \A k \in DOMAIN marts :
                 /\ MartRow(marts'[k]) /\ marts'[k].demand = marts[k].demand
                 /\ marts'[k].holiday \in {marts[k].holiday, k \in HolidayHours}
  <1>1. marts' = [k \in DOMAIN marts |->
                    IF k \in DOMAIN snap[p] THEN [marts[k] EXCEPT !.holiday = k \in HolidayHours]
                                            ELSE marts[k]]
    BY DEF HolidaysCommit
  <1>2. ASSUME NEW k \in DOMAIN marts
        PROVE  /\ MartRow(marts'[k]) /\ marts'[k].demand = marts[k].demand
               /\ marts'[k].holiday \in {marts[k].holiday, k \in HolidayHours}
    <2>1. MartRow(marts[k]) BY DEF Flags
    <2>2. [marts[k] EXCEPT !.holiday = k \in HolidayHours]
            = [demand |-> marts[k].demand, lags |-> marts[k].lags, rolls |-> marts[k].rolls,
               weather |-> marts[k].weather, holiday |-> k \in HolidayHours]
      BY <2>1 DEF MartRow
    <2> QED BY <1>1, <2>1, <2>2 DEF MartRow
  <1> QED BY <1>1, <1>2

LEMMA FlagsInit == Init => Flags
  <1> SUFFICES ASSUME Init PROVE Flags OBVIOUS
  <1>1. DOMAIN marts = {} /\ \A p \in Process : pc[p] = "idle" BY DEF Init
  <1> QED BY <1>1 DEF Flags

LEMMA FlagsRun ==
    ASSUME Control, Flags, NEW p \in Process, Runs(p)
    PROVE  Flags'
  <1>1. \A k \in DOMAIN marts' : /\ MartRow(marts'[k]) /\ marts'[k].holiday \in BOOLEAN
                                 /\ marts'[k].holiday => k \in HolidayHours
    <2>1. CASE MartsCommit(p)
      <3>0. pc[p] = "martsTx" BY <2>1 DEF MartsCommit
      <3>1. ASSUME NEW k \in DOMAIN marts
            PROVE  /\ MartRow(marts'[k]) /\ marts'[k].holiday \in BOOLEAN
                   /\ marts'[k].holiday => k \in HolidayHours
        BY <2>1, MartsUpserted DEF Flags
      <3>2. ASSUME NEW k \in DOMAIN snap[p] \ DOMAIN marts
            PROVE  /\ MartRow(marts'[k]) /\ marts'[k].holiday \in BOOLEAN
                   /\ marts'[k].holiday => k \in HolidayHours
        <4>1. marts'[k] = snap[p][k] BY <2>1, MartsUpserted
        <4>2. MartRow(snap[p][k]) /\ snap[p][k].holiday = FALSE BY <3>0 DEF Flags
        <4> QED BY <4>1, <4>2
      <3>3. DOMAIN marts' = DOMAIN snap[p] \cup DOMAIN marts BY <2>1, MartsUpserted
      <3> QED BY <3>1, <3>2, <3>3
    <2>2. CASE HolidaysCommit(p)
      <3> SUFFICES ASSUME NEW k \in DOMAIN marts
                   PROVE  /\ MartRow(marts'[k]) /\ marts'[k].holiday \in BOOLEAN
                          /\ marts'[k].holiday => k \in HolidayHours
        BY <2>2, HolidaysSet
      <3>1. MartRow(marts'[k]) /\ marts'[k].holiday \in {marts[k].holiday, k \in HolidayHours}
        BY <2>2, HolidaysSet
      <3>2. CASE marts'[k].holiday = marts[k].holiday BY <3>1, <3>2 DEF Flags
      <3>3. CASE marts'[k].holiday = (k \in HolidayHours)
        <4>1. (k \in HolidayHours) \in BOOLEAN OBVIOUS
        <4>2. marts'[k].holiday \in BOOLEAN BY <3>3, <4>1
        <4>3. marts'[k].holiday => k \in HolidayHours BY <3>3, Zenon
        <4> QED BY <3>1, <4>2, <4>3
      <3> QED BY <3>1, <3>2, <3>3
    <2>3. CASE marts' = marts BY <2>3 DEF Flags
    <2> QED BY <2>1, <2>2, <2>3, RunArrives
  <1>2. ASSUME NEW q \in Process, pc'[q] = "martsTx", NEW k \in DOMAIN snap'[q]
        PROVE  MartRow(snap'[q][k]) /\ snap'[q][k].holiday = FALSE
    <2>1. CASE q = p
      <3>1. MartsRead(p) BY <1>2, <2>1, RunArrives
      <3>2. snap'[p] = Featured(staging) BY <3>1 DEF MartsRead, Holding, Control
      <3> QED BY <1>2, <2>1, <3>2, FeaturedRows
    <2>2. CASE q # p BY <1>2, <2>2, RunMoves DEF Flags
    <2> QED BY <2>1, <2>2
  <1> QED BY <1>1, <1>2 DEF Flags

LEMMA FlagsNext ==
    ASSUME Control, Flags, [Next]_vars
    PROVE  Flags'
  <1>1. CASE UNCHANGED batchVars BY <1>1 DEF Flags, MartRow, batchVars
  <1>2. CASE Downgrade
    <2>1. marts' = marts \/ DOMAIN marts' = {} BY <1>2, DowngradeDrops
    <2> QED BY <1>2, <2>1, DowngradeDrops DEF Flags, MartRow
  <1>3. ASSUME NEW p \in Process, Run(p) PROVE Flags' BY <1>3, RunHistory, FlagsRun
  <1> QED BY <1>1, <1>2, <1>3, BatchSteps, RowsGrow

LEMMA FlagsStay ==
    ASSUME Control, Flags, [Next]_vars, NEW k \in DOMAIN marts \cap DOMAIN marts', marts[k].holiday
    PROVE  marts'[k].holiday
  <1>1. CASE UNCHANGED batchVars BY <1>1 DEF batchVars
  <1>2. CASE Downgrade
    <2>1. marts' = marts \/ DOMAIN marts' = {} BY <1>2, DowngradeDrops
    <2> QED BY <2>1
  <1>3. ASSUME NEW p \in Process, Run(p) PROVE marts'[k].holiday
    <2>1. CASE MartsCommit(p) BY <2>1, MartsUpserted
    <2>2. CASE HolidaysCommit(p)
      <3>1. k \in HolidayHours BY DEF Flags
      <3> QED BY <2>2, <3>1, HolidaysSet
    <2>3. CASE marts' = marts BY <2>3
    <2> QED BY <1>3, <2>1, <2>2, <2>3, RunHistory, RunArrives
  <1> QED BY <1>1, <1>2, <1>3, BatchSteps, RowsGrow

(* An upsert of the marts leaves the holiday flags of the rows it replaces   *)
(* (the conflict clause of the marts SQL), and the second transaction of     *)
(* run_marts only ever takes back a flag that no holiday stands for.         *)
THEOREM FlagsKept == Spec => HolidaysKept
  <1>1. Spec => [](Control /\ Flags)
    BY ControlInit, ControlNext, FlagsInit, FlagsNext, PTL DEF Spec
  <1>2. ASSUME Control, Flags, [Next]_vars
        PROVE  [\A k \in DOMAIN marts \cap DOMAIN marts' :
                   marts[k].holiday => marts'[k].holiday]_vars
    BY <1>2, FlagsStay
  <1> QED BY <1>1, <1>2, PTL DEF Spec, HolidaysKept

----------------------------------------------------------------------------
(* The quality check *)

(* A mart row has its staged hour; a run that nothing has disturbed since it *)
(* read staging has, or has written, a row for every staged hour.            *)
Matching ==
    /\ DOMAIN marts \subseteq Demand(staging)
    /\ \A p \in Process : pc[p] = "martsTx" =>
          /\ DOMAIN snap[p] \subseteq Demand(staging)
          /\ p \notin disturbed => Demand(staging) \subseteq DOMAIN snap[p]
    /\ \A p \in Process : pc[p] \in {"holidays", "holidaysTx", "quality"} /\ p \notin disturbed =>
          Demand(staging) \subseteq DOMAIN marts /\ DOMAIN marts # {}

LEMMA MatchingInit == Init => Matching
  <1> SUFFICES ASSUME Init PROVE Matching OBVIOUS
  <1>1. DOMAIN marts = {} /\ \A p \in Process : pc[p] = "idle" BY DEF Init
  <1> QED BY <1>1 DEF Matching

(* Staged hours stay staged under an upsert. *)
LEMMA StagedHours ==
    ASSUME NEW p \in Process, StagingCommit(p)
    PROVE  /\ Demand(staging) \subseteq Demand(staging')
           /\ pc[p] = "stagingTx"
  BY DEF StagingCommit, Upsert, Demand

(* A downgrade that leaves marts leaves the staged hours they are from. *)
LEMMA DowngradeMatches ==
    ASSUME SchemaInv, Matching, Downgrade
    PROVE  Matching'
  <1>1. SchemaInv'
    <2>1. \E target \in Nat : MigrateDown(target) BY DEF Downgrade
    <2>2. SchemaInv' BY <2>1, SchemaDown
    <2> QED BY <2>2
  <1>2. /\ revision' < 4 => marts' = <<>>
        /\ revision' >= 3 => \A k \in DOMAIN staging : k \in DOMAIN staging'
    <2>1. /\ marts' = IF <<"marts", "city_hour_features">> \in db'.tables THEN marts ELSE <<>>
          /\ DOMAIN staging' =
                {j \in DOMAIN staging :
                   <<"staging", IF j[1] = "demand" THEN "demand_hourly" ELSE "weather_hourly">> \in db'.tables}
      BY DEF Downgrade, DropRows
    <2>2. /\ revision' \in Nat
          /\ <<"staging", "demand_hourly">> \in db'.tables <=> revision' >= 3
          /\ <<"staging", "weather_hourly">> \in db'.tables <=> revision' >= 3
          /\ <<"marts", "city_hour_features">> \in db'.tables <=> revision' >= 4
      BY <1>1, TablesThereNext DEF PipelineTables
    <2>3. \A j : <<"staging", IF j[1] = "demand" THEN "demand_hourly" ELSE "weather_hourly">>
                   \in {<<"staging", "demand_hourly">>, <<"staging", "weather_hourly">>}
      OBVIOUS
    <2> QED BY <2>1, <2>2, <2>3
  <1>3. revision' \in Nat BY <1>1, TablesThereNext DEF PipelineTables
  <1>4. DOMAIN marts' \subseteq Demand(staging')
    <2>1. CASE revision' < 4
      <3>1. DOMAIN marts' = {} BY <1>2, <2>1
      <3> QED BY <3>1
    <2>2. CASE revision' >= 4
      <3>1. Demand(staging) \subseteq Demand(staging') BY <1>2, <1>3, <2>2 DEF Demand
      <3>2. DOMAIN marts' \subseteq DOMAIN marts BY DowngradeDrops
      <3> QED BY <3>1, <3>2 DEF Matching
    <2> QED BY <1>3, <2>1, <2>2
  <1>5. \A p \in Process : pc'[p] \in {"holidays", "holidaysTx", "quality"} => p \in disturbed'
    BY DowngradeDrops DEF AfterMarts
  <1>6. \A p \in Process : pc'[p] # "martsTx" BY DowngradeDrops
  <1> QED BY <1>4, <1>5, <1>6 DEF Matching

LEMMA MatchingRun ==
    ASSUME Control, Flags, Matching, NEW p \in Process, Runs(p)
    PROVE  Matching'
  <1>0. \A q \in Process \ {p} : pc'[q] = pc[q] /\ snap'[q] = snap[q] BY RunMoves
  <1>00. pc \in [Process -> RunSteps] /\ DOMAIN snap = Process BY DEF Control
  <1>1. CASE StagingCommit(p)
    <2>1. /\ disturbed' = disturbed \cup (AfterMarts \ {p})
          /\ marts' = marts /\ pc'[p] = "marts"
          /\ Demand(staging) \subseteq Demand(staging')
      <3>1. /\ marts' = marts /\ pc'[p] = "marts" /\ pc[p] = "stagingTx"
        BY <1>1, <1>00 DEF StagingCommit, Goto
      <3>2. /\ ~StartRun(p) /\ ~DemandRead(p) /\ ~WeatherRead(p) /\ ~MartsRead(p) /\ ~MartsCommit(p)
            /\ ~HolidaysRead(p) /\ ~HolidaysCommit(p) /\ ~AssertQuality(p) /\ ~HeadArtifact(p)
            /\ ~FitFeatures(p) /\ ~SavePipeline(p)
        BY <3>1 DEF StartRun, DemandRead, WeatherRead, MartsRead, MartsCommit, HolidaysRead,
              HolidaysCommit, AssertQuality, HeadArtifact, FitFeatures, SavePipeline
      <3>3. ~Raise(p) BY <3>1, <1>00 DEF Raise, Goto
      <3> QED BY <1>1, <3>1, <3>2, <3>3, StagedHours DEF Runs
    <2>2. DOMAIN marts' \subseteq Demand(staging') BY <2>1 DEF Matching
    <2>3. ASSUME NEW q \in Process, pc'[q] = "martsTx"
          PROVE  DOMAIN snap'[q] \subseteq Demand(staging') /\ q \in disturbed'
      <3>1. q # p /\ pc[q] = "martsTx" BY <2>1, <2>3, <1>0
      <3>2. q \in disturbed' BY <2>1, <3>1 DEF AfterMarts
      <3>3. DOMAIN snap'[q] \subseteq Demand(staging) BY <3>1, <1>0 DEF Matching
      <3> QED BY <2>1, <3>2, <3>3
    <2>4. ASSUME NEW q \in Process, pc'[q] \in {"holidays", "holidaysTx", "quality"}
          PROVE  q \in disturbed'
      <3>1. q # p /\ pc[q] = pc'[q] BY <2>1, <2>4, <1>0
      <3> QED BY <2>1, <2>4, <3>1 DEF AfterMarts
    <2> QED BY <2>2, <2>3, <2>4 DEF Matching
  <1>2. CASE ~StagingCommit(p)
    <2>1. staging' = staging /\ disturbed \ {p} \subseteq disturbed'
      BY <1>2, RunArrives DEF Runs, history
    <2>2. DOMAIN marts \subseteq DOMAIN marts' /\ DOMAIN marts' \subseteq Demand(staging)
      <3>1. CASE MartsCommit(p)
        <4>1. pc[p] = "martsTx" BY <3>1 DEF MartsCommit
        <4>2. DOMAIN snap[p] \subseteq Demand(staging) BY <4>1 DEF Matching
        <4> QED BY <3>1, <4>2, MartsUpserted DEF Matching
      <3>2. CASE HolidaysCommit(p) BY <3>2, HolidaysSet DEF Matching
      <3>3. CASE marts' = marts BY <3>3 DEF Matching
      <3> QED BY <3>1, <3>2, <3>3, RunArrives
    <2>3. ASSUME NEW q \in Process, pc'[q] = "martsTx"
          PROVE  /\ DOMAIN snap'[q] \subseteq Demand(staging)
                 /\ q \notin disturbed' => Demand(staging) \subseteq DOMAIN snap'[q]
      <3>1. CASE q = p
        <4>1. MartsRead(p) BY <2>3, <3>1, RunArrives
        <4>2. snap'[p] = Featured(staging) BY <4>1, <1>00 DEF MartsRead, Holding
        <4> QED BY <3>1, <4>2, FeaturedRows
      <3>2. CASE q # p BY <2>1, <2>3, <3>2, <1>0 DEF Matching
      <3> QED BY <3>1, <3>2
    <2>4. ASSUME NEW q \in Process, pc'[q] \in {"holidays", "holidaysTx", "quality"},
                 q \notin disturbed'
          PROVE  Demand(staging) \subseteq DOMAIN marts' /\ DOMAIN marts' # {}
      <3>1. CASE q # p BY <2>1, <2>2, <2>4, <3>1, <1>0 DEF Matching
      <3>2. CASE q = p /\ MartsCommit(p)
        <4>1. /\ pc[p] = "martsTx" /\ DOMAIN marts' = DOMAIN snap[p] \cup DOMAIN marts
              /\ pc'[p] = IF DOMAIN snap[p] = {} THEN "scaler" ELSE "holidays"
          BY <3>2, <1>00, MartsUpserted DEF MartsCommit, Goto
        <4>2. DOMAIN snap[p] # {} BY <4>1, <2>4, <3>2
        <4>3. p \notin disturbed BY <4>1, <2>4, <3>2 DEF Runs, StartRun, DemandRead, WeatherRead, MartsRead,
              StagingCommit, AssertQuality, HeadArtifact, FitFeatures, SavePipeline, Raise, Goto, Control
        <4> QED BY <4>1, <4>2, <4>3 DEF Matching
      <3>3. CASE q = p /\ (HolidaysRead(p) \/ HolidaysCommit(p))
        <4>1. pc[p] \in {"holidays", "holidaysTx"} /\ pc'[p] \in {"holidaysTx", "quality"}
          BY <3>3, <1>00 DEF HolidaysRead, HolidaysCommit, Goto
        <4>2. p \notin disturbed
          BY <4>1, <2>4, <3>3, <1>00 DEF Runs, StartRun, DemandRead, WeatherRead, MartsRead,
              StagingCommit, AssertQuality, HeadArtifact, FitFeatures, SavePipeline, Raise, Goto
        <4> QED BY <4>1, <4>2, <2>2 DEF Matching
      <3> QED BY <2>4, <3>1, <3>2, <3>3, RunArrives
    <2> QED BY <2>1, <2>2, <2>3, <2>4 DEF Matching
  <1> QED BY <1>1, <1>2

LEMMA MatchingNext ==
    ASSUME SchemaInv, Control, Flags, Matching, [Next]_vars
    PROVE  Matching'
  <1>1. CASE UNCHANGED <<batchVars, history>> BY <1>1 DEF Matching, Demand, batchVars, history
  <1>2. CASE Downgrade BY <1>2, DowngradeMatches
  <1>3. ASSUME NEW p \in Process, Run(p) PROVE Matching' BY <1>3, RunHistory, MatchingRun
  <1> QED BY <1>1, <1>2, <1>3, BatchSteps, RowsGrow

(* The pipeline's own check (_assert_quality: as many mart rows as staged    *)
(* hours, and some) fails no run that read the whole of staging last.        *)
THEOREM QualityPasses == Spec => []QualityHolds
  <1>1. Spec => [](SchemaInv /\ Control /\ Flags /\ Matching)
    BY SchemaInit, SchemaNext, ControlInit, ControlNext, FlagsInit, FlagsNext,
       MatchingInit, MatchingNext, PTL DEF Spec
  <1>2. Matching => QualityHolds
    <2> SUFFICES ASSUME Matching, NEW p \in Process, pc[p] = "quality", p \notin disturbed
                 PROVE  QualityOk
      BY DEF QualityHolds
    <2>1. DOMAIN marts = Demand(staging) /\ DOMAIN marts # {} BY DEF Matching
    <2> QED BY <2>1 DEF QualityOk
  <1> QED BY <1>1, <1>2, PTL

----------------------------------------------------------------------------
(* Staging *)

(* What was staged of an hour came from rows of that hour, ingested before.  *)
Backed(ids, k, end) ==
    \A id \in ids : \E r \in raw : r.id = id /\ HourOf(r) = k /\ r.at < end

(* A run that nobody has overtaken has read a staged event again, or has a   *)
(* window that no longer reaches it.                                         *)
Seen(p, k, id) ==
    \E r \in raw : /\ r.id = id /\ HourOf(r) = k
                   /\ window[p] - Lookback <= r.at => id \in snap[p][k]

Staged ==
    /\ \A k \in DOMAIN staging : Backed(staging[k], k, now)
    /\ \A p \in Process : pc[p] \in {"staging", "weather", "stagingTx"} => window[p] <= now
    /\ \A p \in Process : pc[p] \in {"weather", "stagingTx"} =>
          \A k \in DOMAIN snap[p] : Backed(snap[p][k], k, window[p])
    /\ \A p \in Process \ overtaken : pc[p] \in {"staging", "weather"} =>
          \A k \in DOMAIN staging : Backed(staging[k], k, window[p])
    /\ \A p \in Process \ overtaken : pc[p] \in {"weather", "stagingTx"} =>
          \A k \in DOMAIN staging \cap DOMAIN snap[p] : \A id \in staging[k] : Seen(p, k, id)

LEMMA StagedInit == Init => Staged
  <1> SUFFICES ASSUME Init PROVE Staged OBVIOUS
  <1>1. DOMAIN staging = {} /\ \A p \in Process : pc[p] = "idle" BY DEF Init
  <1> QED BY <1>1 DEF Staged

(* Rows arrive, time passes. *)
LEMMA StagedGrows ==
    ASSUME Control, Staged, UNCHANGED <<batchVars, overtaken>>,
           raw \subseteq raw', now' \in Nat, now <= now'
    PROVE  Staged'
  <1>0. /\ UNCHANGED <<staging, pc, window, snap, overtaken>>
        /\ window \in [Process -> Nat] /\ now \in Nat /\ \A r \in raw : r.at \in Nat
    BY DEF batchVars, Control, RowShape
  <1>1. \A k \in DOMAIN staging : Backed(staging[k], k, now)'
    BY <1>0 DEF Staged, Backed, HourOf
  <1>2. \A p \in Process : pc[p] \in {"staging", "weather", "stagingTx"} => window[p] <= now'
    BY <1>0 DEF Staged
  <1>3. \A p \in Process : pc[p] \in {"weather", "stagingTx"} =>
          \A k \in DOMAIN snap[p] : Backed(snap[p][k], k, window[p])'
    BY <1>0 DEF Staged, Backed, HourOf
  <1>4. \A p \in Process \ overtaken : pc[p] \in {"staging", "weather"} =>
          \A k \in DOMAIN staging : Backed(staging[k], k, window[p])'
    BY <1>0 DEF Staged, Backed, HourOf
  <1>5. \A p \in Process \ overtaken : pc[p] \in {"weather", "stagingTx"} =>
          \A k \in DOMAIN staging \cap DOMAIN snap[p] : \A id \in staging[k] : Seen(p, k, id)'
    BY <1>0 DEF Staged, Seen, HourOf
  <1> QED BY <1>0, <1>1, <1>2, <1>3, <1>4, <1>5 DEF Staged

(* Staged rows never outlive their raw rows. *)
LEMMA StagedDowngrade ==
    ASSUME SchemaInv, Control, Staged, Downgrade
    PROVE  Staged'
  <1>1. PICK target \in Nat : MigrateDown(target) BY DEF Downgrade
  <1>2. PipelineTables' BY <1>1, SchemaDown, TablesThereNext
  <1>3. /\ raw' = {r \in raw : <<"raw", IF r.table = "demand" THEN "demand_events"
                                                              ELSE "weather_readings">> \in db'.tables}
        /\ DOMAIN staging' =
              {j \in DOMAIN staging :
                 <<"staging", IF j[1] = "demand" THEN "demand_hourly" ELSE "weather_hourly">> \in db'.tables}
    BY DEF Downgrade, DropRows
  <1>4. revision' = 0 => DOMAIN staging' = {} BY <1>2, <1>3 DEF PipelineTables
  <1>5. revision' # 0 => raw' = raw BY <1>2, <1>3 DEF PipelineTables
  <1>6. \A k \in DOMAIN staging' : k \in DOMAIN staging /\ staging'[k] = staging[k] /\ raw' = raw
    BY <1>4, <1>5, DowngradeDrops
  <1>7. /\ \A p \in Process : pc[p] \notin {"weather", "stagingTx"}
        /\ UNCHANGED <<now, pc, window, snap, overtaken>>
    BY DowngradeDrops
  <1>8. \A k \in DOMAIN staging' : Backed(staging[k], k, now)'
    BY <1>6, <1>7 DEF Staged, Backed, HourOf
  <1>9. \A p \in Process \ overtaken : pc[p] \in {"staging", "weather"} =>
          \A k \in DOMAIN staging' : Backed(staging[k], k, window[p])'
    BY <1>6, <1>7 DEF Staged, Backed, HourOf
  <1> QED BY <1>6, <1>7, <1>8, <1>9 DEF Staged

LEMMA TableBacked ==
    ASSUME Control, NEW end \in Nat, NEW table
    PROVE  LET rows == Aggregated({r \in InWindow(end) : r.table = table})
           IN  /\ \A k \in DOMAIN rows : Backed(rows[k], k, end)
               /\ \A r \in raw : HourOf(r) \in DOMAIN rows /\ end - Lookback <= r.at /\ r.at < end
                     => r.id \in rows[HourOf(r)]
  <1> DEFINE read == {r \in InWindow(end) : r.table = table}
             rows == Aggregated(read)
  <1>1. \A k \in DOMAIN rows : Backed(rows[k], k, end)
    BY DEF Aggregated, InWindow, Backed
  <1>2. ASSUME NEW r \in raw, HourOf(r) \in DOMAIN rows, end - Lookback <= r.at, r.at < end
        PROVE  r.id \in rows[HourOf(r)]
    <2>1. PICK q \in read : HourOf(q) = HourOf(r) BY <1>2 DEF Aggregated
    <2>2. r.table = table BY <2>1 DEF HourOf
    <2>3. r \in read BY <1>2, <2>2 DEF InWindow
    <2> QED BY <1>2, <2>3 DEF Aggregated
  <1> QED BY <1>1, <1>2

LEMMA StagedRun ==
    ASSUME Control, Staged, NEW p \in Process, Runs(p), UNCHANGED <<now, raw>>
    PROVE  Staged'
  <1>0. /\ pc \in [Process -> RunSteps] /\ window \in [Process -> Nat] /\ DOMAIN snap = Process
        /\ now \in Nat /\ \A r \in raw : r.at \in Nat
    BY DEF Control, RowShape
  <1>00. \A q \in Process \ {p} : pc'[q] = pc[q] /\ window'[q] = window[q] /\ snap'[q] = snap[q]
    BY RunMoves
  <1>1. CASE StartRun(p)
    <2>1. /\ pc'[p] = "staging" /\ window'[p] = now /\ UNCHANGED <<staging, overtaken>>
      <3>1. pc[p] = "idle" /\ pc'[p] = "staging" BY <1>1, <1>0 DEF StartRun, Goto
      <3>2. /\ ~StagingCommit(p) /\ ~MartsRead(p) /\ ~MartsCommit(p) /\ ~HolidaysRead(p)
            /\ ~HolidaysCommit(p) /\ ~AssertQuality(p) /\ ~HeadArtifact(p)
            /\ ~FitFeatures(p) /\ ~SavePipeline(p) /\ ~Raise(p)
        BY <3>1 DEF StagingCommit, MartsRead, MartsCommit, HolidaysRead, HolidaysCommit,
              AssertQuality, HeadArtifact, FitFeatures, SavePipeline, Raise
      <3> QED BY <1>1, <1>0, <3>1, <3>2 DEF StartRun, Runs, history
    <2>2. \A k \in DOMAIN staging : Backed(staging[k], k, now)' BY <2>1 DEF Staged, Backed, HourOf
    <2>3. \A q \in Process : pc'[q] \in {"staging", "weather", "stagingTx"} => window'[q] <= now'
      BY <2>1, <1>0, <1>00 DEF Staged
    <2>4. \A q \in Process : pc'[q] \in {"weather", "stagingTx"} =>
            \A k \in DOMAIN snap'[q] : Backed(snap[q][k], k, window[q])'
      BY <2>1, <1>00 DEF Staged, Backed, HourOf
    <2>5. \A q \in Process \ overtaken : pc'[q] \in {"staging", "weather"} =>
            \A k \in DOMAIN staging : Backed(staging[k], k, window[q])'
      BY <2>1, <1>00 DEF Staged, Backed, HourOf
    <2>6. \A q \in Process \ overtaken : pc'[q] \in {"weather", "stagingTx"} =>
            \A k \in DOMAIN staging \cap DOMAIN snap'[q] : \A id \in staging[k] : Seen(q, k, id)'
      BY <2>1, <1>00 DEF Staged, Seen, HourOf
    <2> QED BY <2>1, <2>2, <2>3, <2>4, <2>5, <2>6 DEF Staged
  <1>2. ASSUME DemandRead(p) \/ WeatherRead(p),
               NEW table, NEW before,
               snap'[p] = Joined(before, TableRead(p, table)),
               \A k \in DOMAIN before : Backed(before[k], k, window[p]),
               p \notin overtaken =>
                  \A k \in DOMAIN staging \cap DOMAIN before : \A id \in staging[k] :
                     \E r \in raw : /\ r.id = id /\ HourOf(r) = k
                                    /\ window[p] - Lookback <= r.at => id \in before[k]
        PROVE  Staged'
    <2>1. /\ pc[p] \in {"staging", "weather"} /\ pc'[p] \in {"weather", "stagingTx"}
          /\ pc'[p] = "weather" => pc[p] = "staging"
          /\ UNCHANGED <<staging, window, overtaken>>
      <3>1. /\ pc[p] \in {"staging", "weather"} /\ pc'[p] \in {"weather", "stagingTx"}
            /\ pc'[p] = "weather" => pc[p] = "staging"
        BY <1>2, <1>0 DEF DemandRead, WeatherRead, Goto
      <3>2. /\ ~StagingCommit(p) /\ ~MartsRead(p) /\ ~MartsCommit(p) /\ ~HolidaysRead(p)
            /\ ~HolidaysCommit(p) /\ ~AssertQuality(p) /\ ~HeadArtifact(p)
            /\ ~FitFeatures(p) /\ ~SavePipeline(p)
        BY <3>1 DEF StagingCommit, MartsRead, MartsCommit, HolidaysRead, HolidaysCommit,
              AssertQuality, HeadArtifact, FitFeatures, SavePipeline
      <3>3. ~Raise(p) BY <3>1, <1>0 DEF Raise, Goto
      <3>4. overtaken' = overtaken BY <3>2, <3>3 DEF Runs, history
      <3>5. UNCHANGED <<staging, window>> BY <1>2 DEF DemandRead, WeatherRead
      <3> QED BY <3>1, <3>4, <3>5
    <2>02. PICK end \in Nat : end = window[p] BY <1>0
    <2>03. PICK rows : rows = TableRead(p, table) OBVIOUS
    <2>04. rows = Aggregated({r \in InWindow(end) : r.table = table}) BY <2>02, <2>03 DEF TableRead
    <2>05. PICK read : read = Joined(before, rows) OBVIOUS
    <2>06. /\ DOMAIN read = DOMAIN before \cup DOMAIN rows
           /\ \A k \in DOMAIN before : read[k] = before[k]
           /\ \A k \in DOMAIN rows \ DOMAIN before : read[k] = rows[k]
      BY <2>05 DEF Joined
    <2>07. /\ \A k \in DOMAIN rows : Backed(rows[k], k, end)
           /\ \A r \in raw : HourOf(r) \in DOMAIN rows /\ end - Lookback <= r.at /\ r.at < end
                 => r.id \in rows[HourOf(r)]
      BY <2>04, TableBacked
    <2>2. snap'[p] = read /\ end = window[p] BY <1>2, <2>02, <2>03, <2>05
    <2>3. \A k \in DOMAIN read : Backed(read[k], k, end) BY <1>2, <2>02, <2>06, <2>07
    <2>4. \A k \in DOMAIN staging : Backed(staging[k], k, now)' BY <2>1 DEF Staged, Backed, HourOf
    <2>5. \A q \in Process : pc'[q] \in {"staging", "weather", "stagingTx"} => window'[q] <= now'
      BY <2>1, <1>00 DEF Staged
    <2>6. \A q \in Process : pc'[q] \in {"weather", "stagingTx"} =>
            \A k \in DOMAIN snap'[q] : Backed(snap[q][k], k, window[q])'
      BY <2>1, <2>2, <2>3, <1>00 DEF Staged, Backed, HourOf
    <2>7. \A q \in Process \ overtaken : pc'[q] \in {"staging", "weather"} =>
            \A k \in DOMAIN staging : Backed(staging[k], k, window[q])'
      BY <2>1, <1>00 DEF Staged, Backed, HourOf
    <2>8. ASSUME NEW q \in Process \ overtaken, pc'[q] \in {"weather", "stagingTx"},
                 NEW k \in DOMAIN staging \cap DOMAIN snap'[q], NEW id \in staging[k]
          PROVE  Seen(q, k, id)'
      <3>1. CASE q = p
        <4>1. PICK r \in raw : /\ r.id = id /\ HourOf(r) = k
                               /\ end - Lookback <= r.at => id \in read[k]
          <5>1. CASE k \in DOMAIN before BY <1>2, <2>2, <2>06, <2>8, <3>1, <5>1
          <5>2. CASE k \notin DOMAIN before
            <6>1. k \in DOMAIN rows /\ read[k] = rows[k] BY <2>2, <2>06, <2>8, <3>1, <5>2
            <6>2. PICK r \in raw : r.id = id /\ HourOf(r) = k /\ r.at < end
              BY <2>1, <2>2, <2>8, <3>1 DEF Staged, Backed
            <6> QED BY <2>07, <6>1, <6>2
          <5> QED BY <5>1, <5>2
        <4> QED BY <3>1, <4>1, <2>1, <2>2 DEF Seen, HourOf
      <3>2. CASE q # p BY <2>1, <2>8, <3>2, <1>00 DEF Staged, Seen, HourOf
      <3> QED BY <3>1, <3>2
    <2> QED BY <2>1, <2>4, <2>5, <2>6, <2>7, <2>8 DEF Staged
  <1>02. CASE DemandRead(p)
    <2>1. PICK before : before = <<>> OBVIOUS
    <2>2. DOMAIN before = {} BY <2>1
    <2>3. snap'[p] = TableRead(p, "demand") BY <1>02, <1>0 DEF DemandRead, Holding
    <2>4. snap'[p] = Joined(before, TableRead(p, "demand"))
      BY <2>2, <2>3 DEF Joined, TableRead, Aggregated
    <2> QED BY <1>2, <1>02, <2>2, <2>4
  <1>03. CASE WeatherRead(p)
    <2>1. pc[p] = "weather" /\ snap'[p] = Joined(snap[p], TableRead(p, "weather"))
      BY <1>03, <1>0 DEF WeatherRead, Holding
    <2>2. \A k \in DOMAIN snap[p] : Backed(snap[p][k], k, window[p]) BY <2>1 DEF Staged
    <2>3. p \notin overtaken =>
             \A k \in DOMAIN staging \cap DOMAIN snap[p] : \A id \in staging[k] : Seen(p, k, id)
      BY <2>1 DEF Staged
    <2> QED BY <1>2, <1>03, <2>1, <2>2, <2>3 DEF Seen
  <1>3. CASE StagingCommit(p)
    <2>1. /\ pc[p] = "stagingTx" /\ pc'[p] = "marts" /\ staging' = Upsert(staging, snap[p])
          /\ \A q \in Process : pc'[q] \in {"staging", "weather", "stagingTx"} => q \in overtaken'
      <3>1. pc[p] = "stagingTx" /\ pc'[p] = "marts" BY <1>3, <1>0 DEF StagingCommit, Goto
      <3>2. /\ ~StartRun(p) /\ ~DemandRead(p) /\ ~WeatherRead(p) /\ ~MartsRead(p) /\ ~MartsCommit(p)
            /\ ~HolidaysRead(p) /\ ~HolidaysCommit(p) /\ ~AssertQuality(p) /\ ~HeadArtifact(p)
            /\ ~FitFeatures(p) /\ ~SavePipeline(p)
        BY <3>1 DEF StartRun, DemandRead, WeatherRead, MartsRead, MartsCommit, HolidaysRead,
              HolidaysCommit, AssertQuality, HeadArtifact, FitFeatures, SavePipeline
      <3>3. ~Raise(p) BY <3>1, <1>0 DEF Raise, Goto
      <3>4. overtaken' = (overtaken \ {p})
                            \cup {q \in Process \ {p} : pc[q] \in {"staging", "weather", "stagingTx"}}
        BY <3>2, <3>3 DEF Runs
      <3> QED BY <1>3, <1>00, <3>1, <3>4 DEF StagingCommit
    <2>2. window[p] <= now /\ \A k \in DOMAIN snap[p] : Backed(snap[p][k], k, window[p])
      BY <2>1 DEF Staged
    <2>3. \A k \in DOMAIN snap[p] : Backed(snap[p][k], k, now)
      BY <2>2, <1>0 DEF Backed
    <2>4. \A k \in DOMAIN staging' : Backed(staging'[k], k, now)
      BY <2>1, <2>3 DEF Upsert, Staged
    <2>5. \A k \in DOMAIN staging' : Backed(staging[k], k, now)' BY <2>4 DEF Backed, HourOf
    <2>6. \A q \in Process : pc'[q] \in {"staging", "weather", "stagingTx"} => window'[q] <= now'
      BY <2>1, <1>00 DEF Staged
    <2>7. \A q \in Process : pc'[q] \in {"weather", "stagingTx"} =>
            \A k \in DOMAIN snap'[q] : Backed(snap[q][k], k, window[q])'
      BY <2>1, <1>00 DEF Staged, Backed, HourOf
    <2> QED BY <2>1, <2>5, <2>6, <2>7 DEF Staged
  <1>4. CASE ~StartRun(p) /\ ~DemandRead(p) /\ ~WeatherRead(p) /\ ~StagingCommit(p)
    <2>1. /\ pc'[p] \notin {"staging", "weather", "stagingTx"} /\ staging' = staging
          /\ overtaken \ {p} \subseteq overtaken'
      BY <1>4, RunArrives DEF Runs
    <2>2. \A k \in DOMAIN staging : Backed(staging[k], k, now)' BY <2>1 DEF Staged, Backed, HourOf
    <2>3. \A q \in Process : pc'[q] \in {"staging", "weather", "stagingTx"} => window'[q] <= now'
      BY <2>1, <1>00 DEF Staged
    <2>4. \A q \in Process : pc'[q] \in {"weather", "stagingTx"} =>
            \A k \in DOMAIN snap'[q] : Backed(snap[q][k], k, window[q])'
      BY <2>1, <1>00 DEF Staged, Backed, HourOf
    <2>5. \A q \in Process \ overtaken' : pc'[q] \in {"staging", "weather"} =>
            \A k \in DOMAIN staging : Backed(staging[k], k, window[q])'
      BY <2>1, <1>00 DEF Staged, Backed, HourOf
    <2>6. \A q \in Process \ overtaken' : pc'[q] \in {"weather", "stagingTx"} =>
            \A k \in DOMAIN staging \cap DOMAIN snap'[q] : \A id \in staging[k] : Seen(q, k, id)'
      BY <2>1, <1>00 DEF Staged, Seen, HourOf
    <2> QED BY <2>1, <2>2, <2>3, <2>4, <2>5, <2>6 DEF Staged
  <1> QED BY <1>1, <1>02, <1>03, <1>3, <1>4

LEMMA StagedNext ==
    ASSUME SchemaInv, Control, Staged, [Next]_vars
    PROVE  Staged'
  <1>0. now \in Nat BY DEF Control
  <1>1. CASE UNCHANGED <<now, raw, batchVars, history>> BY <1>0, <1>1, StagedGrows DEF history
  <1>2. CASE Tick /\ UNCHANGED <<raw, lake, schemaVars, batchVars, history>>
    <2>1. now' = now + 1 BY <1>2 DEF Tick
    <2> QED BY <1>0, <1>2, <2>1, StagedGrows DEF history
  <1>3. CASE Ingest(now) \/ (now > 0 /\ Ingest(now - 1)) \/ Backfill
    BY <1>0, <1>3, RowsGrow, StagedGrows DEF history
  <1>4. CASE Downgrade BY <1>4, StagedDowngrade
  <1>5. ASSUME NEW p \in Process, Run(p) PROVE Staged' BY <1>5, RunHistory, StagedRun
  <1> QED BY <1>1, <1>2, <1>3, <1>4, <1>5, BatchSteps

LEMMA StagedKept ==
    ASSUME SchemaInv, Control, Staged, [Next]_vars, NEW k \in DOMAIN staging, NEW id \in staging[k]
    PROVE  \/ k \in DOMAIN staging' /\ id \in staging'[k]
           \/ \E r \in raw : r.id = id /\ r.at < now - Lookback
           \/ revision' # revision
           \/ \E p \in overtaken : pc[p] = "stagingTx" /\ pc'[p] = "marts"
  <1>1. CASE UNCHANGED batchVars BY <1>1 DEF batchVars
  <1>2. CASE Downgrade
    <2>1. PICK target \in Nat : MigrateDown(target) BY <1>2 DEF Downgrade
    <2> QED BY <2>1, TablesThere DEF MigrateDown, PipelineTables
  <1>3. ASSUME NEW p \in Process, Run(p), StagingCommit(p)
        PROVE  \/ k \in DOMAIN staging' /\ id \in staging'[k]
               \/ \E r \in raw : r.id = id /\ r.at < now - Lookback
               \/ p \in overtaken /\ pc[p] = "stagingTx" /\ pc'[p] = "marts"
    <2>1. pc[p] = "stagingTx" /\ pc'[p] = "marts" /\ staging' = Upsert(staging, snap[p])
      BY <1>3 DEF StagingCommit, Goto, Control
    <2>2. CASE k \notin DOMAIN snap[p] BY <2>1, <2>2 DEF Upsert
    <2>3. CASE k \in DOMAIN snap[p] /\ p \notin overtaken
      <3>1. PICK r \in raw : r.id = id /\ (window[p] - Lookback <= r.at => id \in snap[p][k])
        BY <2>1, <2>3 DEF Staged, Seen
      <3>2. /\ r.at \in Nat /\ window[p] \in Nat /\ now \in Nat /\ Lookback \in Nat
            /\ window[p] <= now
        BY <2>1, LookbackAssumption DEF Staged, Control, RowShape
      <3>3. CASE id \in snap[p][k] BY <2>1, <2>3, <3>3 DEF Upsert
      <3>4. CASE id \notin snap[p][k]
        <4>1. r.at < now - Lookback BY <3>1, <3>2, <3>4
        <4> QED BY <3>1, <4>1
      <3> QED BY <3>3, <3>4
    <2> QED BY <2>1, <2>2, <2>3
  <1>4. ASSUME NEW p \in Process, Run(p), ~StagingCommit(p) PROVE staging' = staging
    BY <1>4, RunHistory, RunArrives
  <1> QED BY <1>1, <1>2, <1>3, <1>4, BatchSteps, RowsGrow

(* A staged event leaves its hour's aggregate only when the lookback window  *)
(* has passed it, when the tables are dropped, or when a run that was        *)
(* overtaken commits (the ON CONFLICT upsert of the staging SQL).            *)
THEOREM EventsStayStaged == Spec => StagedStays
  <1>1. Spec => [](SchemaInv /\ Control /\ Staged)
    BY SchemaInit, SchemaNext, ControlInit, ControlNext, StagedInit, StagedNext, PTL DEF Spec
  <1>2. ASSUME SchemaInv, Control, Staged, [Next]_vars
        PROVE  [\A k \in DOMAIN staging : \A id \in staging[k] :
                  \/ k \in DOMAIN staging' /\ id \in staging'[k]
                  \/ \E r \in raw : r.id = id /\ r.at < now - Lookback
                  \/ revision' # revision
                  \/ \E p \in overtaken : pc[p] = "stagingTx" /\ pc'[p] = "marts"]_vars
    BY <1>2, StagedKept
  <1> QED BY <1>1, <1>2, PTL DEF Spec, StagedStays

----------------------------------------------------------------------------
(* Messages and rows: an event has one raw row *)

LEMMA LeftNext ==
    ASSUME left \in [Kind -> Nat], [Next]_vars
    PROVE  left' \in [Kind -> Nat] /\ \A k \in Kind : left'[k] <= left[k]
  <1> DEFINE Spent == \E kind \in Kind : Spend(kind)
  <1>1. UNCHANGED left \/ Spent
    <2> USE DEF Deployed, Kind
    <2>1. CASE UNCHANGED vars BY <2>1 DEF vars
    <2>2. CASE HourPasses BY <2>2 DEF HourPasses
    <2>3. CASE Source BY <2>3 DEF Source, SourceStep, InSources
    <2>4. CASE Deployed("ingestor") /\ Ingest(now) BY <2>4
    <2>5. CASE Spend("late") /\ Ingest(now - 1) BY <2>5
    <2>6. CASE Backfill BY <2>6 DEF Backfill
    <2>7. CASE MigrateUp BY <2>7 DEF MigrateUp
    <2>8. CASE Downgrade BY <2>8 DEF Downgrade
    <2>9. ASSUME NEW p \in Process, Run(p) PROVE UNCHANGED left \/ Spent
      <3>1. CASE Begin(p)
        <4>1. UNCHANGED left \/ Spend("manual") BY <3>1 DEF Begin
        <4> QED BY <4>1
      <3>2. CASE RunContinues(p) BY <3>2 DEF RunContinues
      <3>3. CASE RunRaises(p) BY <3>3 DEF RunRaises
      <3> QED BY <2>9, <3>1, <3>2, <3>3 DEF Run, InBatch
    <2>10. CASE Store BY <2>10 DEF Store, InStore
    <2> QED BY <2>1, <2>2, <2>3, <2>4, <2>5, <2>6, <2>7, <2>8, <2>9, <2>10 DEF Next
  <1> QED BY <1>1 DEF Spend

(* The two programs. *)
SourceTyped ==
    /\ gen \in [step : {"down", "sleep", "tick", "flush"}, next : 1..Len(Cities),
                hour : Nat, starts : Nat]
    /\ poller \in [step : {"down", "wait", "poll", "flush"}, next : 1..Len(Cities)]

(* What the sources give an id of their own to, the id says all about.       *)
FromGenerator(m) ==
    \E c \in City, h \in Nat, n \in Nat :
        m = [table |-> "demand", id |-> <<"demand", c, h, n>>, city |-> c, hour |-> h,
             quantity |-> <<<<c, h>>, n>>]
FromPoller(m) ==
    \E c \in City, h \in Nat :
        m = [table |-> "weather", id |-> <<"weather", c, h>>, city |-> c, hour |-> h,
             quantity |-> <<c, h>>]

Message == topics \cup produced
Messages ==
    /\ \A m \in Message : m.table \in {"demand", "weather"} /\ m.city \in City
    /\ \A m, n \in Message : m.id = n.id => m = n
    /\ \/ /\ gen.step = "down" /\ left["generator"] = 0
          /\ poller.step = "down" /\ left["poller"] = 0
       \/ \A m \in Message : m.id \in Minted => FromGenerator(m) \/ FromPoller(m)

LEMMA CitiesTyped == Len(Cities) \in Nat \ {0} /\ \A i \in 1..Len(Cities) : Cities[i] \in City
  BY ClockAssumption DEF City

LEMMA SourceTypedNext ==
    ASSUME SourceTyped, now \in Nat, [Next]_vars
    PROVE  SourceTyped'
  <1> USE CitiesTyped DEF SourceTyped
  <1>0. /\ gen = [step |-> gen.step, next |-> gen.next, hour |-> gen.hour, starts |-> gen.starts]
        /\ gen.next \in 1..Len(Cities) /\ gen.hour \in Nat /\ gen.starts \in Nat
    OBVIOUS
  <1>1. CASE UNCHANGED <<gen, poller>> BY <1>1
  <1>2. CASE GenProduce
    <2>1. \/ /\ gen.next < Len(Cities)
             /\ gen' = [step |-> gen.step, next |-> gen.next + 1, hour |-> gen.hour,
                        starts |-> gen.starts]
          \/ gen' = [step |-> "sleep", next |-> 1, hour |-> gen.hour + 1, starts |-> gen.starts]
      BY <1>0, <1>2 DEF GenProduce
    <2>2. poller' = poller BY <1>2 DEF GenProduce
    <2> QED BY <1>0, <2>1, <2>2
  <1>3. CASE GenBufferError \/ GenTick \/ GenExit
    <2>1. /\ poller' = poller
          /\ \/ gen' = [step |-> "flush", next |-> gen.next, hour |-> gen.hour, starts |-> gen.starts]
             \/ gen' = [step |-> "tick", next |-> 1, hour |-> gen.hour, starts |-> gen.starts]
             \/ gen' = [step |-> "down", next |-> 1, hour |-> gen.hour, starts |-> gen.starts]
      BY <1>0, <1>3 DEF GenBufferError, GenTick, GenExit
    <2> QED BY <1>0, <2>1
  <1>4. CASE GenStart BY <1>4 DEF GenStart
  <1>5. CASE PollCity BY <1>5 DEF PollCity, NextCity
  <1>6. CASE PollRaises BY <1>6 DEF PollRaises
  <1>7. CASE PollCycle BY <1>7 DEF PollCycle
  <1>8. CASE PollerExit \/ PollerStart BY <1>8 DEF PollerExit, PollerStart
  <1>9. ASSUME NEW p \in Program, Kill(p) \/ FlushTimesOut(p) PROVE SourceTyped'
    <2>1. CASE p = "generator"
      <3>1. gen' = [step |-> "down", next |-> 1, hour |-> gen.hour, starts |-> gen.starts]
            /\ poller' = poller
        BY <1>0, <1>9, <2>1 DEF Kill, FlushTimesOut, Ends
      <3> QED BY <1>0, <3>1
    <2>2. CASE p # "generator" BY <1>9, <2>2 DEF Kill, FlushTimesOut, Ends
    <2> QED BY <2>1, <2>2
  <1>10. ASSUME UNCHANGED sourceVars \/ SetChaos \/ BrokerDown \/ BrokerUp
                \/ \E p \in Program : Deliver(p) \/ GiveUp(p) \/ Stop(p)
         PROVE  UNCHANGED <<gen, poller>>
    BY <1>10 DEF sourceVars, SetChaos, BrokerDown, BrokerUp, Deliver, GiveUp, Stop
  <1> QED
    BY <1>1, <1>2, <1>3, <1>4, <1>5, <1>6, <1>7, <1>8, <1>9, <1>10, SourceSteps
    DEF GenStep, PollStep

(* Which messages a step adds, and where the programs must be for it.        *)
MessageStep ==
    /\ \/ Message' \subseteq Message
       \/ \E m : /\ Message' = Message \cup {m}
                 /\ \/ gen.step # "down" /\ FromGenerator(m)
                    \/ poller.step # "down" /\ FromPoller(m)
    /\ gen.step = "down" /\ gen'.step # "down" => left["generator"] > 0
    /\ poller.step = "down" /\ poller'.step # "down" => left["poller"] > 0
    /\ topics \subseteq topics'

LEMMA MessageSteps ==
    ASSUME SourceInv, SourceTyped, now \in Nat, [Next]_vars
    PROVE  MessageStep
  <1> USE DEF MessageStep, Message
  <1>1. CASE UNCHANGED sourceVars BY <1>1 DEF sourceVars
  <1>2. CASE GenProduce \/ GenBufferError
    <2>1. PICK m : m = DemandEvent(Cities[gen.next]) OBVIOUS
    <2>2. gen.step = "tick" /\ produced' \in {produced, produced \cup {m}}
          /\ UNCHANGED <<topics, poller>>
      BY <1>2, <2>1 DEF GenProduce, GenBufferError, Produce
    <2>3. FromGenerator(m)
      BY <2>1, CitiesTyped
      DEF SourceTyped, DemandEvent, GenerateQuantity, GenerateReading, FromGenerator
    <2>4. Message' \in {Message, Message \cup {m}} BY <2>2
    <2> QED BY <2>2, <2>3, <2>4
  <1>4. CASE GenTick BY <1>4 DEF GenTick
  <1>5. CASE GenExit BY <1>5 DEF GenExit
  <1>6. CASE GenStart /\ left["generator"] > 0 BY <1>6 DEF GenStart
  <1>7. CASE PollCity
    <2>0. poller.step = "poll" /\ UNCHANGED <<gen, topics>> BY <1>7 DEF PollCity
    <2>1. PICK m : m = WeatherReading(Cities[poller.next]) OBVIOUS
    <2>2. CASE UNCHANGED produced BY <2>0, <2>2
    <2>3. CASE Produce("poller", WeatherReading(Cities[poller.next]))
      <3>1. produced' = produced \cup {m} BY <2>1, <2>3 DEF Produce
      <3>2. FromPoller(m)
        BY <2>1, CitiesTyped DEF SourceTyped, WeatherReading, GenerateReading, FromPoller
      <3>3. Message' = Message \cup {m} BY <2>0, <3>1
      <3> QED BY <2>0, <3>2, <3>3
    <2> QED BY <1>7, <2>2, <2>3 DEF PollCity
  <1>8. CASE PollRaises BY <1>8 DEF PollRaises
  <1>9. CASE PollCycle BY <1>9 DEF PollCycle
  <1>10. CASE PollerExit BY <1>10 DEF PollerExit
  <1>11. CASE PollerStart /\ left["poller"] > 0 BY <1>11 DEF PollerStart
  <1>12. CASE SetChaos \/ BrokerDown \/ BrokerUp BY <1>12 DEF SetChaos, BrokerDown, BrokerUp
  <1>13. ASSUME NEW p \in Program, Deliver(p) PROVE MessageStep
    <2>1. PICK q \in Seq(produced) : q = queue[p] /\ q # <<>>
      BY <1>13 DEF Deliver, SourceInv, QueuesHold
    <2>2. topics' = topics \cup {Head(q)} /\ UNCHANGED <<gen, poller, produced>>
      BY <1>13, <2>1 DEF Deliver
    <2>3. Head(q) \in produced BY <2>1, SetOfTail
    <2> QED BY <2>2, <2>3
  <1>14. ASSUME NEW p \in Program, GiveUp(p) \/ Stop(p) PROVE MessageStep
    BY <1>14 DEF GiveUp, Stop
  <1>15. ASSUME NEW p \in Program, Kill(p) \/ FlushTimesOut(p) PROVE MessageStep
    <2>1. UNCHANGED <<topics, produced>> BY <1>15 DEF Kill, FlushTimesOut
    <2>2. /\ gen' = gen \/ gen'.step = "down"
          /\ poller' = poller \/ poller'.step = "down"
      <3>1. gen = [step |-> gen.step, next |-> gen.next, hour |-> gen.hour, starts |-> gen.starts]
        BY DEF SourceTyped
      <3>2. CASE p = "generator"
        <4>1. gen' = [step |-> "down", next |-> 1, hour |-> gen.hour, starts |-> gen.starts]
              /\ poller' = poller
          BY <1>15, <3>1, <3>2 DEF Kill, FlushTimesOut, Ends
        <4> QED BY <4>1
      <3>3. CASE p # "generator" BY <1>15, <3>3 DEF Kill, FlushTimesOut, Ends
      <3> QED BY <3>2, <3>3
    <2> QED BY <2>1, <2>2
  <1> HIDE DEF MessageStep, Message
  <1> QED
    BY <1>1, <1>2, <1>4, <1>5, <1>6, <1>7, <1>8, <1>9, <1>10, <1>11, <1>12, <1>13, <1>14,
       <1>15, SourceSteps
    DEF GenStep, PollStep

LEMMA MintedIds ==
    /\ \A m : FromGenerator(m) \/ FromPoller(m) =>
          m.id \in Minted /\ m.table \in {"demand", "weather"} /\ m.city \in City
    /\ \A m, n : (FromGenerator(m) \/ FromPoller(m)) /\ (FromGenerator(n) \/ FromPoller(n))
          /\ m.id = n.id => m = n
  <1>1. ASSUME NEW m, FromGenerator(m) \/ FromPoller(m)
        PROVE  m.id \in Minted /\ m.table \in {"demand", "weather"} /\ m.city \in City
    BY <1>1 DEF FromGenerator, FromPoller, Minted
  <1>2. ASSUME NEW m, NEW n, FromGenerator(m), FromGenerator(n), m.id = n.id PROVE m = n
    BY <1>2 DEF FromGenerator
  <1>3. ASSUME NEW m, NEW n, FromPoller(m), FromPoller(n), m.id = n.id PROVE m = n
    BY <1>3 DEF FromPoller
  <1>4. ASSUME NEW m, NEW n, FromGenerator(m), FromPoller(n) PROVE m.id # n.id
    BY <1>4 DEF FromGenerator, FromPoller
  <1> QED BY <1>1, <1>2, <1>3, <1>4

LEMMA MessagesNext ==
    ASSUME SourceInv, SourceTyped, Messages, now \in Nat, left \in [Kind -> Nat], [Next]_vars
    PROVE  Messages'
  <1>0. MessageStep BY MessageSteps
  <1>1. left'["generator"] <= left["generator"] /\ left'["poller"] <= left["poller"]
        /\ left'["generator"] \in Nat /\ left'["poller"] \in Nat
        /\ left["generator"] \in Nat /\ left["poller"] \in Nat
    BY LeftNext DEF Kind
  <1>2. CASE Message' \subseteq Message
    <2>1. \/ /\ gen'.step = "down" /\ left'["generator"] = 0
             /\ poller'.step = "down" /\ left'["poller"] = 0
          \/ \A m \in Message : m.id \in Minted => FromGenerator(m) \/ FromPoller(m)
      BY <1>0, <1>1 DEF Messages, MessageStep
    <2>2. \/ /\ gen'.step = "down" /\ left'["generator"] = 0
             /\ poller'.step = "down" /\ left'["poller"] = 0
          \/ \A m \in Message' : m.id \in Minted => FromGenerator(m) \/ FromPoller(m)
      BY <1>2, <2>1
    <2>3. /\ \A m \in Message' : m.table \in {"demand", "weather"} /\ m.city \in City
          /\ \A m, n \in Message' : m.id = n.id => m = n
      BY <1>2 DEF Messages
    <2> QED BY <2>2, <2>3 DEF Messages, FromGenerator, FromPoller
  <1>3. ASSUME NEW m, Message' = Message \cup {m},
               (gen.step # "down" /\ FromGenerator(m)) \/ (poller.step # "down" /\ FromPoller(m))
        PROVE  Messages'
    <2>1. \A n \in Message : n.id \in Minted => FromGenerator(n) \/ FromPoller(n)
      BY <1>3 DEF Messages
    <2>2. FromGenerator(m) \/ FromPoller(m) BY <1>3
    <2>3. m.id \in Minted /\ m.table \in {"demand", "weather"} /\ m.city \in City
      BY <2>2, MintedIds
    <2>4. \A n \in Message : n.id = m.id => n = m BY <2>1, <2>2, <2>3, MintedIds
    <2>5. /\ \A n \in Message' : n.table \in {"demand", "weather"} /\ n.city \in City
          /\ \A n, k \in Message' : n.id = k.id => n = k
          /\ \A n \in Message' : n.id \in Minted => FromGenerator(n) \/ FromPoller(n)
      BY <1>3, <2>1, <2>2, <2>3, <2>4 DEF Messages
    <2> QED BY <2>5 DEF Messages, FromGenerator, FromPoller
  <1> QED BY <1>0, <1>2, <1>3 DEF MessageStep

LEMMA MessagesInit == Init => SourceTyped /\ Messages /\ left \in [Kind -> Nat]
  <1> SUFFICES ASSUME Init PROVE SourceTyped /\ Messages /\ left \in [Kind -> Nat] OBVIOUS
  <1>1. PICK s \in Scenarios : SourcesInit(s.topics) /\ left = s.left BY DEF Init
  <1>2. /\ gen = [step |-> "down", next |-> 1, hour |-> 0, starts |-> 0]
        /\ poller = [step |-> "down", next |-> 1]
        /\ topics = s.topics /\ produced = {}
    BY <1>1 DEF SourcesInit
  <1>3. left \in [Kind -> Nat] /\ left["generator"] \in Nat /\ left["poller"] \in Nat
    BY <1>1, ScenarioAssumption DEF Kind
  <1>4. SourceTyped BY <1>2, CitiesTyped DEF SourceTyped
  <1>5. Messages BY <1>1, <1>2, <1>3, ScenarioAssumption DEF Messages, Message
  <1> QED BY <1>3, <1>4, <1>5

(* Every row is of a consumed message, and an event id is there once, in the *)
(* lake and in the database.                                                 *)
Unique(rows) == \A r, q \in rows : r.id = q.id => r = q
Rows ==
    /\ taken \subseteq topics
    /\ IsFiniteSet(raw) /\ IsFiniteSet(lake)
    /\ \A r \in raw \cup lake : \E m \in taken : r.id = m.id /\ r.table = m.table /\ r.city = m.city
    /\ Unique(raw) /\ Unique(lake)

LEMMA RowSteps ==
    ASSUME [Next]_vars
    PROVE  \/ UNCHANGED <<raw, lake, taken>>
           \/ Ingest(now) \/ Ingest(now - 1) \/ Backfill
           \/ raw' \subseteq raw /\ UNCHANGED <<lake, taken>>
  <1>1. CASE UNCHANGED vars BY <1>1 DEF vars
  <1>2. CASE HourPasses BY <1>2 DEF HourPasses
  <1>3. CASE Source BY <1>3 DEF Source, SourceStep, InSources
  <1>4. CASE MigrateUp BY <1>4 DEF MigrateUp
  <1>5. CASE Downgrade BY <1>5, DowngradeDrops DEF Downgrade
  <1>6. ASSUME NEW p \in Process, Run(p) PROVE UNCHANGED <<raw, lake, taken>>
    BY <1>6 DEF Run, InBatch
  <1>7. CASE Store BY <1>7 DEF Store, InStore
  <1> QED BY <1>1, <1>2, <1>3, <1>4, <1>5, <1>6, <1>7 DEF Next

LEMMA RowsInit == Init => Rows
  BY FS_EmptySet DEF Init, Rows, Unique

LEMMA RowsNext ==
    ASSUME Rows, Messages, Control, topics \subseteq topics', [Next]_vars
    PROVE  Rows'
  <1>1. CASE UNCHANGED <<raw, lake, taken>> BY <1>1 DEF Rows, Unique
  <1>2. CASE raw' \subseteq raw /\ UNCHANGED <<lake, taken>>
    <2>1. IsFiniteSet(raw') BY <1>2, FS_Subset DEF Rows
    <2> QED BY <1>2, <2>1 DEF Rows, Unique
  <1>3. ASSUME NEW at, Ingest(at) PROVE Rows'
    <2>1. PICK msg \in topics \ taken :
             /\ raw' = raw \cup {Row(msg, at)} /\ lake' = lake \cup {Row(msg, at)}
             /\ taken' = taken \cup {msg}
      BY <1>3 DEF Ingest
    <2>2. PICK row : row = Row(msg, at) OBVIOUS
    <2>3. row.id = msg.id /\ row.table = msg.table /\ row.city = msg.city BY <2>2 DEF Row
    <2>4. \A r \in raw \cup lake : r.id # msg.id
      <3> SUFFICES ASSUME NEW r \in raw \cup lake, r.id = msg.id PROVE FALSE OBVIOUS
      <3>1. PICK m \in taken : r.id = m.id BY DEF Rows
      <3>2. m \in Message /\ msg \in Message BY <2>1 DEF Rows, Message
      <3> QED BY <2>1, <3>1, <3>2 DEF Messages
    <2>5. IsFiniteSet(raw') /\ IsFiniteSet(lake') BY <2>1, FS_AddElement DEF Rows
    <2>6. Unique(raw)' /\ Unique(lake)'
      BY <2>1, <2>2, <2>3, <2>4 DEF Rows, Unique
    <2>7. taken' \subseteq topics' BY <2>1 DEF Rows
    <2>8. \A r \in raw' \cup lake' : \E m \in taken' : r.id = m.id /\ r.table = m.table /\ r.city = m.city
      BY <2>1, <2>2, <2>3 DEF Rows
    <2> QED BY <2>5, <2>6, <2>7, <2>8 DEF Rows
  <1>4. CASE Backfill
    <2>1. PICK missing \in SUBSET lake :
             /\ \A r \in missing : r.id \notin {q.id : q \in raw}
             /\ raw' = raw \cup {[r EXCEPT !.at = now] : r \in missing}
      BY <1>4 DEF Backfill
    <2>2. UNCHANGED <<lake, taken>> BY <1>4 DEF Backfill
    <2>3. DEFINE Again(r) == [table |-> r.table, id |-> r.id, city |-> r.city, hour |-> r.hour, at |-> now]
    <2>4. raw' = raw \cup {Again(r) : r \in missing}
      <3>1. \A r \in missing : [r EXCEPT !.at = now] = Again(r) BY <2>1 DEF Control, RowShape
      <3>2. {[r EXCEPT !.at = now] : r \in missing} = {Again(r) : r \in missing}
        <4> HIDE DEF Again
        <4> QED BY <3>1, Zenon
      <3> QED BY <2>1, <3>2
    <2>5. \A r : Again(r).id = r.id /\ Again(r).table = r.table /\ Again(r).city = r.city OBVIOUS
    <2> HIDE DEF Again
    <2>6. IsFiniteSet(raw')
      <3>1. IsFiniteSet(missing) BY <2>1, FS_Subset DEF Rows
      <3>2. IsFiniteSet({Again(r) : r \in missing})
        <4> DEFINE f == [r \in missing |-> Again(r)]
                   T == {Again(r) : r \in missing}
        <4>1. f \in Surjection(missing, T) BY DEF Surjection
        <4> HIDE DEF T, f
        <4>2. IsFiniteSet(T) BY <3>1, <4>1, FS_Surjection
        <4> QED BY <4>2 DEF T
      <3> QED BY <2>4, <3>2, FS_Union DEF Rows
    <2>7. Unique(raw)'
      <3> SUFFICES ASSUME NEW r \in raw', NEW q \in raw', r.id = q.id PROVE r = q BY DEF Unique
      <3>1. CASE r \in raw /\ q \in raw BY <3>1 DEF Rows, Unique
      <3>2. CASE r \in raw /\ q \notin raw BY <3>2, <2>1, <2>4, <2>5
      <3>3. CASE r \notin raw /\ q \in raw BY <3>3, <2>1, <2>4, <2>5
      <3>4. CASE r \notin raw /\ q \notin raw
        <4>1. PICK r0 \in missing : r = Again(r0) BY <3>4, <2>4
        <4>2. PICK q0 \in missing : q = Again(q0) BY <3>4, <2>4
        <4>3. r0 = q0 BY <4>1, <4>2, <2>1, <2>5 DEF Rows, Unique
        <4> QED BY <4>1, <4>2, <4>3
      <3> QED BY <3>1, <3>2, <3>3, <3>4
    <2>8. \A r \in raw' : \E m \in taken : r.id = m.id /\ r.table = m.table /\ r.city = m.city
      BY <2>1, <2>4, <2>5 DEF Rows
    <2> QED BY <2>2, <2>6, <2>7, <2>8 DEF Rows, Unique
  <1> QED BY <1>1, <1>2, <1>3, <1>4, RowSteps

(* No aggregate is empty, staged or on its way, and no mart row has no       *)
(* demand.                                                                   *)
Filled ==
    /\ \A k \in DOMAIN staging : staging[k] # {}
    /\ \A k \in DOMAIN marts : marts[k].demand # {}
    /\ \A p \in Process : pc[p] \in {"weather", "stagingTx"} =>
          \A k \in DOMAIN snap[p] : snap[p][k] # {}
    /\ \A p \in Process : pc[p] = "martsTx" => \A k \in DOMAIN snap[p] : snap[p][k].demand # {}

LEMMA FilledInit == Init => Filled
  <1> SUFFICES ASSUME Init PROVE Filled OBVIOUS
  <1>1. DOMAIN marts = {} /\ DOMAIN staging = {} /\ \A p \in Process : pc[p] = "idle" BY DEF Init
  <1> QED BY <1>1 DEF Filled

LEMMA AggregatedFilled ==
    ASSUME NEW rows
    PROVE  \A k \in DOMAIN Aggregated(rows) : Aggregated(rows)[k] # {}
  BY DEF Aggregated

LEMMA FeaturedFilled ==
    ASSUME Staged, Filled
    PROVE  \A k \in Demand(staging) : Featured(staging)[k].demand # {}
  <1> SUFFICES ASSUME NEW k \in Demand(staging) PROVE Featured(staging)[k].demand # {} OBVIOUS
  <1>1. PICK j \in DOMAIN staging : j[1] = "demand" /\ k = <<j[2], j[3]>> BY DEF Demand
  <1>2. PICK id \in staging[j] : TRUE BY DEF Filled
  <1>3. PICK r \in raw : HourOf(r) = j BY <1>2 DEF Staged, Backed
  <1>4. j = <<"demand", k[1], k[2]>> BY <1>1, <1>3 DEF HourOf
  <1>5. Featured(staging)[k].demand = Total(staging, {k}) BY DEF Featured
  <1>6. id \in Total(staging, {k}) BY <1>2, <1>4 DEF Total
  <1> QED BY <1>5, <1>6

LEMMA FilledRun ==
    ASSUME Control, Flags, Staged, Filled, NEW p \in Process, Runs(p)
    PROVE  Filled'
  <1>0. \A q \in Process \ {p} : pc'[q] = pc[q] /\ snap'[q] = snap[q] BY RunMoves
  <1>00. DOMAIN snap = Process BY DEF Control
  <1>1. \A k \in DOMAIN staging' : staging'[k] # {}
    <2>1. CASE StagingCommit(p) BY <2>1 DEF StagingCommit, Upsert, Filled
    <2>2. CASE staging' = staging BY <2>2 DEF Filled
    <2> QED BY <2>1, <2>2, RunArrives
  <1>2. \A k \in DOMAIN marts' : marts'[k].demand # {}
    <2>1. CASE MartsCommit(p)
      <3>1. pc[p] = "martsTx" BY <2>1 DEF MartsCommit
      <3>2. \A k \in DOMAIN snap[p] : snap[p][k].demand # {} BY <3>1 DEF Filled
      <3> QED BY <2>1, <3>2, MartsUpserted DEF Filled
    <2>2. CASE HolidaysCommit(p) BY <2>2, HolidaysSet DEF Filled
    <2>3. CASE marts' = marts BY <2>3 DEF Filled
    <2> QED BY <2>1, <2>2, <2>3, RunArrives
  <1>3. ASSUME NEW q \in Process, pc'[q] \in {"weather", "stagingTx"}, NEW k \in DOMAIN snap'[q]
        PROVE  snap'[q][k] # {}
    <2>1. CASE q = p /\ DemandRead(p)
      <3>1. snap'[p] = TableRead(p, "demand") BY <2>1, <1>00 DEF DemandRead, Holding
      <3> QED BY <1>3, <2>1, <3>1, AggregatedFilled DEF TableRead
    <2>3. CASE q = p /\ WeatherRead(p)
      <3>1. pc[p] = "weather" /\ snap'[p] = Joined(snap[p], TableRead(p, "weather"))
        BY <2>3, <1>00 DEF WeatherRead, Holding
      <3>2. \A j \in DOMAIN snap[p] : snap[p][j] # {} BY <3>1 DEF Filled
      <3>3. PICK rows : rows = TableRead(p, "weather") OBVIOUS
      <3>4. \A j \in DOMAIN rows : rows[j] # {} BY <3>3, AggregatedFilled DEF TableRead
      <3>5. \/ k \in DOMAIN snap[p] /\ snap'[p][k] = snap[p][k]
            \/ k \in DOMAIN rows /\ snap'[p][k] = rows[k]
        BY <1>3, <2>3, <3>1, <3>3 DEF Joined
      <3> QED BY <2>3, <3>2, <3>4, <3>5
    <2>2. CASE q # p BY <1>0, <1>3, <2>2 DEF Filled
    <2> QED BY <1>3, <2>1, <2>2, <2>3, RunArrives
  <1>4. ASSUME NEW q \in Process, pc'[q] = "martsTx", NEW k \in DOMAIN snap'[q]
        PROVE  snap'[q][k].demand # {}
    <2>1. CASE q = p
      <3>1. MartsRead(p) BY <1>4, <2>1, RunArrives
      <3>2. snap'[p] = Featured(staging) BY <3>1, <1>00 DEF MartsRead, Holding
      <3> QED BY <1>4, <2>1, <3>2, FeaturedFilled, FeaturedRows
    <2>2. CASE q # p BY <1>0, <1>4, <2>2 DEF Filled
    <2> QED BY <2>1, <2>2
  <1> QED BY <1>1, <1>2, <1>3, <1>4 DEF Filled

LEMMA FilledNext ==
    ASSUME Control, Flags, Staged, Filled, [Next]_vars
    PROVE  Filled'
  <1>1. CASE UNCHANGED batchVars BY <1>1 DEF Filled, batchVars
  <1>2. CASE Downgrade
    <2>1. marts' = marts \/ DOMAIN marts' = {} BY <1>2, DowngradeDrops
    <2> QED BY <1>2, <2>1, DowngradeDrops DEF Filled
  <1>3. ASSUME NEW p \in Process, Run(p) PROVE Filled' BY <1>3, RunHistory, FilledRun
  <1> QED BY <1>1, <1>2, <1>3, BatchSteps, RowsGrow

----------------------------------------------------------------------------
(* Everything together *)

IInv ==
    /\ SchemaInv /\ SourceInv /\ StoreInv
    /\ Control /\ Flags /\ Matching /\ Staged /\ Filled
    /\ SourceTyped /\ left \in [Kind -> Nat] /\ Messages /\ Rows

LEMMA IInvInit == Init => IInv
  BY SchemaInit, SourceInit, StoreInit, ControlInit, FlagsInit, MatchingInit, StagedInit,
     FilledInit, MessagesInit, RowsInit
  DEF IInv

LEMMA IInvNext == IInv /\ [Next]_vars => IInv'
  <1> SUFFICES ASSUME IInv, [Next]_vars PROVE IInv' OBVIOUS
  <1>1. now \in Nat BY DEF IInv, Control
  <1>2. SchemaInv' /\ SourceInv' /\ StoreInv' BY SchemaNext, SourceNext, StoreNext DEF IInv
  <1>3. Control' /\ Flags' /\ Matching' /\ Staged' /\ Filled'
    BY ControlNext, FlagsNext, MatchingNext, StagedNext, FilledNext DEF IInv
  <1>4. SourceTyped' /\ Messages' /\ left' \in [Kind -> Nat]
    BY <1>1, SourceTypedNext, MessagesNext, LeftNext DEF IInv
  <1>5. Rows' BY <1>1, MessageSteps, RowsNext DEF IInv, MessageStep
  <1> QED BY <1>2, <1>3, <1>4, <1>5 DEF IInv

LEMMA SameCount ==
    ASSUME IsFiniteSet(raw), Unique(raw)
    PROVE  Cardinality({r.id : r \in raw}) = Cardinality(raw)
  <1> DEFINE f == [r \in raw |-> r.id]
             ids == {r.id : r \in raw}
  <1>1. f \in Bijection(raw, ids)
    <2>1. f \in [raw -> ids] OBVIOUS
    <2>2. \A r, q \in raw : f[r] = f[q] => r = q BY DEF Unique
    <2>3. \A i \in ids : \E r \in raw : f[r] = i OBVIOUS
    <2> HIDE DEF f, ids
    <2> QED BY <2>1, <2>2, <2>3 DEF Bijection, Injection, Surjection, IsInjective
  <1>2. ExistsBijection(raw, ids) BY <1>1 DEF ExistsBijection
  <1> QED BY <1>2, FS_Bijection

(* Types; and an event id is in raw once, however its row came: from the     *)
(* topic (events_raw, ON CONFLICT DO NOTHING) or back from the lake          *)
(* (tools/backfill.py, ON CONFLICT DO NOTHING again).                        *)
THEOREM TypeCorrect == Spec => []TypeOK
  <1>1. Spec => []IInv BY IInvInit, IInvNext, PTL DEF Spec
  <1>2. IInv => TypeOK
    <2> SUFFICES ASSUME IInv PROVE TypeOK OBVIOUS
    <2>1. BatchTypeOK BY DEF IInv, Control, Flags, Filled, BatchTypeOK, RunSteps
    <2>2. \A r \in raw : r.table \in {"demand", "weather"} /\ r.city \in City /\ r.at <= now
      <3> SUFFICES ASSUME NEW r \in raw
                   PROVE  r.table \in {"demand", "weather"} /\ r.city \in City /\ r.at <= now
        OBVIOUS
      <3>1. PICK m \in taken : r.table = m.table /\ r.city = m.city BY DEF IInv, Rows
      <3>2. m \in Message BY DEF IInv, Rows, Message
      <3> QED BY <3>1, <3>2 DEF IInv, Messages, Control, RowShape
    <2>3. Cardinality({r.id : r \in raw}) = Cardinality(raw) BY SameCount DEF IInv, Rows
    <2>4. sync.stamp >= sentinel BY DEF IInv, StoreInv, StampsPast, StoreShape
    <2>5. left \in [Kind -> Nat] BY DEF IInv
    <2> QED BY <2>1, <2>2, <2>3, <2>4, <2>5 DEF TypeOK
  <1> QED BY <1>1, <1>2, PTL
=============================================================================
