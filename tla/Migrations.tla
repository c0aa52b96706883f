----------------------------- MODULE Migrations -----------------------------
(* The Postgres schema: nine Alembic revisions applied and reverted in one  *)
(* transaction per command, over a database whose first boot already made   *)
(* the raw tables.  A database is its schemas and its tables; columns,      *)
(* constraints and indexes belong to their table and come and go with it.   *)
EXTENDS Naturals, FiniteSets

VARIABLES
    db,        \* [schemas : set of names, tables : set of <<schema, table>>]
    revision   \* the row of alembic_version; 0 stands for base

schemaVars == <<db, revision>>

-----------------------------------------------------------------------------
(* What one revision creates on the way up and drops on the way down.       *)

In(schema, names) == {schema} \X names
Nothing == {}

R0001 == [schemas     |-> {"raw"},
          tables      |-> In("raw", {"demand_events", "weather_readings"}),
          dropSchemas |-> {"raw"},
          dropTables  |-> Nothing]

(* Variant: the downgrade forgets the second schema of the upgrade. *)
R0002OneSchema == [schemas     |-> {"staging", "marts"},
                   tables      |-> Nothing,
                   dropSchemas |-> {"staging"},
                   dropTables  |-> Nothing]

R0002 == [schemas     |-> {"staging", "marts"},
          tables      |-> Nothing,
          dropSchemas |-> {"marts", "staging"},
          dropTables  |-> Nothing]
R0003 == [schemas     |-> Nothing,
          tables      |-> In("staging", {"demand_hourly", "weather_hourly"}),
          dropSchemas |-> Nothing,
          dropTables  |-> In("staging", {"weather_hourly", "demand_hourly"})]
R0004 == [schemas     |-> Nothing,
          tables      |-> In("marts", {"city_hour_features"}),
          dropSchemas |-> Nothing,
          dropTables  |-> In("marts", {"city_hour_features"})]
R0005 == [schemas     |-> Nothing,
          tables      |-> In("staging", {"rejects"}),
          dropSchemas |-> Nothing,
          dropTables  |-> In("staging", {"rejects"})]
R0006 == [schemas     |-> Nothing,
          tables      |-> In("marts", {"route_features_daily"}),
          dropSchemas |-> Nothing,
          dropTables  |-> In("marts", {"route_features_daily"})]
R0007 == [schemas     |-> Nothing,
          tables      |-> In("marts", {"prediction_log"}),
          dropSchemas |-> Nothing,
          dropTables  |-> In("marts", {"prediction_log"})]
R0008 == [schemas     |-> Nothing,
          tables      |-> In("marts", {"prediction_features"}),
          dropSchemas |-> Nothing,
          dropTables  |-> In("marts", {"prediction_features"})]
R0009 == [schemas     |-> Nothing,
          tables      |-> In("marts", {"drift_reports"}),
          dropSchemas |-> Nothing,
          dropTables  |-> In("marts", {"drift_reports"})]

Revisions == <<R0001, R0002, R0003, R0004, R0005, R0006, R0007, R0008, R0009>>
HeadRevision == 9

-----------------------------------------------------------------------------
(* A run of upgrades only adds and a run of downgrades only removes, so the *)
(* outcome of a run is a union.  CREATE ... IF NOT EXISTS leaves what is    *)
(* there; DROP SCHEMA ... CASCADE takes every table of the schema.          *)

SchemasOf(ks) == UNION {Revisions[k].schemas : k \in ks}
TablesOf(ks)  == UNION {Revisions[k].tables : k \in ks}

(* CREATE TABLE in a schema that does not exist yet is an error, and an     *)
(* error takes the whole run of migrations back.                            *)
Applies(d, ks) ==
    \A k \in ks : \A t \in Revisions[k].tables :
        t[1] \in d.schemas \cup SchemasOf({j \in ks : j <= k})

Upgraded(d, ks) ==
    [schemas |-> d.schemas \cup SchemasOf(ks),
     tables  |-> d.tables \cup TablesOf(ks)]

Downgraded(d, ks) ==
    LET gone == UNION {Revisions[k].dropSchemas : k \in ks}
    IN  [schemas |-> d.schemas \ gone,
         tables  |-> {t \in d.tables : t[1] \notin gone}
                         \ UNION {Revisions[k].dropTables : k \in ks}]

-----------------------------------------------------------------------------
(* First boot of an empty volume: the init scripts make the raw tables and  *)
(* leave no revision behind.                                                *)
FirstBoot == [schemas |-> {"raw"},
              tables  |-> In("raw", {"demand_events", "weather_readings"})]

(* make migrate: alembic upgrade head. *)
Migrate ==
    LET pending == {k \in 1..HeadRevision : k > revision}
    IN  /\ Applies(db, pending)
        /\ db' = Upgraded(db, pending)
        /\ revision' = HeadRevision

(* make migrate-down: alembic downgrade, one step back or to the base. *)
MigrateDown(target) ==
    /\ target < revision
    /\ db' = Downgraded(db, {k \in 1..HeadRevision : target < k /\ k <= revision})
    /\ revision' = target

(* The recorded revision tells what is there: exactly the schemas and       *)
(* tables of the revisions up to it, the raw ones of the first boot aside,  *)
(* and from here the pending revisions apply without an error.  It is what  *)
(* a CREATE in the wrong order, a DROP of the wrong schema or a CASCADE     *)
(* that takes too much breaks, and only after some path down and up again.  *)
SchemaAt == [r \in 0..HeadRevision |->
                [schemas |-> SchemasOf(1..r), tables |-> TablesOf(1..r)]]

SchemaMatchesRevision ==
    /\ db = SchemaAt[revision] \/ (revision = 0 /\ db = FirstBoot)
    /\ Applies(db, {k \in 1..HeadRevision : k > revision})
=============================================================================
