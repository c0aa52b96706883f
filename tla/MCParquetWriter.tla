-------------------------- MODULE MCParquetWriter --------------------------
(***************************************************************************)
(* ParquetWriter for TLC: both tables, so that an hour can be half written.*)
(***************************************************************************)
EXTENDS ParquetWriter

TwoTables == <<"demand_events", "weather_readings">>
=============================================================================
