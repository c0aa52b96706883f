----------------------------- MODULE MCDataPath -----------------------------
(* Small instances of DataPath for TLC. *)
EXTENDS DataPath

CONSTANTS a, b

TwoCities == <<a, b>>
Holidays == {<<a, 0>>}

(* The chaos the README and the Makefile switch on, and the switch off. *)
ReadmeUpdates ==
    {[latency |-> "long"], [errors |-> "sometimes"],
     [nulls |-> "sometimes"], [nulls |-> "always"], [drift |-> TRUE], Calm}

Msg(table, id, city, hour) == [table |-> table, id |-> id, city |-> city, hour |-> hour]
Never == [k \in Kind |-> 0]
Start(written, at, budgets) ==
    [topics |-> written, revision |-> at, left |-> budgets @@ Never]

Booking(id, city, hour) == Msg("demand", id, city, hour)
Reading(id, city, hour) == Msg("weather", id, city, hour)

(* Two events of one business hour: two runs overlap, fail and see the       *)
(* window slide.                                                             *)
Overlap ==
    Start({Booking("e1", a, 0), Booking("e2", a, 0)}, HeadRevision,
          [tick |-> 2, ingestor |-> 1, worker |-> 1, manual |-> 1, raise |-> 1])

(* Rows whose transaction began in the hour before, a business hour that is  *)
(* ahead of the clock, a reading for one of the hours.                       *)
Late ==
    Start({Booking("e1", a, 0), Booking("e2", a, 1), Reading("w1", a, 0)}, HeadRevision,
          [tick |-> 2, ingestor |-> 1, worker |-> 1, late |-> 1, raise |-> 1])

(* A fresh volume, migrated, taken down and brought back under the hourly    *)
(* runs, the raw rows backfilled from the lake.                              *)
Schema ==
    Start({Booking("e1", a, 0)}, 0,
          [tick |-> 2, ingestor |-> 1, worker |-> 1, migrate |-> 3, backfill |-> 1, sync |-> 1])

(* Syncs of two routes over growing marts, failing between their batches; a  *)
(* lead time that is NULL on the second day.                                 *)
Sync ==
    Start({Booking("e1", a, 0), Booking("e2", a, 1), Booking("e3", b, 0)}, HeadRevision,
          [tick |-> 2, ingestor |-> 1, worker |-> 1, sync |-> 2, syncfail |-> 1])

(* The generator restarted, stopped, killed and cut off from the broker.     *)
Generating ==
    Start({}, 0, [tick |-> 1, generator |-> 2, stop |-> 1, kill |-> 1, broker |-> 2])

(* The poller under chaos, then killed or cut off from the broker. *)
Polling ==
    Start({}, 0, [tick |-> 1, poller |-> 1, chaos |-> 2, stop |-> 1])
Disconnected ==
    Start({}, 0, [tick |-> 1, poller |-> 1, stop |-> 1, kill |-> 1, broker |-> 2])

(* From the generator to the marts. *)
Together ==
    Start({}, HeadRevision, [tick |-> 1, generator |-> 1, ingestor |-> 1, worker |-> 1])

(* Two first runs, an hour of business apart. *)
FirstFits ==
    Start({Booking("e1", a, 0), Booking("e2", b, 0)}, HeadRevision,
          [tick |-> 2, ingestor |-> 1, worker |-> 1, manual |-> 1])

TwoFits == {FirstFits}
AllScenarios ==
    {Overlap, Late, Schema, Sync, Generating, Polling, Disconnected, Together}
=============================================================================
