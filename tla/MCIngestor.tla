---------------------------- MODULE MCIngestor ----------------------------
(* Small instances of Ingestor for TLC. *)
EXTENDS Ingestor

CONSTANTS demand, weather, e1, e2, e3, e4

Good(e)      == [id |-> e, kind |-> "good"]
BadRow(e)    == [id |-> e, kind |-> "badrow"]
Invalid(e)   == [id |-> e, kind |-> "invalid"]
Unquotable(e) == [id |-> e, kind |-> "unquotable"]
Unhandled(e) == [id |-> e, kind |-> "unhandled"]

Logs(d, w) == [t \in {demand, weather} |-> [p \in {0, 1} |->
                 IF t = demand THEN d[p + 1] ELSE w[p + 1]]]
NoLogs == << <<>>, <<>> >>

(* One topic, two partitions: an event the producer wrote twice, one the   *)
(* table refuses, one that fails validation, one nobody expects.           *)
TwoPartitionLogs ==
    {Logs(d, NoLogs) : d \in
        {<< <<Good(e1), Good(e1), BadRow(e2)>>, <<Unquotable(e3)>> >>,
         << <<Invalid(e2), Good(e1)>>, <<Unquotable(e3)>> >>,
         << <<Invalid(e2), Good(e1)>>, <<Good(e3), Invalid(e4)>> >>,
         << <<Good(e1), Unhandled(e2)>>, <<Unquotable(e3)>> >>,
         << <<Good(e1), Unhandled(e2)>>, <<Good(e3), Invalid(e4)>> >>}}

(* Two topics whose threads share the DLQ producer: dead letters from the  *)
(* validation on one side meet dead letters from the INSERT on the other.  *)
TwoTopicLogs ==
    {Logs(<< <<Invalid(e1), Good(e2)>>, <<>> >>, << <<BadRow(e3)>>, <<>> >>),
     Logs(<< <<Good(e1), BadRow(e2)>>, <<>> >>, << <<Invalid(e3)>>, <<>> >>)}

AllLogs == TwoPartitionLogs \cup TwoTopicLogs

OneInvalid == {[t \in {demand} |-> [p \in {0} |-> <<Good(e1), Invalid(e2), Good(e3)>>]]}
=============================================================================
