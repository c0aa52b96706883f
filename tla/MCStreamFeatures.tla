--------------------------- MODULE MCStreamFeatures ---------------------------
(* Small instances of StreamFeatures for TLC. *)
EXTENDS StreamFeatures

CONSTANTS demand, weather, h1, h2

Good(h)       == [kind |-> "good", hour |-> h]
Unwritable1(h) == [kind |-> "unwritable", hour |-> h]
Of(kind)      == [kind |-> kind, hour |-> h1]

Logs(d, w) == [t \in {demand, weather} |-> [p \in {0, 1} |->
                 IF t = demand THEN d[p + 1] ELSE w[p + 1]]]
NoLogs == << <<>>, <<>> >>

(* Every kind of message, in two lake partitions and two topic partitions. *)
AllKindLogs ==
    {Logs(d, NoLogs) : d \in
        {<< <<Good(h1), Of("skipped"), Good(h2)>>, <<Good(h1)>> >>,
         << <<Good(h2), Unwritable1(h1), Good(h1)>>, <<Good(h1)>> >>,
         << <<Of("halfway"), Good(h1), Of("unhandled")>>, <<Good(h1)>> >>,
         << <<Good(h1), Of("skipped")>>, <<Of("unhandled"), Good(h2)>> >>,
         << <<Of("halfway"), Good(h1)>>, <<Of("unhandled"), Good(h2)>> >>}}

(* Two topics, stopped at any moment; a flush over two hours. *)
ThreadLogs == {Logs(<< <<Good(h1), Good(h2)>>, <<>> >>, << <<Good(h1)>>, <<>> >>)}

AllLogs == AllKindLogs \cup ThreadLogs

OneLog == {[t \in {demand} |-> [p \in {0} |-> <<Good(h1), Good(h1), Good(h2)>>]]}
=============================================================================
