-------------------------- MODULE MCRouteFeatures --------------------------
(***************************************************************************)
(* The topics RouteFeatures is checked with.                               *)
(***************************************************************************)
EXTENDS RouteFeatures

CONSTANTS e1, e2, e3, e4, v, w

Search(id, ts)  == [id |-> id, type |-> "search", ts |-> ts]
Booking(id, ts) == [id |-> id, type |-> "booking", ts |-> ts]
Cancel(id, ts)  == [id |-> id, type |-> "cancellation", ts |-> ts]

(* The windows are 1, 2 and 4 wide, in half seconds: these times meet every*)
(* boundary, one step inside and one outside, and the second between the   *)
(* longest window and the trim.                                            *)
Times == {0, 1, 4, 5, 6}

(* Every order of three events, the last one a booking or a cancellation.  *)
AnyOrder ==
    {<<Search(e1, i), e, f>> : i \in Times,
        e \in {Search(e2, j) : j \in Times} \cup {Booking(e2, j) : j \in Times},
        f \in {Booking(e3, k) : k \in Times} \cup {Cancel(e3, k) : k \in {4, 5}}}

(* An event written twice around others, and four in order of time.        *)
Longer == {<<Search(e1, 0), Booking(e2, 4), Search(e1, 0), Search(e3, 5)>>,
           <<Booking(e1, 0), Search(e2, 4), Search(e3, 5), Booking(e4, 6)>>}

(* Events alone, then a few events among readings: a field may be null in  *)
(* one reading, or never have a value.                                     *)
Events == {[demand |-> log, weather |-> <<>>] : log \in AnyOrder \cup Longer}

Readings == [Field -> {v, None}] \cup [Field -> {w}]

Mixed == {[demand |-> <<Search(e1, 0)>>, weather |-> <<[f \in Field |-> v], r, s>>] :
             r, s \in Readings}

EventsAndReadings == Events \cup Mixed
=============================================================================
