------------------------------- MODULE Clock --------------------------------
(* What the data path's components share: the cities and the wall clock,     *)
(* which runs in hours and stops at a bound.                                 *)
EXTENDS Naturals, Sequences

CONSTANTS
    Cities,    \* the configured cities, in the order of their names
    MaxHour    \* bound: the last hour

City == {Cities[i] : i \in 1..Len(Cities)}

ASSUME ClockAssumption == MaxHour \in Nat /\ Cities \in Seq(City) /\ Len(Cities) > 0

VARIABLE now

Tick == now < MaxHour /\ now' = now + 1
=============================================================================
