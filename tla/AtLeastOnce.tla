---------------------------- MODULE AtLeastOnce ----------------------------
(***************************************************************************)
(* What an at-least-once consumer group promises about its sources.  It    *)
(* takes over messages one way or another and acknowledges a prefix of a   *)
(* source only when it has taken over every message of that prefix.  While *)
(* it is attached acknowledgements only grow; an operator may reposition a *)
(* detached group, and answers for what that passes over.                  *)
(***************************************************************************)
EXTENDS Integers

CONSTANT Source   \* the partitions the group consumes

VARIABLES
    taken,        \* taken[s]: the offsets of s the group answers for
    acked,        \* acked[s]: the messages below it are acknowledged
    attached      \* a member of the group is running

cvars == <<taken, acked, attached>>

Prefix(n) == 0..(n - 1)

Init ==
    /\ taken = [s \in Source |-> {}]
    /\ acked = [s \in Source |-> 0]
    /\ attached = FALSE

TakeOver ==
    /\ attached
    /\ \A s \in Source : taken[s] \subseteq taken'[s]
    /\ UNCHANGED <<acked, attached>>

Acknowledge ==
    /\ attached
    /\ \A s \in Source : /\ acked'[s] >= acked[s]
                         /\ Prefix(acked'[s]) \subseteq taken[s]
    /\ UNCHANGED <<taken, attached>>

Attach == ~attached /\ attached' /\ UNCHANGED <<taken, acked>>
Detach == attached /\ ~attached' /\ UNCHANGED <<taken, acked>>

Reposition ==
    /\ ~attached
    /\ \A s \in Source : taken[s] \subseteq taken'[s]
    /\ \A s \in Source : Prefix(acked'[s]) \subseteq taken'[s]
    /\ UNCHANGED attached

Next == TakeOver \/ Acknowledge \/ Attach \/ Detach \/ Reposition

Spec == Init /\ [][Next]_cvars

(* Acknowledged messages have been taken over: what the promise is for. *)
AckedTaken == \A s \in Source : Prefix(acked[s]) \subseteq taken[s]
=============================================================================
