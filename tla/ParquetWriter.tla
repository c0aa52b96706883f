--------------------------- MODULE ParquetWriter ---------------------------
(***************************************************************************)
(* The ingestor's hourly lake writer:                                      *)
(* services/ingestor/app/parquet_writer.py, a thread beside the consumers  *)
(* of module Ingestor, whose transactions it sees only through Postgres.   *)
(*                                                                         *)
(* When the wall clock enters a new hour, the rows ingested in the hour    *)
(* that ended are queried and uploaded as one file.  On startup the files  *)
(* in the lake are listed, and completed hours without one are written.    *)
(***************************************************************************)
EXTENDS Integers, Sequences, FiniteSets

CONSTANTS
    Tables,      \* the raw tables, in the order in which an hour is written
    Lookback,    \* how many completed hours are caught up with (25)
    Faults,      \* the kinds of fault the environment may inject
    MaxFaults,   \* bound: how many faults one behaviour may contain
    MaxHour,     \* bound: the last hour of the wall clock
    MaxRows      \* bound: how many rows are ingested

FaultKind == {"kill", "stop", "refused", "unreachable"}

ASSUME ParquetWriterAssumption ==
    /\ Tables \in Seq(STRING) /\ Tables # <<>>
    /\ Lookback \in Nat /\ MaxHour \in Nat /\ MaxRows \in Nat
    /\ Faults \subseteq FaultKind /\ MaxFaults \in Nat

Table == {Tables[i] : i \in 1..Len(Tables)}

VARIABLES
    hour,              \* the wall clock's hour
    open, rows,        \* Postgres: rows of open transactions; committed rows
    lake,              \* S3: the rows in each file, none if there is no file
    stop,              \* the stop event
    pc, phase,         \* the writer: where it is; what the hours it writes are for
    written,           \* _written
    queue, batch,      \* the files still to be written; the rows queried
    tracked, upTo,     \* tracked_hour; now_hour
    late,              \* history: rows committed in a later hour than their own
    missed, from,      \* history, since the start: files refused; the first hour tracked
    budget             \* faults still allowed

dbVars     == <<hour, open, rows, late>>
memoryVars == <<pc, phase, written, queue, batch, tracked, upTo>>
historyVars == <<missed, from>>
vars == <<dbVars, lake, stop, memoryVars, historyVars, budget>>

Row  == [table : Table, hour : 0..MaxHour, n : 1..MaxRows]
File == Table \X (0..MaxHour)

PC    == {"off", "listing", "next", "putting", "waiting", "dead", "stopped"}
Phase == {"catchup", "rollover", "final"}

RowsOf(k) == {r \in rows : r.table = k[1] /\ r.hour = k[2]}

(* A query that returns no rows writes no file.                            *)
InLake(k) == lake[k] # {}

(* The files of the given hours, in the order of the loops.                *)
FilesOf(hours) ==
    LET n == Len(Tables)
    IN [i \in 1..(n * Len(hours)) |->
          <<Tables[((i - 1) % n) + 1], hours[((i - 1) \div n) + 1]>>]

Fault(kind) == kind \in Faults /\ budget > 0 /\ budget' = budget - 1

Init ==
    /\ hour = 0 /\ open = {} /\ rows = {} /\ late = {}
    /\ lake = [k \in File |-> {}]
    /\ stop = FALSE
    /\ pc = "off" /\ phase = "catchup"
    /\ written = {} /\ queue = <<>> /\ batch = {}
    /\ tracked = 0 /\ upTo = 0
    /\ missed = {} /\ from = 0
    /\ budget = MaxFaults

----------------------------------------------------------------------------
(* The wall clock, and the ingestor's transactions *)

Tick ==
    /\ hour < MaxHour
    /\ hour' = hour + 1
    /\ UNCHANGED <<open, rows, late, lake, stop, memoryVars, historyVars, budget>>

(* ingested_at defaults to now(), the time at which the transaction began. *)
Begin(t) ==
    LET n == Cardinality(open \cup rows) + 1
    IN /\ n <= MaxRows
       /\ open' = open \cup {[table |-> t, hour |-> hour, n |-> n]}
       /\ UNCHANGED <<hour, rows, late, lake, stop, memoryVars, historyVars, budget>>

CommitRow(r) ==
    /\ r \in open
    /\ open' = open \ {r}
    /\ rows' = rows \cup {r}
    /\ late' = IF r.hour < hour THEN late \cup {r} ELSE late
    /\ UNCHANGED <<hour, lake, stop, memoryVars, historyVars, budget>>

----------------------------------------------------------------------------
(* Startup *)

Start ==
    /\ pc = "off"
    /\ ~stop
    /\ pc' = "listing"
    /\ missed' = {}
    /\ UNCHANGED <<dbVars, lake, stop, phase, written, queue, batch, tracked, upTo,
                   from, budget>>

(* Variant: one hour less. *)
HoursBeforeShort(h) == [i \in 1..(IF h < Lookback THEN h ELSE Lookback - 1) |-> h - i]

(* The last Lookback hours before the given one, the latest first.         *)
HoursBefore(h) == [i \in 1..(IF h < Lookback THEN h ELSE Lookback) |-> h - i]

(* Variant: the catch-up begins with the hour that is not over. *)
CatchUpWithLiveHour(keys) ==
    /\ written' = keys
    /\ queue' = FilesOf([i \in 1..(Len(HoursBefore(hour)) + 1) |-> hour - i + 1])
    /\ upTo' = hour
    /\ phase' = "catchup" /\ pc' = "next"
    /\ UNCHANGED <<dbVars, lake, stop, batch, tracked, historyVars>>

(* The catch-up reads the clock once, before its first query.              *)
CatchUp(keys) ==
    /\ written' = keys
    /\ queue' = FilesOf(HoursBefore(hour))
    /\ upTo' = hour
    /\ phase' = "catchup" /\ pc' = "next"
    /\ UNCHANGED <<dbVars, lake, stop, batch, tracked, historyVars>>

List ==
    /\ pc = "listing"
    /\ CatchUp({k \in File : InLake(k)})
    /\ UNCHANGED budget

(* ClientError: the pages that were read count. *)
ListRefused ==
    /\ pc = "listing"
    /\ Fault("refused")
    /\ \E keys \in SUBSET {k \in File : InLake(k)} : CatchUp(keys)

(* An endpoint that cannot be reached is no ClientError: the thread ends.  *)
Dies ==
    /\ pc \in {"listing", "putting"}
    /\ Fault("unreachable")
    /\ pc' = "dead"
    /\ UNCHANGED <<dbVars, lake, stop, phase, written, queue, batch, tracked, upTo,
                   historyVars>>

----------------------------------------------------------------------------
(* _maybe_write and _write_partition *)

HasNext == pc = "next" /\ queue # <<>>

Skip ==
    /\ HasNext
    /\ Head(queue) \in written
    /\ queue' = Tail(queue)
    /\ UNCHANGED <<dbVars, lake, stop, pc, phase, written, batch, tracked, upTo,
                   historyVars, budget>>

(* Without a row there is no file, and the hour is not noted as written.   *)
Query ==
    /\ HasNext
    /\ Head(queue) \notin written
    /\ IF RowsOf(Head(queue)) = {}
       THEN queue' = Tail(queue) /\ UNCHANGED <<pc, batch>>
       ELSE /\ batch' = RowsOf(Head(queue)) /\ pc' = "putting"
            /\ UNCHANGED queue
    /\ UNCHANGED <<dbVars, lake, stop, phase, written, tracked, upTo, historyVars, budget>>

Put ==
    /\ pc = "putting"
    /\ lake' = [lake EXCEPT ![Head(queue)] = batch]
    /\ written' = written \cup {Head(queue)}
    /\ queue' = Tail(queue) /\ batch' = {} /\ pc' = "next"
    /\ UNCHANGED <<dbVars, stop, phase, tracked, upTo, historyVars, budget>>

(* psycopg2.Error or ClientError: the hour stays unwritten, the loop goes on. *)
WriteRefused ==
    /\ \/ HasNext /\ Head(queue) \notin written
       \/ pc = "putting"
    /\ Fault("refused")
    /\ missed' = missed \cup {Head(queue)}
    /\ queue' = Tail(queue) /\ batch' = {} /\ pc' = "next"
    /\ UNCHANGED <<dbVars, lake, stop, phase, written, tracked, upTo, from>>

(* Through with the queue.  After the catch-up the clock is read again.    *)
DoneWriting ==
    /\ pc = "next" /\ queue = <<>>
    /\ tracked' = CASE phase = "catchup"  -> hour
                    [] phase = "rollover" -> upTo
                    [] phase = "final"    -> tracked
    /\ from' = IF phase = "catchup" THEN hour ELSE from
    /\ pc' = IF phase = "final" THEN "stopped" ELSE "waiting"
    /\ UNCHANGED <<dbVars, lake, stop, phase, written, queue, batch, upTo, missed,
                   budget>>

----------------------------------------------------------------------------
(* The loop *)

Flush(p) ==
    /\ queue' = FilesOf([i \in 1..(hour - tracked) |-> tracked + i - 1])
    /\ upTo' = hour
    /\ phase' = p /\ pc' = "next"
    /\ UNCHANGED <<dbVars, lake, stop, written, batch, tracked, historyVars, budget>>

(* Variant: the last hour to end is all that is written. *)
RollOverLatest ==
    /\ pc = "waiting"
    /\ tracked < hour
    /\ queue' = FilesOf(<<hour - 1>>)
    /\ upTo' = hour
    /\ phase' = "rollover" /\ pc' = "next"
    /\ UNCHANGED <<dbVars, lake, stop, written, batch, tracked, historyVars, budget>>

RollOver ==
    /\ pc = "waiting"
    /\ tracked < hour
    /\ Flush("rollover")

(* Variant: the loop is left without a last look at the clock. *)
LeaveLoopAtOnce ==
    /\ pc = "waiting"
    /\ stop
    /\ pc' = "stopped" /\ upTo' = hour
    /\ UNCHANGED <<dbVars, lake, stop, phase, written, queue, batch, tracked,
                   historyVars, budget>>

(* The flush after the loop.                                               *)
LeaveLoop ==
    /\ pc = "waiting"
    /\ stop
    /\ \/ tracked < hour /\ Flush("final")
       \/ /\ tracked = hour
          /\ pc' = "stopped" /\ upTo' = hour
          /\ UNCHANGED <<dbVars, lake, stop, phase, written, queue, batch, tracked,
                         historyVars, budget>>

----------------------------------------------------------------------------
(* The process *)

Alive == pc \notin {"off", "stopped"}

Signal ==
    /\ Alive /\ ~stop
    /\ Fault("stop")
    /\ stop' = TRUE
    /\ UNCHANGED <<dbVars, lake, memoryVars, historyVars>>

(* The transactions that are open are rolled back. *)
Kill ==
    /\ Alive
    /\ Fault("kill")
    /\ open' = {}
    /\ pc' = "off" /\ written' = {} /\ queue' = <<>> /\ batch' = {}
    /\ UNCHANGED <<hour, rows, late, lake, stop, phase, tracked, upTo, historyVars>>

WriterStep ==
    \/ List \/ Skip \/ Query \/ Put \/ DoneWriting \/ RollOver \/ LeaveLoop

Next ==
    \/ Tick \/ \E t \in Table : Begin(t)
    \/ \E r \in open : CommitRow(r)
    \/ Start \/ WriterStep
    \/ ListRefused \/ Dies \/ WriteRefused
    \/ Signal \/ Kill

Spec == Init /\ [][Next]_vars

(* The thread runs, its wait times out, transactions end, the clock goes   *)
(* on, and a killed container is started again.                            *)
Fairness ==
    /\ WF_vars(WriterStep)
    /\ WF_vars(Start)
    /\ WF_vars(\E r \in open : CommitRow(r))
    /\ WF_vars(Tick)

FairSpec == Spec /\ Fairness

----------------------------------------------------------------------------
(* Properties *)

TypeOK ==
    /\ hour \in 0..MaxHour
    /\ open \subseteq Row /\ rows \subseteq Row
    /\ lake \in [File -> SUBSET Row]
    /\ stop \in BOOLEAN
    /\ pc \in PC /\ phase \in Phase
    /\ written \subseteq File /\ queue \in Seq(File) /\ batch \subseteq Row
    /\ tracked \in 0..MaxHour /\ upTo \in 0..MaxHour
    /\ late \subseteq Row /\ missed \subseteq File /\ from \in 0..MaxHour
    /\ budget \in 0..MaxFaults

FileOf(r) == <<r.table, r.hour>>

(* A file is complete: it has every row of its hour that was committed     *)
(* before the hour was over (31-39, decisions.md 40-43).                   *)
FilesComplete ==
    \A r \in rows \ late : InLake(FileOf(r)) => r \in lake[FileOf(r)]

(* When the catch-up is through, every row of the hours it looked back on  *)
(* is in the lake, save those committed late or in an hour that was        *)
(* refused: whatever a crash interrupted (19-29, 198-210).                 *)
CaughtUp ==
    (pc = "next" /\ queue = <<>> /\ phase = "catchup") =>
        \A r \in rows \ late :
            (r.hour \in (upTo - Lookback)..(upTo - 1) /\ FileOf(r) \notin missed)
                => r \in lake[FileOf(r)]

(* A stop loses no hour: from the first the writer tracked to the last     *)
(* that was over when it stopped, at whatever moment (143-162).            *)
StopFlushesHours ==
    pc = "stopped" =>
        \A r \in rows \ late :
            (r.hour \in from..(upTo - 1) /\ FileOf(r) \notin missed)
                => r \in lake[FileOf(r)]

(* Every hour the writer tracks reaches the lake once it has ended, however*)
(* many hours end while it is busy and whatever was refused before, unless *)
(* its own write is refused or the writer ends (143-153, 216-231).         *)
TrackedHoursWritten ==
    \A k \in File :
        (pc = "waiting" /\ tracked <= k[2] /\ k[2] < MaxHour /\ RowsOf(k) # {})
            ~> (InLake(k) \/ k \in missed \/ pc \in {"off", "dead", "stopped"})
=============================================================================
