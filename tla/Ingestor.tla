------------------------------ MODULE Ingestor ------------------------------
(***************************************************************************)
(* The ingestor process: services/ingestor/app/{main,consumers,db}.py.     *)
(*                                                                         *)
(* One consumer thread per topic polls its Kafka partitions, validates     *)
(* each message, buffers the valid ones and flushes the buffer: a bulk     *)
(* INSERT ... ON CONFLICT (event_id) DO NOTHING, then a synchronous commit *)
(* of the highest offset seen in each partition.  What fails validation,   *)
(* and every item of a batch Postgres refuses, goes to the dead-letter     *)
(* producer the threads share: a queue inside the process, delivered later.*)
(*                                                                         *)
(* The topics are the retained logs a run of the model starts with.  A     *)
(* poll may always time out, and that is how a message that has not been   *)
(* produced yet looks to a consumer, so producers need no action here.     *)
(***************************************************************************)
EXTENDS Integers, Sequences, FiniteSets

CONSTANTS
    Thread,      \* the consumer threads, one per topic and per raw table
    Partition,   \* the partitions of a topic
    EventId,     \* envelope event_ids
    InitialLogs, \* the topic contents considered: a set of functions
    BatchSize,   \* BATCH_SIZE
    Faults,      \* the kinds of fault the environment may inject
    MaxFaults    \* bound: how many faults one behaviour may contain

(* A message passes validation and Postgres takes it ("good"); passes      *)
(* validation but makes the INSERT fail with psycopg2.Error ("badrow") or  *)
(* with a Python error while the row is quoted ("unquotable"); raises one  *)
(* of the three handled exceptions ("invalid"), or any other exception     *)
(* ("unhandled"), while it is decoded or validated.                        *)
Kind == {"good", "badrow", "unquotable", "invalid", "unhandled"}
Valid == {"good", "badrow", "unquotable"}

Message == [id : EventId, kind : Kind]

FaultKind == {"kill", "stop", "jointimeout", "flushtimeout", "connect",
              "dbdown", "dberror", "commit", "refuse", "full", "expire", "replay"}

ASSUME IngestorAssumption ==
    /\ IsFiniteSet(Thread) /\ IsFiniteSet(Partition)
    /\ InitialLogs \subseteq [Thread -> [Partition -> Seq(Message)]]
    /\ BatchSize \in Nat \ {0}
    /\ Faults \subseteq FaultKind
    /\ MaxFaults \in Nat

VARIABLES
    \* Kafka
    log,        \* log[t][p]: the messages of partition p of t's topic
    committed,  \* committed[t][p]: the group's committed offset
    dlqTopic,   \* offsets whose message reached the dead-letter topic
    \* Postgres
    rows,       \* the rows of the raw tables
    \* the process: main thread and shared producer
    proc,       \* where main() is
    timedOut,   \* a join or the final DLQ flush gave up on its deadline
    dlqQueue,   \* offsets queued in the shared producer, not yet delivered
    \* the consumer threads
    pc, final, position, batch, pending, cursor, broken,
    \* history
    dropped,    \* dead letters that can no longer reach their topic
    skipped,    \* offsets the replay tool moved the group past
    budget      \* faults still allowed

kafkaVars   == <<log, committed, dlqTopic>>
processVars == <<proc, timedOut>>
threadVars  == <<pc, final, position, batch, pending, cursor, broken>>
historyVars == <<dropped, skipped>>
vars == <<kafkaVars, rows, processVars, dlqQueue, threadVars, historyVars, budget>>

Item == Thread \X Partition \X Nat
Buffered == [part : Partition, off : Nat]
Row  == [table : Thread, id : EventId, part : Partition, off : Nat]

PC   == {"off", "connecting", "polling", "insert", "dlq", "commit", "closed"}
Proc == {"up", "joining", "flushing", "exiting", "exited", "down"}

Absent == -1   \* no entry for the partition in the pending_offsets dict

----------------------------------------------------------------------------
(* Helpers *)

MessageAt(t, p, o) == log[t][p][o + 1]

(* event_ids already in the table, which has a unique index on event_id *)
StoredIds(t) == {r.id : r \in {q \in rows : q.table = t}}

IdOf(t, i) == MessageAt(t, batch[t][i].part, batch[t][i].off).id

KindOfItem(t, i) == MessageAt(t, batch[t][i].part, batch[t][i].off).kind

(* Whether the batch holds a message of this kind. *)
BatchHas(t, kind) == \E i \in DOMAIN batch[t] : KindOfItem(t, i) = kind

ItemOf(t, i) == <<t, batch[t][i].part, batch[t][i].off>>

(* Variant: a plain INSERT on a table without the unique index. *)
NewRowsPlain(t) ==
    {[table |-> t, id |-> IdOf(t, i),
      part |-> batch[t][i].part, off |-> batch[t][i].off] : i \in DOMAIN batch[t]}

(* INSERT ... ON CONFLICT (event_id) DO NOTHING over the whole batch: the  *)
(* first item of each event_id the table does not hold yet.                *)
NewRows(t) ==
    {[table |-> t, id |-> IdOf(t, i),
      part |-> batch[t][i].part, off |-> batch[t][i].off] :
        i \in {j \in DOMAIN batch[t] :
                 /\ IdOf(t, j) \notin StoredIds(t)
                 /\ \A k \in 1..(j - 1) : IdOf(t, k) # IdOf(t, j)}}

NothingPending == [p \in Partition |-> Absent]
HasPending(t) == \E p \in Partition : pending[t][p] # Absent

(* The dict passed to consumer.commit names offset + 1 for each partition  *)
(* it has an entry for; other partitions keep their committed offset.      *)
CommitTarget(t) ==
    [p \in Partition |->
        IF pending[t][p] = Absent THEN committed[t][p] ELSE pending[t][p] + 1]

MaxOffset(t, p, o) == IF o > pending[t][p] THEN o ELSE pending[t][p]

(* A fault consumes one unit of the budget. *)
Fault(kind) == /\ kind \in Faults
               /\ budget > 0
               /\ budget' = budget - 1

Alive == proc \in {"up", "joining", "flushing", "exiting"}
StopRequested == proc \in {"joining", "flushing", "exiting"}

----------------------------------------------------------------------------
Init ==
    /\ log \in InitialLogs
    /\ committed = [t \in Thread |-> [p \in Partition |-> 0]]
    /\ dlqTopic = {}
    /\ rows = {}
    /\ proc = "down"
    /\ timedOut = FALSE
    /\ dlqQueue = {}
    /\ pc = [t \in Thread |-> "off"]
    /\ final = [t \in Thread |-> FALSE]
    /\ position = [t \in Thread |-> [p \in Partition |-> 0]]
    /\ batch = [t \in Thread |-> <<>>]
    /\ pending = [t \in Thread |-> NothingPending]
    /\ cursor = [t \in Thread |-> 1]
    /\ broken = {}
    /\ dropped = {}
    /\ skipped = {}
    /\ budget = MaxFaults

----------------------------------------------------------------------------
(* The consumer loop *)

(* psycopg2.connect; the group resumes at its committed offsets. *)
Connect(t) ==
    /\ pc[t] = "connecting"
    /\ pc' = [pc EXCEPT ![t] = "polling"]
    /\ position' = [position EXCEPT ![t] = committed[t]]
    /\ UNCHANGED <<kafkaVars, rows, processVars, dlqQueue, final, batch, pending,
                   cursor, broken, historyVars, budget>>

(* The connection attempt fails.  pending_offsets is not bound yet when    *)
(* the finally clause reads it, so the thread ends there.                  *)
ConnectFails(t) ==
    /\ pc[t] = "connecting"
    /\ Fault("connect")
    /\ pc' = [pc EXCEPT ![t] = "closed"]
    /\ UNCHANGED <<kafkaVars, rows, processVars, dlqQueue, final, position, batch,
                   pending, cursor, broken, historyVars>>

(* Where a flush starts: the insert is skipped when only offsets of        *)
(* invalid messages are pending.                                           *)
FlushEntry(t) == IF batch[t] = <<>> THEN "commit" ELSE "insert"

(* Control leaves the try block: by the stop event or by an exception.     *)
(* The finally clause flushes once more when offsets are pending; an       *)
(* exception in that flush is swallowed.                                   *)
LeaveLoop(t) ==
    LET flushAgain == ~final[t] /\ HasPending(t)
    IN  /\ pc' = [pc EXCEPT ![t] = IF flushAgain THEN FlushEntry(t) ELSE "closed"]
        /\ final' = [final EXCEPT ![t] = @ \/ flushAgain]

(* poll() has a message ready and the size threshold is not reached. *)
CanPoll(t, p) ==
    /\ pc[t] = "polling"
    /\ Len(batch[t]) < BatchSize
    /\ position[t][p] < Len(log[t][p])

(* The message has been dealt with: _update_max_offset. *)
Advance(t, p) ==
    /\ position' = [position EXCEPT ![t][p] = @ + 1]
    /\ pending' = [pending EXCEPT ![t][p] = MaxOffset(t, p, position[t][p])]

(* A valid message is buffered. *)
PollValid(t, p) ==
    /\ CanPoll(t, p)
    /\ MessageAt(t, p, position[t][p]).kind \in Valid
    /\ batch' = [batch EXCEPT ![t] =
                   Append(@, [part |-> p, off |-> position[t][p]])]
    /\ Advance(t, p)
    /\ UNCHANGED <<kafkaVars, rows, processVars, dlqQueue, pc, final, cursor, broken,
                   historyVars, budget>>

(* _send_to_dlq: produce() puts the message in the producer's own queue,   *)
(* or raises KafkaException, which is logged and forgotten.                *)
SendToDlq(item) ==
    \/ /\ dlqQueue' = dlqQueue \cup {item}
       /\ UNCHANGED <<dropped, budget>>
    \/ /\ Fault("refuse")
       /\ dropped' = dropped \cup {item}
       /\ UNCHANGED dlqQueue

(* produce() raises BufferError: the queue holds as much as it may.  How   *)
(* much that is depends on message sizes, so it may be so whenever         *)
(* something is queued.  _send_to_dlq handles KafkaException only.         *)
DlqQueueFull == /\ dlqQueue # {}
                /\ Fault("full")

PollInvalid(t, p) ==
    /\ CanPoll(t, p)
    /\ MessageAt(t, p, position[t][p]).kind = "invalid"
    /\ SendToDlq(<<t, p, position[t][p]>>)
    /\ Advance(t, p)
    /\ UNCHANGED <<kafkaVars, rows, processVars, pc, final, batch, cursor, broken, skipped>>

(* Variant: the offset is recorded before the message is handled. *)
PollRaisesAfterUpdate(t, p) ==
    /\ CanPoll(t, p)
    /\ MessageAt(t, p, position[t][p]).kind = "unhandled"
    /\ Advance(t, p)
    /\ LET flushAgain == ~final[t]
       IN  /\ pc' = [pc EXCEPT ![t] = IF flushAgain THEN FlushEntry(t) ELSE "closed"]
           /\ final' = [final EXCEPT ![t] = @ \/ flushAgain]
    /\ UNCHANGED <<kafkaVars, rows, processVars, dlqQueue, batch, cursor, broken,
                   historyVars, budget>>

(* An exception no handler of the loop names: TypeError and friends while  *)
(* decoding, or BufferError from the DLQ producer.  It is raised before    *)
(* _update_max_offset, so the offset is not among the pending ones.        *)
PollRaises(t, p) ==
    /\ CanPoll(t, p)
    /\ \/ /\ MessageAt(t, p, position[t][p]).kind = "unhandled"
          /\ UNCHANGED budget
       \/ /\ MessageAt(t, p, position[t][p]).kind = "invalid"
          /\ DlqQueueFull
    /\ LeaveLoop(t)
    /\ UNCHANGED <<kafkaVars, rows, processVars, dlqQueue, position, batch, pending,
                   cursor, broken, historyVars>>

(* Variant: no batch timeout. *)
FlushFullOnly(t) ==
    /\ pc[t] = "polling"
    /\ HasPending(t)
    /\ Len(batch[t]) >= BatchSize
    /\ pc' = [pc EXCEPT ![t] = FlushEntry(t)]
    /\ UNCHANGED <<kafkaVars, rows, processVars, dlqQueue, final, position, batch,
                   pending, cursor, broken, historyVars, budget>>

(* BATCH_SIZE is reached or BATCH_TIMEOUT has passed; the timer runs from  *)
(* the previous flush, so it may have passed at any time.                  *)
Flush(t) ==
    /\ pc[t] = "polling"
    /\ HasPending(t)
    /\ pc' = [pc EXCEPT ![t] = FlushEntry(t)]
    /\ UNCHANGED <<kafkaVars, rows, processVars, dlqQueue, final, position, batch,
                   pending, cursor, broken, historyVars, budget>>

(* The while condition finds the stop event set. *)
SeeStop(t) ==
    /\ pc[t] = "polling"
    /\ StopRequested
    /\ Len(batch[t]) < BatchSize
    /\ LeaveLoop(t)
    /\ UNCHANGED <<kafkaVars, rows, processVars, dlqQueue, position, batch, pending,
                   cursor, broken, historyVars, budget>>

----------------------------------------------------------------------------
(* _flush_demand_batch / _flush_weather_batch *)

InsertSucceeds(t) ==
    /\ pc[t] = "insert"
    /\ t \notin broken
    /\ ~BatchHas(t, "badrow") /\ ~BatchHas(t, "unquotable")
    /\ rows' = rows \cup NewRows(t)
    /\ pc' = [pc EXCEPT ![t] = "commit"]
    /\ UNCHANGED <<kafkaVars, processVars, dlqQueue, final, position, batch, pending,
                   cursor, broken, historyVars, budget>>

(* Variant: the batch is rolled back and its offsets committed. *)
InsertFailsForgets(t) ==
    /\ pc[t] = "insert"
    /\ t \in broken \/ BatchHas(t, "badrow")
    /\ pc' = [pc EXCEPT ![t] = "commit"]
    /\ UNCHANGED <<kafkaVars, rows, processVars, dlqQueue, final, position, batch,
                   pending, cursor, broken, historyVars, budget>>

(* psycopg2.Error: a row Postgres refuses; a lost connection, which the    *)
(* thread never opens again; a transient error; or a connection lost after *)
(* the server has committed.  execute_values sends the rows in pages, so   *)
(* either kind of bad row may be met first.                                *)
InsertFails(t) ==
    /\ pc[t] = "insert"
    /\ \/ /\ t \in broken \/ BatchHas(t, "badrow")
          /\ UNCHANGED <<rows, broken, budget>>
       \/ /\ t \notin broken
          /\ Fault("dberror")
          /\ UNCHANGED <<rows, broken>>
       \/ /\ t \notin broken /\ ~BatchHas(t, "badrow") /\ ~BatchHas(t, "unquotable")
          /\ Fault("dberror")
          /\ rows' = rows \cup NewRows(t)
          /\ broken' = broken \cup {t}
    /\ pc' = [pc EXCEPT ![t] = "dlq"]
    /\ cursor' = [cursor EXCEPT ![t] = 1]
    /\ UNCHANGED <<kafkaVars, processVars, dlqQueue, final, position, batch, pending,
                   historyVars>>

(* An exception that is no psycopg2.Error: the flush is left before it     *)
(* commits anything, and so is the flush of the finally clause.            *)
InsertRaises(t) ==
    /\ pc[t] = "insert"
    /\ BatchHas(t, "unquotable")
    /\ LeaveLoop(t)
    /\ UNCHANGED <<kafkaVars, rows, processVars, dlqQueue, position, batch, pending,
                   cursor, broken, historyVars, budget>>

(* One turn of "for item in batch: _send_to_dlq(...)". *)
DlqItem(t) ==
    /\ pc[t] = "dlq"
    /\ cursor[t] <= Len(batch[t])
    /\ SendToDlq(ItemOf(t, cursor[t]))
    /\ cursor' = [cursor EXCEPT ![t] = @ + 1]
    /\ pc' = [pc EXCEPT ![t] = IF cursor[t] = Len(batch[t]) THEN "commit" ELSE "dlq"]
    /\ UNCHANGED <<kafkaVars, rows, processVars, final, position, batch, pending,
                   broken, skipped>>

(* BufferError part way through the batch: nothing is committed, and the   *)
(* finally clause starts the flush over.                                   *)
DlqItemRaises(t) ==
    /\ pc[t] = "dlq"
    /\ DlqQueueFull
    /\ LeaveLoop(t)
    /\ UNCHANGED <<kafkaVars, rows, processVars, dlqQueue, position, batch, pending,
                   cursor, broken, historyVars>>

(* The synchronous offset commit returns: back to the loop with an empty   *)
(* batch, or, in the finally clause, the thread is done.                   *)
CommitSucceeds(t) ==
    /\ pc[t] = "commit"
    /\ committed' = [committed EXCEPT ![t] = CommitTarget(t)]
    /\ batch' = [batch EXCEPT ![t] = <<>>]
    /\ pending' = [pending EXCEPT ![t] = NothingPending]
    /\ pc' = [pc EXCEPT ![t] = IF final[t] THEN "closed" ELSE "polling"]
    /\ UNCHANGED <<log, dlqTopic, rows, processVars, dlqQueue, final, position, cursor,
                   broken, historyVars, budget>>

(* KafkaException from the commit, whether or not the broker applied it.   *)
(* No handler names it: the loop ends and the finally clause flushes the   *)
(* same batch again.                                                       *)
CommitFails(t) ==
    /\ pc[t] = "commit"
    /\ Fault("commit")
    /\ committed' \in {committed, [committed EXCEPT ![t] = CommitTarget(t)]}
    /\ LeaveLoop(t)
    /\ UNCHANGED <<log, dlqTopic, rows, processVars, dlqQueue, position, batch, pending,
                   cursor, broken, historyVars>>

(* The server closes the thread's connection. *)
ConnectionLost(t) ==
    /\ pc[t] \notin {"off", "connecting", "closed"}
    /\ t \notin broken
    /\ Fault("dbdown")
    /\ broken' = broken \cup {t}
    /\ UNCHANGED <<kafkaVars, rows, processVars, dlqQueue, pc, final, position, batch,
                   pending, cursor, historyVars>>

ThreadStep(t) ==
    \/ Connect(t) \/ Flush(t) \/ SeeStop(t)
    \/ \E p \in Partition : PollValid(t, p) \/ PollInvalid(t, p) \/ PollRaises(t, p)
    \/ InsertSucceeds(t) \/ InsertFails(t) \/ InsertRaises(t)
    \/ DlqItem(t) \/ DlqItemRaises(t)
    \/ CommitSucceeds(t) \/ CommitFails(t)

----------------------------------------------------------------------------
(* The shared DLQ producer's background delivery *)

DlqDeliver ==
    \E item \in dlqQueue :
        /\ Alive
        /\ dlqQueue' = dlqQueue \ {item}
        /\ dlqTopic' = dlqTopic \cup {item}
        /\ UNCHANGED <<log, committed, rows, processVars, threadVars, historyVars, budget>>

(* message.timeout.ms passes; there is no delivery callback. *)
DlqExpires ==
    \E item \in dlqQueue :
        /\ Alive
        /\ Fault("expire")
        /\ dlqQueue' = dlqQueue \ {item}
        /\ dropped' = dropped \cup {item}
        /\ UNCHANGED <<kafkaVars, rows, processVars, threadVars, skipped>>

----------------------------------------------------------------------------
(* main() and the container runtime *)

Start ==
    /\ proc \in {"down", "exited"}
    /\ proc' = "up"
    /\ timedOut' = FALSE
    /\ pc' = [t \in Thread |-> "connecting"]
    /\ UNCHANGED <<kafkaVars, rows, dlqQueue, final, position, batch, pending, cursor,
                   broken, historyVars, budget>>

(* SIGTERM or SIGINT sets the stop event; main starts joining. *)
Signal ==
    /\ proc = "up"
    /\ Fault("stop")
    /\ proc' = "joining"
    /\ UNCHANGED <<kafkaVars, rows, timedOut, dlqQueue, threadVars, historyVars>>

(* Variant: the producer is flushed without joining the threads first. *)
JoinSkipped ==
    /\ proc = "joining"
    /\ proc' = "flushing"
    /\ UNCHANGED <<kafkaVars, rows, timedOut, dlqQueue, threadVars, historyVars, budget>>

(* The joins return when the threads have ended, or at their deadline. *)
JoinReturns ==
    /\ proc = "joining"
    /\ \/ /\ \A t \in Thread : pc[t] = "closed"
          /\ UNCHANGED <<timedOut, budget>>
       \/ /\ Fault("jointimeout")
          /\ timedOut' = TRUE
    /\ proc' = "flushing"
    /\ UNCHANGED <<kafkaVars, rows, dlqQueue, threadVars, historyVars>>

(* dlq_producer.flush(timeout=10) *)
FinalDlqFlush ==
    /\ proc = "flushing"
    /\ \/ /\ dlqTopic' = dlqTopic \cup dlqQueue
          /\ dlqQueue' = {}
          /\ UNCHANGED <<timedOut, budget>>
       \/ /\ Fault("flushtimeout")
          /\ timedOut' = TRUE
          /\ UNCHANGED <<dlqTopic, dlqQueue>>
    /\ proc' = "exiting"
    /\ UNCHANGED <<log, committed, rows, threadVars, historyVars>>

(* The process is gone: threads, buffers and the DLQ queue with it. *)
Vanish ==
    /\ dropped' = dropped \cup dlqQueue
    /\ dlqQueue' = {}
    /\ pc' = [t \in Thread |-> "off"]
    /\ final' = [t \in Thread |-> FALSE]
    /\ position' = [t \in Thread |-> [p \in Partition |-> 0]]
    /\ batch' = [t \in Thread |-> <<>>]
    /\ pending' = [t \in Thread |-> NothingPending]
    /\ cursor' = [t \in Thread |-> 1]
    /\ broken' = {}
    /\ UNCHANGED <<kafkaVars, rows, timedOut, skipped>>

(* main() has returned; the interpreter waits for the non-daemon threads. *)
Exit ==
    /\ proc = "exiting"
    /\ \A t \in Thread : pc[t] = "closed"
    /\ proc' = "exited"
    /\ Vanish
    /\ UNCHANGED budget

(* SIGKILL, out of memory, loss of the host.  A container that is being    *)
(* stopped when it is killed stays stopped.                                *)
Kill ==
    /\ Alive
    /\ Fault("kill")
    /\ proc' = IF StopRequested THEN "exited" ELSE "down"
    /\ Vanish

(* tools/replay.py commits new offsets for a group without members.  A     *)
(* target beyond the committed offset passes messages over.                *)
Replay(t, p) ==
    \E o \in 0..Len(log[t][p]) :
        /\ ~Alive
        /\ o # committed[t][p]
        /\ Fault("replay")
        /\ committed' = [committed EXCEPT ![t][p] = o]
        /\ skipped' = skipped \cup {<<t, p, q>> : q \in committed[t][p]..(o - 1)}
        /\ UNCHANGED <<log, dlqTopic, rows, processVars, dlqQueue, threadVars, dropped>>

----------------------------------------------------------------------------
Next ==
    \/ \E t \in Thread : ThreadStep(t) \/ ConnectFails(t) \/ ConnectionLost(t)
    \/ DlqDeliver \/ DlqExpires
    \/ Start \/ Signal \/ JoinReturns \/ FinalDlqFlush \/ Exit \/ Kill
    \/ \E t \in Thread, p \in Partition : Replay(t, p)

Spec == Init /\ [][Next]_vars

(* The OS schedules every thread, librdkafka keeps delivering, main() goes *)
(* on, and the restart policy "unless-stopped" brings a killed container   *)
(* back.  Nothing restarts a process that was stopped, or one that lives   *)
(* on with a dead thread.                                                  *)
Fairness ==
    /\ \A t \in Thread : WF_vars(ThreadStep(t))
    /\ WF_vars(DlqDeliver)
    /\ WF_vars(proc = "down" /\ Start)
    /\ WF_vars(JoinReturns \/ FinalDlqFlush \/ Exit)

FairSpec == Spec /\ Fairness
----------------------------------------------------------------------------
(* Properties *)

TypeOK ==
    /\ log \in [Thread -> [Partition -> Seq(Message)]]
    /\ committed \in [Thread -> [Partition -> Nat]]
    /\ dlqTopic \subseteq Item /\ dlqQueue \subseteq Item
    /\ dropped \subseteq Item /\ skipped \subseteq Item
    /\ rows \subseteq Row
    /\ proc \in Proc /\ timedOut \in BOOLEAN
    /\ pc \in [Thread -> PC]
    /\ final \in [Thread -> BOOLEAN]
    /\ position \in [Thread -> [Partition -> Nat]]
    /\ batch \in [Thread -> Seq(Buffered)]
    /\ pending \in [Thread -> [Partition -> Nat \cup {Absent}]]
    /\ cursor \in [Thread -> Nat \ {0}]
    /\ broken \subseteq Thread
    /\ budget \in 0..MaxFaults

(* The message at an offset has left the consumer's responsibility: its    *)
(* event is in the raw table, or it was handed to the DLQ producer, or the *)
(* replay tool passed it over.                                             *)
Settled(t, p, o) ==
    \/ MessageAt(t, p, o).id \in StoredIds(t)
    \/ <<t, p, o>> \in dlqTopic \cup dlqQueue \cup dropped \cup skipped

(* Every offset below a committed offset is settled: whatever mix of       *)
(* crashes, failed inserts, failed or ambiguous commits and second flushes *)
(* occurred, no message is both committed and forgotten (consumers.py      *)
(* 136-172, 252-263).                                                      *)
NoUnsettledCommit ==
    \A t \in Thread, p \in Partition :
        \A o \in 0..(committed[t][p] - 1) : Settled(t, p, o)

(* Redelivery after a crash, a replay, or a producer's own retries never   *)
(* gives an event two rows in its table (db.py 63-72).                     *)
OneRowPerEvent ==
    \A r, s \in rows : (r.table = s.table /\ r.id = s.id) => r = s

(* A group's committed offset moves backwards by the replay tool only,     *)
(* while no ingestor runs: no restarted or retrying thread undoes another  *)
(* commit (consumers.py 131-138).                                          *)
OffsetsOnlyReplayRewinds ==
    [][\A t \in Thread, p \in Partition :
          committed'[t][p] < committed[t][p] => ~Alive]_vars

(* A stop in which no join and no flush ran into its deadline drops no     *)
(* dead letter: the queue is flushed after the last thread that could add  *)
(* to it has ended (main.py 75-82).                                        *)
CleanStopDropsNothing ==
    [][(proc = "exiting" /\ proc' = "exited" /\ ~timedOut /\ budget' = budget)
            => dropped' = dropped]_vars

(* The ingestor is up, nobody stopped it and no thread has ended.          *)
Healthy == proc = "up" /\ \A t \in Thread : pc[t] # "closed"

(* While the threads live, every offset is eventually committed for good,  *)
(* also of the last, small batch, through kills, refused inserts, failing  *)
(* connections and a full or slow DLQ (consumers.py 11-12: "no stuck       *)
(* partitions").                                                           *)
EverythingCommitted ==
    <>[]Healthy =>
        \A t \in Thread, p \in Partition : <>[](committed[t][p] = Len(log[t][p]))

(* Chaos script 01: at-least-once delivery across a SIGKILL.  Every        *)
(* committed message is in the raw table, in the dead-letter topic, or in  *)
(* a live producer on its way there.                                       *)
AtLeastOnceDelivery ==
    \A t \in Thread, p \in Partition :
        \A o \in 0..(committed[t][p] - 1) :
            \/ MessageAt(t, p, o).id \in StoredIds(t)
            \/ <<t, p, o>> \in dlqTopic \cup dlqQueue

(* The contract the ingestor implements: a settled message is taken over,  *)
(* a committed one acknowledged.                                           *)
Sources == Thread \X Partition

Taken == [s \in Sources |->
            {o \in 0..(Len(log[s[1]][s[2]]) - 1) : Settled(s[1], s[2], o)}]

Acked == [s \in Sources |-> committed[s[1]][s[2]]]

Contract == INSTANCE AtLeastOnce
    WITH Source <- Sources, taken <- Taken, acked <- Acked, attached <- Alive

(* Taking over, acknowledging settled messages and, by an operator,        *)
(* repositioning are all the group ever does to its topics.                *)
ImplementsAtLeastOnce == Contract!Spec
=============================================================================
