--------------------------- MODULE StreamFeatures ---------------------------
(***************************************************************************)
(* The worker's stream consumers: services/worker/app/stream_features/     *)
(* {consumer,parquet_buffer}.py and the worker's main().                   *)
(*                                                                         *)
(* One thread per topic applies each event to the Redis windows, appends   *)
(* it to an in-memory buffer for the lake and notes its offset; offsets    *)
(* are committed on a short timer, the buffer is uploaded on a long one.   *)
(* The two loops share nothing but the stop event.  What the Redis update  *)
(* computes is the subject of RouteFeatures; here it happens or fails.     *)
(***************************************************************************)
EXTENDS Integers, Sequences, FiniteSets

CONSTANTS
    Thread,      \* the consumer threads, one per topic
    Partition,   \* the partitions of a topic
    Hour,        \* (dt, hour) partitions of the lake
    InitialLogs, \* the topic contents considered: a set of functions
    Faults,      \* the kinds of fault the environment may inject
    MaxFaults    \* bound: how many faults one behaviour may contain

(* A message is applied to Redis and buffered ("good"), and so is one      *)
(* whose values pyarrow cannot put in one column ("unwritable"); it may    *)
(* fail to parse ("skipped"), fail to parse after the Redis update (a      *)
(* weather reading's polled_at: "halfway"), or raise an exception that no  *)
(* handler names ("unhandled").                                            *)
Buffering == {"good", "unwritable"}
Applying == Buffering \cup {"halfway"}
Kind == Applying \cup {"skipped", "unhandled"}

Message == [kind : Kind, hour : Hour]

FaultKind == {"kill", "stop", "redis", "commit", "s3error", "s3down"}

ASSUME StreamFeaturesAssumption ==
    /\ IsFiniteSet(Thread) /\ IsFiniteSet(Partition)
    /\ InitialLogs \subseteq [Thread -> [Partition -> Seq(Message)]]
    /\ Faults \subseteq FaultKind
    /\ MaxFaults \in Nat

VARIABLES
    log, committed,            \* Kafka: the topics and the groups' offsets
    applied, unapplied,        \* messages whose Redis update succeeded; failed
    skipped,                   \* messages logged as parse failures
    lake,                      \* messages in the lake's part files
    lost,                      \* history: records that left the memory otherwise
    proc, stop,                \* main(); the stop event
    pc, final, position, pending,
    buffer,                    \* ParquetBuffer._pending
    uploading, failed,         \* a flush: records still to upload; refused
    budget                     \* faults still allowed

outcomeVars == <<applied, unapplied, skipped>>
lakeVars    == <<lake, lost>>
mainVars    == <<proc, stop>>
offsetVars  == <<position, pending>>
bufferVars  == <<buffer, uploading, failed>>
vars == <<log, committed, outcomeVars, lakeVars, mainVars, pc, final, offsetVars,
          bufferVars, budget>>

Item == Thread \X Partition \X Nat
PC   == {"off", "polling", "lastcommit", "lastflush", "uploading", "closed"}
Proc == {"down", "starting", "scheduling", "joining", "exited"}

Absent == -1

MessageAt(t, p, o) == log[t][p][o + 1]
KindOf(item) == MessageAt(item[1], item[2], item[3]).kind
HourOf(item) == MessageAt(item[1], item[2], item[3]).hour

NothingPending == [p \in Partition |-> Absent]
HasPending(t) == pending[t] # NothingPending

(* Variant: absent entries taken for offsets.                              *)
CommitTargetAll(t) == [p \in Partition |-> pending[t][p] + 1]

(* Partitions without an entry keep their committed offset. *)
CommitTarget(t) ==
    [p \in Partition |->
        IF pending[t][p] = Absent THEN committed[t][p] ELSE pending[t][p] + 1]

Fault(kind) == kind \in Faults /\ budget > 0 /\ budget' = budget - 1

Alive == proc \in {"starting", "scheduling", "joining"}

Init ==
    /\ log \in InitialLogs
    /\ committed = [t \in Thread |-> [p \in Partition |-> 0]]
    /\ applied = {} /\ unapplied = {} /\ skipped = {}
    /\ lake = {} /\ lost = {}
    /\ proc = "down" /\ stop = FALSE
    /\ pc = [t \in Thread |-> "off"]
    /\ final = [t \in Thread |-> FALSE]
    /\ position = [t \in Thread |-> [p \in Partition |-> 0]]
    /\ pending = [t \in Thread |-> NothingPending]
    /\ buffer = [t \in Thread |-> {}]
    /\ uploading = [t \in Thread |-> {}]
    /\ failed = [t \in Thread |-> {}]
    /\ budget = MaxFaults

----------------------------------------------------------------------------
(* The consumer loop *)

CanPoll(t, p, kinds) ==
    /\ pc[t] = "polling"
    /\ position[t][p] < Len(log[t][p])
    /\ MessageAt(t, p, position[t][p]).kind \in kinds

Current(t, p) == <<t, p, position[t][p]>>

Step(t, p) == position' = [position EXCEPT ![t][p] = @ + 1]

UpdateMaxOffset(t, p) ==
    pending' = [pending EXCEPT ![t][p] =
                  IF position[t][p] > @ THEN position[t][p] ELSE @]

PollBuffers(t, p) ==
    /\ CanPoll(t, p, Buffering)
    /\ applied' = applied \cup {Current(t, p)}
    /\ buffer' = [buffer EXCEPT ![t] = @ \cup {Current(t, p)}]
    /\ lost' = lost \ {Current(t, p)}
    /\ Step(t, p) /\ UpdateMaxOffset(t, p)
    /\ UNCHANGED <<log, committed, unapplied, skipped, lake, mainVars, pc, final,
                   uploading, failed, budget>>

(* A parse error: the offset is noted all the same.                        *)
PollSkips(t, p) ==
    /\ \/ CanPoll(t, p, {"skipped"}) /\ UNCHANGED applied
       \/ CanPoll(t, p, {"halfway"}) /\ applied' = applied \cup {Current(t, p)}
    /\ skipped' = skipped \cup {Current(t, p)}
    /\ Step(t, p) /\ UpdateMaxOffset(t, p)
    /\ UNCHANGED <<log, committed, unapplied, lakeVars, mainVars, pc, final, bufferVars,
                   budget>>

(* Variant: the refused message's offset is noted like a skipped one's. *)
RedisFailsNotesOffset(t, p) ==
    /\ CanPoll(t, p, Applying)
    /\ Fault("redis")
    /\ unapplied' = unapplied \cup {Current(t, p)}
    /\ Step(t, p) /\ UpdateMaxOffset(t, p)
    /\ UNCHANGED <<log, committed, applied, skipped, lakeVars, mainVars, pc, final,
                   bufferVars>>

(* RedisError: the offset is not noted, and the loop goes on.  The sorted  *)
(* sets may have been updated when the hash could not be.                  *)
PollRedisFails(t, p) ==
    /\ CanPoll(t, p, Applying)
    /\ Fault("redis")
    /\ unapplied' = unapplied \cup {Current(t, p)}
    /\ Step(t, p)
    /\ UNCHANGED <<log, committed, applied, skipped, lakeVars, mainVars, pc, final, pending,
                   bufferVars>>

(* Control leaves the loop for the finally clause. *)
LeaveLoop(t) ==
    /\ pc' = [pc EXCEPT ![t] = "lastcommit"]
    /\ final' = [final EXCEPT ![t] = TRUE]

PollRaises(t, p) ==
    /\ CanPoll(t, p, {"unhandled"})
    /\ LeaveLoop(t)
    /\ UNCHANGED <<log, committed, outcomeVars, lakeVars, mainVars, offsetVars, bufferVars,
                   budget>>

SeeStop(t) ==
    /\ pc[t] = "polling"
    /\ stop
    /\ LeaveLoop(t)
    /\ UNCHANGED <<log, committed, outcomeVars, lakeVars, mainVars, offsetVars, bufferVars,
                   budget>>

----------------------------------------------------------------------------
(* Committing, in the loop and in the finally clause *)

Commit(t) ==
    /\ pc[t] = "polling"
    /\ HasPending(t)
    /\ committed' = [committed EXCEPT ![t] = CommitTarget(t)]
    /\ pending' = [pending EXCEPT ![t] = NothingPending]
    /\ UNCHANGED <<log, outcomeVars, lakeVars, mainVars, pc, final, position, bufferVars,
                   budget>>

(* The commit raises, whether or not the broker applied it. *)
CommitRaises(t) ==
    /\ pc[t] = "polling"
    /\ HasPending(t)
    /\ Fault("commit")
    /\ committed' \in {committed, [committed EXCEPT ![t] = CommitTarget(t)]}
    /\ LeaveLoop(t)
    /\ UNCHANGED <<log, outcomeVars, lakeVars, mainVars, offsetVars, bufferVars>>

(* The last commit; its failure is logged and the flush goes on.           *)
LastCommit(t) ==
    /\ pc[t] = "lastcommit"
    /\ \/ /\ committed' = [committed EXCEPT ![t] = CommitTarget(t)]
          /\ UNCHANGED budget
       \/ /\ HasPending(t)
          /\ Fault("commit")
          /\ committed' \in {committed, [committed EXCEPT ![t] = CommitTarget(t)]}
    /\ pc' = [pc EXCEPT ![t] = "lastflush"]
    /\ UNCHANGED <<log, outcomeVars, lakeVars, mainVars, final, offsetVars, bufferVars>>

----------------------------------------------------------------------------
(* ParquetBuffer.flush *)

(* Variant: the finally clause closes without a flush. *)
FlushInLoopOnly(t) ==
    /\ \/ pc[t] = "polling" /\ buffer[t] # {}
       \/ pc[t] = "lastflush"
    /\ IF pc[t] = "lastflush"
       THEN /\ pc' = [pc EXCEPT ![t] = "closed"]
            /\ UNCHANGED <<buffer, uploading>>
       ELSE /\ pc' = [pc EXCEPT ![t] = "uploading"]
            /\ uploading' = [uploading EXCEPT ![t] = buffer[t]]
            /\ buffer' = [buffer EXCEPT ![t] = {}]
    /\ UNCHANGED <<log, committed, outcomeVars, lakeVars, mainVars, final, offsetVars, failed,
                   budget>>

(* Variant: the flush timer is set anew in every turn and never fires. *)
FlushAtEndOnly(t) ==
    /\ pc[t] = "lastflush"
    /\ pc' = [pc EXCEPT ![t] = IF buffer[t] = {} THEN "closed" ELSE "uploading"]
    /\ uploading' = [uploading EXCEPT ![t] = buffer[t]]
    /\ buffer' = [buffer EXCEPT ![t] = {}]
    /\ UNCHANGED <<log, committed, outcomeVars, lakeVars, mainVars, final, offsetVars, failed,
                   budget>>

(* The pending records are swapped out; with none there is nothing to do.  *)
FlushBegin(t) ==
    /\ \/ pc[t] = "polling" /\ buffer[t] # {}
       \/ pc[t] = "lastflush"
    /\ pc' = [pc EXCEPT ![t] = IF buffer[t] = {} THEN "closed" ELSE "uploading"]
    /\ uploading' = [uploading EXCEPT ![t] = buffer[t]]
    /\ buffer' = [buffer EXCEPT ![t] = {}]
    /\ UNCHANGED <<log, committed, outcomeVars, lakeVars, mainVars, final, offsetVars, failed,
                   budget>>

InMemory(t) == buffer[t] \cup uploading[t] \cup failed[t]

(* The records of one lake partition, the next of the flush to be uploaded.*)
Group(t, h) == {item \in uploading[t] : HourOf(item) = h}

CanUpload(t, h) ==
    /\ pc[t] = "uploading"
    /\ Group(t, h) # {}

Unwritable(t, h) == \E item \in Group(t, h) : KindOf(item) = "unwritable"

Upload(t, h) ==
    /\ CanUpload(t, h) /\ ~Unwritable(t, h)
    /\ lake' = lake \cup Group(t, h)
    /\ uploading' = [uploading EXCEPT ![t] = @ \ Group(t, h)]
    /\ UNCHANGED <<log, committed, outcomeVars, lost, mainVars, pc, final, offsetVars,
                   buffer, failed, budget>>

(* Variant: a refused group is not kept. *)
UploadRefusedForgets(t, h) ==
    /\ CanUpload(t, h) /\ ~Unwritable(t, h)
    /\ Fault("s3error")
    /\ uploading' = [uploading EXCEPT ![t] = @ \ Group(t, h)]
    /\ UNCHANGED <<log, committed, outcomeVars, lakeVars, mainVars, pc, final, offsetVars,
                   buffer, failed>>

(* ClientError: the group is kept for the next flush. *)
UploadRefused(t, h) ==
    /\ CanUpload(t, h) /\ ~Unwritable(t, h)
    /\ Fault("s3error")
    /\ failed' = [failed EXCEPT ![t] = @ \cup Group(t, h)]
    /\ uploading' = [uploading EXCEPT ![t] = @ \ Group(t, h)]
    /\ lost' = IF final[t] THEN lost \cup Group(t, h) ELSE lost
    /\ UNCHANGED <<log, committed, outcomeVars, lake, mainVars, pc, final, offsetVars,
                   buffer>>

(* Any other exception, from pyarrow or because the endpoint cannot be     *)
(* reached, leaves the flush; the records it had swapped out go with it.   *)
UploadRaises(t, h) ==
    /\ CanUpload(t, h)
    /\ \/ Unwritable(t, h) /\ UNCHANGED budget
       \/ ~Unwritable(t, h) /\ Fault("s3down")
    /\ lost' = lost \cup uploading[t] \cup failed[t]
    /\ uploading' = [uploading EXCEPT ![t] = {}]
    /\ failed' = [failed EXCEPT ![t] = {}]
    /\ pc' = [pc EXCEPT ![t] = IF final[t] THEN "closed" ELSE "lastcommit"]
    /\ final' = [final EXCEPT ![t] = TRUE]
    /\ UNCHANGED <<log, committed, outcomeVars, lake, mainVars, offsetVars, buffer>>

FlushEnd(t) ==
    /\ pc[t] = "uploading"
    /\ uploading[t] = {}
    /\ buffer' = [buffer EXCEPT ![t] = @ \cup failed[t]]
    /\ failed' = [failed EXCEPT ![t] = {}]
    /\ pc' = [pc EXCEPT ![t] = IF final[t] THEN "closed" ELSE "polling"]
    /\ UNCHANGED <<log, committed, outcomeVars, lakeVars, mainVars, final, offsetVars,
                   uploading, budget>>

ThreadStep(t) ==
    \/ \E p \in Partition : PollBuffers(t, p) \/ PollSkips(t, p) \/ PollRaises(t, p)
    \/ SeeStop(t) \/ Commit(t) \/ LastCommit(t) \/ FlushBegin(t) \/ FlushEnd(t)
    \/ \E h \in Hour : Upload(t, h) \/ UploadRaises(t, h)

ThreadFault(t) ==
    \/ \E p \in Partition : PollRedisFails(t, p)
    \/ \E h \in Hour : UploadRefused(t, h)
    \/ CommitRaises(t)

----------------------------------------------------------------------------
(* The worker's main() and the container runtime *)

Start ==
    /\ proc \in {"down", "exited"}
    /\ proc' = "starting" /\ stop' = FALSE
    /\ pc' = [t \in Thread |-> "polling"]
    /\ position' = committed
    /\ UNCHANGED <<log, committed, outcomeVars, lakeVars, final, pending, bufferVars, budget>>

(* The pipeline run at startup is over: scheduler.start(). *)
StartScheduler ==
    /\ proc = "starting"
    /\ proc' = "scheduling"
    /\ UNCHANGED <<log, committed, outcomeVars, lakeVars, stop, pc, final, offsetVars,
                   bufferVars, budget>>

(* SIGTERM or SIGINT.  scheduler.shutdown() makes scheduler.start() return;*)
(* before that call it raises, inside the startup run, where the exception *)
(* is swallowed, or just before it, where it ends main().                  *)
Signal ==
    /\ Fault("stop")
    /\ stop' = TRUE
    /\ \/ proc = "scheduling" /\ proc' = "joining"
       \/ proc = "starting" /\ proc' \in {"starting", "joining"}
    /\ UNCHANGED <<log, committed, outcomeVars, lakeVars, pc, final, offsetVars, bufferVars>>

(* The process is gone, and its buffers with it. *)
Vanish ==
    /\ pc' = [t \in Thread |-> "off"]
    /\ final' = [t \in Thread |-> FALSE]
    /\ position' = [t \in Thread |-> [p \in Partition |-> 0]]
    /\ pending' = [t \in Thread |-> NothingPending]
    /\ buffer' = [t \in Thread |-> {}]
    /\ uploading' = [t \in Thread |-> {}]
    /\ failed' = [t \in Thread |-> {}]
    /\ UNCHANGED <<log, committed, outcomeVars, lake, stop>>

(* The joins have no deadline. *)
Exit ==
    /\ proc = "joining"
    /\ \A t \in Thread : pc[t] = "closed"
    /\ proc' = "exited"
    /\ Vanish
    /\ UNCHANGED <<lost, budget>>

Kill ==
    /\ Alive
    /\ Fault("kill")
    /\ proc' = IF stop THEN "exited" ELSE "down"
    /\ lost' = lost \cup UNION {InMemory(t) : t \in Thread}
    /\ Vanish

Next ==
    \/ \E t \in Thread : ThreadStep(t) \/ ThreadFault(t)
    \/ Start \/ StartScheduler \/ Signal \/ Exit \/ Kill

Spec == Init /\ [][Next]_vars

(* Every thread runs, its timers fire, main() goes on, and the restart     *)
(* policy brings a killed container back.  A thread never runs out of turns*)
(* with nothing done: every ThreadStep polls, commits or uploads something.*)
Fairness ==
    /\ \A t \in Thread : WF_vars(ThreadStep(t))
    /\ WF_vars(StartScheduler)
    /\ WF_vars(proc = "down" /\ Start)
    /\ WF_vars(Exit)

FairSpec == Spec /\ Fairness

----------------------------------------------------------------------------
(* Properties *)

TypeOK ==
    /\ log \in [Thread -> [Partition -> Seq(Message)]]
    /\ committed \in [Thread -> [Partition -> Nat]]
    /\ applied \subseteq Item /\ unapplied \subseteq Item
    /\ skipped \subseteq Item /\ lake \subseteq Item /\ lost \subseteq Item
    /\ proc \in Proc /\ stop \in BOOLEAN
    /\ pc \in [Thread -> PC]
    /\ final \in [Thread -> BOOLEAN]
    /\ position \in [Thread -> [Partition -> Nat]]
    /\ pending \in [Thread -> [Partition -> Nat \cup {Absent}]]
    /\ buffer \in [Thread -> SUBSET Item]
    /\ uploading \in [Thread -> SUBSET Item]
    /\ failed \in [Thread -> SUBSET Item]
    /\ budget \in 0..MaxFaults

(* The consumer has done with a message what it does with its kind: updated*)
(* Redis, or found that it does not parse; or it tried and Redis refused.  *)
Handled(t, p, o) == <<t, p, o>> \in applied \cup skipped
Tried(t, p, o) == Handled(t, p, o) \/ <<t, p, o>> \in unapplied

(* No offset is committed for the sake of a message that was not handled,  *)
(* not across kills, failed commits, a second commit in the finally clause *)
(* or a message that ends the thread: a message Redis refused is committed *)
(* over only when a later one of its partition was handled (consumer.py    *)
(* 91-98, 173-196, 201-218).                                               *)
CommitsRestOnHandled ==
    \A t \in Thread, p \in Partition : \A o \in 0..(committed[t][p] - 1) :
        /\ Tried(t, p, o)
        /\ \E later \in o..(committed[t][p] - 1) : Handled(t, p, later)

(* A consumer group that takes over by trying and acknowledges by          *)
(* committing: the offsets only grow and cover tried messages only.        *)
Sources == Thread \X Partition

Taken == [s \in Sources |->
            {o \in 0..(Len(log[s[1]][s[2]]) - 1) : Tried(s[1], s[2], o)}]
Acked == [s \in Sources |-> committed[s[1]][s[2]]]

Contract == INSTANCE AtLeastOnce
    WITH Source <- Sources, taken <- Taken, acked <- Acked, attached <- Alive

ImplementsAtLeastOnce == Contract!Spec

(* An event whose Redis update succeeded is in the lake; or is in it, or in*)
(* a live buffer on its way there.                                         *)
Saved(t, p, o) ==
    (MessageAt(t, p, o).kind \in Buffering /\ <<t, p, o>> \notin unapplied)
        => <<t, p, o>> \in lake

SavedOrBuffered(t, p, o) == Saved(t, p, o) \/ <<t, p, o>> \in InMemory(t)

(* A stop drains the buffers: of a consumer that has ended, with the worker*)
(* or before it, every committed event is in the lake, whatever thread was *)
(* where when the signal came, in the start-up run too, also if Redis      *)
(* updates or the last commit failed, save what a kill took or S3 refused  *)
(* in the last flush (consumer.py 214-224, worker main.py 148-153).        *)
CleanStopDrains ==
    \A t \in Thread : proc = "exited" \/ pc[t] = "closed" =>
        \A p \in Partition : \A o \in 0..(committed[t][p] - 1) :
            <<t, p, o>> \in lost \/ Saved(t, p, o)

(* A signal ends both consumers whenever it comes, also one that main()    *)
(* swallows in its start-up run (worker main.py 148-153, 170-173).         *)
ConsumersStop ==
    stop /\ Alive ~> ~stop \/ ~Alive \/ \A t \in Thread : pc[t] = "closed"

(* Once main() waits for its threads they end, and so does the worker      *)
(* (worker main.py 148-153, 176-180).                                      *)
JoinsReturn == proc = "joining" ~> proc = "exited"

(* ParquetBuffer: while the process lives a record leaves the memory for   *)
(* the lake only, "Nothing is silently dropped" (parquet_buffer.py 31-35), *)
(* unless an exception that is no ClientError leaves the flush.            *)
FlushKeepsRecords ==
    [][Alive' => \A t \in Thread :
          InMemory(t) \subseteq InMemory(t)' \cup lake' \cup lost']_vars

(* The worker is up, nobody stopped it and its consumers are in their loops.*)
Healthy ==
    /\ proc \in {"starting", "scheduling"} /\ ~stop
    /\ \A t \in Thread : pc[t] # "closed"

(* While the consumers live, every event whose Redis update was not refused*)
(* reaches the lake, through however many kills and refused uploads, save  *)
(* what a kill took after its commit (parquet_buffer.py 113-116).          *)
ReachesLake ==
    <>[]Healthy =>
        <>(\A t \in Thread, p \in Partition : \A o \in 0..(Len(log[t][p]) - 1) :
              MessageAt(t, p, o).kind \in Buffering
                  => <<t, p, o>> \in lake \cup unapplied \cup lost)

(* A worker that lives drains into the lake, a stop ends its consumers and,*)
(* where it gets through to main(), the worker.                            *)
Liveness == ReachesLake /\ ConsumersStop /\ JoinsReturn

(* A refused message is not committed: "it will be re-delivered on restart"*)
(* (consumer.py 26-28).                                                    *)
RefusedRedelivered ==
    \A t \in Thread, p \in Partition : \A o \in 0..(committed[t][p] - 1) :
        <<t, p, o>> \in unapplied => Handled(t, p, o)

(* "Every event is preserved in the lake" (consumer.py 8-9): one that was  *)
(* only buffered is delivered again after a crash (parquet_buffer.py 25).  *)
BufferedRedelivered ==
    \A t \in Thread, p \in Partition : \A o \in 0..(committed[t][p] - 1) :
        SavedOrBuffered(t, p, o)

(* The two promises about what a crash interrupts, of which this asks for  *)
(* one only: when the worker is down, the next start delivers again what   *)
(* Redis refused, or at least what had not reached the lake.               *)
CrashRedelivers == proc = "down" => RefusedRedelivered \/ BufferedRedelivered
=============================================================================
