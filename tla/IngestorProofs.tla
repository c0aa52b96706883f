--------------------------- MODULE IngestorProofs ---------------------------
(***************************************************************************)
(* Proofs about Ingestor for every set of threads and partitions, every    *)
(* topic content, every batch size and every combination of faults: its    *)
(* types, that nothing it commits is forgotten, that offsets move          *)
(* forwards, and that it implements AtLeastOnce.                           *)
(***************************************************************************)
EXTENDS Ingestor, WellFoundedInduction, TLAPS

(* What has been committed or polled exists in the log. *)
InLog ==
    \A t \in Thread, p \in Partition :
        committed[t][p] <= Len(log[t][p]) /\ position[t][p] <= Len(log[t][p])

(* Pending and buffered offsets have been polled. *)
Polled ==
    /\ \A t \in Thread, p \in Partition : pending[t][p] < position[t][p]
    /\ \A t \in Thread : \A i \in DOMAIN batch[t] :
         batch[t][i].off < position[t][batch[t][i].part]

(* A thread that does not run yet, or no more, holds nothing. *)
IdleEmpty ==
    \A t \in Thread : pc[t] \in {"off", "connecting"}
                         => batch[t] = <<>> /\ pending[t] = NothingPending

(* Without a process there are no threads. *)
DownOff == ~Alive => \A t \in Thread : pc[t] = "off"

Shape == TypeOK /\ InLog /\ Polled /\ IdleEmpty /\ DownOff

(* A buffered item exists in the log, so its row is well typed. *)
LEMMA BatchedMessage ==
    ASSUME Shape, NEW t \in Thread, NEW i \in DOMAIN batch[t]
    PROVE  /\ batch[t][i] \in Buffered
           /\ MessageAt(t, batch[t][i].part, batch[t][i].off) \in Message
           /\ IdOf(t, i) \in EventId
           /\ ItemOf(t, i) \in Item
<1>1. batch[t] \in Seq(Buffered)
  BY DEF Shape, TypeOK
<1>2. batch[t][i] \in Buffered
  BY <1>1
<1> DEFINE p == batch[t][i].part
           o == batch[t][i].off
<1>3. p \in Partition /\ o \in Nat
  BY <1>2 DEF Buffered
<1>4. o < position[t][p] /\ position[t][p] <= Len(log[t][p])
  BY <1>3 DEF Shape, InLog, Polled
<1>5. log[t][p] \in Seq(Message) /\ position[t][p] \in Nat
  BY <1>3 DEF Shape, TypeOK
<1>6. o + 1 \in 1..Len(log[t][p])
  BY <1>3, <1>4, <1>5
<1>7. log[t][p][o + 1] \in Message
  BY <1>5, <1>6
<1> QED BY <1>2, <1>3, <1>7 DEF MessageAt, IdOf, ItemOf, Item, Message

LEMMA NewRowsTyped ==
    ASSUME Shape, NEW t \in Thread PROVE NewRows(t) \subseteq Row
<1>1. ASSUME NEW i \in DOMAIN batch[t]
      PROVE  [table |-> t, id |-> IdOf(t, i),
              part |-> batch[t][i].part, off |-> batch[t][i].off] \in Row
  <2>1. batch[t][i] \in Buffered /\ IdOf(t, i) \in EventId
    BY BatchedMessage
  <2>2. batch[t][i].part \in Partition /\ batch[t][i].off \in Nat
    BY <2>1 DEF Buffered
  <2> QED BY <2>1, <2>2 DEF Row
<1> QED BY <1>1 DEF NewRows

LEMMA ShapeInit == Init => Shape
<1> SUFFICES ASSUME Init PROVE Shape OBVIOUS
<1>1. log \in [Thread -> [Partition -> Seq(Message)]]
  BY IngestorAssumption DEF Init
<1>2. MaxFaults \in 0..MaxFaults
  BY IngestorAssumption
<1>3. TypeOK
  <2>1. \A t \in Thread : batch[t] = <<>> /\ <<>> \in Seq(Buffered)
    BY DEF Init
  <2>2. batch \in [Thread -> Seq(Buffered)]
    BY <2>1 DEF Init
  <2>3. pending \in [Thread -> [Partition -> Nat \cup {Absent}]]
    BY DEF Init, NothingPending
  <2>4. cursor \in [Thread -> Nat \ {0}]
    BY DEF Init
  <2> QED BY <1>1, <1>2, <2>2, <2>3, <2>4 DEF Init, TypeOK, PC, Proc
<1>4. \A t \in Thread, p \in Partition : Len(log[t][p]) \in Nat
  BY <1>1
<1>5. \A t \in Thread, p \in Partition :
         committed[t][p] = 0 /\ position[t][p] = 0 /\ pending[t][p] = -1
  BY DEF Init, NothingPending, Absent
<1> QED BY <1>3, <1>4, <1>5 DEF Init, Shape, InLog, Polled, IdleEmpty, DownOff, Alive

(* The numbers the offset arithmetic is about. *)
LEMMA Numbers ==
    ASSUME TypeOK, NEW t \in Thread, NEW p \in Partition
    PROVE  /\ committed[t][p] \in Nat /\ position[t][p] \in Nat
           /\ pending[t][p] \in Nat \cup {-1}
           /\ log[t][p] \in Seq(Message) /\ Len(log[t][p]) \in Nat
BY DEF TypeOK, Absent

LEMMA BudgetTyped ==
    ASSUME budget \in 0..MaxFaults, NEW k, Fault(k)
    PROVE  budget' \in 0..MaxFaults
BY IngestorAssumption DEF Fault

LEMMA LeaveLoopTyped ==
    ASSUME TypeOK, NEW t \in Thread, LeaveLoop(t)
    PROVE  /\ pc' \in [Thread -> PC]
           /\ final' \in [Thread -> BOOLEAN]
           /\ \A u \in Thread \ {t} : pc'[u] = pc[u]
           /\ pc'[t] \in {"insert", "commit", "closed"}
BY DEF TypeOK, LeaveLoop, FlushEntry, PC

LEMMA ConnectShape ==
    ASSUME Shape, NEW t \in Thread, Connect(t) PROVE Shape'
<1> USE DEF Connect, kafkaVars, processVars, historyVars
<1>1. TypeOK'
  BY DEF Shape, TypeOK, PC
<1>2. InLog'
  BY DEF Shape, InLog, TypeOK
<1>3. Polled'
  <2>1. pending' = pending /\ batch' = batch
    OBVIOUS
  <2>2. ASSUME NEW u \in Thread, u # t PROVE position'[u] = position[u]
    BY <2>2 DEF Shape, TypeOK
  <2>3. position'[t] = committed[t]
    BY DEF Shape, TypeOK
  <2>4. batch[t] = <<>> /\ pending[t] = NothingPending
    BY DEF Shape, IdleEmpty
  <2>5. \A p \in Partition : pending[t][p] < committed[t][p]
    BY <2>4 DEF Shape, TypeOK, NothingPending, Absent
  <2> QED
    BY <2>1, <2>2, <2>3, <2>4, <2>5 DEF Shape, Polled
<1>4. IdleEmpty'
  BY DEF Shape, TypeOK, IdleEmpty, NothingPending
<1>5. DownOff'
  BY DEF Shape, TypeOK, DownOff, Alive
<1> QED BY <1>1, <1>2, <1>3, <1>4, <1>5 DEF Shape

LEMMA PollShape ==
    ASSUME Shape, NEW t \in Thread, NEW p \in Partition,
           PollValid(t, p) \/ PollInvalid(t, p)
    PROVE  Shape'
<1> DEFINE o == position[t][p]
<1>1. /\ pc[t] = "polling" /\ o < Len(log[t][p]) /\ o \in Nat
      /\ Advance(t, p)
      /\ UNCHANGED <<log, committed, pc, proc, final>>
  BY DEF PollValid, PollInvalid, CanPoll, Shape, TypeOK, kafkaVars, processVars
<1>2. /\ position' \in [Thread -> [Partition -> Nat]]
      /\ position'[t][p] = o + 1
      /\ \A u \in Thread, q \in Partition : u # t \/ q # p => position'[u][q] = position[u][q]
  BY <1>1 DEF Advance, Shape, TypeOK
<1>3. /\ pending' \in [Thread -> [Partition -> Nat \cup {Absent}]]
      /\ pending'[t][p] = MaxOffset(t, p, o)
      /\ \A u \in Thread, q \in Partition : u # t \/ q # p => pending'[u][q] = pending[u][q]
  BY <1>1 DEF Advance, Shape, TypeOK, MaxOffset
<1>4. /\ batch' \in [Thread -> Seq(Buffered)]
      /\ \A u \in Thread : \A i \in DOMAIN batch'[u] :
           \/ i \in DOMAIN batch[u] /\ batch'[u][i] = batch[u][i]
           \/ u = t /\ batch'[u][i] = [part |-> p, off |-> o]
  <2>1. CASE batch' = batch
    BY <2>1 DEF Shape, TypeOK
  <2>2. CASE batch' = [batch EXCEPT ![t] = Append(@, [part |-> p, off |-> o])]
    <3>1. [part |-> p, off |-> o] \in Buffered /\ batch[t] \in Seq(Buffered)
      BY <1>1 DEF Buffered, Shape, TypeOK
    <3>2. batch'[t] = Append(batch[t], [part |-> p, off |-> o])
      BY <2>2 DEF Shape, TypeOK
    <3>3. batch' \in [Thread -> Seq(Buffered)]
      BY <2>2, <3>1 DEF Shape, TypeOK
    <3>4. \A i \in DOMAIN batch'[t] :
            \/ i \in DOMAIN batch[t] /\ batch'[t][i] = batch[t][i]
            \/ batch'[t][i] = [part |-> p, off |-> o]
      BY <3>1, <3>2
    <3>5. \A u \in Thread : u # t => batch'[u] = batch[u]
      BY <2>2 DEF Shape, TypeOK
    <3> QED BY <3>3, <3>4, <3>5
  <2> QED BY <2>1, <2>2 DEF PollValid, PollInvalid
<1>5. TypeOK'
  <2>1. CASE PollValid(t, p)
    BY <2>1, <1>2, <1>3, <1>4 DEF PollValid, Shape, TypeOK, kafkaVars, processVars, historyVars
  <2>2. CASE PollInvalid(t, p)
    <3>1. <<t, p, o>> \in Item
      BY <1>1 DEF Item
    <3>2. /\ dlqQueue' \subseteq Item /\ dropped' \subseteq Item
          /\ budget' \in 0..MaxFaults
      BY <2>2, <3>1, BudgetTyped DEF PollInvalid, SendToDlq, Shape, TypeOK
    <3> QED BY <2>2, <3>2, <1>2, <1>3, <1>4
            DEF PollInvalid, Shape, TypeOK, kafkaVars, processVars
  <2> QED BY <2>1, <2>2
<1>6. InLog'
  <2> SUFFICES ASSUME NEW u \in Thread, NEW q \in Partition
               PROVE  /\ committed'[u][q] <= Len(log'[u][q])
                      /\ position'[u][q] <= Len(log'[u][q])
    BY DEF InLog
  <2>1. committed[u][q] <= Len(log[u][q]) /\ position[u][q] <= Len(log[u][q])
    BY DEF Shape, InLog
  <2>2. /\ committed[u][q] \in Nat /\ position[u][q] \in Nat
        /\ Len(log[u][q]) \in Nat
    BY Numbers DEF Shape
  <2>3. CASE u = t /\ q = p
    BY <2>1, <2>2, <2>3, <1>1, <1>2
  <2>4. CASE u # t \/ q # p
    BY <2>1, <2>2, <2>4, <1>1, <1>2
  <2> QED BY <2>3, <2>4
<1>7. Polled'
  <2>1. ASSUME NEW u \in Thread, NEW q \in Partition
        PROVE  pending'[u][q] < position'[u][q]
    <3>1. pending[u][q] < position[u][q]
      BY DEF Shape, Polled
    <3> QED BY <3>1, <1>1, <1>2, <1>3, Numbers DEF Shape, MaxOffset
  <2>2. ASSUME NEW u \in Thread, NEW q \in Partition
        PROVE  position[u][q] <= position'[u][q]
    <3>1. position[u][q] \in Nat
      BY Numbers DEF Shape
    <3>2. CASE u = t /\ q = p
      BY <3>1, <3>2, <1>2
    <3>3. CASE u # t \/ q # p
      BY <3>1, <3>3, <1>2
    <3> QED BY <3>2, <3>3
  <2>3. ASSUME NEW u \in Thread, NEW i \in DOMAIN batch'[u]
        PROVE  batch'[u][i].off < position'[u][batch'[u][i].part]
    <3>1. CASE i \in DOMAIN batch[u] /\ batch'[u][i] = batch[u][i]
      <4>1. batch[u][i] \in Buffered
        BY <3>1, BatchedMessage
      <4>2. batch[u][i].part \in Partition /\ batch[u][i].off \in Nat
        BY <4>1 DEF Buffered
      <4>3. batch[u][i].off < position[u][batch[u][i].part]
        BY <3>1 DEF Shape, Polled
      <4> DEFINE q == batch[u][i].part
      <4>4. position[u][q] \in Nat /\ position'[u][q] \in Nat
        BY <4>2, <1>2, Numbers DEF Shape
      <4>5. position[u][q] <= position'[u][q]
        BY <4>2, <2>2
      <4> QED BY <3>1, <4>2, <4>3, <4>4, <4>5
    <3>2. CASE u = t /\ batch'[u][i] = [part |-> p, off |-> o]
      BY <3>2, <1>1, <1>2
    <3> QED BY <3>1, <3>2, <1>4
  <2> QED BY <2>1, <2>3 DEF Polled
<1>8. IdleEmpty'
  <2>1. \A u \in Thread : u # t => pending'[u] = pending[u]
    BY <1>1 DEF Advance, Shape, TypeOK
  <2>2. \A u \in Thread : u # t => batch'[u] = batch[u]
    BY DEF PollValid, PollInvalid, Shape, TypeOK
  <2> QED BY <2>1, <2>2, <1>1 DEF Shape, IdleEmpty, NothingPending
<1>9. DownOff'
  BY <1>1 DEF Shape, DownOff, Alive
<1> QED BY <1>5, <1>6, <1>7, <1>8, <1>9 DEF Shape

(* A step that leaves the log, the offsets and the buffers alone keeps     *)
(* Shape, provided it keeps the types and stops no idle thread being idle. *)
LEMMA FrameShape ==
    ASSUME Shape, TypeOK',
           UNCHANGED <<log, committed, position, batch, pending>>,
           \A u \in Thread : pc[u] = "off" => pc'[u] = "off",
           \A u \in Thread : pc'[u] \in {"off", "connecting"} => pc'[u] = pc[u],
           ~Alive' => ~Alive
    PROVE  Shape'
<1>1. InLog' /\ Polled'
  BY DEF Shape, InLog, Polled
<1>2. IdleEmpty'
  BY DEF Shape, IdleEmpty, NothingPending
<1>3. DownOff'
  BY DEF Shape, DownOff
<1> QED BY <1>1, <1>2, <1>3 DEF Shape

(* The thread steps that move control, rows and dead letters only. *)
ControlStep(t) ==
    \/ ConnectFails(t) \/ Flush(t) \/ SeeStop(t) \/ InsertSucceeds(t) \/ InsertFails(t)
    \/ InsertRaises(t) \/ DlqItem(t) \/ DlqItemRaises(t) \/ ConnectionLost(t)
    \/ \E p \in Partition : PollRaises(t, p)

LEMMA ControlStepPc ==
    ASSUME Shape, NEW t \in Thread, ControlStep(t)
    PROVE  /\ pc' \in [Thread -> PC]
           /\ final' \in [Thread -> BOOLEAN]
           /\ pc[t] # "off"
           /\ \A u \in Thread \ {t} : pc'[u] = pc[u]
           /\ pc'[t] \in {"insert", "dlq", "commit", "closed"} \/ pc'[t] = pc[t]
           /\ UNCHANGED <<log, committed, position, batch, pending, proc, timedOut,
                          dlqTopic, skipped>>
<1> USE DEF kafkaVars, processVars, historyVars
<1>1. CASE ConnectFails(t) \/ Flush(t) \/ InsertSucceeds(t)
  BY <1>1 DEF ConnectFails, Flush, InsertSucceeds, FlushEntry, Shape, TypeOK, PC
<1>2. CASE InsertFails(t) \/ DlqItem(t) \/ ConnectionLost(t)
  BY <1>2 DEF InsertFails, DlqItem, ConnectionLost, Shape, TypeOK, PC
<1>3. CASE SeeStop(t) \/ InsertRaises(t) \/ DlqItemRaises(t)
             \/ \E p \in Partition : PollRaises(t, p)
  <2>1. /\ LeaveLoop(t)
        /\ pc[t] # "off"
        /\ UNCHANGED <<log, committed, position, batch, pending, proc, timedOut,
                       dlqTopic, skipped>>
    BY <1>3 DEF SeeStop, InsertRaises, DlqItemRaises, PollRaises, CanPoll
  <2> QED BY <2>1, LeaveLoopTyped DEF Shape
<1> QED BY <1>1, <1>2, <1>3 DEF ControlStep

LEMMA ControlStepShape ==
    ASSUME Shape, NEW t \in Thread, ControlStep(t) PROVE Shape'
<1> USE DEF kafkaVars, processVars, historyVars
<1>1. rows' \subseteq Row
  <2>1. NewRows(t) \subseteq Row /\ rows \subseteq Row
    BY NewRowsTyped DEF Shape, TypeOK
  <2>2. rows' = rows \/ rows' = rows \cup NewRows(t)
    BY DEF ControlStep, ConnectFails, Flush, SeeStop, InsertSucceeds, InsertFails,
           InsertRaises, DlqItem, DlqItemRaises, ConnectionLost, PollRaises
  <2> QED BY <2>1, <2>2
<1>2. budget' \in 0..MaxFaults /\ dlqQueue' \subseteq Item /\ dropped' \subseteq Item
  <2>1. CASE DlqItem(t)
    <3>1. cursor[t] \in DOMAIN batch[t]
      BY <2>1 DEF DlqItem, Shape, TypeOK
    <3>2. ItemOf(t, cursor[t]) \in Item
      BY <3>1, BatchedMessage
    <3> QED BY <2>1, <3>2, BudgetTyped DEF DlqItem, SendToDlq, Shape, TypeOK
  <2>2. CASE ~DlqItem(t)
    <3>1. UNCHANGED <<dlqQueue, dropped>>
      BY <2>2 DEF ControlStep, ConnectFails, Flush, SeeStop, InsertSucceeds, InsertFails,
                  InsertRaises, DlqItemRaises, ConnectionLost, PollRaises
    <3>2. budget' = budget \/ \E k \in Faults : Fault(k)
      BY <2>2 DEF ControlStep, ConnectFails, Flush, SeeStop, InsertSucceeds, InsertFails,
                  InsertRaises, DlqItemRaises, ConnectionLost, PollRaises, DlqQueueFull, Fault
    <3> QED BY <3>1, <3>2, BudgetTyped DEF Shape, TypeOK
  <2> QED BY <2>1, <2>2
<1>3. cursor' \in [Thread -> Nat \ {0}] /\ broken' \subseteq Thread
  <2>1. cursor \in [Thread -> Nat \ {0}] /\ broken \subseteq Thread
    BY DEF Shape, TypeOK
  <2>2. CASE InsertFails(t)
    BY <2>1, <2>2 DEF InsertFails
  <2>3. CASE DlqItem(t)
    BY <2>1, <2>3 DEF DlqItem
  <2>4. CASE ConnectionLost(t)
    BY <2>1, <2>4 DEF ConnectionLost
  <2>5. CASE ~(InsertFails(t) \/ DlqItem(t) \/ ConnectionLost(t))
    <3>1. UNCHANGED <<cursor, broken>>
      BY <2>5 DEF ControlStep, ConnectFails, Flush, SeeStop, InsertSucceeds,
                  InsertRaises, DlqItemRaises, PollRaises
    <3> QED BY <2>1, <3>1
  <2> QED BY <2>2, <2>3, <2>4, <2>5
<1>4. TypeOK'
  BY <1>1, <1>2, <1>3, ControlStepPc DEF Shape, TypeOK
<1> QED BY <1>4, ControlStepPc, FrameShape DEF Alive

(* A commit names offsets below the position only. *)
LEMMA CommitTargetInLog ==
    ASSUME Shape, NEW t \in Thread
    PROVE  /\ CommitTarget(t) \in [Partition -> Nat]
           /\ \A p \in Partition : CommitTarget(t)[p] <= Len(log[t][p])
<1>1. ASSUME NEW p \in Partition
      PROVE  /\ CommitTarget(t)[p] \in Nat
             /\ CommitTarget(t)[p] <= Len(log[t][p])
  <2>1. /\ committed[t][p] \in Nat /\ position[t][p] \in Nat
        /\ pending[t][p] \in Nat \cup {-1} /\ Len(log[t][p]) \in Nat
    BY Numbers DEF Shape
  <2>2. /\ pending[t][p] < position[t][p] /\ position[t][p] <= Len(log[t][p])
        /\ committed[t][p] <= Len(log[t][p])
    BY DEF Shape, InLog, Polled
  <2>3. CASE pending[t][p] = -1
    BY <2>1, <2>2, <2>3 DEF CommitTarget, Absent
  <2>4. CASE pending[t][p] # -1
    BY <2>1, <2>2, <2>4 DEF CommitTarget, Absent
  <2> QED BY <2>3, <2>4
<1> QED BY <1>1 DEF CommitTarget

LEMMA CommitOffsets ==
    ASSUME Shape, NEW t \in Thread,
           committed' \in {committed, [committed EXCEPT ![t] = CommitTarget(t)]},
           log' = log
    PROVE  /\ committed' \in [Thread -> [Partition -> Nat]]
           /\ \A u \in Thread, p \in Partition : committed'[u][p] <= Len(log'[u][p])
<1>1. committed \in [Thread -> [Partition -> Nat]]
  BY DEF Shape, TypeOK
<1>2. \A u \in Thread, p \in Partition : committed[u][p] <= Len(log[u][p])
  BY DEF Shape, InLog
<1>3. CASE committed' = committed
  BY <1>1, <1>2, <1>3
<1>4. CASE committed' = [committed EXCEPT ![t] = CommitTarget(t)]
  BY <1>1, <1>2, <1>4, CommitTargetInLog
<1> QED BY <1>3, <1>4

LEMMA CommitSucceedsShape ==
    ASSUME Shape, NEW t \in Thread, CommitSucceeds(t) PROVE Shape'
<1> USE DEF processVars, historyVars
<1>1. /\ committed' \in [Thread -> [Partition -> Nat]]
      /\ \A u \in Thread, p \in Partition : committed'[u][p] <= Len(log'[u][p])
  BY CommitOffsets DEF CommitSucceeds
<1>2. /\ pc' \in [Thread -> PC]
      /\ batch' \in [Thread -> Seq(Buffered)]
      /\ pc'[t] \in {"closed", "polling"} /\ pc[t] = "commit" /\ batch'[t] = <<>>
      /\ \A u \in Thread \ {t} : pc'[u] = pc[u] /\ batch'[u] = batch[u]
  BY DEF CommitSucceeds, Shape, TypeOK, PC
<1>3. /\ pending' \in [Thread -> [Partition -> Nat \cup {Absent}]]
      /\ pending'[t] = NothingPending
      /\ \A u \in Thread \ {t} : pending'[u] = pending[u]
  BY DEF CommitSucceeds, Shape, TypeOK, NothingPending
<1>4. TypeOK'
  BY <1>1, <1>2, <1>3 DEF CommitSucceeds, Shape, TypeOK
<1>5. InLog'
  BY <1>1 DEF CommitSucceeds, Shape, InLog
<1>6. Polled'
  <2>1. \A p \in Partition : pending'[t][p] = -1 /\ position[t][p] \in Nat
    BY <1>3, Numbers DEF NothingPending, Absent, Shape
  <2>2. position' = position
    BY DEF CommitSucceeds
  <2>3. \A u \in Thread, p \in Partition : pending'[u][p] < position'[u][p]
    BY <1>3, <2>1, <2>2 DEF Shape, Polled
  <2>4. \A u \in Thread : \A i \in DOMAIN batch'[u] :
           batch'[u][i].off < position'[u][batch'[u][i].part]
    BY <1>2, <2>2 DEF Shape, Polled
  <2> QED BY <2>3, <2>4 DEF Polled
<1>7. IdleEmpty' /\ DownOff'
  BY <1>2, <1>3 DEF CommitSucceeds, Shape, IdleEmpty, DownOff, Alive, NothingPending
<1> QED BY <1>4, <1>5, <1>6, <1>7 DEF Shape

LEMMA CommitFailsShape ==
    ASSUME Shape, NEW t \in Thread, CommitFails(t) PROVE Shape'
<1> USE DEF processVars, historyVars
<1>1. /\ committed' \in [Thread -> [Partition -> Nat]]
      /\ \A u \in Thread, p \in Partition : committed'[u][p] <= Len(log'[u][p])
  BY CommitOffsets DEF CommitFails
<1>2. /\ pc' \in [Thread -> PC] /\ final' \in [Thread -> BOOLEAN]
      /\ pc[t] = "commit" /\ pc'[t] \in {"insert", "commit", "closed"}
      /\ \A u \in Thread \ {t} : pc'[u] = pc[u]
  BY LeaveLoopTyped DEF CommitFails, Shape
<1>3. budget' \in 0..MaxFaults
  BY BudgetTyped DEF CommitFails, Shape, TypeOK
<1>4. TypeOK'
  BY <1>1, <1>2, <1>3 DEF CommitFails, Shape, TypeOK
<1>5. InLog' /\ Polled'
  BY <1>1 DEF CommitFails, Shape, InLog, Polled
<1>6. IdleEmpty' /\ DownOff'
  BY <1>2 DEF CommitFails, Shape, IdleEmpty, DownOff, Alive, NothingPending
<1> QED BY <1>4, <1>5, <1>6 DEF Shape

LEMMA DlqShape ==
    ASSUME Shape, DlqDeliver \/ DlqExpires PROVE Shape'
<1> USE DEF kafkaVars, processVars, threadVars, historyVars
<1>1. TypeOK'
  <2>1. CASE DlqDeliver
    BY <2>1 DEF DlqDeliver, Shape, TypeOK
  <2>2. CASE DlqExpires
    <3>1. budget' \in 0..MaxFaults
      BY <2>2, BudgetTyped DEF DlqExpires, Shape, TypeOK
    <3> QED BY <2>2, <3>1 DEF DlqExpires, Shape, TypeOK
  <2> QED BY <2>1, <2>2
<1> QED BY <1>1, FrameShape DEF DlqDeliver, DlqExpires, Alive

LEMMA StartShape == ASSUME Shape, Start PROVE Shape'
<1> USE DEF Start, kafkaVars, threadVars, historyVars
<1>1. TypeOK'
  BY DEF Shape, TypeOK, PC, Proc
<1>2. InLog' /\ Polled'
  BY DEF Shape, InLog, Polled
<1>3. \A t \in Thread : pc[t] = "off"
  BY DEF Shape, DownOff, Alive
<1>4. IdleEmpty'
  BY <1>3 DEF Shape, IdleEmpty, NothingPending
<1> QED BY <1>1, <1>2, <1>4 DEF Shape, DownOff, Alive

LEMMA MainShape ==
    ASSUME Shape, Signal \/ JoinReturns \/ FinalDlqFlush PROVE Shape'
<1> USE DEF kafkaVars, threadVars, historyVars
<1>1. proc' \in Proc /\ timedOut' \in BOOLEAN /\ Alive'
  BY DEF Signal, JoinReturns, FinalDlqFlush, Shape, TypeOK, Proc, Alive
<1>2. dlqTopic' \subseteq Item /\ dlqQueue' \subseteq Item
  BY DEF Signal, JoinReturns, FinalDlqFlush, Shape, TypeOK
<1>3. budget' \in 0..MaxFaults
  BY BudgetTyped DEF Signal, JoinReturns, FinalDlqFlush, Shape, TypeOK
<1>4. UNCHANGED <<log, committed, rows, threadVars, historyVars>>
  BY DEF Signal, JoinReturns, FinalDlqFlush
<1>5. TypeOK'
  BY <1>1, <1>2, <1>3, <1>4 DEF Shape, TypeOK
<1> QED BY <1>1, <1>4, <1>5, FrameShape

LEMMA VanishShape ==
    ASSUME Shape, Vanish, proc' \in Proc, budget' \in 0..MaxFaults PROVE Shape'
<1> USE DEF Vanish, kafkaVars
<1>1. \A t \in Thread : <<>> \in Seq(Buffered)
  OBVIOUS
<1>2. batch' \in [Thread -> Seq(Buffered)]
  BY <1>1
<1>3. /\ pending' \in [Thread -> [Partition -> Nat \cup {Absent}]]
      /\ position' \in [Thread -> [Partition -> Nat]]
      /\ cursor' \in [Thread -> Nat \ {0}]
  BY DEF NothingPending
<1>4. TypeOK'
  BY <1>2, <1>3 DEF Shape, TypeOK, PC
<1>5. \A t \in Thread, p \in Partition :
         pending'[t][p] = -1 /\ position'[t][p] = 0 /\ Len(log'[t][p]) \in Nat
  BY <1>4 DEF NothingPending, Absent, TypeOK
<1>6. InLog' /\ Polled'
  BY <1>5 DEF Shape, InLog, Polled
<1>7. IdleEmpty' /\ DownOff'
  BY DEF IdleEmpty, DownOff, NothingPending
<1> QED BY <1>4, <1>6, <1>7 DEF Shape

LEMMA ExitShape == ASSUME Shape, Exit \/ Kill PROVE Shape'
<1>1. CASE Exit
  BY <1>1, VanishShape DEF Exit, Proc, Shape, TypeOK
<1>2. CASE Kill
  <2>1. budget' \in 0..MaxFaults
    BY <1>2, BudgetTyped DEF Kill, Shape, TypeOK
  <2> QED BY <1>2, <2>1, VanishShape DEF Kill, Proc
<1> QED BY <1>1, <1>2

LEMMA ReplayShape ==
    ASSUME Shape, NEW t \in Thread, NEW p \in Partition, Replay(t, p) PROVE Shape'
<1> USE DEF processVars, threadVars
<1>1. PICK o \in 0..Len(log[t][p]) :
        /\ Fault("replay")
        /\ committed' = [committed EXCEPT ![t][p] = o]
        /\ skipped' = skipped \cup {<<t, p, q>> : q \in committed[t][p]..(o - 1)}
        /\ UNCHANGED <<log, dlqTopic, rows, processVars, dlqQueue, threadVars, dropped>>
  BY DEF Replay
<1>2. committed[t][p] \in Nat /\ Len(log[t][p]) \in Nat
  BY Numbers DEF Shape
<1>3. o \in Nat /\ o <= Len(log[t][p])
  BY <1>2
<1>4. \A q \in committed[t][p]..(o - 1) : <<t, p, q>> \in Item
  BY <1>2, <1>3 DEF Item
<1>5. skipped' \subseteq Item /\ budget' \in 0..MaxFaults
  BY <1>1, <1>4, BudgetTyped DEF Shape, TypeOK
<1>6. TypeOK'
  BY <1>1, <1>3, <1>5 DEF Shape, TypeOK
<1>7. InLog'
  BY <1>1, <1>3 DEF Shape, TypeOK, InLog
<1>8. Polled' /\ IdleEmpty' /\ DownOff'
  BY <1>1 DEF Shape, Polled, IdleEmpty, DownOff, Alive, NothingPending
<1> QED BY <1>6, <1>7, <1>8 DEF Shape

LEMMA ShapeStutter == ASSUME Shape, UNCHANGED vars PROVE Shape'
<1>1. UNCHANGED <<log, committed, dlqTopic, rows, proc, timedOut, dlqQueue, pc, final,
                  position, batch, pending, cursor, broken, dropped, skipped, budget>>
  BY DEF vars, kafkaVars, processVars, threadVars, historyVars
<1>2. TypeOK'
  BY <1>1 DEF Shape, TypeOK
<1> QED BY <1>1, <1>2, FrameShape DEF Alive

LEMMA ShapeStep == ASSUME Shape, [Next]_vars PROVE Shape'
<1>1. ASSUME NEW t \in Thread, ThreadStep(t) \/ ConnectFails(t) \/ ConnectionLost(t)
      PROVE  Shape'
  <2>1. CASE ControlStep(t)
    BY <2>1, ControlStepShape
  <2>2. CASE Connect(t) \/ CommitSucceeds(t) \/ CommitFails(t)
    BY <2>2, ConnectShape, CommitSucceedsShape, CommitFailsShape
  <2>3. CASE \E p \in Partition : PollValid(t, p) \/ PollInvalid(t, p)
    BY <2>3, PollShape
  <2> QED BY <1>1, <2>1, <2>2, <2>3 DEF ThreadStep, ControlStep
<1> QED BY <1>1, DlqShape, StartShape, MainShape, ExitShape, ReplayShape, ShapeStutter
        DEF Next

(* The types hold, offsets stay inside the logs, and idle threads and      *)
(* stopped processes hold nothing.                                         *)
THEOREM ShapeInvariant == Spec => []Shape
BY ShapeInit, ShapeStep, PTL DEF Spec

(* Type correctness for every instance. *)
THEOREM TypeCorrect == Spec => []TypeOK
<1>1. Shape => TypeOK
  BY DEF Shape
<1> QED BY <1>1, ShapeInvariant, PTL
-----------------------------------------------------------------------------
(***************************************************************************)
(* Nothing the ingestor commits is forgotten.                              *)
(***************************************************************************)
(* The dead letters, wherever they are now. *)
Parked == dlqTopic \cup dlqQueue \cup dropped \cup skipped

InBatch(t, p, o) == [part |-> p, off |-> o] \in {batch[t][i] : i \in DOMAIN batch[t]}

SettledItem(t, i) == Settled(t, batch[t][i].part, batch[t][i].off)

Joined(t) == pc[t] \notin {"off", "connecting", "closed"}

(* Whatever a running thread has polled is settled or in its batch. *)
Accounted ==
    \A t \in Thread, p \in Partition : Joined(t) =>
        \A o \in 0..(position[t][p] - 1) : Settled(t, p, o) \/ InBatch(t, p, o)

(* A flush settles the batch item by item before it commits. *)
FlushProgress ==
    \A t \in Thread : \A i \in DOMAIN batch[t] :
        (pc[t] = "commit" \/ (pc[t] = "dlq" /\ i < cursor[t])) => SettledItem(t, i)

(* What a running thread may commit next is not behind what is committed. *)
Forward ==
    \A t \in Thread, p \in Partition : Joined(t) =>
        /\ committed[t][p] <= position[t][p]
        /\ pending[t][p] # Absent => committed[t][p] <= pending[t][p] + 1

Account == NoUnsettledCommit /\ Accounted /\ FlushProgress /\ Forward

----------------------------------------------------------------------------
(* What every step does to the settled messages. *)

Grows == log' = log /\ rows \subseteq rows' /\ Parked \subseteq Parked'

LEMMA ThreadGrows ==
    ASSUME NEW t \in Thread, ThreadStep(t) \/ ConnectFails(t) \/ ConnectionLost(t)
    PROVE  Grows
<1> USE DEF Grows, Parked, kafkaVars, historyVars
<1>1. CASE Connect(t) \/ Flush(t) \/ SeeStop(t) \/ InsertRaises(t) \/ DlqItemRaises(t)
            \/ ConnectFails(t) \/ ConnectionLost(t)
            \/ \E p \in Partition : PollRaises(t, p)
  BY <1>1 DEF Connect, Flush, SeeStop, InsertRaises, DlqItemRaises, ConnectFails,
              ConnectionLost, PollRaises
<1>2. CASE InsertSucceeds(t) \/ InsertFails(t) \/ \E p \in Partition : PollValid(t, p)
  BY <1>2 DEF InsertSucceeds, InsertFails, PollValid
<1>3. CASE DlqItem(t) \/ \E p \in Partition : PollInvalid(t, p)
  BY <1>3 DEF DlqItem, PollInvalid, SendToDlq
<1>4. CASE CommitSucceeds(t) \/ CommitFails(t)
  BY <1>4 DEF CommitSucceeds, CommitFails
<1> QED BY <1>1, <1>2, <1>3, <1>4 DEF ThreadStep

(* Rows are never deleted and a dead letter only changes its place. *)
LEMMA StepGrows == ASSUME [Next]_vars PROVE Grows
<1> USE DEF Grows, Parked, kafkaVars, historyVars
<1>1. CASE DlqDeliver \/ DlqExpires
  BY <1>1 DEF DlqDeliver, DlqExpires
<1>2. CASE Start \/ Signal \/ JoinReturns \/ FinalDlqFlush
  BY <1>2 DEF Start, Signal, JoinReturns, FinalDlqFlush
<1>3. CASE Exit \/ Kill
  BY <1>3 DEF Exit, Kill, Vanish
<1>4. CASE \E t \in Thread, p \in Partition : Replay(t, p)
  BY <1>4 DEF Replay
<1>5. CASE UNCHANGED vars
  BY <1>5 DEF vars
<1> QED BY <1>1, <1>2, <1>3, <1>4, <1>5, ThreadGrows DEF Next

(* A settled message stays settled. *)
LEMMA SettledStable ==
    ASSUME Grows, NEW t, NEW p, NEW o, Settled(t, p, o)
    PROVE  Settled(t, p, o)'
BY DEF Grows, Parked, Settled, StoredIds, MessageAt

----------------------------------------------------------------------------
(* Account is preserved by each action. *)

(* A step that leaves offsets and buffers alone has only its flushes to    *)
(* answer for.                                                             *)
LEMMA FrameAccount ==
    ASSUME Account, Grows,
           UNCHANGED <<committed, position, batch, pending>>,
           \A u \in Thread : Joined(u)' => Joined(u),
           \A u \in Thread : \A i \in DOMAIN batch[u] :
              (pc'[u] = "commit" \/ (pc'[u] = "dlq" /\ i < cursor'[u]))
                  => SettledItem(u, i)'
    PROVE  Account'
<1>1. NoUnsettledCommit'
  BY SettledStable DEF Account, NoUnsettledCommit
<1>2. Accounted'
  BY SettledStable DEF Account, Accounted, InBatch
<1>3. FlushProgress'
  BY DEF FlushProgress
<1>4. Forward'
  BY DEF Account, Forward
<1> QED BY <1>1, <1>2, <1>3, <1>4 DEF Account

(* The flushes of the threads a step does not move. *)
LEMMA OtherFlushes ==
    ASSUME Account, Grows, NEW u \in Thread,
           pc'[u] = pc[u], cursor'[u] = cursor[u], batch'[u] = batch[u]
    PROVE  \A i \in DOMAIN batch'[u] :
              (pc'[u] = "commit" \/ (pc'[u] = "dlq" /\ i < cursor'[u]))
                  => SettledItem(u, i)'
BY SettledStable DEF Account, FlushProgress, SettledItem

LEMMA InitAccount == Init => Account
<1> SUFFICES ASSUME Init PROVE Account OBVIOUS
<1>1. \A t \in Thread, p \in Partition : committed[t][p] = 0
  BY DEF Init
<1>2. NoUnsettledCommit
  BY <1>1 DEF NoUnsettledCommit
<1>3. Accounted /\ FlushProgress /\ Forward
  BY DEF Init, Accounted, FlushProgress, Forward, Joined
<1> QED BY <1>2, <1>3 DEF Account

LEMMA ConnectAccount ==
    ASSUME Shape, Account, Grows, NEW t \in Thread, Connect(t) PROVE Account'
<1>1. /\ pc[t] = "connecting" /\ pc'[t] = "polling"
      /\ \A u \in Thread \ {t} : pc'[u] = pc[u] /\ position'[u] = position[u]
      /\ position'[t] = committed[t]
      /\ UNCHANGED <<committed, batch, pending, cursor>>
  BY DEF Connect, Shape, TypeOK, kafkaVars
<1>2. batch[t] = <<>> /\ \A p \in Partition : pending[t][p] = Absent
  BY <1>1 DEF Shape, IdleEmpty, NothingPending
<1>3. NoUnsettledCommit'
  BY <1>1, SettledStable DEF Account, NoUnsettledCommit
<1>4. Accounted'
  <2> SUFFICES ASSUME NEW u \in Thread, NEW p \in Partition, Joined(u)',
                      NEW o \in 0..(position'[u][p] - 1)
               PROVE  Settled(u, p, o)' \/ InBatch(u, p, o)'
    BY DEF Accounted
  <2>1. CASE u = t
    BY <2>1, <1>1, <1>3 DEF NoUnsettledCommit
  <2>2. CASE u # t
    BY <2>2, <1>1, SettledStable DEF Account, Accounted, Joined, InBatch
  <2> QED BY <2>1, <2>2
<1>5. FlushProgress'
  BY <1>1, OtherFlushes DEF FlushProgress
<1>6. Forward'
  <2> SUFFICES ASSUME NEW u \in Thread, NEW p \in Partition, Joined(u)'
               PROVE  /\ committed'[u][p] <= position'[u][p]
                      /\ pending'[u][p] # Absent => committed'[u][p] <= pending'[u][p] + 1
    BY DEF Forward
  <2>1. CASE u = t
    BY <2>1, <1>1, <1>2, Numbers DEF Shape
  <2>2. CASE u # t
    BY <2>2, <1>1 DEF Account, Forward, Joined
  <2> QED BY <2>1, <2>2
<1> QED BY <1>3, <1>4, <1>5, <1>6 DEF Account

(* The message a poll takes is settled or buffered, and so is what was     *)
(* polled before it.                                                       *)
LEMMA PollAccount ==
    ASSUME Shape, Shape', Account, Grows, NEW t \in Thread, NEW p \in Partition,
           PollValid(t, p) \/ PollInvalid(t, p)
    PROVE  Account'
<1>0. PICK o \in Nat : o = position[t][p]
  BY Numbers DEF Shape
<1>1. /\ pc[t] = "polling" /\ o < Len(log[t][p]) /\ o = position[t][p]
      /\ Advance(t, p)
      /\ UNCHANGED <<log, committed, pc, cursor>>
  BY <1>0 DEF PollValid, PollInvalid, CanPoll, Shape, TypeOK, kafkaVars
<1>2. /\ position'[t][p] = o + 1
      /\ \A u \in Thread, q \in Partition : u # t \/ q # p => position'[u][q] = position[u][q]
  BY <1>1 DEF Advance, Shape, TypeOK
<1>3. /\ pending'[t][p] = MaxOffset(t, p, o)
      /\ \A u \in Thread, q \in Partition : u # t \/ q # p => pending'[u][q] = pending[u][q]
  BY <1>1 DEF Advance, Shape, TypeOK, MaxOffset
<1>4. \A u \in Thread : u # t => batch'[u] = batch[u]
  BY DEF PollValid, PollInvalid, Shape, TypeOK
<1>5. \A i \in DOMAIN batch[t] : i \in DOMAIN batch'[t] /\ batch'[t][i] = batch[t][i]
  <2>1. batch[t] \in Seq(Buffered)
    BY DEF Shape, TypeOK
  <2>2. CASE PollValid(t, p)
    <3>1. [part |-> p, off |-> o] \in Buffered
      BY <1>1 DEF Buffered
    <3>2. batch'[t] = Append(batch[t], [part |-> p, off |-> o])
      BY <2>2, <1>0 DEF PollValid, Shape, TypeOK
    <3> QED BY <2>1, <3>1, <3>2
  <2>3. CASE PollInvalid(t, p)
    BY <2>3 DEF PollInvalid
  <2> QED BY <2>2, <2>3
<1>6. Settled(t, p, o)' \/ InBatch(t, p, o)'
  <2>1. CASE PollValid(t, p)
    <3>1. [part |-> p, off |-> o] \in Buffered /\ batch[t] \in Seq(Buffered)
      BY <1>1 DEF Buffered, Shape, TypeOK
    <3>2. batch'[t] = Append(batch[t], [part |-> p, off |-> o])
      BY <2>1, <1>0 DEF PollValid, Shape, TypeOK
    <3>3. /\ Len(batch[t]) + 1 \in DOMAIN batch'[t]
          /\ batch'[t][Len(batch[t]) + 1] = [part |-> p, off |-> o]
      BY <3>1, <3>2
    <3> QED BY <3>3 DEF InBatch
  <2>2. CASE PollInvalid(t, p)
    BY <2>2, <1>0 DEF PollInvalid, SendToDlq, Settled
  <2> QED BY <2>1, <2>2
<1>7. NoUnsettledCommit'
  BY <1>1, SettledStable DEF Account, NoUnsettledCommit
<1>8. Accounted'
  <2> SUFFICES ASSUME NEW u \in Thread, NEW q \in Partition, Joined(u)',
                      NEW x \in 0..(position'[u][q] - 1)
               PROVE  Settled(u, q, x)' \/ InBatch(u, q, x)'
    BY DEF Accounted
  <2>1. CASE u = t /\ q = p /\ x = o
    BY <2>1, <1>6
  <2>2. CASE ~(u = t /\ q = p /\ x = o)
    <3>1. x \in 0..(position[u][q] - 1)
      <4>1. position[u][q] \in Nat
        BY Numbers DEF Shape
      <4>2. CASE u = t /\ q = p
        BY <4>2, <2>2, <1>1, <1>2
      <4>3. CASE u # t \/ q # p
        BY <4>3, <1>2
      <4> QED BY <4>2, <4>3
    <3>2. Settled(u, q, x) \/ InBatch(u, q, x)
      BY <3>1, <1>1 DEF Account, Accounted, Joined
    <3>3. InBatch(u, q, x) => InBatch(u, q, x)'
      BY <1>4, <1>5 DEF InBatch
    <3> QED BY <3>2, <3>3, SettledStable
  <2> QED BY <2>1, <2>2
<1>9. FlushProgress'
  <2> SUFFICES ASSUME NEW u \in Thread, NEW i \in DOMAIN batch'[u],
                      pc'[u] = "commit" \/ (pc'[u] = "dlq" /\ i < cursor'[u])
               PROVE  SettledItem(u, i)'
    BY DEF FlushProgress
  <2>1. u # t
    BY <1>1
  <2> QED BY <2>1, <1>1, <1>4, OtherFlushes
<1>10. Forward'
  <2> SUFFICES ASSUME NEW u \in Thread, NEW q \in Partition, Joined(u)'
               PROVE  /\ committed'[u][q] <= position'[u][q]
                      /\ pending'[u][q] # Absent => committed'[u][q] <= pending'[u][q] + 1
    BY DEF Forward
  <2>1. /\ committed[u][q] <= position[u][q]
        /\ pending[u][q] # Absent => committed[u][q] <= pending[u][q] + 1
    BY <1>1 DEF Account, Forward, Joined
  <2>2. committed[u][q] \in Nat /\ position[u][q] \in Nat /\ pending[u][q] \in Nat \cup {-1}
    BY Numbers DEF Shape
  <2>3. CASE u = t /\ q = p
    <3>1. committed'[u][q] <= position'[u][q]
      BY <2>1, <2>2, <2>3, <1>1, <1>2
    <3>2. pending'[u][q] >= o
      BY <2>2, <2>3, <1>1, <1>3 DEF MaxOffset
    <3>3. pending'[u][q] \in Nat
      BY <2>2, <2>3, <1>1, <1>3 DEF MaxOffset
    <3> QED BY <3>1, <3>2, <3>3, <2>1, <2>2, <2>3, <1>1
  <2>4. CASE u # t \/ q # p
    BY <2>1, <2>4, <1>1, <1>2, <1>3
  <2> QED BY <2>3, <2>4
<1> QED BY <1>7, <1>8, <1>9, <1>10 DEF Account

(* The steps that can bring a thread to its commit or along its dead       *)
(* letters keep FlushProgress.                                             *)
LEMMA LeaveLoopFlush ==
    ASSUME Shape, NEW t \in Thread, LeaveLoop(t), NEW i \in DOMAIN batch[t]
    PROVE  pc'[t] \in {"insert", "closed"}
<1>1. batch[t] # <<>>
  BY DEF Shape, TypeOK
<1> QED BY <1>1 DEF LeaveLoop, FlushEntry, Shape, TypeOK

LEMMA SmallestNat ==
    ASSUME NEW S, S \subseteq Nat, S # {}
    PROVE  \E m \in S : \A k \in S : m <= k
<1> DEFINE R == OpToRel(<, Nat)
<1>1. \E m \in S : \A k \in S : ~(<<k, m>> \in R)
  <2>1. IsWellFoundedOn(R, Nat)
    BY NatLessThanWellFounded
  <2> HIDE DEF R
  <2> QED BY <2>1, WFMin
<1>2. ASSUME NEW k \in Nat, NEW m \in Nat, k < m PROVE <<k, m>> \in R
  BY <1>2 DEF OpToRel
<1> HIDE DEF R
<1>3. PICK m \in S : \A k \in S : ~(<<k, m>> \in R)
  BY <1>1
<1>4. ASSUME NEW k \in S PROVE m <= k
  <2>1. k \in Nat /\ m \in Nat
    OBVIOUS
  <2>2. ~(<<k, m>> \in R)
    BY <1>3
  <2>3. ~(k < m)
    BY <2>1, <2>2, <1>2
  <2> QED BY <2>1, <2>3
<1> QED BY <1>4

(* A successful INSERT leaves every event_id of the batch in the table:    *)
(* the row is new, or it was there, or an earlier item of the batch has    *)
(* the same event_id.                                                      *)
LEMMA InsertSettles ==
    ASSUME Shape, NEW t \in Thread, rows' = rows \cup NewRows(t),
           log' = log, batch' = batch, NEW i \in DOMAIN batch[t]
    PROVE  SettledItem(t, i)'
<1> DEFINE Same == {j \in DOMAIN batch[t] : IdOf(t, j) = IdOf(t, i)}
<1>1. batch[t] \in Seq(Buffered)
  BY DEF Shape, TypeOK
<1>2. PICK n \in Nat : DOMAIN batch[t] = 1..n
  BY <1>1
<1>3. IdOf(t, i) \in StoredIds(t)'
  <2>1. CASE IdOf(t, i) \in StoredIds(t)
    BY <2>1 DEF StoredIds
  <2>2. CASE IdOf(t, i) \notin StoredIds(t)
    <3>1. PICK j \in Same : \A k \in Same : j <= k
      <4>1. Same \subseteq Nat /\ i \in Same
        BY <1>2
      <4> QED BY <4>1, SmallestNat
    <3>2. \A k \in 1..(j - 1) : IdOf(t, k) # IdOf(t, j)
      BY <3>1, <1>2
    <3>3. [table |-> t, id |-> IdOf(t, j),
           part |-> batch[t][j].part, off |-> batch[t][j].off] \in NewRows(t)
      BY <2>2, <3>1, <3>2 DEF NewRows
    <3> QED BY <3>1, <3>3 DEF StoredIds
  <2> QED BY <2>1, <2>2
<1> QED BY <1>3 DEF SettledItem, Settled, IdOf, MessageAt

LEMMA ControlAccount ==
    ASSUME Shape, Account, Grows, NEW t \in Thread, ControlStep(t)
    PROVE  Account'
<1>1. /\ \A u \in Thread \ {t} : pc'[u] = pc[u]
      /\ pc'[t] \in {"insert", "dlq", "commit", "closed"} \/ pc'[t] = pc[t]
      /\ UNCHANGED <<log, committed, position, batch, pending>>
  BY ControlStepPc
<1>2. ConnectFails(t) \/ Joined(t)
  BY DEF ControlStep, Flush, SeeStop, InsertSucceeds, InsertFails, InsertRaises, DlqItem,
         DlqItemRaises, ConnectionLost, PollRaises, CanPoll, Joined
<1>3. \A u \in Thread : Joined(u)' => Joined(u)
  <2>1. CASE ConnectFails(t)
    BY <2>1, <1>1 DEF ConnectFails, Joined, Shape, TypeOK
  <2>2. CASE Joined(t)
    BY <2>2, <1>1 DEF Joined
  <2> QED BY <2>1, <2>2, <1>2
<1>4. \A u \in Thread \ {t} : cursor'[u] = cursor[u]
  BY DEF ControlStep, ConnectFails, Flush, SeeStop, InsertSucceeds, InsertFails,
         InsertRaises, DlqItem, DlqItemRaises, ConnectionLost, PollRaises, Shape, TypeOK
<1>5. ASSUME NEW i \in DOMAIN batch[t],
             pc'[t] = "commit" \/ (pc'[t] = "dlq" /\ i < cursor'[t])
      PROVE  SettledItem(t, i)'
  <2>1. CASE ConnectFails(t)
    BY <2>1, <1>5 DEF ConnectFails, Shape, TypeOK
  <2>2. CASE Flush(t)
    BY <2>2, <1>5 DEF Flush, FlushEntry, Shape, TypeOK
  <2>3. CASE SeeStop(t) \/ InsertRaises(t) \/ DlqItemRaises(t)
             \/ \E p \in Partition : PollRaises(t, p)
    <3>1. LeaveLoop(t)
      BY <2>3 DEF SeeStop, InsertRaises, DlqItemRaises, PollRaises
    <3> QED BY <3>1, <1>5, LeaveLoopFlush
  <2>4. CASE InsertSucceeds(t)
    BY <2>4, <1>1, InsertSettles DEF InsertSucceeds
  <2>5. CASE InsertFails(t)
    <3>1. pc'[t] = "dlq" /\ cursor'[t] = 1
      BY <2>5 DEF InsertFails, Shape, TypeOK
    <3>2. i \in Nat /\ i >= 1
      BY DEF Shape, TypeOK
    <3> QED BY <3>1, <3>2, <1>5
  <2>6. CASE DlqItem(t)
    <3>1. /\ pc[t] = "dlq" /\ cursor[t] \in Nat /\ cursor'[t] = cursor[t] + 1
          /\ cursor[t] <= Len(batch[t])
          /\ pc'[t] = IF cursor[t] = Len(batch[t]) THEN "commit" ELSE "dlq"
      BY <2>6 DEF DlqItem, Shape, TypeOK
    <3>2. i \in Nat /\ i <= Len(batch[t]) /\ Len(batch[t]) \in Nat
      BY DEF Shape, TypeOK
    <3>3. i <= cursor[t]
      BY <3>1, <3>2, <1>5
    <3>4. CASE i = cursor[t]
      <4>1. ItemOf(t, i) \in dlqQueue' \cup dropped'
        BY <2>6, <3>4 DEF DlqItem, SendToDlq
      <4> QED BY <4>1, <1>1 DEF ItemOf, SettledItem, Settled
    <3>5. CASE i < cursor[t]
      <4>1. SettledItem(t, i)
        BY <3>1, <3>5 DEF Account, FlushProgress
      <4> QED BY <4>1, <1>1, SettledStable DEF SettledItem
    <3> QED BY <3>1, <3>2, <3>3, <3>4, <3>5
  <2>7. CASE ConnectionLost(t)
    <3>1. SettledItem(t, i)
      BY <2>7, <1>5 DEF ConnectionLost, Account, FlushProgress
    <3> QED BY <3>1, <1>1, SettledStable DEF SettledItem
  <2> QED BY <2>1, <2>2, <2>3, <2>4, <2>5, <2>6, <2>7 DEF ControlStep
<1>6. ASSUME NEW u \in Thread, NEW i \in DOMAIN batch[u],
             pc'[u] = "commit" \/ (pc'[u] = "dlq" /\ i < cursor'[u])
      PROVE  SettledItem(u, i)'
  <2>1. CASE u = t
    BY <2>1, <1>5, <1>6
  <2>2. CASE u # t
    BY <2>2, <1>1, <1>4, <1>6, OtherFlushes
  <2> QED BY <2>1, <2>2
<1> QED BY <1>1, <1>3, <1>6, FrameAccount

(* What a flush is about to commit is settled, and not behind.             *)
LEMMA CommitTargetSettled ==
    ASSUME Shape, Account, NEW t \in Thread, pc[t] = "commit", NEW p \in Partition
    PROVE  /\ \A o \in 0..(CommitTarget(t)[p] - 1) : Settled(t, p, o)
           /\ committed[t][p] <= CommitTarget(t)[p]
           /\ CommitTarget(t)[p] <= position[t][p]
           /\ pending[t][p] # Absent => CommitTarget(t)[p] = pending[t][p] + 1
<1>1. /\ committed[t][p] \in Nat /\ position[t][p] \in Nat
      /\ pending[t][p] \in Nat \cup {-1}
  BY Numbers DEF Shape
<1>2. /\ committed[t][p] <= position[t][p]
      /\ pending[t][p] # Absent => committed[t][p] <= pending[t][p] + 1
      /\ pending[t][p] < position[t][p]
  BY DEF Account, Forward, Joined, Shape, Polled
<1>3. CASE pending[t][p] = Absent
  <2>1. CommitTarget(t)[p] = committed[t][p]
    BY <1>3 DEF CommitTarget
  <2> QED BY <2>1, <1>1, <1>2, <1>3 DEF Account, NoUnsettledCommit
<1>4. CASE pending[t][p] # Absent
  <2>1. CommitTarget(t)[p] = pending[t][p] + 1 /\ pending[t][p] \in Nat
    BY <1>1, <1>4 DEF CommitTarget, Absent
  <2>2. ASSUME NEW o \in 0..(CommitTarget(t)[p] - 1) PROVE Settled(t, p, o)
    <3>1. o \in 0..(position[t][p] - 1)
      BY <1>1, <1>2, <2>1
    <3>2. Settled(t, p, o) \/ InBatch(t, p, o)
      BY <3>1 DEF Account, Accounted, Joined
    <3>3. CASE InBatch(t, p, o)
      <4>1. PICK i \in DOMAIN batch[t] : batch[t][i] = [part |-> p, off |-> o]
        BY <3>3 DEF InBatch
      <4>2. SettledItem(t, i)
        BY DEF Account, FlushProgress
      <4> QED BY <4>1, <4>2 DEF SettledItem
    <3> QED BY <3>2, <3>3
  <2> QED BY <2>1, <2>2, <1>1, <1>2, <1>4
<1> QED BY <1>3, <1>4

LEMMA CommitAccount ==
    ASSUME Shape, Account, Grows, NEW t \in Thread, CommitSucceeds(t) \/ CommitFails(t)
    PROVE  Account' /\ \A u \in Thread, p \in Partition : committed[u][p] <= committed'[u][p]
<1>1. /\ pc[t] = "commit"
      /\ \/ committed' = committed
         \/ committed' = [committed EXCEPT ![t] = CommitTarget(t)]
      /\ \A u \in Thread \ {t} : /\ pc'[u] = pc[u] /\ batch'[u] = batch[u]
                                 /\ pending'[u] = pending[u]
      /\ UNCHANGED <<position, cursor>>
  BY DEF CommitSucceeds, CommitFails, LeaveLoop, Shape, TypeOK
<1>2. \A u \in Thread, p \in Partition :
         \/ committed'[u][p] = committed[u][p]
         \/ u = t /\ committed'[u][p] = CommitTarget(t)[p]
  BY <1>1 DEF Shape, TypeOK
<1>3. \/ batch'[t] = batch[t] /\ pending'[t] = pending[t]
      \/ batch'[t] = <<>> /\ pending'[t] = NothingPending
  BY DEF CommitSucceeds, CommitFails, Shape, TypeOK
<1>4. NoUnsettledCommit'
  BY <1>1, <1>2, CommitTargetSettled, SettledStable DEF Account, NoUnsettledCommit
<1>5. Accounted'
  <2> SUFFICES ASSUME NEW u \in Thread, NEW p \in Partition, Joined(u)',
                      NEW o \in 0..(position[u][p] - 1)
               PROVE  Settled(u, p, o)' \/ InBatch(u, p, o)'
    BY <1>1 DEF Accounted
  <2>1. Settled(u, p, o) \/ InBatch(u, p, o)
    BY <1>1 DEF Account, Accounted, Joined
  <2>2. CASE u = t
    <3>1. ASSUME InBatch(u, p, o) PROVE Settled(u, p, o)
      <4>1. PICK i \in DOMAIN batch[t] : batch[t][i] = [part |-> p, off |-> o]
        BY <3>1, <2>2 DEF InBatch
      <4>2. SettledItem(t, i)
        BY <1>1 DEF Account, FlushProgress
      <4> QED BY <4>1, <4>2, <2>2 DEF SettledItem
    <3> QED BY <3>1, <2>1, SettledStable
  <2>3. CASE u # t
    BY <2>3, <2>1, <1>1, SettledStable DEF InBatch
  <2> QED BY <2>2, <2>3
<1>6. FlushProgress'
  <2>1. ASSUME NEW i \in DOMAIN batch'[t] PROVE SettledItem(t, i)'
    <3>1. batch'[t] = batch[t]
      BY <1>3, <2>1
    <3>2. SettledItem(t, i)
      BY <3>1, <1>1 DEF Account, FlushProgress
    <3> QED BY <3>1, <3>2, SettledStable DEF SettledItem
  <2> QED BY <2>1, <1>1, OtherFlushes DEF FlushProgress
<1>7. ASSUME NEW u \in Thread, NEW p \in Partition
      PROVE  committed[u][p] <= committed'[u][p]
  <2>1. committed[u][p] \in Nat
    BY Numbers DEF Shape
  <2> QED BY <2>1, <1>1, <1>2, CommitTargetSettled
<1>8. Forward'
  <2> SUFFICES ASSUME NEW u \in Thread, NEW p \in Partition, Joined(u)'
               PROVE  /\ committed'[u][p] <= position[u][p]
                      /\ pending'[u][p] # Absent => committed'[u][p] <= pending'[u][p] + 1
    BY <1>1 DEF Forward
  <2>1. /\ committed[u][p] <= position[u][p]
        /\ pending[u][p] # Absent => committed[u][p] <= pending[u][p] + 1
    BY <1>1 DEF Account, Forward, Joined
  <2>2. committed[u][p] \in Nat /\ position[u][p] \in Nat /\ pending[u][p] \in Nat \cup {-1}
    BY Numbers DEF Shape
  <2>3. CASE u = t
    BY <2>1, <2>2, <2>3, <1>1, <1>2, <1>3, CommitTargetSettled DEF NothingPending, Absent
  <2>4. CASE u # t
    BY <2>1, <2>4, <1>1, <1>2
  <2> QED BY <2>3, <2>4
<1> QED BY <1>4, <1>5, <1>6, <1>7, <1>8 DEF Account

(* The steps outside the threads, other than the end of the process and a  *)
(* replay, touch neither offsets nor flushes.                              *)
LEMMA OutsideAccount ==
    ASSUME Shape, Account, Grows,
           \/ DlqDeliver \/ DlqExpires \/ Start \/ Signal \/ JoinReturns \/ FinalDlqFlush
           \/ UNCHANGED vars
    PROVE  Account'
<1> USE DEF kafkaVars, threadVars, historyVars
<1>1. UNCHANGED <<committed, position, batch, pending, cursor>>
  BY DEF DlqDeliver, DlqExpires, Start, Signal, JoinReturns, FinalDlqFlush, vars
<1>2. \A u \in Thread : pc'[u] = pc[u] \/ pc'[u] = "connecting"
  BY DEF DlqDeliver, DlqExpires, Start, Signal, JoinReturns, FinalDlqFlush, vars
<1>3. \A u \in Thread : Joined(u)' => Joined(u)
  BY <1>2 DEF Joined
<1>4. ASSUME NEW u \in Thread, NEW i \in DOMAIN batch[u],
             pc'[u] = "commit" \/ (pc'[u] = "dlq" /\ i < cursor'[u])
      PROVE  SettledItem(u, i)'
  BY <1>1, <1>2, <1>4, OtherFlushes
<1> QED BY <1>1, <1>3, <1>4, FrameAccount

LEMMA ExitAccount ==
    ASSUME Shape, Account, Grows, Exit \/ Kill PROVE Account'
<1>1. Vanish
  BY DEF Exit, Kill
<1>2. committed' = committed /\ \A t \in Thread : pc'[t] = "off"
  BY <1>1 DEF Vanish, kafkaVars
<1>3. NoUnsettledCommit'
  BY <1>2, SettledStable DEF Account, NoUnsettledCommit
<1>4. Accounted' /\ FlushProgress' /\ Forward'
  BY <1>2 DEF Accounted, FlushProgress, Forward, Joined
<1> QED BY <1>3, <1>4 DEF Account

LEMMA ReplayAccount ==
    ASSUME Shape, Account, Grows, NEW t \in Thread, NEW p \in Partition, Replay(t, p)
    PROVE  Account'
<1>1. PICK n \in 0..Len(log[t][p]) :
        /\ committed' = [committed EXCEPT ![t][p] = n]
        /\ skipped' = skipped \cup {<<t, p, q>> : q \in committed[t][p]..(n - 1)}
  BY DEF Replay
<1>2. pc' = pc /\ \A u \in Thread : pc[u] = "off"
  BY DEF Replay, Shape, DownOff, threadVars
<1>3. ASSUME NEW u \in Thread, NEW q \in Partition, NEW o \in 0..(committed'[u][q] - 1)
      PROVE  Settled(u, q, o)'
  <2>1. committed[u][q] \in Nat /\ Len(log[t][p]) \in Nat
    BY Numbers DEF Shape
  <2>2. CASE o \in 0..(committed[u][q] - 1)
    BY <2>2, SettledStable DEF Account, NoUnsettledCommit
  <2>3. CASE o \notin 0..(committed[u][q] - 1)
    <3>1. CASE u = t /\ q = p
      <4>1. committed'[u][q] = n
        BY <3>1, <1>1 DEF Shape, TypeOK
      <4>2. o \in committed[t][p]..(n - 1)
        BY <4>1, <2>1, <2>3, <3>1
      <4> QED BY <4>2, <3>1, <1>1 DEF Settled
    <3>2. CASE u # t \/ q # p
      BY <3>2, <2>3, <1>1, <1>3 DEF Shape, TypeOK
    <3> QED BY <3>1, <3>2
  <2> QED BY <2>2, <2>3
<1>4. NoUnsettledCommit'
  BY <1>3 DEF NoUnsettledCommit
<1>5. Accounted' /\ FlushProgress' /\ Forward'
  BY <1>2 DEF Accounted, FlushProgress, Forward, Joined
<1> QED BY <1>4, <1>5 DEF Account

LEMMA AccountStep == ASSUME Shape, Account, [Next]_vars PROVE Account'
<1>1. Grows /\ Shape'
  BY StepGrows, ShapeStep
<1>2. ASSUME NEW t \in Thread, ThreadStep(t) \/ ConnectFails(t) \/ ConnectionLost(t)
      PROVE  Account'
  <2>1. CASE ControlStep(t)
    BY <2>1, <1>1, ControlAccount
  <2>2. CASE Connect(t) \/ CommitSucceeds(t) \/ CommitFails(t)
    BY <2>2, <1>1, ConnectAccount, CommitAccount
  <2>3. CASE \E p \in Partition : PollValid(t, p) \/ PollInvalid(t, p)
    BY <2>3, <1>1, PollAccount
  <2> QED BY <1>2, <2>1, <2>2, <2>3 DEF ThreadStep, ControlStep
<1> QED BY <1>1, <1>2, OutsideAccount, ExitAccount, ReplayAccount DEF Next

THEOREM AccountInvariant == Spec => []Account
<1>1. Shape /\ Account /\ [Next]_vars => Account'
  BY AccountStep
<1> QED BY <1>1, InitAccount, ShapeInvariant, PTL DEF Spec

(* No message is both committed and forgotten, whatever mix of crashes,    *)
(* failed inserts and failed or ambiguous commits occurs.                  *)
THEOREM NothingForgotten == Spec => []NoUnsettledCommit
<1>1. Account => NoUnsettledCommit
  BY DEF Account
<1> QED BY <1>1, AccountInvariant, PTL

----------------------------------------------------------------------------
(* Two rows for one event never appear: neither against the table nor      *)
(* within a batch.                                                         *)
LEMMA NewRowsUnique ==
    ASSUME Shape, OneRowPerEvent, NEW t \in Thread, rows' = rows \cup NewRows(t)
    PROVE  OneRowPerEvent'
<1>1. batch[t] \in Seq(Buffered)
  BY DEF Shape, TypeOK
<1>2. PICK n \in Nat : DOMAIN batch[t] = 1..n
  BY <1>1
<1>3. ASSUME NEW r \in NewRows(t) PROVE r.table = t /\ r.id \notin StoredIds(t)
  BY DEF NewRows
<1>4. ASSUME NEW r \in NewRows(t), NEW q \in NewRows(t), r.id = q.id PROVE r = q
  <2> DEFINE RowOf(i) == [table |-> t, id |-> IdOf(t, i),
                          part |-> batch[t][i].part, off |-> batch[t][i].off]
  <2>1. PICK i \in DOMAIN batch[t] : /\ r = RowOf(i)
                                    /\ \A k \in 1..(i - 1) : IdOf(t, k) # IdOf(t, i)
    BY DEF NewRows
  <2>2. PICK j \in DOMAIN batch[t] : /\ q = RowOf(j)
                                    /\ \A k \in 1..(j - 1) : IdOf(t, k) # IdOf(t, j)
    BY DEF NewRows
  <2>3. IdOf(t, i) = IdOf(t, j)
    BY <1>4, <2>1, <2>2
  <2>4. i = j
    <3>1. i \in Nat /\ j \in Nat /\ i >= 1 /\ j >= 1
      BY <1>2
    <3>2. ~(i < j)
      BY <3>1, <2>2, <2>3
    <3>3. ~(j < i)
      BY <3>1, <2>1, <2>3
    <3> QED BY <3>1, <3>2, <3>3
  <2> QED BY <2>1, <2>2, <2>4
<1>5. ASSUME NEW r \in rows, r.table = t PROVE r.id \in StoredIds(t)
  BY <1>5 DEF StoredIds
<1> QED BY <1>3, <1>4, <1>5 DEF OneRowPerEvent

LEMMA OneRowStep == ASSUME Shape, OneRowPerEvent, [Next]_vars PROVE OneRowPerEvent'
<1>1. rows' = rows \/ \E t \in Thread : rows' = rows \cup NewRows(t)
  <2> USE DEF kafkaVars
  <2>1. ASSUME NEW t \in Thread, ThreadStep(t) \/ ConnectFails(t) \/ ConnectionLost(t)
        PROVE  rows' = rows \/ rows' = rows \cup NewRows(t)
    <3>1. CASE InsertSucceeds(t) \/ InsertFails(t)
      BY <3>1 DEF InsertSucceeds, InsertFails
    <3>2. CASE \/ Connect(t) \/ Flush(t) \/ SeeStop(t) \/ InsertRaises(t)
               \/ ConnectFails(t) \/ ConnectionLost(t)
      BY <3>2 DEF Connect, Flush, SeeStop, InsertRaises, ConnectFails, ConnectionLost
    <3>3. CASE DlqItem(t) \/ DlqItemRaises(t) \/ CommitSucceeds(t) \/ CommitFails(t)
      BY <3>3 DEF DlqItem, DlqItemRaises, CommitSucceeds, CommitFails
    <3>4. CASE \E p \in Partition : PollValid(t, p) \/ PollInvalid(t, p) \/ PollRaises(t, p)
      BY <3>4 DEF PollValid, PollInvalid, PollRaises
    <3> QED BY <2>1, <3>1, <3>2, <3>3, <3>4 DEF ThreadStep
  <2>2. CASE \/ DlqDeliver \/ DlqExpires \/ Start \/ Signal \/ JoinReturns
             \/ FinalDlqFlush \/ Exit \/ Kill \/ UNCHANGED vars
    BY <2>2 DEF DlqDeliver, DlqExpires, Start, Signal, JoinReturns, FinalDlqFlush, Exit,
                Kill, Vanish, vars
  <2>3. CASE \E t \in Thread, p \in Partition : Replay(t, p)
    BY <2>3 DEF Replay
  <2> QED BY <2>1, <2>2, <2>3 DEF Next
<1> QED BY <1>1, NewRowsUnique DEF OneRowPerEvent

(* An event has at most one row in its table, however often its message is *)
(* delivered.                                                              *)
THEOREM NoDuplicateRows == Spec => []OneRowPerEvent
<1>1. Init => OneRowPerEvent
  BY DEF Init, OneRowPerEvent
<1>2. Shape /\ OneRowPerEvent /\ [Next]_vars => OneRowPerEvent'
  BY OneRowStep
<1> QED BY <1>1, <1>2, ShapeInvariant, PTL DEF Spec

----------------------------------------------------------------------------
(* The steps that change a committed offset. *)
LEMMA CommittedChanges ==
    ASSUME [Next]_vars
    PROVE  \/ UNCHANGED committed
           \/ \E t \in Thread : CommitSucceeds(t) \/ CommitFails(t)
           \/ \E t \in Thread, p \in Partition : Replay(t, p)
<1> USE DEF kafkaVars
<1>1. ASSUME NEW t \in Thread, ThreadStep(t) \/ ConnectFails(t) \/ ConnectionLost(t),
             ~CommitSucceeds(t), ~CommitFails(t)
      PROVE  UNCHANGED committed
  <2>1. CASE \/ Connect(t) \/ Flush(t) \/ SeeStop(t) \/ InsertRaises(t)
             \/ ConnectFails(t) \/ ConnectionLost(t)
    BY <2>1 DEF Connect, Flush, SeeStop, InsertRaises, ConnectFails, ConnectionLost
  <2>2. CASE InsertSucceeds(t) \/ InsertFails(t) \/ DlqItem(t) \/ DlqItemRaises(t)
    BY <2>2 DEF InsertSucceeds, InsertFails, DlqItem, DlqItemRaises
  <2>3. CASE \E p \in Partition : PollValid(t, p) \/ PollInvalid(t, p) \/ PollRaises(t, p)
    BY <2>3 DEF PollValid, PollInvalid, PollRaises
  <2> QED BY <1>1, <2>1, <2>2, <2>3 DEF ThreadStep
<1>2. CASE \/ DlqDeliver \/ DlqExpires \/ Start \/ Signal \/ JoinReturns
           \/ FinalDlqFlush \/ Exit \/ Kill \/ UNCHANGED vars
  BY <1>2 DEF DlqDeliver, DlqExpires, Start, Signal, JoinReturns, FinalDlqFlush, Exit,
              Kill, Vanish, vars
<1> QED BY <1>1, <1>2 DEF Next

(* Only the replay tool rewinds a group, and only while it has no member:  *)
(* no restarted or retrying thread undoes another commit.                  *)
THEOREM NoRewind == Spec => OffsetsOnlyReplayRewinds
<1>1. Shape /\ Account /\ [Next]_vars
        => [\A t \in Thread, p \in Partition :
              committed'[t][p] < committed[t][p] => ~Alive]_vars
  <2> SUFFICES ASSUME Shape, Account, [Next]_vars, NEW t \in Thread, NEW p \in Partition,
                      committed'[t][p] < committed[t][p]
               PROVE  ~Alive
    OBVIOUS
  <2>1. committed[t][p] \in Nat /\ committed'[t][p] \in Nat
    BY ShapeStep, Numbers DEF Shape, TypeOK
  <2>2. CASE UNCHANGED committed
    BY <2>1, <2>2
  <2>3. CASE \E u \in Thread : CommitSucceeds(u) \/ CommitFails(u)
    <3>1. committed[t][p] <= committed'[t][p]
      BY <2>3, StepGrows, CommitAccount
    <3> QED BY <2>1, <3>1
  <2>4. CASE \E u \in Thread, q \in Partition : Replay(u, q)
    BY <2>4 DEF Replay
  <2> QED BY <2>2, <2>3, <2>4, CommittedChanges
<1> QED BY <1>1, ShapeInvariant, AccountInvariant, PTL DEF Spec, OffsetsOnlyReplayRewinds

----------------------------------------------------------------------------
(* A stop in which nothing ran into its deadline: the DLQ queue is flushed *)
(* after the last thread that could fill it has ended, so it stays empty.  *)
CleanStop ==
    /\ proc \in {"flushing", "exiting"} /\ ~timedOut => \A t \in Thread : pc[t] = "closed"
    /\ proc = "exiting" /\ ~timedOut => dlqQueue = {}

LEMMA ThreadNotClosed ==
    ASSUME NEW t \in Thread, ThreadStep(t) \/ ConnectFails(t) \/ ConnectionLost(t)
    PROVE  pc[t] # "closed" /\ UNCHANGED processVars
<1>1. CASE \/ Connect(t) \/ Flush(t) \/ SeeStop(t) \/ InsertRaises(t)
           \/ ConnectFails(t) \/ ConnectionLost(t)
  BY <1>1 DEF Connect, Flush, SeeStop, InsertRaises, ConnectFails, ConnectionLost
<1>2. CASE InsertSucceeds(t) \/ InsertFails(t) \/ DlqItem(t) \/ DlqItemRaises(t)
  BY <1>2 DEF InsertSucceeds, InsertFails, DlqItem, DlqItemRaises
<1>3. CASE CommitSucceeds(t) \/ CommitFails(t)
  BY <1>3 DEF CommitSucceeds, CommitFails
<1>4. CASE \E p \in Partition : PollValid(t, p) \/ PollInvalid(t, p) \/ PollRaises(t, p)
  BY <1>4 DEF PollValid, PollInvalid, PollRaises, CanPoll
<1> QED BY <1>1, <1>2, <1>3, <1>4 DEF ThreadStep

LEMMA CleanStopStep == ASSUME CleanStop, [Next]_vars PROVE CleanStop'
<1> USE DEF CleanStop, processVars, threadVars
<1>1. CASE \E t \in Thread : ThreadStep(t) \/ ConnectFails(t) \/ ConnectionLost(t)
  BY <1>1, ThreadNotClosed
<1>2. CASE DlqDeliver \/ DlqExpires
  BY <1>2 DEF DlqDeliver, DlqExpires
<1>3. CASE Start \/ Signal \/ Exit \/ Kill
  BY <1>3 DEF Start, Signal, Exit, Kill
<1>4. CASE JoinReturns \/ FinalDlqFlush
  BY <1>4 DEF JoinReturns, FinalDlqFlush
<1>5. CASE \E t \in Thread, p \in Partition : Replay(t, p)
  BY <1>5 DEF Replay
<1>6. CASE UNCHANGED vars
  BY <1>6 DEF vars
<1> QED BY <1>1, <1>2, <1>3, <1>4, <1>5, <1>6 DEF Next

(* A stop without a deadline passing drops no dead letter.                 *)
THEOREM CleanStopSafe == Spec => CleanStopDropsNothing
<1>1. Init => CleanStop
  BY DEF Init, CleanStop
<1>2. CleanStop /\ [Next]_vars => CleanStop'
  BY CleanStopStep
<1>3. CleanStop /\ [Next]_vars
        => [(proc = "exiting" /\ proc' = "exited" /\ ~timedOut /\ budget' = budget)
                => dropped' = dropped]_vars
  <2> SUFFICES ASSUME CleanStop, Next, proc = "exiting", proc' = "exited",
                      ~timedOut, budget' = budget
               PROVE  dropped' = dropped
    OBVIOUS
  <2>1. Exit \/ Kill
    <3>1. CASE \E t \in Thread : ThreadStep(t) \/ ConnectFails(t) \/ ConnectionLost(t)
      BY <3>1, ThreadNotClosed DEF processVars
    <3>2. CASE \/ DlqDeliver \/ DlqExpires \/ Start \/ Signal \/ JoinReturns
               \/ FinalDlqFlush
      BY <3>2 DEF DlqDeliver, DlqExpires, Start, Signal, JoinReturns, FinalDlqFlush,
                  processVars
    <3>3. CASE \E t \in Thread, p \in Partition : Replay(t, p)
      BY <3>3 DEF Replay, processVars
    <3> QED BY <3>1, <3>2, <3>3 DEF Next
  <2>2. dlqQueue = {}
    BY DEF CleanStop
  <2> QED BY <2>1, <2>2 DEF Exit, Kill, Vanish
<1> QED BY <1>1, <1>2, <1>3, PTL DEF Spec, CleanStopDropsNothing

----------------------------------------------------------------------------
(* The ingestor implements AtLeastOnce. *)

LEMMA TakenGrows == ASSUME Grows PROVE \A s \in Sources : Taken[s] \subseteq Taken'[s]
BY SettledStable DEF Taken, Grows

LEMMA TakenSame ==
    ASSUME UNCHANGED <<log, rows, Parked>> PROVE Taken' = Taken
<1>1. \A t, p, o : Settled(t, p, o)' <=> Settled(t, p, o)
  BY DEF Settled, StoredIds, MessageAt, Parked
<1> QED BY <1>1 DEF Taken

(* A committed prefix lies within what is taken over. *)
AckedWithinTaken == \A s \in Sources : Contract!Prefix(Acked[s]) \subseteq Taken[s]

LEMMA AckedPrefix == Shape /\ NoUnsettledCommit => AckedWithinTaken
<1> SUFFICES ASSUME Shape, NoUnsettledCommit,
                    NEW s \in Sources, NEW o \in 0..(Acked[s] - 1)
             PROVE  o \in Taken[s]
  BY DEF AckedWithinTaken, Contract!Prefix
<1>1. PICK t \in Thread, p \in Partition : s = <<t, p>>
  BY DEF Sources
<1>2. Acked[s] = committed[t][p]
  BY <1>1 DEF Acked, Sources
<1>3. committed[t][p] \in Nat /\ Len(log[t][p]) \in Nat /\ committed[t][p] <= Len(log[t][p])
  BY Numbers DEF Shape, InLog
<1>4. o \in 0..(Len(log[t][p]) - 1)
  BY <1>2, <1>3
<1>5. Settled(t, p, o)
  BY <1>2 DEF NoUnsettledCommit
<1> QED BY <1>1, <1>4, <1>5 DEF Taken, Sources

LEMMA AckedPrefixNext == Shape' /\ NoUnsettledCommit' => AckedWithinTaken'
BY AckedPrefix, PTL

(* A thread runs in a live process, and no thread step ends it. *)
LEMMA ThreadAlive ==
    ASSUME Shape, NEW t \in Thread, ThreadStep(t) \/ ConnectFails(t) \/ ConnectionLost(t)
    PROVE  Alive /\ Alive'
<1> USE DEF processVars
<1>1. pc[t] # "off" /\ proc' = proc
  <2>1. CASE \/ Connect(t) \/ Flush(t) \/ SeeStop(t) \/ InsertRaises(t)
             \/ ConnectFails(t) \/ ConnectionLost(t)
    BY <2>1 DEF Connect, Flush, SeeStop, InsertRaises, ConnectFails, ConnectionLost
  <2>2. CASE InsertSucceeds(t) \/ InsertFails(t) \/ DlqItem(t) \/ DlqItemRaises(t)
    BY <2>2 DEF InsertSucceeds, InsertFails, DlqItem, DlqItemRaises
  <2>3. CASE CommitSucceeds(t) \/ CommitFails(t)
    BY <2>3 DEF CommitSucceeds, CommitFails
  <2>4. CASE \E p \in Partition : PollValid(t, p) \/ PollInvalid(t, p) \/ PollRaises(t, p)
    BY <2>4 DEF PollValid, PollInvalid, PollRaises, CanPoll
  <2> QED BY <2>1, <2>2, <2>3, <2>4 DEF ThreadStep
<1> QED BY <1>1 DEF Shape, DownOff, Alive

LEMMA ContractStep ==
    ASSUME Shape, Account, [Next]_vars PROVE [Contract!Next]_(Contract!cvars)
<1> USE DEF Contract!Next, kafkaVars, threadVars, historyVars
<1>1. Grows /\ Shape' /\ Account'
  BY StepGrows, ShapeStep, AccountStep
<1>2. \A s \in Sources : Taken[s] \subseteq Taken'[s]
  BY <1>1, TakenGrows
<1>3. \A s \in Sources : Contract!Prefix(Acked'[s]) \subseteq Taken'[s]
  <2>1. Shape' /\ NoUnsettledCommit'
    BY <1>1 DEF Account
  <2> QED BY <2>1, AckedPrefixNext DEF AckedWithinTaken
<1>4. committed' = committed => Acked' = Acked
  BY DEF Acked
<1>5. ASSUME NEW t \in Thread, CommitSucceeds(t) \/ CommitFails(t)
      PROVE  Contract!Acknowledge
  <2>1. UNCHANGED <<log, rows, Parked>>
    BY <1>5 DEF CommitSucceeds, CommitFails, Parked
  <2>2. Taken' = Taken
    BY <2>1, TakenSame
  <2>3. Alive /\ Alive'
    BY <1>5, ThreadAlive DEF ThreadStep
  <2>4. ASSUME NEW s \in Sources PROVE Acked'[s] >= Acked[s]
    <3>1. PICK u \in Thread, p \in Partition : s = <<u, p>>
      BY DEF Sources
    <3>2. committed[u][p] <= committed'[u][p]
      BY <1>1, <1>5, CommitAccount
    <3>3. Acked[s] = committed[u][p] /\ Acked'[s] = committed'[u][p]
      BY <3>1 DEF Acked, Sources
    <3>4. committed[u][p] \in Nat /\ committed'[u][p] \in Nat
      BY <1>1 DEF Shape, TypeOK
    <3> QED BY <3>2, <3>3, <3>4
  <2> QED BY <2>2, <2>3, <2>4, <1>3 DEF Contract!Acknowledge
<1>6. ASSUME NEW t \in Thread, ThreadStep(t) \/ ConnectFails(t) \/ ConnectionLost(t),
             UNCHANGED committed
      PROVE  Contract!TakeOver
  <2>1. Alive /\ Alive'
    BY <1>6, ThreadAlive
  <2> QED BY <2>1, <1>2, <1>4, <1>6 DEF Contract!TakeOver, Alive
<1>7. CASE DlqDeliver \/ DlqExpires \/ Signal \/ JoinReturns \/ FinalDlqFlush
  <2>1. Alive /\ Alive' /\ committed' = committed
    BY <1>7 DEF DlqDeliver, DlqExpires, Signal, JoinReturns, FinalDlqFlush, Alive, processVars
  <2> QED BY <2>1, <1>2, <1>4 DEF Contract!TakeOver
<1>8. CASE Start \/ Exit \/ Kill
  <2>1. UNCHANGED <<log, rows, Parked, committed>>
    BY <1>8 DEF Start, Exit, Kill, Vanish, Parked
  <2>2. Taken' = Taken /\ Acked' = Acked
    BY <2>1, <1>4, TakenSame
  <2>3. CASE Start
    BY <2>2, <2>3 DEF Start, Alive, Contract!Attach
  <2>4. CASE Exit \/ Kill
    BY <2>2, <2>4 DEF Exit, Kill, Alive, StopRequested, Contract!Detach
  <2> QED BY <1>8, <2>3, <2>4
<1>9. CASE \E t \in Thread, p \in Partition : Replay(t, p)
  <2>1. ~Alive /\ ~Alive'
    BY <1>9 DEF Replay, Alive, processVars
  <2> QED BY <2>1, <1>2, <1>3 DEF Contract!Reposition, Alive
<1>10. CASE UNCHANGED vars
  <2>1. UNCHANGED <<log, rows, Parked, committed, proc>>
    BY <1>10 DEF vars, Parked, processVars
  <2>2. Taken' = Taken /\ Acked' = Acked /\ (Alive' <=> Alive)
    BY <2>1, <1>4, TakenSame DEF Alive
  <2> QED BY <2>2 DEF Contract!cvars
<1> QED BY <1>5, <1>6, <1>7, <1>8, <1>9, <1>10, CommittedChanges DEF Next

(* The ingestor is an at-least-once consumer of every topic, whatever the  *)
(* faults: every step takes over messages, acknowledges what was taken     *)
(* over, attaches, detaches or repositions.                                *)
THEOREM Implements == Spec => ImplementsAtLeastOnce
<1>1. Init => Contract!Init
  <2> SUFFICES ASSUME Init PROVE Contract!Init OBVIOUS
  <2>1. ASSUME NEW s \in Sources PROVE Acked[s] = 0
    BY DEF Init, Acked, Sources
  <2>2. ASSUME NEW s \in Sources PROVE Taken[s] = {}
    BY DEF Init, Taken, Settled, StoredIds
  <2>3. Acked = [s \in Sources |-> 0] /\ Taken = [s \in Sources |-> {}]
    BY <2>1, <2>2 DEF Acked, Taken
  <2> QED BY <2>3 DEF Init, Alive, Contract!Init
<1>2. Shape /\ Account /\ [Next]_vars => [Contract!Next]_(Contract!cvars)
  BY ContractStep
<1> QED BY <1>1, <1>2, ShapeInvariant, AccountInvariant, PTL
        DEF Spec, ImplementsAtLeastOnce, Contract!Spec
=============================================================================
