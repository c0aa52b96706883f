------------------------ MODULE StreamFeaturesProofs ------------------------
(***************************************************************************)
(* Proofs about StreamFeatures for every set of threads, partitions and    *)
(* hours, every topic content and every combination of faults.             *)
(***************************************************************************)
EXTENDS StreamFeatures, TLAPS

(* A thread runs while the process lives, and only then. *)
Running(t) == pc[t] # "off"
RunsAlive == \A t \in Thread : Running(t) <=> Alive

(* Where a thread is decides what it holds.  The flags of the finally      *)
(* clause and the three stages of a record in memory go with its place.    *)
Control(t) ==
    /\ pc[t] = "polling" => ~final[t]
    /\ pc[t] \in {"lastcommit", "lastflush", "closed"} => final[t]
    /\ IF pc[t] = "uploading" THEN buffer[t] = {} ELSE uploading[t] \cup failed[t] = {}
    /\ pc[t] = "off" => /\ buffer[t] = {} /\ ~final[t]
                        /\ pending[t] = NothingPending
    /\ \A item \in InMemory(t) : item[1] = t

(* What the last flush was refused is counted as lost from then on. *)
Doomed(t) ==
    /\ pc[t] = "uploading" /\ final[t] => failed[t] \subseteq lost
    /\ pc[t] = "closed" => buffer[t] \subseteq lost

(* Noted offsets have been polled, committed ones too while the thread     *)
(* runs, and a commit never goes backwards.                                *)
Offsets(t) ==
    \A p \in Partition :
        /\ committed[t][p] <= Len(log[t][p])
        /\ Running(t) => /\ committed[t][p] <= position[t][p]
                         /\ position[t][p] <= Len(log[t][p])
        /\ pending[t][p] # Absent => /\ committed[t][p] <= pending[t][p] + 1
                                     /\ pending[t][p] < position[t][p]

(* What is noted, and what was committed last, are offsets of handled      *)
(* messages: Redis refusing a message leaves no offset behind.             *)
Rested(t) ==
    \A p \in Partition :
        /\ pending[t][p] # Absent => Handled(t, p, pending[t][p])
        /\ committed[t][p] > 0 => Handled(t, p, committed[t][p] - 1)

(* The consumer is past an offset: it was committed, or polled in this run.*)
Passed(t, p, o) == o < committed[t][p] \/ (Running(t) /\ o < position[t][p])

(* What the consumer is past was tried, and is not forgotten. *)
Kept(t, p, o) ==
    /\ Tried(t, p, o)
    /\ <<t, p, o>> \in lost \/ SavedOrBuffered(t, p, o)

Accounted(t) ==
    \A p \in Partition : \A o \in 0..(Len(log[t][p]) - 1) :
        Passed(t, p, o) => Kept(t, p, o)

ThreadInv(t) == Control(t) /\ Doomed(t) /\ Offsets(t) /\ Rested(t) /\ Accounted(t)

IInv == TypeOK /\ RunsAlive /\ \A t \in Thread : ThreadInv(t)

----------------------------------------------------------------------------
(* Types *)

LEMMA BudgetTyped ==
    ASSUME budget \in 0..MaxFaults, NEW k, Fault(k)
    PROVE  budget' \in 0..MaxFaults
BY StreamFeaturesAssumption DEF Fault

(* The numbers the offset arithmetic is about. *)
LEMMA Numbers ==
    ASSUME TypeOK, NEW t \in Thread, NEW p \in Partition
    PROVE  /\ committed[t][p] \in Nat /\ position[t][p] \in Nat
           /\ pending[t][p] \in Nat \cup {-1}
           /\ log[t][p] \in Seq(Message) /\ Len(log[t][p]) \in Nat
BY DEF TypeOK, Absent

(* The message a poll takes is an item, whatever becomes of it. *)
LEMMA CurrentTyped ==
    ASSUME TypeOK, NEW t \in Thread, NEW p \in Partition
    PROVE  Current(t, p) \in Item
BY Numbers DEF Current, Item

LEMMA CommitTargetTyped ==
    ASSUME TypeOK, NEW t \in Thread
    PROVE  CommitTarget(t) \in [Partition -> Nat]
BY Numbers DEF CommitTarget, Absent

LEMMA OffsetsTyped ==
    ASSUME TypeOK, NEW t \in Thread, NEW p \in Partition, Step(t, p)
    PROVE  /\ position' \in [Thread -> [Partition -> Nat]]
           /\ UpdateMaxOffset(t, p) => pending' \in [Thread -> [Partition -> Nat \cup {Absent}]]
<1>1. position' \in [Thread -> [Partition -> Nat]]
  BY Numbers DEF TypeOK, Step
<1>2. ASSUME UpdateMaxOffset(t, p)
      PROVE  pending' \in [Thread -> [Partition -> Nat \cup {Absent}]]
  BY <1>2, Numbers DEF TypeOK, UpdateMaxOffset
<1> QED BY <1>1, <1>2

LEMMA InitType == Init => TypeOK
<1> SUFFICES ASSUME Init PROVE TypeOK OBVIOUS
<1>1. log \in [Thread -> [Partition -> Seq(Message)]]
  BY StreamFeaturesAssumption DEF Init
<1>2. MaxFaults \in 0..MaxFaults
  BY StreamFeaturesAssumption
<1>3. pending \in [Thread -> [Partition -> Nat \cup {Absent}]]
  BY DEF Init, NothingPending
<1> QED BY <1>1, <1>2, <1>3 DEF Init, TypeOK, PC, Proc

LEMMA PollType ==
    ASSUME TypeOK, NEW t \in Thread, NEW p \in Partition,
           PollBuffers(t, p) \/ PollSkips(t, p) \/ PollRaises(t, p) \/ PollRedisFails(t, p)
    PROVE  TypeOK'
<1> USE CurrentTyped, OffsetsTyped
        DEF outcomeVars, lakeVars, mainVars, offsetVars, bufferVars
<1>1. CASE PollBuffers(t, p)
  BY <1>1 DEF PollBuffers, TypeOK
<1>2. CASE PollSkips(t, p)
  BY <1>2 DEF PollSkips, TypeOK
<1>3. CASE PollRaises(t, p)
  BY <1>3 DEF PollRaises, LeaveLoop, TypeOK, PC
<1>4. CASE PollRedisFails(t, p)
  <2>1. budget' \in 0..MaxFaults
    BY <1>4, BudgetTyped DEF PollRedisFails, TypeOK
  <2> QED BY <1>4, <2>1 DEF PollRedisFails, TypeOK
<1> QED BY <1>1, <1>2, <1>3, <1>4

LEMMA CommitType ==
    ASSUME TypeOK, NEW t \in Thread,
           SeeStop(t) \/ Commit(t) \/ CommitRaises(t) \/ LastCommit(t)
    PROVE  TypeOK'
<1> USE DEF outcomeVars, lakeVars, mainVars, offsetVars, bufferVars
<1>1. [committed EXCEPT ![t] = CommitTarget(t)] \in [Thread -> [Partition -> Nat]]
  BY CommitTargetTyped DEF TypeOK
<1>2. CASE SeeStop(t)
  BY <1>2 DEF SeeStop, LeaveLoop, TypeOK, PC
<1>3. CASE Commit(t)
  BY <1>1, <1>3 DEF Commit, NothingPending, TypeOK
<1>4. CASE CommitRaises(t)
  <2>1. budget' \in 0..MaxFaults
    BY <1>4, BudgetTyped DEF CommitRaises, TypeOK
  <2> QED BY <1>1, <1>4, <2>1 DEF CommitRaises, LeaveLoop, TypeOK, PC
<1>5. CASE LastCommit(t)
  <2>1. budget' \in 0..MaxFaults
    BY <1>5, BudgetTyped DEF LastCommit, TypeOK
  <2>2. committed' \in [Thread -> [Partition -> Nat]]
    BY <1>1, <1>5 DEF LastCommit, TypeOK
  <2> QED BY <1>5, <2>1, <2>2 DEF LastCommit, TypeOK, PC
<1> QED BY <1>2, <1>3, <1>4, <1>5

LEMMA FlushType ==
    ASSUME TypeOK, NEW t \in Thread,
           \/ FlushBegin(t) \/ FlushEnd(t)
           \/ \E h \in Hour : Upload(t, h) \/ UploadRefused(t, h) \/ UploadRaises(t, h)
    PROVE  TypeOK'
<1> USE DEF outcomeVars, lakeVars, mainVars, offsetVars, bufferVars
<1>1. CASE FlushBegin(t)
  BY <1>1 DEF FlushBegin, TypeOK, PC
<1>2. CASE FlushEnd(t)
  BY <1>2 DEF FlushEnd, TypeOK, PC
<1>3. ASSUME NEW h \in Hour, Upload(t, h) PROVE TypeOK'
  BY <1>3 DEF Upload, Group, TypeOK
<1>4. ASSUME NEW h \in Hour, UploadRefused(t, h) PROVE TypeOK'
  <2>1. budget' \in 0..MaxFaults
    BY <1>4, BudgetTyped DEF UploadRefused, TypeOK
  <2> QED BY <1>4, <2>1 DEF UploadRefused, Group, TypeOK
<1>5. ASSUME NEW h \in Hour, UploadRaises(t, h) PROVE TypeOK'
  <2>1. budget' \in 0..MaxFaults
    BY <1>5, BudgetTyped DEF UploadRaises, TypeOK
  <2> QED BY <1>5, <2>1 DEF UploadRaises, TypeOK, PC
<1> QED BY <1>1, <1>2, <1>3, <1>4, <1>5

LEMMA MainType ==
    ASSUME TypeOK, Start \/ StartScheduler \/ Signal \/ Exit \/ Kill
    PROVE  TypeOK'
<1> USE DEF outcomeVars, lakeVars, mainVars, offsetVars, bufferVars
<1>1. CASE Start
  BY <1>1 DEF Start, TypeOK, PC, Proc
<1>2. CASE StartScheduler
  BY <1>2 DEF StartScheduler, TypeOK, Proc
<1>3. CASE Signal
  <2>1. budget' \in 0..MaxFaults
    BY <1>3, BudgetTyped DEF Signal, TypeOK
  <2> QED BY <1>3, <2>1 DEF Signal, TypeOK, Proc
<1>4. CASE Exit \/ Kill
  <2>1. budget' \in 0..MaxFaults
    BY <1>4, BudgetTyped DEF Exit, Kill, TypeOK
  <2>2. lost' \subseteq Item /\ proc' \in Proc
    BY <1>4 DEF Exit, Kill, InMemory, TypeOK, Proc
  <2>3. Vanish
    BY <1>4 DEF Exit, Kill
  <2>4. pending' \in [Thread -> [Partition -> Nat \cup {Absent}]]
    BY <2>3 DEF Vanish, NothingPending
  <2> QED BY <2>1, <2>2, <2>3, <2>4 DEF Vanish, TypeOK, PC
<1> QED BY <1>1, <1>2, <1>3, <1>4

LEMMA TypeStep == TypeOK /\ [Next]_vars => TypeOK'
<1> SUFFICES ASSUME TypeOK, [Next]_vars PROVE TypeOK' OBVIOUS
<1>1. ASSUME NEW t \in Thread, ThreadStep(t) \/ ThreadFault(t) PROVE TypeOK'
  BY <1>1, PollType, CommitType, FlushType DEF ThreadStep, ThreadFault
<1>2. CASE UNCHANGED vars
  BY <1>2 DEF vars, outcomeVars, lakeVars, mainVars, offsetVars, bufferVars, TypeOK
<1> QED BY <1>1, <1>2, MainType DEF Next

----------------------------------------------------------------------------
(* What a step does to a thread that does not take it, and to the records. *)

Still(u) ==
    /\ log' = log
    /\ committed'[u] = committed[u] /\ pc'[u] = pc[u] /\ final'[u] = final[u]
    /\ position'[u] = position[u] /\ pending'[u] = pending[u]
    /\ buffer'[u] = buffer[u] /\ uploading'[u] = uploading[u] /\ failed'[u] = failed[u]

TriedGrows ==
    /\ log' = log
    /\ applied \subseteq applied' /\ unapplied \subseteq unapplied'
    /\ skipped \subseteq skipped'

(* Without a new note or commit there is nothing new to rest on. *)
LEMMA RestedStable ==
    ASSUME TriedGrows, NEW t \in Thread, Rested(t), committed'[t] = committed[t],
           \A p \in Partition : pending'[t][p] = pending[t][p] \/ pending'[t][p] = Absent
    PROVE  Rested(t)'
<1> SUFFICES ASSUME NEW p \in Partition
             PROVE  /\ pending'[t][p] # Absent => <<t, p, pending'[t][p]>> \in applied' \cup skipped'
                    /\ committed'[t][p] > 0 => <<t, p, committed'[t][p] - 1>> \in applied' \cup skipped'
  BY DEF Rested, Handled
<1>1. ASSUME pending'[t][p] # Absent PROVE <<t, p, pending'[t][p]>> \in applied' \cup skipped'
  <2>1. Handled(t, p, pending[t][p]) /\ pending'[t][p] = pending[t][p]
    BY <1>1 DEF Rested
  <2> QED BY <2>1 DEF Handled, TriedGrows
<1>2. ASSUME committed'[t][p] > 0 PROVE <<t, p, committed'[t][p] - 1>> \in applied' \cup skipped'
  <2>1. Handled(t, p, committed[t][p] - 1) /\ committed'[t][p] = committed[t][p]
    BY <1>2 DEF Rested
  <2> QED BY <2>1 DEF Handled, TriedGrows
<1> QED BY <1>1, <1>2

(* Where a record of the thread may be, if it is not forgotten. *)
Somewhere(t) == lake \cup lost \cup InMemory(t)

LEMMA KeptStable ==
    ASSUME TriedGrows, NEW t \in Thread, NEW p, NEW o, Kept(t, p, o),
           <<t, p, o>> \in Somewhere(t) => <<t, p, o>> \in Somewhere(t)'
    PROVE  Kept(t, p, o)'
BY DEF TriedGrows, Kept, Tried, Handled, SavedOrBuffered, Saved, MessageAt, Somewhere

(* A thread that passes nothing new and forgets nothing has its account    *)
(* still in order.                                                         *)
LEMMA AccountedStable ==
    ASSUME TypeOK, TriedGrows, NEW t \in Thread, Accounted(t),
           \A p \in Partition, o \in Nat :
              /\ Passed(t, p, o)' => Passed(t, p, o)
              /\ <<t, p, o>> \in Somewhere(t) => <<t, p, o>> \in Somewhere(t)'
    PROVE  Accounted(t)'
<1> SUFFICES ASSUME NEW p \in Partition, NEW o \in 0..(Len(log[t][p]) - 1),
                    Passed(t, p, o)'
             PROVE  Kept(t, p, o)'
  BY DEF Accounted, TriedGrows
<1>1. o \in Nat
  BY Numbers
<1>2. Kept(t, p, o)
  BY <1>1 DEF Accounted
<1> QED BY <1>1, <1>2, KeptStable

(* The step of one thread does not disturb another: it takes from the lost *)
(* records only its own.                                                   *)
LEMMA StillInv ==
    ASSUME TypeOK, TriedGrows, NEW u \in Thread, ThreadInv(u), Still(u), lake \subseteq lake',
           \A item \in lost : item[1] = u => item \in lost'
    PROVE  ThreadInv(u)'
<1>1. Control(u)'
  BY DEF ThreadInv, Control, Still, InMemory
<1>2. Doomed(u)'
  BY DEF ThreadInv, Doomed, Control, Still, InMemory
<1>3. Offsets(u)'
  BY DEF ThreadInv, Offsets, Running, Still
<1>4. Accounted(u)'
  <2>1. \A p \in Partition, o \in Nat : Passed(u, p, o)' => Passed(u, p, o)
    BY DEF Passed, Running, Still
  <2>2. ASSUME NEW p \in Partition, NEW o \in Nat, <<u, p, o>> \in Somewhere(u)
        PROVE  <<u, p, o>> \in Somewhere(u)'
    BY <2>2 DEF Somewhere, InMemory, Still
  <2> QED BY <2>1, <2>2, AccountedStable DEF ThreadInv
<1>5. Rested(u)'
  BY RestedStable DEF ThreadInv, Still
<1> QED BY <1>1, <1>2, <1>3, <1>4, <1>5 DEF ThreadInv

(* What the steps of a thread have in common. *)
StepFrame(t) ==
    /\ TriedGrows /\ lake \subseteq lake' /\ proc' = proc
    /\ pc[t] # "off" /\ pc'[t] # "off"
    /\ \A u \in Thread \ {t} : Still(u)
    /\ \A item \in lost : item[1] # t => item \in lost'

LEMMA ThreadFrame ==
    ASSUME TypeOK, NEW t \in Thread, ThreadStep(t) \/ ThreadFault(t)
    PROVE  StepFrame(t)
<1> USE DEF outcomeVars, lakeVars, mainVars, offsetVars, bufferVars, TriedGrows, Still, StepFrame
<1>1. ASSUME NEW p \in Partition, PollBuffers(t, p) \/ PollSkips(t, p) \/ PollRedisFails(t, p)
      PROVE  StepFrame(t)
  BY <1>1 DEF PollBuffers, PollSkips, PollRedisFails, CanPoll, Step, UpdateMaxOffset, Current,
              TypeOK
<1>2. ASSUME NEW p \in Partition, PollRaises(t, p) PROVE StepFrame(t)
  BY <1>2 DEF PollRaises, CanPoll, LeaveLoop, TypeOK
<1>3. CASE SeeStop(t) \/ Commit(t) \/ CommitRaises(t)
  BY <1>3 DEF SeeStop, Commit, CommitRaises, LeaveLoop, TypeOK
<1>4. CASE LastCommit(t)
  BY <1>4 DEF LastCommit, TypeOK
<1>5. CASE FlushBegin(t) \/ FlushEnd(t)
  BY <1>5 DEF FlushBegin, FlushEnd, TypeOK
<1>6. ASSUME NEW h \in Hour, Upload(t, h) \/ UploadRefused(t, h) \/ UploadRaises(t, h)
      PROVE  StepFrame(t)
  BY <1>6 DEF Upload, UploadRefused, UploadRaises, CanUpload, TypeOK
<1> QED BY <1>1, <1>2, <1>3, <1>4, <1>5, <1>6 DEF ThreadStep, ThreadFault

----------------------------------------------------------------------------
(* Each action keeps the account of the thread that takes it. *)

LEMMA PollInv ==
    ASSUME TypeOK, NEW t \in Thread, NEW p \in Partition, ThreadInv(t), StepFrame(t),
           PollBuffers(t, p) \/ PollSkips(t, p) \/ PollRedisFails(t, p)
    PROVE  ThreadInv(t)'
<1>0. PICK o \in Nat : o = position[t][p]
  BY Numbers
<1> USE DEF outcomeVars, lakeVars, mainVars, offsetVars, bufferVars
<1>1. /\ pc[t] = "polling" /\ o \in Nat /\ o < Len(log[t][p])
      /\ UNCHANGED <<log, committed, pc, final, uploading, failed>>
      /\ position'[t][p] = o + 1
      /\ \A q \in Partition : q # p => position'[t][q] = position[t][q]
      /\ \A q \in Partition : q # p => pending'[t][q] = pending[t][q]
      /\ pending'[t][p] = o \/ pending'[t][p] = pending[t][p]
  BY <1>0 DEF PollBuffers, PollSkips, PollRedisFails, CanPoll, Step, UpdateMaxOffset, TypeOK
<1>2. /\ \/ buffer'[t] = buffer[t] /\ lost' = lost
         \/ buffer'[t] = buffer[t] \cup {<<t, p, o>>} /\ lost' = lost \ {<<t, p, o>>}
      /\ lake' = lake
  BY <1>0 DEF PollBuffers, PollSkips, PollRedisFails, Current, TypeOK
<1>3. Control(t)'
  BY <1>1, <1>2 DEF ThreadInv, Control, InMemory
<1>4. Doomed(t)'
  BY <1>1 DEF Doomed
<1>5. Offsets(t)'
  <2> SUFFICES ASSUME NEW q \in Partition
               PROVE  /\ committed'[t][q] <= Len(log'[t][q])
                      /\ committed'[t][q] <= position'[t][q]
                      /\ position'[t][q] <= Len(log'[t][q])
                      /\ pending'[t][q] # Absent =>
                            /\ committed'[t][q] <= pending'[t][q] + 1
                            /\ pending'[t][q] < position'[t][q]
    BY DEF Offsets
  <2>1. /\ committed[t][q] <= position[t][q] /\ position[t][q] <= Len(log[t][q])
        /\ pending[t][q] # Absent => /\ committed[t][q] <= pending[t][q] + 1
                                     /\ pending[t][q] < position[t][q]
    BY <1>1 DEF ThreadInv, Offsets, Running
  <2>2. /\ committed[t][q] \in Nat /\ position[t][q] \in Nat /\ pending[t][q] \in Nat \cup {-1}
        /\ Len(log[t][q]) \in Nat
    BY Numbers
  <2>3. CASE q = p
    BY <2>1, <2>2, <2>3, <1>0, <1>1 DEF Absent
  <2>4. CASE q # p
    BY <2>1, <2>2, <2>4, <1>1
  <2> QED BY <2>3, <2>4
<1>6. Kept(t, p, o)'
  <2>1. CASE PollBuffers(t, p)
    <3>1. <<t, p, o>> \in applied' /\ <<t, p, o>> \in buffer'[t]
      BY <1>0, <2>1 DEF PollBuffers, Current, TypeOK
    <3> QED BY <3>1 DEF Kept, Tried, Handled, SavedOrBuffered, Saved, InMemory
  <2>2. CASE PollSkips(t, p)
    <3>1. <<t, p, o>> \in skipped' /\ MessageAt(t, p, o)'.kind \notin Buffering
      BY <1>0, <2>2 DEF PollSkips, CanPoll, Current, Buffering, MessageAt
    <3> QED BY <3>1 DEF Kept, Tried, Handled, SavedOrBuffered, Saved
  <2>3. CASE PollRedisFails(t, p)
    <3>1. <<t, p, o>> \in unapplied'
      BY <1>0, <2>3 DEF PollRedisFails, Current
    <3> QED BY <3>1 DEF Kept, Tried, SavedOrBuffered, Saved
  <2> QED BY <2>1, <2>2, <2>3
<1>7. Accounted(t)'
  <2> SUFFICES ASSUME NEW q \in Partition, NEW x \in 0..(Len(log[t][q]) - 1),
                      Passed(t, q, x)'
               PROVE  Kept(t, q, x)'
    BY <1>1 DEF Accounted
  <2>1. CASE q = p /\ x = o
    BY <2>1, <1>6
  <2>2. CASE ~(q = p /\ x = o)
    <3>1. Passed(t, q, x)
      BY <2>2, <1>0, <1>1, Numbers DEF Passed, Running
    <3>2. Kept(t, q, x)
      BY <3>1 DEF ThreadInv, Accounted
    <3>3. <<t, q, x>> \in Somewhere(t) => <<t, q, x>> \in Somewhere(t)'
      BY <2>2, <1>1, <1>2 DEF Somewhere, InMemory
    <3> QED BY <3>2, <3>3, KeptStable DEF StepFrame
  <2> QED BY <2>1, <2>2
<1>8. Rested(t)'
  <2> SUFFICES ASSUME NEW q \in Partition
               PROVE  /\ pending'[t][q] # Absent => <<t, q, pending'[t][q]>> \in applied' \cup skipped'
                      /\ committed'[t][q] > 0 => <<t, q, committed'[t][q] - 1>> \in applied' \cup skipped'
    BY DEF Rested, Handled
  <2>1. ASSUME committed'[t][q] > 0 PROVE <<t, q, committed'[t][q] - 1>> \in applied' \cup skipped'
    <3>1. Handled(t, q, committed[t][q] - 1) /\ committed'[t][q] = committed[t][q]
      BY <2>1, <1>1 DEF ThreadInv, Rested
    <3> QED BY <3>1 DEF Handled, TriedGrows, StepFrame
  <2>2. ASSUME pending'[t][q] # Absent PROVE <<t, q, pending'[t][q]>> \in applied' \cup skipped'
    <3>1. CASE pending'[t][q] = pending[t][q]
      <4>1. Handled(t, q, pending[t][q])
        BY <2>2, <3>1 DEF ThreadInv, Rested
      <4> QED BY <3>1, <4>1 DEF Handled, TriedGrows, StepFrame
    <3>2. CASE pending'[t][q] # pending[t][q]
      <4>1. q = p /\ pending'[t][q] = o
        BY <3>2, <1>1
      <4>2. PollBuffers(t, p) \/ PollSkips(t, p)
        BY <3>2, <4>1 DEF PollRedisFails
      <4>3. <<t, p, o>> \in applied' \cup skipped'
        BY <4>2, <1>0 DEF PollBuffers, PollSkips, Current
      <4> QED BY <4>1, <4>3
    <3> QED BY <3>1, <3>2
  <2> QED BY <2>1, <2>2
<1> QED BY <1>3, <1>4, <1>5, <1>7, <1>8 DEF ThreadInv

(* Leaving the loop changes the thread's place only. *)
LEMMA LeaveInv ==
    ASSUME TypeOK, NEW t \in Thread, ThreadInv(t), StepFrame(t),
           SeeStop(t) \/ \E p \in Partition : PollRaises(t, p)
    PROVE  ThreadInv(t)'
<1> USE DEF outcomeVars, lakeVars, mainVars, offsetVars, bufferVars
<1>1. /\ pc[t] = "polling" /\ pc'[t] = "lastcommit" /\ final'[t]
      /\ UNCHANGED <<log, committed, outcomeVars, lakeVars, offsetVars, bufferVars>>
  BY DEF SeeStop, PollRaises, CanPoll, LeaveLoop, TypeOK
<1>2. Control(t)' /\ Doomed(t)' /\ Offsets(t)'
  BY <1>1 DEF ThreadInv, Control, Doomed, Offsets, Running, InMemory
<1>3. Accounted(t)'
  BY <1>1, AccountedStable DEF ThreadInv, StepFrame, Passed, Running, Somewhere, InMemory
<1>4. Rested(t)'
  BY <1>1, RestedStable DEF ThreadInv, StepFrame
<1> QED BY <1>2, <1>3, <1>4 DEF ThreadInv

(* What a commit acknowledges has been polled and is not behind. *)
LEMMA CommitTargetPassed ==
    ASSUME TypeOK, NEW t \in Thread, Offsets(t), Running(t), NEW p \in Partition
    PROVE  /\ committed[t][p] <= CommitTarget(t)[p]
           /\ CommitTarget(t)[p] <= position[t][p]
           /\ pending[t][p] # Absent => CommitTarget(t)[p] = pending[t][p] + 1
<1>1. /\ committed[t][p] \in Nat /\ position[t][p] \in Nat
      /\ pending[t][p] \in Nat \cup {-1}
  BY Numbers
<1>2. /\ committed[t][p] <= position[t][p]
      /\ pending[t][p] # Absent => /\ committed[t][p] <= pending[t][p] + 1
                                   /\ pending[t][p] < position[t][p]
  BY DEF Offsets
<1> QED BY <1>1, <1>2 DEF CommitTarget, Absent

(* Also when the commit raises, before or after the broker applied it. *)
LEMMA CommitInv ==
    ASSUME TypeOK, NEW t \in Thread, ThreadInv(t), StepFrame(t),
           Commit(t) \/ CommitRaises(t) \/ LastCommit(t)
    PROVE  /\ ThreadInv(t)'
           /\ \A p \in Partition : committed[t][p] <= committed'[t][p]
<1> USE DEF outcomeVars, lakeVars, mainVars, offsetVars, bufferVars
<1>1. /\ pc[t] \in {"polling", "lastcommit"}
      /\ committed'[t] = committed[t] \/ committed'[t] = CommitTarget(t)
      /\ pending'[t] = pending[t] \/ pending'[t] = NothingPending
      /\ UNCHANGED <<log, outcomeVars, lakeVars, position, bufferVars>>
  BY DEF Commit, CommitRaises, LastCommit, TypeOK
<1>2. \/ pc'[t] = "polling" /\ pc[t] = "polling" /\ final'[t] = final[t]
      \/ pc'[t] = "lastcommit" /\ final'[t]
      \/ pc'[t] = "lastflush" /\ final'[t] = final[t] /\ pc[t] = "lastcommit"
  BY DEF Commit, CommitRaises, LastCommit, LeaveLoop, TypeOK
<1>3. Control(t)' /\ Doomed(t)'
  BY <1>1, <1>2 DEF ThreadInv, Control, Doomed, InMemory
<1>4. ASSUME NEW p \in Partition
      PROVE  /\ committed[t][p] <= committed'[t][p]
             /\ committed'[t][p] <= position[t][p] /\ position[t][p] <= Len(log[t][p])
             /\ pending'[t][p] # Absent => /\ committed'[t][p] <= pending'[t][p] + 1
                                           /\ pending'[t][p] < position[t][p]
             /\ committed'[t][p] <= Len(log[t][p])
  <2>1. Offsets(t) /\ Running(t)
    BY <1>1 DEF ThreadInv, Running
  <2>2. /\ committed[t][p] <= CommitTarget(t)[p] /\ CommitTarget(t)[p] <= position[t][p]
        /\ pending[t][p] # Absent => CommitTarget(t)[p] = pending[t][p] + 1
    BY <2>1, CommitTargetPassed
  <2>3. /\ committed[t][p] <= position[t][p] /\ position[t][p] <= Len(log[t][p])
        /\ pending[t][p] # Absent => /\ committed[t][p] <= pending[t][p] + 1
                                     /\ pending[t][p] < position[t][p]
    BY <2>1 DEF Offsets
  <2>4. /\ committed[t][p] \in Nat /\ position[t][p] \in Nat /\ Len(log[t][p]) \in Nat
        /\ CommitTarget(t)[p] \in Nat /\ pending[t][p] \in Nat \cup {-1}
    BY Numbers, CommitTargetTyped
  <2>5. pending'[t][p] = pending[t][p] \/ pending'[t][p] = Absent
    BY <1>1 DEF NothingPending
  <2>6. committed'[t][p] = committed[t][p] \/ committed'[t][p] = CommitTarget(t)[p]
    BY <1>1
  <2> QED BY <2>2, <2>3, <2>4, <2>5, <2>6
<1>5. Offsets(t)'
  BY <1>1, <1>4 DEF Offsets
<1>6. Accounted(t)'
  <2>1. ASSUME NEW p \in Partition, NEW o \in Nat, Passed(t, p, o)'
        PROVE  Passed(t, p, o)
    <3>1. committed'[t][p] <= position[t][p] /\ Running(t)
      BY <1>1, <1>4 DEF Running
    <3>2. o < position[t][p]
      <4>1. o < committed'[t][p] \/ o < position[t][p]
        BY <2>1, <1>1 DEF Passed
      <4>2. position[t][p] \in Nat /\ committed'[t][p] \in Int
        BY <1>1, Numbers, CommitTargetTyped
      <4> QED BY <4>1, <4>2, <3>1
    <3> QED BY <3>1, <3>2 DEF Passed
  <2>2. Somewhere(t)' = Somewhere(t)
    BY <1>1 DEF Somewhere, InMemory
  <2> QED BY <2>1, <2>2, AccountedStable DEF ThreadInv, StepFrame
<1>7. Rested(t)'
  <2> SUFFICES ASSUME NEW p \in Partition
               PROVE  /\ pending'[t][p] # Absent => <<t, p, pending'[t][p]>> \in applied' \cup skipped'
                      /\ committed'[t][p] > 0 => <<t, p, committed'[t][p] - 1>> \in applied' \cup skipped'
    BY DEF Rested, Handled
  <2>1. /\ pending[t][p] # Absent => Handled(t, p, pending[t][p])
        /\ committed[t][p] > 0 => Handled(t, p, committed[t][p] - 1)
    BY DEF ThreadInv, Rested
  <2>2. pending'[t][p] # Absent => <<t, p, pending'[t][p]>> \in applied' \cup skipped'
    BY <1>1, <2>1 DEF NothingPending, Handled, TriedGrows, StepFrame
  <2>3. ASSUME committed'[t][p] > 0 PROVE <<t, p, committed'[t][p] - 1>> \in applied' \cup skipped'
    <3>1. CASE committed'[t][p] = committed[t][p]
      BY <2>1, <2>3, <3>1 DEF Handled, TriedGrows, StepFrame
    <3>2. CASE committed'[t][p] # committed[t][p]
      <4>1. pending[t][p] # Absent /\ committed'[t][p] = pending[t][p] + 1
        BY <1>1, <3>2 DEF CommitTarget
      <4>2. committed'[t][p] - 1 = pending[t][p]
        BY <4>1, Numbers
      <4> QED BY <2>1, <4>1, <4>2 DEF Handled, TriedGrows, StepFrame
    <3> QED BY <3>1, <3>2
  <2> QED BY <2>2, <2>3
<1> QED BY <1>3, <1>4, <1>5, <1>6, <1>7 DEF ThreadInv

(* The steps of a flush move no offset. *)
LEMMA FlushFrame ==
    ASSUME TypeOK, NEW t \in Thread, ThreadInv(t), StepFrame(t),
           UNCHANGED <<log, committed[t], position[t], pending[t]>>
    PROVE  /\ Offsets(t)' /\ Rested(t)'
           /\ (\A p \in Partition, o \in Nat :
                  <<t, p, o>> \in Somewhere(t) => <<t, p, o>> \in Somewhere(t)')
              => Accounted(t)'
<1>1. Running(t) /\ Running(t)'
  BY DEF StepFrame, Running
<1>2. Offsets(t)'
  BY <1>1 DEF ThreadInv, Offsets
<1>3. \A p \in Partition, o \in Nat : Passed(t, p, o)' => Passed(t, p, o)
  BY <1>1 DEF Passed
<1>4. Rested(t)'
  BY RestedStable DEF ThreadInv, StepFrame
<1> QED BY <1>2, <1>3, <1>4, AccountedStable DEF ThreadInv, StepFrame

LEMMA FlushInv ==
    ASSUME TypeOK, NEW t \in Thread, ThreadInv(t), StepFrame(t),
           \/ FlushBegin(t) \/ FlushEnd(t)
           \/ \E h \in Hour : Upload(t, h) \/ UploadRefused(t, h) \/ UploadRaises(t, h)
    PROVE  ThreadInv(t)'
<1> USE DEF outcomeVars, lakeVars, mainVars, offsetVars, bufferVars
<1>1. UNCHANGED <<log, committed, position, pending>>
  BY DEF FlushBegin, FlushEnd, Upload, UploadRefused, UploadRaises
<1>2. CASE FlushBegin(t)
  <2>1. /\ pc[t] \in {"polling", "lastflush"} /\ uploading[t] = {} /\ failed[t] = {}
        /\ pc'[t] = IF buffer[t] = {} THEN "closed" ELSE "uploading"
        /\ pc[t] = "polling" => pc'[t] = "uploading"
        /\ buffer'[t] = {} /\ uploading'[t] = buffer[t]
        /\ UNCHANGED <<failed, final, lake, lost>>
    BY <1>2 DEF FlushBegin, ThreadInv, Control, TypeOK
  <2>2. Control(t)' /\ Doomed(t)'
    BY <2>1 DEF ThreadInv, Control, Doomed, InMemory
  <2>3. Somewhere(t)' = Somewhere(t)
    BY <2>1 DEF Somewhere, InMemory
  <2> QED BY <1>1, <2>2, <2>3, FlushFrame DEF ThreadInv
<1>3. CASE FlushEnd(t)
  <2>1. /\ pc[t] = "uploading" /\ uploading[t] = {} /\ buffer[t] = {}
        /\ buffer'[t] = failed[t] /\ failed'[t] = {}
        /\ pc'[t] = IF final[t] THEN "closed" ELSE "polling"
        /\ UNCHANGED <<uploading, final, lake, lost>>
    BY <1>3 DEF FlushEnd, ThreadInv, Control, TypeOK
  <2>2. Control(t)' /\ Doomed(t)'
    BY <2>1 DEF ThreadInv, Control, Doomed, InMemory
  <2>3. Somewhere(t)' = Somewhere(t)
    BY <2>1 DEF Somewhere, InMemory
  <2> QED BY <1>1, <2>2, <2>3, FlushFrame DEF ThreadInv
<1>4. ASSUME NEW h \in Hour, Upload(t, h) PROVE ThreadInv(t)'
  <2>1. /\ pc[t] = "uploading" /\ lake' = lake \cup Group(t, h)
        /\ uploading'[t] = uploading[t] \ Group(t, h)
        /\ UNCHANGED <<pc, final, buffer, failed, lost>>
    BY <1>4 DEF Upload, CanUpload, TypeOK
  <2>2. Control(t)' /\ Doomed(t)'
    BY <2>1 DEF ThreadInv, Control, Doomed, InMemory
  <2>3. Somewhere(t) \subseteq Somewhere(t)'
    BY <2>1 DEF Somewhere, InMemory
  <2> QED BY <1>1, <2>2, <2>3, FlushFrame DEF ThreadInv
<1>5. ASSUME NEW h \in Hour, UploadRefused(t, h) PROVE ThreadInv(t)'
  <2>1. /\ pc[t] = "uploading" /\ failed'[t] = failed[t] \cup Group(t, h)
        /\ uploading'[t] = uploading[t] \ Group(t, h)
        /\ lost' = IF final[t] THEN lost \cup Group(t, h) ELSE lost
        /\ UNCHANGED <<pc, final, buffer, lake>>
    BY <1>5 DEF UploadRefused, CanUpload, TypeOK
  <2>2. Control(t)' /\ Doomed(t)'
    BY <2>1 DEF ThreadInv, Control, Doomed, InMemory, Group
  <2>3. Somewhere(t) \subseteq Somewhere(t)'
    BY <2>1 DEF Somewhere, InMemory
  <2> QED BY <1>1, <2>2, <2>3, FlushFrame DEF ThreadInv
<1>6. ASSUME NEW h \in Hour, UploadRaises(t, h) PROVE ThreadInv(t)'
  <2>1. /\ pc[t] = "uploading" /\ failed'[t] = {} /\ uploading'[t] = {}
        /\ lost' = lost \cup uploading[t] \cup failed[t]
        /\ pc'[t] = IF final[t] THEN "closed" ELSE "lastcommit"
        /\ final'[t]
        /\ UNCHANGED <<buffer, lake>>
    BY <1>6 DEF UploadRaises, CanUpload, TypeOK
  <2>2. Control(t)' /\ Doomed(t)'
    BY <2>1 DEF ThreadInv, Control, Doomed, InMemory
  <2>3. Somewhere(t) \subseteq Somewhere(t)'
    BY <2>1 DEF Somewhere, InMemory
  <2> QED BY <1>1, <2>2, <2>3, FlushFrame DEF ThreadInv
<1> QED BY <1>2, <1>3, <1>4, <1>5, <1>6

LEMMA ThreadInvStep ==
    ASSUME IInv, NEW t \in Thread, ThreadStep(t) \/ ThreadFault(t)
    PROVE  IInv'
<1>1. TypeOK /\ ThreadInv(t) /\ StepFrame(t)
  BY ThreadFrame DEF IInv
<1>2. TypeOK'
  BY <1>1, TypeStep DEF Next
<1>3. ThreadInv(t)'
  BY <1>1, PollInv, LeaveInv, CommitInv, FlushInv DEF ThreadStep, ThreadFault
<1>4. ASSUME NEW u \in Thread, u # t PROVE ThreadInv(u)'
  BY <1>1, <1>4, StillInv DEF IInv, StepFrame
<1>5. RunsAlive'
  BY <1>1 DEF IInv, RunsAlive, Running, Alive, StepFrame, Still
<1> QED BY <1>2, <1>3, <1>4, <1>5 DEF IInv

(* Starting, stopping and dying: a start puts every thread where its group *)
(* left off, an exit finds the buffers empty or counted as lost, a kill    *)
(* counts them.                                                            *)
LEMMA StartInv == ASSUME IInv, Start PROVE IInv'
<1> USE DEF outcomeVars, lakeVars, mainVars, offsetVars, bufferVars
<1>1. TypeOK /\ TypeOK'
  BY TypeStep DEF IInv, Next
<1>2. /\ UNCHANGED <<log, committed, outcomeVars, lakeVars, final, pending, bufferVars>>
      /\ position' = committed
      /\ \A t \in Thread : pc'[t] = "polling" /\ pc[t] = "off"
  BY DEF Start, IInv, RunsAlive, Running, Alive
<1>3. RunsAlive'
  BY <1>2 DEF RunsAlive, Running, Alive, Start
<1>4. ASSUME NEW t \in Thread PROVE ThreadInv(t)'
  <2>1. ThreadInv(t) /\ pending[t] = NothingPending /\ pc'[t] = "polling" /\ pc[t] = "off"
    BY <1>2 DEF IInv, ThreadInv, Control
  <2>2. Control(t)' /\ Doomed(t)'
    BY <1>2, <2>1 DEF ThreadInv, Control, Doomed, InMemory
  <2>3. Offsets(t)'
    <3>1. ASSUME NEW p \in Partition
          PROVE  /\ committed[t][p] <= Len(log[t][p]) /\ pending[t][p] = Absent
                 /\ committed[t][p] <= committed[t][p]
      BY <1>1, <2>1, Numbers DEF ThreadInv, Offsets, NothingPending
    <3> QED BY <1>2, <3>1 DEF Offsets
  <2>4. Accounted(t)'
    <3>1. \A p \in Partition, o \in Nat : Passed(t, p, o)' => Passed(t, p, o)
      BY <1>2 DEF Passed
    <3>2. TriedGrows /\ Somewhere(t)' = Somewhere(t)
      BY <1>2 DEF TriedGrows, Somewhere, InMemory
    <3> QED BY <1>1, <2>1, <3>1, <3>2, AccountedStable DEF ThreadInv
  <2>5. Rested(t)'
    BY <1>2, <2>1, RestedStable DEF ThreadInv, TriedGrows
  <2> QED BY <2>2, <2>3, <2>4, <2>5 DEF ThreadInv
<1> QED BY <1>1, <1>3, <1>4 DEF IInv

LEMMA EndInv == ASSUME IInv, Exit \/ Kill PROVE IInv'
<1> USE DEF outcomeVars, lakeVars, mainVars, offsetVars, bufferVars
<1>1. TypeOK /\ TypeOK'
  BY TypeStep DEF IInv, Next
<1>2. Vanish /\ proc' \in {"down", "exited"}
  BY DEF Exit, Kill
<1>3. RunsAlive'
  BY <1>2 DEF RunsAlive, Running, Alive, Vanish
<1>4. ASSUME NEW t \in Thread PROVE ThreadInv(t)'
  <2>1. ThreadInv(t)
    BY DEF IInv
  <2>2. /\ pc'[t] = "off" /\ ~final'[t] /\ pending'[t] = NothingPending
        /\ buffer'[t] = {} /\ uploading'[t] = {} /\ failed'[t] = {}
        /\ UNCHANGED <<log, committed, outcomeVars, lake>>
    BY <1>2 DEF Vanish
  <2>3. Control(t)' /\ Doomed(t)'
    BY <2>2 DEF Control, Doomed, InMemory
  <2>4. Offsets(t)'
    BY <2>1, <2>2 DEF ThreadInv, Offsets, Running, NothingPending
  <2>5. lost \subseteq lost' /\ InMemory(t) \subseteq lost'
    <3>1. CASE Exit
      <4>1. pc[t] = "closed" /\ lost' = lost
        BY <3>1 DEF Exit
      <4> QED BY <2>1, <4>1 DEF ThreadInv, Control, Doomed, InMemory
    <3>2. CASE Kill
      BY <3>2 DEF Kill
    <3> QED BY <3>1, <3>2
  <2>6. Accounted(t)'
    <3>1. \A p \in Partition, o \in Nat : Passed(t, p, o)' => Passed(t, p, o)
      BY <2>2 DEF Passed, Running
    <3>2. TriedGrows /\ Somewhere(t) \subseteq Somewhere(t)'
      BY <2>2, <2>5 DEF TriedGrows, Somewhere
    <3> QED BY <1>1, <2>1, <3>1, <3>2, AccountedStable DEF ThreadInv
  <2>7. Rested(t)'
    BY <2>1, <2>2, RestedStable DEF ThreadInv, TriedGrows, NothingPending
  <2> QED BY <2>3, <2>4, <2>6, <2>7 DEF ThreadInv
<1> QED BY <1>1, <1>3, <1>4 DEF IInv

LEMMA QuietInv == ASSUME IInv, StartScheduler \/ Signal \/ UNCHANGED vars PROVE IInv'
<1> USE DEF outcomeVars, lakeVars, mainVars, offsetVars, bufferVars
<1>1. TypeOK /\ TypeOK'
  BY TypeStep DEF IInv, Next
<1>2. /\ UNCHANGED <<log, committed, outcomeVars, lakeVars, pc, final, offsetVars, bufferVars>>
      /\ Alive' <=> Alive
  BY DEF StartScheduler, Signal, vars, Alive
<1>3. RunsAlive'
  BY <1>2 DEF IInv, RunsAlive, Running
<1>4. ASSUME NEW t \in Thread PROVE ThreadInv(t)'
  BY <1>1, <1>2, StillInv DEF IInv, Still, TriedGrows
<1> QED BY <1>1, <1>3, <1>4 DEF IInv

LEMMA IInvInit == Init => IInv
<1> SUFFICES ASSUME Init PROVE IInv OBVIOUS
<1>1. TypeOK
  BY InitType
<1>2. RunsAlive
  BY DEF Init, RunsAlive, Running, Alive
<1>3. ASSUME NEW t \in Thread PROVE ThreadInv(t)
  <2>1. Control(t) /\ Doomed(t)
    BY DEF Init, Control, Doomed, InMemory
  <2>2. Offsets(t)
    BY <1>1, Numbers DEF Init, Offsets, Running, NothingPending
  <2>3. Accounted(t)
    <3> SUFFICES ASSUME NEW p \in Partition, NEW o \in 0..(Len(log[t][p]) - 1)
                 PROVE  ~Passed(t, p, o)
      BY DEF Accounted
    <3>1. o \in Nat
      BY <1>1, Numbers
    <3> QED BY <3>1 DEF Init, Passed, Running
  <2>4. Rested(t)
    BY DEF Init, Rested, NothingPending
  <2> QED BY <2>1, <2>2, <2>3, <2>4 DEF ThreadInv
<1> QED BY <1>1, <1>2, <1>3 DEF IInv

LEMMA IInvStep == IInv /\ [Next]_vars => IInv'
BY ThreadInvStep, StartInv, EndInv, QuietInv DEF Next

LEMMA IInvInvariant == Spec => []IInv
BY IInvInit, IInvStep, PTL DEF Spec

----------------------------------------------------------------------------
(* The theorems *)

(* Every variable keeps its type.                                          *)
THEOREM TypeCorrect == Spec => []TypeOK
BY IInvInvariant, PTL DEF IInv

(* A committed offset is in the log, where the thread is past it.          *)
LEMMA CommittedKept ==
    ASSUME IInv, NEW t \in Thread, NEW p \in Partition,
           NEW o \in 0..(committed[t][p] - 1)
    PROVE  o \in 0..(Len(log[t][p]) - 1) /\ Kept(t, p, o)
<1>1. committed[t][p] \in Nat /\ Len(log[t][p]) \in Nat
  BY Numbers DEF IInv
<1>2. committed[t][p] <= Len(log[t][p])
  BY DEF IInv, ThreadInv, Offsets
<1>3. o \in 0..(Len(log[t][p]) - 1) /\ Passed(t, p, o)
  BY <1>1, <1>2 DEF Passed
<1> QED BY <1>3 DEF IInv, ThreadInv, Accounted

(* No offset is committed for the sake of a message that Redis refused or  *)
(* that was not looked at, whatever commits fail, threads end or processes *)
(* are killed.                                                             *)
THEOREM CommitsRest == Spec => []CommitsRestOnHandled
<1>1. IInv => CommitsRestOnHandled
  <2> SUFFICES ASSUME IInv, NEW t \in Thread, NEW p \in Partition,
                      NEW o \in 0..(committed[t][p] - 1)
               PROVE  /\ Tried(t, p, o)
                      /\ \E later \in o..(committed[t][p] - 1) : Handled(t, p, later)
    BY DEF CommitsRestOnHandled
  <2>1. committed[t][p] \in Nat
    BY Numbers DEF IInv
  <2>2. committed[t][p] > 0 /\ committed[t][p] - 1 \in o..(committed[t][p] - 1)
    BY <2>1
  <2>3. Handled(t, p, committed[t][p] - 1)
    BY <2>2 DEF IInv, ThreadInv, Rested
  <2> QED BY <2>2, <2>3, CommittedKept DEF Kept
<1> QED BY <1>1, IInvInvariant, PTL

(* A consumer that has ended, with the worker or before it, leaves no      *)
(* committed event out of the lake, save what S3 refused in the last flush *)
(* or a kill took (consumer.py 214-224).                                   *)
THEOREM CleanStop == Spec => []CleanStopDrains
<1>1. IInv => CleanStopDrains
  <2> SUFFICES ASSUME IInv, NEW t \in Thread, proc = "exited" \/ pc[t] = "closed",
                      NEW p \in Partition, NEW o \in 0..(committed[t][p] - 1)
               PROVE  <<t, p, o>> \in lost \/ Saved(t, p, o)
    BY DEF CleanStopDrains
  <2>1. <<t, p, o>> \in lost \/ Saved(t, p, o) \/ <<t, p, o>> \in InMemory(t)
    BY CommittedKept DEF Kept, SavedOrBuffered
  <2>2. pc[t] \in {"off", "closed"}
    BY DEF IInv, RunsAlive, Alive, Running
  <2>3. InMemory(t) \subseteq buffer[t]
    BY <2>2 DEF IInv, ThreadInv, Control, InMemory
  <2>4. InMemory(t) \subseteq lost
    BY <2>2, <2>3 DEF IInv, ThreadInv, Control, Doomed
  <2> QED BY <2>1, <2>4
<1> QED BY <1>1, IInvInvariant, PTL

(* While the process lives a record leaves the memory for the lake only,   *)
(* or is counted as lost: no flush overwrites the records of the one before*)
(* it, and no step of a thread drops another's.                            *)
LEMMA StepKeepsRecords ==
    ASSUME IInv, [Next]_vars, Alive', NEW t \in Thread
    PROVE  InMemory(t) \subseteq InMemory(t)' \cup lake' \cup lost'
<1> USE DEF outcomeVars, lakeVars, mainVars, offsetVars, bufferVars, InMemory
<1>1. ASSUME NEW u \in Thread, ThreadStep(u) \/ ThreadFault(u)
      PROVE  InMemory(t) \subseteq InMemory(t)' \cup lake' \cup lost'
  <2>1. CASE u # t
    <3>1. StepFrame(u)
      BY <1>1, ThreadFrame DEF IInv
    <3> QED BY <2>1, <3>1 DEF StepFrame, Still
  <2>2. CASE u = t
    <3>1. CASE \E p \in Partition : PollBuffers(t, p) \/ PollSkips(t, p) \/ PollRaises(t, p)
                                    \/ PollRedisFails(t, p)
      BY <3>1 DEF PollBuffers, PollSkips, PollRaises, PollRedisFails, IInv, TypeOK
    <3>2. CASE SeeStop(t) \/ Commit(t) \/ LastCommit(t) \/ CommitRaises(t)
      BY <3>2 DEF SeeStop, Commit, LastCommit, CommitRaises
    <3>3. CASE FlushBegin(t)
      <4>1. uploading[t] = {} /\ failed[t] = {}
        BY <3>3 DEF FlushBegin, IInv, ThreadInv, Control
      <4>2. uploading'[t] = buffer[t]
        BY <3>3 DEF FlushBegin, IInv, TypeOK
      <4> QED BY <4>1, <4>2
    <3>4. CASE FlushEnd(t)
      BY <3>4 DEF FlushEnd, IInv, TypeOK
    <3>5. ASSUME NEW h \in Hour, Upload(t, h) \/ UploadRefused(t, h)
          PROVE  InMemory(t) \subseteq InMemory(t)' \cup lake' \cup lost'
      BY <3>5 DEF Upload, UploadRefused, IInv, TypeOK
    <3>6. ASSUME NEW h \in Hour, UploadRaises(t, h)
          PROVE  InMemory(t) \subseteq InMemory(t)' \cup lake' \cup lost'
      BY <3>6 DEF UploadRaises, IInv, TypeOK
    <3> QED BY <1>1, <2>2, <3>1, <3>2, <3>3, <3>4, <3>5, <3>6 DEF ThreadStep, ThreadFault
  <2> QED BY <2>1, <2>2
<1>2. CASE Start \/ StartScheduler \/ Signal
  BY <1>2 DEF Start, StartScheduler, Signal
<1>3. CASE Exit \/ Kill
  BY <1>3 DEF Exit, Kill, Alive
<1>4. CASE UNCHANGED vars
  BY <1>4 DEF vars
<1> QED BY <1>1, <1>2, <1>3, <1>4 DEF Next

THEOREM FlushKeeps == Spec => FlushKeepsRecords
<1>1. IInv /\ [Next]_vars =>
        [Alive' => \A t \in Thread :
            InMemory(t) \subseteq InMemory(t)' \cup lake' \cup lost']_vars
  BY StepKeepsRecords
<1> QED BY <1>1, IInvInvariant, PTL DEF Spec, FlushKeepsRecords

----------------------------------------------------------------------------
(* The consumers implement AtLeastOnce. *)

LEMMA TriedStable ==
    ASSUME TriedGrows, NEW t, NEW p, NEW o, Tried(t, p, o) PROVE Tried(t, p, o)'
BY DEF TriedGrows, Tried, Handled

LEMMA TakenGrows == ASSUME TriedGrows PROVE \A s \in Sources : Taken[s] \subseteq Taken'[s]
BY TriedStable DEF Taken, TriedGrows

LEMMA TakenSame == ASSUME UNCHANGED <<log, outcomeVars>> PROVE Taken' = Taken
BY DEF Taken, Tried, Handled, outcomeVars

(* A committed prefix lies within what is taken over. *)
AckedWithinTaken == \A s \in Sources : Contract!Prefix(Acked[s]) \subseteq Taken[s]

LEMMA AckedPrefix == IInv => AckedWithinTaken
<1> SUFFICES ASSUME IInv, NEW s \in Sources, NEW o \in 0..(Acked[s] - 1)
             PROVE  o \in Taken[s]
  BY DEF AckedWithinTaken, Contract!Prefix
<1>1. PICK t \in Thread, p \in Partition : s = <<t, p>>
  BY DEF Sources
<1>2. Acked[s] = committed[t][p]
  BY <1>1 DEF Acked, Sources
<1>3. o \in 0..(Len(log[t][p]) - 1) /\ Tried(t, p, o)
  BY <1>2, CommittedKept DEF Kept
<1> QED BY <1>1, <1>3 DEF Taken, Sources

LEMMA AckedPrefixNext == IInv' => AckedWithinTaken'
BY AckedPrefix, PTL

(* A commit acknowledges more of what was taken over before. *)
LEMMA CommitAcknowledges ==
    ASSUME IInv, IInv', NEW t \in Thread, Commit(t) \/ CommitRaises(t) \/ LastCommit(t)
    PROVE  Contract!Acknowledge
<1>1. TypeOK /\ ThreadInv(t) /\ StepFrame(t)
  BY ThreadFrame DEF IInv, ThreadStep, ThreadFault
<1>2. UNCHANGED <<log, outcomeVars>>
  BY DEF Commit, CommitRaises, LastCommit
<1>3. Taken' = Taken
  BY <1>2, TakenSame
<1>4. Alive /\ Alive'
  BY <1>1 DEF IInv, RunsAlive, Running, StepFrame
<1>5. ASSUME NEW s \in Sources PROVE Acked'[s] >= Acked[s]
  <2>1. PICK u \in Thread, p \in Partition : s = <<u, p>>
    BY DEF Sources
  <2>2. Acked[s] = committed[u][p] /\ Acked'[s] = committed'[u][p]
    BY <2>1 DEF Acked, Sources
  <2>3. committed[u][p] \in Nat /\ committed'[u][p] \in Nat
    BY DEF IInv, TypeOK
  <2>4. committed[u][p] <= committed'[u][p]
    <3>1. CASE u = t
      BY <3>1, <1>1, CommitInv
    <3>2. CASE u # t
      BY <3>2, <2>3, <1>1 DEF StepFrame, Still
    <3> QED BY <3>1, <3>2
  <2> QED BY <2>2, <2>3, <2>4
<1>6. AckedWithinTaken'
  BY AckedPrefixNext
<1> QED BY <1>3, <1>4, <1>5, <1>6 DEF AckedWithinTaken, Contract!Acknowledge

LEMMA ContractStep ==
    ASSUME IInv, IInv', [Next]_vars PROVE [Contract!Next]_(Contract!cvars)
<1> USE DEF Contract!Next, outcomeVars, lakeVars, mainVars, offsetVars, bufferVars
<1>1. committed' = committed => Acked' = Acked
  BY DEF Acked
<1>2. ASSUME NEW t \in Thread, ThreadStep(t) \/ ThreadFault(t), UNCHANGED committed
      PROVE  Contract!TakeOver
  <2>1. StepFrame(t)
    BY <1>2, ThreadFrame DEF IInv
  <2>2. Alive /\ Alive'
    BY <2>1 DEF IInv, RunsAlive, Running, StepFrame
  <2>3. \A s \in Sources : Taken[s] \subseteq Taken'[s]
    BY <2>1, TakenGrows DEF StepFrame
  <2> QED BY <1>1, <1>2, <2>2, <2>3 DEF Contract!TakeOver
<1>3. ASSUME NEW t \in Thread, ThreadStep(t) \/ ThreadFault(t),
             ~(Commit(t) \/ CommitRaises(t) \/ LastCommit(t))
      PROVE  UNCHANGED committed
  <2>1. CASE \E p \in Partition : PollBuffers(t, p) \/ PollSkips(t, p) \/ PollRaises(t, p)
                                  \/ PollRedisFails(t, p)
    BY <2>1 DEF PollBuffers, PollSkips, PollRaises, PollRedisFails
  <2>2. CASE SeeStop(t) \/ FlushBegin(t) \/ FlushEnd(t)
    BY <2>2 DEF SeeStop, FlushBegin, FlushEnd
  <2>3. CASE \E h \in Hour : Upload(t, h) \/ UploadRefused(t, h) \/ UploadRaises(t, h)
    BY <2>3 DEF Upload, UploadRefused, UploadRaises
  <2> QED BY <1>3, <2>1, <2>2, <2>3 DEF ThreadStep, ThreadFault
<1>4. ASSUME UNCHANGED <<log, outcomeVars, committed>>
      PROVE  Taken' = Taken /\ Acked' = Acked
  BY <1>1, <1>4, TakenSame
<1>5. CASE Start
  BY <1>4, <1>5 DEF Start, Alive, Contract!Attach
<1>6. CASE Exit \/ Kill
  <2>1. Taken' = Taken /\ Acked' = Acked
    BY <1>4, <1>6 DEF Exit, Kill, Vanish
  <2> QED BY <2>1, <1>6 DEF Exit, Kill, Alive, Contract!Detach
<1>7. CASE StartScheduler \/ Signal \/ UNCHANGED vars
  <2>1. Taken' = Taken /\ Acked' = Acked
    BY <1>4, <1>7 DEF StartScheduler, Signal, vars
  <2>2. Alive' <=> Alive
    BY <1>7 DEF StartScheduler, Signal, vars, Alive
  <2>3. Alive' = Alive
    BY <2>2 DEF Alive
  <2> QED BY <2>1, <2>3 DEF Contract!cvars
<1> QED BY <1>2, <1>3, <1>5, <1>6, <1>7, CommitAcknowledges DEF Next

(* The worker's consumers are an at-least-once group: taking over is trying*)
(* a message, acknowledging is committing, and every other step of theirs, *)
(* of main() or of the environment is one of the contract's or a stutter.  *)
THEOREM Implements == Spec => ImplementsAtLeastOnce
<1>1. Init => Contract!Init
  <2> SUFFICES ASSUME Init PROVE Contract!Init OBVIOUS
  <2>1. ASSUME NEW s \in Sources PROVE Acked[s] = 0
    BY DEF Init, Acked, Sources
  <2>2. ASSUME NEW s \in Sources PROVE Taken[s] = {}
    BY DEF Init, Taken, Tried, Handled
  <2>3. Acked = [s \in Sources |-> 0] /\ Taken = [s \in Sources |-> {}]
    BY <2>1, <2>2 DEF Acked, Taken
  <2> QED BY <2>3 DEF Init, Alive, Contract!Init
<1>2. IInv /\ IInv' /\ [Next]_vars => [Contract!Next]_(Contract!cvars)
  BY ContractStep
<1> QED BY <1>1, <1>2, IInvInvariant, PTL DEF Spec, ImplementsAtLeastOnce, Contract!Spec
=============================================================================
