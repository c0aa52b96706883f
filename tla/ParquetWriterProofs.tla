------------------------- MODULE ParquetWriterProofs -------------------------
(***************************************************************************)
(* Proofs about ParquetWriter for every list of tables, every look-back,   *)
(* every bound and every combination of faults.                            *)
(***************************************************************************)
EXTENDS ParquetWriter, FiniteSetTheorems, TLAPS

(* Committed rows that did not come late: what a file must have. *)
OnTime == rows \ late

Queued(k) == \E i \in DOMAIN queue : queue[i] = k

(* No row is of an hour to come, and a late one is of an hour that is over.*)
RowsPast ==
    /\ \A r \in open \cup rows : r.hour <= hour
    /\ \A r \in late : r.hour < hour

(* Only hours that are over have a file or wait for one. *)
FilesPast ==
    /\ \A k \in File : InLake(k) \/ Queued(k) => k[2] < hour
    /\ written \subseteq {k \in File : InLake(k)}
    /\ tracked <= hour /\ upTo <= hour

(* The rows being uploaded are all the file must have. *)
BatchComplete ==
    pc = "putting" =>
        /\ queue # <<>> /\ batch # {}
        /\ \A r \in OnTime : FileOf(r) = Head(queue) => r \in batch

(* The writer is through with a file of an hour that is over. *)
Settled(k) == k \in missed \/ \A r \in OnTime : FileOf(r) = k => r \in lake[k]

Through(first, last) == \A k \in File : k[2] \in first..last => Settled(k)

Covered(first, last) == \A k \in File : k[2] \in first..last => Settled(k) \/ Queued(k)

(* What the writer has promised where it is: with a queue, that it covers  *)
(* the hours it is for, without one, that they are settled.                *)
Promise ==
    /\ pc \in {"next", "putting"} =>
         Covered(IF phase = "catchup" THEN upTo - Lookback ELSE from, upTo - 1)
    /\ pc = "waiting" => Through(from, tracked - 1)
    /\ pc = "stopped" => Through(from, upTo - 1)

Finite == IsFiniteSet(open) /\ IsFiniteSet(rows)

IInv ==
    /\ TypeOK /\ Finite /\ RowsPast /\ FilesPast
    /\ FilesComplete /\ BatchComplete /\ Promise

----------------------------------------------------------------------------
(* The files of a list of hours *)

LEMMA TablesLength == Len(Tables) \in Nat \ {0}
BY ParquetWriterAssumption

HourRange == 0..MaxHour

(* Counting through the tables of each hour reaches every table of every   *)
(* hour, and nothing else.                                                 *)
LEMMA DivMod ==
    ASSUME NEW n \in Nat \ {0}, NEW m \in Nat, NEW i \in 1..(n * m)
    PROVE  ((i - 1) % n) + 1 \in 1..n /\ ((i - 1) \div n) + 1 \in 1..m
<1>1. (i - 1) % n \in 0..(n - 1) /\ (i - 1) \div n \in Nat
  OBVIOUS
<1>2. i - 1 = n * ((i - 1) \div n) + ((i - 1) % n)
  OBVIOUS
<1>3. (i - 1) \div n < m
  BY <1>1, <1>2
<1> QED BY <1>1, <1>3

LEMMA FilesOfTyped ==
    ASSUME NEW hours \in Seq(HourRange)
    PROVE  /\ FilesOf(hours) \in Seq(File)
           /\ \A i \in DOMAIN FilesOf(hours) :
                \E j \in 1..Len(hours) : FilesOf(hours)[i][2] = hours[j]
<1> DEFINE n == Len(Tables)
           m == Len(hours)
<1>1. n \in Nat \ {0} /\ m \in Nat
  BY TablesLength
<1>2. ASSUME NEW i \in 1..(n * m)
      PROVE  /\ FilesOf(hours)[i] \in File
             /\ \E j \in 1..m : FilesOf(hours)[i][2] = hours[j]
  <2>1. ((i - 1) % n) + 1 \in 1..n /\ ((i - 1) \div n) + 1 \in 1..m
    BY <1>1, DivMod
  <2>2. FilesOf(hours)[i] = <<Tables[((i - 1) % n) + 1], hours[((i - 1) \div n) + 1]>>
    BY DEF FilesOf
  <2>3. PICK a \in 1..n, b \in 1..m : FilesOf(hours)[i] = <<Tables[a], hours[b]>>
    BY <2>1, <2>2
  <2>4. Tables[a] \in Table
    BY DEF Table
  <2>5. hours[b] \in HourRange
    OBVIOUS
  <2> QED BY <2>3, <2>4, <2>5 DEF File, HourRange
<1>3. FilesOf(hours) = [i \in 1..(n * m) |-> FilesOf(hours)[i]] /\ n * m \in Nat
  BY <1>1 DEF FilesOf
<1> HIDE DEF n, m
<1>4. FilesOf(hours) \in Seq(File)
  BY <1>2, <1>3
<1>5. DOMAIN FilesOf(hours) = 1..(n * m)
  BY <1>3
<1> QED BY <1>2, <1>4, <1>5 DEF m

LEMMA FilesOfAll ==
    ASSUME NEW hours \in Seq(HourRange), NEW k \in File, NEW j \in 1..Len(hours),
           hours[j] = k[2]
    PROVE  \E i \in DOMAIN FilesOf(hours) : FilesOf(hours)[i] = k
<1>1. Len(Tables) \in Nat \ {0} /\ Len(hours) \in Nat
  BY TablesLength
<1>2. PICK a \in 1..Len(Tables) : Tables[a] = k[1]
  BY DEF File, Table
<1>3. PICK i \in 1..(Len(Tables) * Len(hours)) :
         ((i - 1) % Len(Tables)) + 1 = a /\ ((i - 1) \div Len(Tables)) + 1 = j
  <2> DEFINE n == Len(Tables)
             m == Len(hours)
  <2>1. n \in Nat \ {0} /\ m \in Nat /\ a \in 1..n /\ j \in 1..m
    BY <1>1
  <2> HIDE DEF n, m
  <2>2. \E i \in 1..(n * m) : ((i - 1) % n) + 1 = a /\ ((i - 1) \div n) + 1 = j
    <3> DEFINE i == (j - 1) * n + a
    <3>1. i \in 1..(n * m) /\ i - 1 = (j - 1) * n + (a - 1)
      BY <2>1
    <3>2. (i - 1) % n = a - 1 /\ (i - 1) \div n = j - 1
      BY <2>1, <3>1
    <3>3. ((i - 1) % n) + 1 = a /\ ((i - 1) \div n) + 1 = j
      BY <2>1, <3>2
    <3> QED BY <3>1, <3>3
  <2> QED BY <2>2 DEF n, m
<1>4. i \in DOMAIN FilesOf(hours) /\ FilesOf(hours)[i] = <<Tables[a], hours[j]>>
  BY <1>3 DEF FilesOf
<1>5. k = <<k[1], k[2]>>
  BY DEF File
<1> QED BY <1>2, <1>4, <1>5

(* The hours of a catch-up and of a flush. *)
LEMMA HoursBeforeTyped ==
    ASSUME NEW h \in 0..MaxHour
    PROVE  /\ HoursBefore(h) \in Seq(HourRange)
           /\ \A j \in 1..Len(HoursBefore(h)) : HoursBefore(h)[j] < h
           /\ \A x \in (h - Lookback)..(h - 1) :
                x >= 0 => \E j \in 1..Len(HoursBefore(h)) : HoursBefore(h)[j] = x
<1>1. Lookback \in Nat /\ MaxHour \in Nat
  BY ParquetWriterAssumption
<1> DEFINE n == IF h < Lookback THEN h ELSE Lookback
<1>2. n \in Nat /\ n <= h
  BY <1>1
<1>3. HoursBefore(h) = [i \in 1..n |-> h - i]
  BY DEF HoursBefore
<1>4. \A i \in 1..n : h - i \in HourRange /\ h - i < h
  BY <1>1, <1>2 DEF HourRange
<1>5. ASSUME NEW x \in (h - Lookback)..(h - 1), x >= 0
      PROVE  \E j \in 1..n : h - j = x
  <2>1. h - x \in 1..n /\ h - (h - x) = x
    BY <1>1, <1>5
  <2> QED BY <2>1
<1> HIDE DEF n
<1>6. Len(HoursBefore(h)) = n /\ HoursBefore(h) \in Seq(HourRange)
  BY <1>2, <1>3, <1>4
<1> QED BY <1>3, <1>4, <1>5, <1>6

HoursFrom(a, b) == [i \in 1..(b - a) |-> a + i - 1]

LEMMA HoursFromTyped ==
    ASSUME NEW a \in 0..MaxHour, NEW b \in 0..MaxHour, a <= b
    PROVE  /\ HoursFrom(a, b) \in Seq(HourRange)
           /\ \A j \in 1..Len(HoursFrom(a, b)) : HoursFrom(a, b)[j] < b
           /\ \A x \in a..(b - 1) :
                \E j \in 1..Len(HoursFrom(a, b)) : HoursFrom(a, b)[j] = x
<1>1. MaxHour \in Nat
  BY ParquetWriterAssumption
<1> DEFINE n == b - a
<1>2. n \in Nat
  BY <1>1
<1>3. HoursFrom(a, b) = [i \in 1..n |-> a + i - 1]
  BY DEF HoursFrom
<1>4. \A i \in 1..n : a + i - 1 \in HourRange /\ a + i - 1 < b
  BY <1>1 DEF HourRange
<1>5. ASSUME NEW x \in a..(b - 1) PROVE \E j \in 1..n : a + j - 1 = x
  <2>1. x - a + 1 \in 1..n /\ a + (x - a + 1) - 1 = x
    BY <1>1
  <2> QED BY <2>1
<1> HIDE DEF n
<1>6. Len(HoursFrom(a, b)) = n /\ HoursFrom(a, b) \in Seq(HourRange)
  <2> DEFINE s == HoursFrom(a, b)
  <2>1. s = [i \in 1..n |-> s[i]] /\ \A i \in 1..n : s[i] \in HourRange
    BY <1>3, <1>4
  <2> HIDE DEF s
  <2>2. s \in Seq(HourRange) /\ Len(s) = n
    BY <1>2, <2>1
  <2> QED BY <2>2 DEF s
<1> QED BY <1>3, <1>4, <1>5, <1>6

----------------------------------------------------------------------------
(* What the steps of the writer do to its queue *)

(* The rest of a queue: everything but its head is still waiting.          *)
LEMMA TailQueue ==
    ASSUME NEW q \in Seq(File), q # <<>>
    PROVE  /\ Head(q) \in File /\ Tail(q) \in Seq(File)
           /\ \A i \in DOMAIN Tail(q) : i + 1 \in DOMAIN q /\ Tail(q)[i] = q[i + 1]
           /\ \A i \in DOMAIN q :
                q[i] = Head(q) \/ (i - 1 \in DOMAIN Tail(q) /\ Tail(q)[i - 1] = q[i])
<1>1. Head(q) \in File /\ Tail(q) \in Seq(File) /\ Head(q) = q[1]
  OBVIOUS
<1>2. PICK n \in Nat : n > 0 /\ Len(q) = n /\ DOMAIN q = 1..n /\ DOMAIN Tail(q) = 1..(n - 1)
  OBVIOUS
<1>3. \A i \in 1..(n - 1) : Tail(q)[i] = q[i + 1]
  BY <1>2
<1>4. \A i \in 1..n : i = 1 \/ (i - 1 \in 1..(n - 1) /\ Tail(q)[i - 1] = q[i])
  <2> SUFFICES ASSUME NEW i \in 1..n, i # 1
               PROVE  i - 1 \in 1..(n - 1) /\ Tail(q)[i - 1] = q[i]
    OBVIOUS
  <2>1. i - 1 \in 1..(n - 1) /\ (i - 1) + 1 = i
    BY <1>2
  <2> QED BY <2>1, <1>3
<1> QED BY <1>1, <1>2, <1>3, <1>4

LEMMA QueuedTail ==
    ASSUME TypeOK, queue # <<>>, queue' = Tail(queue), NEW k
    PROVE  /\ Queued(k)' => Queued(k)
           /\ Queued(k) => k = Head(queue) \/ Queued(k)'
           /\ Queued(Head(queue)) /\ Head(queue) \in File /\ queue' \in Seq(File)
<1>1. queue \in Seq(File)
  BY DEF TypeOK
<1>2. Queued(k)' => Queued(k)
  BY <1>1, TailQueue DEF Queued
<1>3. ASSUME NEW i \in DOMAIN queue, queue[i] # Head(queue)
      PROVE  \E j \in DOMAIN Tail(queue) : Tail(queue)[j] = queue[i]
  BY <1>1, <1>3, TailQueue
<1>5. Queued(k) => k = Head(queue) \/ Queued(k)'
  BY <1>3 DEF Queued
<1>4. Queued(Head(queue))
  BY <1>1 DEF Queued
<1> QED BY <1>1, <1>2, <1>4, <1>5, TailQueue

LEMMA QueuedFiles ==
    ASSUME NEW hours \in Seq(HourRange), queue' = FilesOf(hours), NEW k \in File
    PROVE  Queued(k)' <=> \E j \in 1..Len(hours) : hours[j] = k[2]
BY FilesOfTyped, FilesOfAll DEF Queued

LEMMA BudgetTyped ==
    ASSUME budget \in 0..MaxFaults, NEW kind, Fault(kind)
    PROVE  budget' \in 0..MaxFaults
BY ParquetWriterAssumption DEF Fault

----------------------------------------------------------------------------
(* Files that are settled stay settled: their hours are over. *)

(* No step adds a row that is on time to an hour that is over, takes a row *)
(* on time out of its file, or forgets a refusal.                          *)
Steady ==
    /\ hour <= hour'
    /\ \A r \in OnTime' : r \in OnTime \/ r.hour = hour
    /\ \A r \in OnTime : r \in lake[FileOf(r)] => r \in lake'[FileOf(r)]
    /\ missed \subseteq missed'

LEMMA SettledStable ==
    ASSUME TypeOK, Steady, NEW k \in File, k[2] < hour, Settled(k)
    PROVE  Settled(k)'
<1> SUFFICES ASSUME NEW r \in OnTime', FileOf(r) = k, k \notin missed'
             PROVE  r \in lake'[k]
  BY DEF Settled, FileOf
<1>1. k \notin missed
  BY DEF Steady
<1>2. r.hour = k[2]
  BY DEF FileOf
<1>3. hour \in Int /\ k[2] \in Int
  BY DEF TypeOK, File
<1>4. r \in OnTime
  BY <1>2, <1>3 DEF Steady
<1> QED BY <1>1, <1>4 DEF Settled, Steady

(* Completeness is about hours that are over, so it is stable too, except  *)
(* for a file that is being written.                                       *)
LEMMA CompleteStable ==
    ASSUME TypeOK, Steady, FilesPast, FilesComplete, lake' = lake,
           \A r \in OnTime' : FileOf(r) \in File
    PROVE  FilesComplete'
<1> SUFFICES ASSUME NEW r \in OnTime', InLake(FileOf(r))
             PROVE  r \in lake[FileOf(r)]
  BY DEF FilesComplete, OnTime, InLake
<1>1. FileOf(r)[2] < hour /\ FileOf(r)[2] = r.hour
  BY DEF FilesPast, FileOf
<1>2. r \in OnTime
  BY <1>1 DEF Steady, TypeOK
<1> QED BY <1>2 DEF FilesComplete, OnTime

LEMMA RowFile == ASSUME NEW r \in Row PROVE FileOf(r) \in File
BY DEF Row, File, FileOf

(* The hours of the current queue are over. *)
LEMMA ThroughStable ==
    ASSUME TypeOK, Steady, NEW a, NEW b \in Int, b <= hour, Through(a, b - 1), a \in Int
    PROVE  Through(a, b - 1)'
<1> SUFFICES ASSUME NEW k \in File, k[2] \in a..(b - 1) PROVE Settled(k)'
  BY DEF Through
<1>1. k[2] < hour
  BY DEF TypeOK, File
<1> QED BY <1>1, SettledStable DEF Through

LEMMA CoveredStable ==
    ASSUME TypeOK, Steady, NEW a \in Int, NEW b \in Int, b <= hour, Covered(a, b - 1),
           \A k \in File : Queued(k) => Queued(k)' \/ Settled(k)'
    PROVE  Covered(a, b - 1)'
<1> SUFFICES ASSUME NEW k \in File, k[2] \in a..(b - 1) PROVE Settled(k)' \/ Queued(k)'
  BY DEF Covered
<1>1. k[2] < hour
  BY DEF TypeOK, File
<1> QED BY <1>1, SettledStable DEF Covered

----------------------------------------------------------------------------
(* The rows: transactions begin, commit and are rolled back *)

LEMMA RowsTyped == ASSUME TypeOK, NEW r \in open \cup rows PROVE r \in Row
BY DEF TypeOK

LEMMA BeginFacts ==
    ASSUME TypeOK, Finite, NEW t \in Table, Begin(t)
    PROVE  /\ IsFiniteSet(open')
           /\ \E r \in Row : r.hour = hour /\ open' = open \cup {r}
<1> DEFINE n == Cardinality(open \cup rows) + 1
<1>1. n \in Nat /\ n >= 1
  <2>1. IsFiniteSet(open \cup rows)
    BY FS_Union DEF Finite
  <2> QED BY <2>1, FS_CardinalityType
<1> DEFINE r == [table |-> t, hour |-> hour, n |-> n]
<1>2. n <= MaxRows /\ open' = open \cup {r}
  BY DEF Begin
<1>3. r \in Row
  <2>1. n \in 1..MaxRows
    BY <1>1, <1>2, ParquetWriterAssumption
  <2> HIDE DEF n
  <2> QED BY <2>1 DEF Row, TypeOK
<1>4. r.hour = hour
  OBVIOUS
<1>5. IsFiniteSet(open \cup {r})
  BY FS_AddElement DEF Finite
<1> HIDE DEF r
<1> QED BY <1>2, <1>3, <1>4, <1>5

(* A step of the clock or of the ingestor leaves the writer alone. *)
DbStep == Tick \/ (\E t \in Table : Begin(t)) \/ (\E r \in open : CommitRow(r))

LEMMA DbFacts ==
    ASSUME TypeOK, Finite, RowsPast, DbStep
    PROVE  /\ TypeOK' /\ Finite' /\ RowsPast' /\ Steady
           /\ hour' \in 0..MaxHour /\ hour <= hour'
           /\ UNCHANGED <<lake, stop, memoryVars, historyVars, budget>>
<1> USE DEF memoryVars, historyVars
<1>1. CASE Tick
  <2>1. hour' = hour + 1 /\ hour' \in 0..MaxHour
    BY <1>1, ParquetWriterAssumption DEF Tick, TypeOK
  <2>2. TypeOK' /\ Finite'
    BY <1>1, <2>1 DEF Tick, TypeOK, Finite
  <2>3. RowsPast'
    BY <1>1, <2>1 DEF Tick, RowsPast, TypeOK, Row
  <2>4. Steady
    BY <1>1, <2>1 DEF Tick, Steady, OnTime, TypeOK
  <2> QED BY <1>1, <2>1, <2>2, <2>3, <2>4 DEF Tick, TypeOK
<1>2. ASSUME NEW t \in Table, Begin(t)
      PROVE  /\ TypeOK' /\ Finite' /\ RowsPast' /\ Steady
             /\ hour' \in 0..MaxHour /\ hour <= hour'
             /\ UNCHANGED <<lake, stop, memoryVars, historyVars, budget>>
  <2>1. PICK r \in Row : r.hour = hour /\ open' = open \cup {r}
    BY <1>2, BeginFacts
  <2>2. UNCHANGED <<hour, rows, late, lake, stop, memoryVars, historyVars, budget>>
    BY <1>2 DEF Begin
  <2>3. TypeOK' /\ Finite'
    BY <1>2, <2>1, <2>2, BeginFacts DEF TypeOK, Finite
  <2>4. RowsPast' /\ Steady
    BY <2>1, <2>2 DEF RowsPast, Steady, OnTime, TypeOK
  <2> QED BY <2>2, <2>3, <2>4 DEF TypeOK
<1>3. ASSUME NEW r \in open, CommitRow(r)
      PROVE  /\ TypeOK' /\ Finite' /\ RowsPast' /\ Steady
             /\ hour' \in 0..MaxHour /\ hour <= hour'
             /\ UNCHANGED <<lake, stop, memoryVars, historyVars, budget>>
  <2>1. /\ open' = open \ {r} /\ rows' = rows \cup {r}
        /\ late' = IF r.hour < hour THEN late \cup {r} ELSE late
        /\ UNCHANGED <<hour, lake, stop, memoryVars, historyVars, budget>>
    BY <1>3 DEF CommitRow
  <2>2. r \in Row /\ r.hour \in Int /\ hour \in Int
    BY DEF TypeOK, Row
  <2>3. TypeOK'
    BY <2>1, <2>2 DEF TypeOK
  <2>4. Finite'
    BY <2>1, FS_AddElement, FS_RemoveElement DEF Finite
  <2>5. RowsPast'
    BY <2>1, <2>2 DEF RowsPast
  <2>6. Steady
    BY <2>1, <2>2 DEF RowsPast, Steady, OnTime
  <2> QED BY <2>1, <2>3, <2>4, <2>5, <2>6 DEF TypeOK
<1> QED BY <1>1, <1>2, <1>3 DEF DbStep

LEMMA DbInv == ASSUME IInv, DbStep PROVE IInv'
<1> USE DEF memoryVars, historyVars
<1>1. /\ TypeOK' /\ Finite' /\ RowsPast' /\ Steady /\ hour \in Int /\ hour' \in Int
      /\ hour <= hour' /\ UNCHANGED <<lake, stop, memoryVars, historyVars, budget>>
  BY DbFacts DEF IInv, TypeOK
<1>2. FilesPast'
  BY <1>1 DEF IInv, FilesPast, InLake, Queued, TypeOK, File
<1>3. FilesComplete'
  <2>1. \A r \in OnTime' : FileOf(r) \in File
    BY <1>1, RowFile DEF TypeOK, OnTime
  <2> QED BY <1>1, <2>1, CompleteStable DEF IInv
<1>4. BatchComplete'
  <2> SUFFICES ASSUME pc = "putting", NEW r \in OnTime', FileOf(r) = Head(queue)
               PROVE  r \in batch
    BY <1>1 DEF IInv, BatchComplete
  <2>1. queue # <<>>
    BY DEF IInv, BatchComplete
  <2>2. Head(queue) \in File /\ Queued(Head(queue))
    BY <2>1, TailQueue DEF IInv, TypeOK, Queued
  <2>3. r.hour < hour
    BY <2>2 DEF IInv, FilesPast, FileOf
  <2>4. r \in OnTime
    BY <1>1, <2>3 DEF Steady
  <2> QED BY <2>4 DEF IInv, BatchComplete
<1>5. Promise'
  <2>1. /\ upTo \in Int /\ tracked \in Int /\ from \in Int /\ Lookback \in Int
        /\ upTo <= hour /\ tracked <= hour
    BY ParquetWriterAssumption DEF IInv, TypeOK, FilesPast
  <2>2. \A k \in File : Queued(k) => Queued(k)'
    BY <1>1 DEF Queued
  <2> QED BY <1>1, <2>1, <2>2, ThroughStable, CoveredStable DEF IInv, Promise
<1> QED BY <1>1, <1>2, <1>3, <1>4, <1>5 DEF IInv

----------------------------------------------------------------------------
(* The writer *)

(* The rows stay where they are. *)
DbStill == UNCHANGED <<hour, open, rows, late>>

LEMMA StillFacts ==
    ASSUME TypeOK, DbStill, lake' = lake, missed \subseteq missed'
    PROVE  Steady /\ OnTime' = OnTime
BY DEF DbStill, Steady, OnTime, TypeOK

LEMMA StillRows ==
    ASSUME IInv, DbStill PROVE Finite' /\ RowsPast' /\ (lake' = lake => FilesComplete')
BY DEF IInv, DbStill, Finite, RowsPast, FilesComplete, InLake

(* Head and tail: taking the next file off the queue keeps the promise, if *)
(* the file it takes is settled.                                           *)
LEMMA Dequeue ==
    ASSUME IInv, TypeOK', DbStill, pc \in {"next", "putting"}, pc' = "next",
           queue # <<>>, queue' = Tail(queue), UNCHANGED <<phase, upTo, tracked, from>>,
           Steady, FilesComplete', NEW head \in File, head = Head(queue), Settled(head)',
           \A k \in File : InLake(k)' => k[2] < hour,
           written' \subseteq {k \in File : InLake(k)'}
    PROVE  IInv'
<1>1. Finite' /\ RowsPast'
  BY StillRows
<1>2. \A k : /\ Queued(k)' => Queued(k)
             /\ Queued(k) => k = Head(queue) \/ Queued(k)'
  BY QueuedTail DEF IInv
<1>3. FilesPast'
  BY <1>2 DEF IInv, FilesPast, DbStill
<1>4. BatchComplete'
  BY DEF BatchComplete
<1>5. Promise'
  <2>1. /\ upTo \in Int /\ from \in Int /\ Lookback \in Int /\ upTo <= hour
    BY ParquetWriterAssumption DEF IInv, TypeOK, FilesPast
  <2>2. \A k \in File : Queued(k) => Queued(k)' \/ Settled(k)'
    BY <1>2
  <2>3. CASE phase = "catchup"
    <3>1. Covered(upTo - Lookback, upTo - 1)
      BY <2>3 DEF IInv, Promise
    <3>2. Covered(upTo - Lookback, upTo - 1)'
      BY <2>1, <2>2, <3>1, CoveredStable, ParquetWriterAssumption DEF IInv
    <3> QED BY <2>3, <3>2 DEF Promise
  <2>4. CASE phase # "catchup"
    <3>1. Covered(from, upTo - 1)
      BY <2>4 DEF IInv, Promise
    <3>2. Covered(from, upTo - 1)'
      BY <2>1, <2>2, <3>1, CoveredStable DEF IInv
    <3> QED BY <2>4, <3>2 DEF Promise
  <2> QED BY <2>3, <2>4
<1> QED BY <1>1, <1>3, <1>4, <1>5 DEF IInv

(* A file that is in the lake is settled, because it is complete. *)
LEMMA WrittenSettled ==
    ASSUME IInv, NEW k \in File, InLake(k) PROVE Settled(k)
BY DEF IInv, FilesComplete, Settled, OnTime

LEMMA SkipInv == ASSUME IInv, Skip PROVE IInv'
<1> USE DEF dbVars, memoryVars, historyVars
<1>1. /\ pc = "next" /\ pc' = "next" /\ queue # <<>> /\ queue' = Tail(queue)
      /\ Head(queue) \in written /\ DbStill
      /\ UNCHANGED <<lake, stop, phase, written, batch, tracked, upTo, missed, from, budget>>
  BY DEF Skip, HasNext, DbStill
<1>2. TypeOK' /\ Head(queue) \in File
  BY <1>1, QueuedTail DEF IInv, TypeOK, DbStill
<1> PICK head \in File : head = Head(queue)
  BY <1>2
<1>3. Settled(head)
  BY <1>1, WrittenSettled DEF IInv, FilesPast
<1>4. Steady /\ OnTime' = OnTime
  BY <1>1, StillFacts DEF IInv
<1>5. Settled(head)'
  BY <1>1, <1>3, <1>4 DEF Settled
<1>6. FilesComplete'
  BY <1>1, StillRows
<1> QED BY <1>1, <1>2, <1>4, <1>5, <1>6, Dequeue DEF IInv, FilesPast, InLake

LEMMA QueryInv == ASSUME IInv, Query PROVE IInv'
<1> USE DEF dbVars, memoryVars, historyVars
<1>1. /\ pc = "next" /\ queue # <<>> /\ DbStill
      /\ UNCHANGED <<lake, stop, phase, written, tracked, upTo, missed, from, budget>>
  BY DEF Query, HasNext, DbStill
<1>2. PICK head \in File : head = Head(queue)
  BY <1>1, TailQueue DEF IInv, TypeOK
<1>3. Steady /\ OnTime' = OnTime
  BY <1>1, StillFacts DEF IInv
<1>4. FilesComplete' /\ Finite' /\ RowsPast'
  BY <1>1, StillRows
<1>5. \A r \in OnTime : FileOf(r) = head => r \in RowsOf(head)
  BY DEF OnTime, FileOf, RowsOf
<1>6. CASE RowsOf(Head(queue)) = {}
  <2>1. queue' = Tail(queue) /\ pc' = pc /\ batch' = batch
    BY <1>6 DEF Query
  <2>2. TypeOK'
    BY <1>1, <2>1, QueuedTail DEF IInv, TypeOK, DbStill
  <2>3. Settled(head)'
    BY <1>1, <1>2, <1>3, <1>5, <1>6 DEF Settled
  <2> QED BY <1>1, <1>2, <1>3, <1>4, <2>1, <2>2, <2>3, Dequeue DEF IInv, FilesPast, InLake
<1>7. CASE RowsOf(Head(queue)) # {}
  <2>1. batch' = RowsOf(Head(queue)) /\ pc' = "putting" /\ queue' = queue
    BY <1>7 DEF Query
  <2>2. TypeOK'
    BY <1>1, <2>1 DEF IInv, TypeOK, DbStill, PC, RowsOf
  <2>3. BatchComplete'
    BY <1>1, <1>2, <1>3, <1>5, <1>7, <2>1 DEF BatchComplete
  <2>4. FilesPast'
    BY <1>1, <2>1 DEF IInv, FilesPast, DbStill, InLake, Queued
  <2>5. Promise'
    BY <1>1, <1>3, <2>1 DEF IInv, Promise, Covered, Settled, Queued
  <2> QED BY <1>4, <2>2, <2>3, <2>4, <2>5 DEF IInv
<1> QED BY <1>6, <1>7

(* The upload replaces nothing that is on time, and adds every such row.   *)
LEMMA PutInv == ASSUME IInv, Put PROVE IInv'
<1> USE DEF dbVars, memoryVars, historyVars
<1>0. PICK k \in File : k = Head(queue)
  BY QueuedTail DEF Put, IInv, BatchComplete
<1>1. /\ pc = "putting" /\ pc' = "next" /\ queue # <<>> /\ queue' = Tail(queue)
      /\ lake' = [lake EXCEPT ![k] = batch] /\ written' = written \cup {k} /\ batch' = {}
      /\ batch # {} /\ \A r \in OnTime : FileOf(r) = k => r \in batch
      /\ DbStill /\ UNCHANGED <<stop, phase, tracked, upTo, missed, from, budget>>
  BY <1>0 DEF Put, DbStill, IInv, BatchComplete
<1>2. queue' \in Seq(File) /\ Queued(k)
  BY <1>0, <1>1, QueuedTail DEF IInv
<1>3. TypeOK'
  BY <1>1, <1>2 DEF IInv, TypeOK, DbStill, PC
<1>4. OnTime' = OnTime
  BY <1>1 DEF DbStill, OnTime
<1>5. /\ lake'[k] = batch
      /\ \A j \in File : j # k => lake'[j] = lake[j]
  BY <1>1, <1>2 DEF IInv, TypeOK
<1>6. \A r \in OnTime : FileOf(r) \in File
  BY RowFile DEF IInv, TypeOK, OnTime
<1>7. Steady
  BY <1>1, <1>4, <1>5, <1>6 DEF Steady, DbStill, IInv, TypeOK
<1>8. FilesComplete'
  BY <1>1, <1>4, <1>5, <1>6 DEF IInv, FilesComplete, InLake, OnTime
<1>9. Settled(k)'
  BY <1>1, <1>4, <1>5 DEF Settled
<1>10. \A j \in File : InLake(j)' => j[2] < hour
  BY <1>2, <1>5 DEF IInv, FilesPast, InLake
<1>11. written' \subseteq {j \in File : InLake(j)'}
  BY <1>1, <1>2, <1>5 DEF IInv, FilesPast, InLake
<1> QED BY <1>0, <1>1, <1>3, <1>7, <1>8, <1>9, <1>10, <1>11, Dequeue

LEMMA RefusedInv == ASSUME IInv, WriteRefused PROVE IInv'
<1> USE DEF dbVars, memoryVars, historyVars
<1>1. /\ pc \in {"next", "putting"} /\ pc' = "next" /\ queue # <<>> /\ queue' = Tail(queue)
      /\ missed' = missed \cup {Head(queue)} /\ batch' = {} /\ DbStill
      /\ Fault("refused")
      /\ UNCHANGED <<lake, stop, phase, written, tracked, upTo, from>>
  BY DEF WriteRefused, HasNext, DbStill, IInv, BatchComplete
<1>2. Head(queue) \in File /\ queue' \in Seq(File) /\ budget' \in 0..MaxFaults
  BY <1>1, QueuedTail, BudgetTyped DEF IInv, TypeOK
<1> PICK head \in File : head = Head(queue)
  BY <1>2
<1>3. TypeOK'
  BY <1>1, <1>2 DEF IInv, TypeOK, DbStill, PC
<1>4. Steady /\ Settled(head)'
  BY <1>1, StillFacts DEF IInv, Settled
<1>5. FilesComplete'
  BY <1>1, StillRows
<1> QED BY <1>1, <1>3, <1>4, <1>5, Dequeue DEF IInv, FilesPast, InLake

(* A catch-up covers the hours it looks back on. *)
LEMMA CatchUpInv ==
    ASSUME IInv, NEW keys, keys \subseteq {k \in File : InLake(k)}, CatchUp(keys),
           budget' \in 0..MaxFaults
    PROVE  IInv'
<1> USE DEF dbVars, memoryVars, historyVars
<1>1. /\ written' = keys /\ queue' = FilesOf(HoursBefore(hour)) /\ upTo' = hour
      /\ phase' = "catchup" /\ pc' = "next" /\ DbStill
      /\ UNCHANGED <<lake, stop, batch, tracked, missed, from>>
  BY DEF CatchUp, DbStill
<1>2. hour \in 0..MaxHour /\ HoursBefore(hour) \in Seq(HourRange)
  BY HoursBeforeTyped DEF IInv, TypeOK
<1>3. \A k \in File : Queued(k)' <=>
          \E j \in 1..Len(HoursBefore(hour)) : HoursBefore(hour)[j] = k[2]
  BY <1>1, <1>2, QueuedFiles
<1>4. TypeOK'
  BY <1>1, <1>2, FilesOfTyped DEF IInv, TypeOK, DbStill, PC, Phase
<1>5. Finite' /\ RowsPast' /\ FilesComplete'
  BY <1>1, StillRows
<1>6. FilesPast'
  <2>1. \A k \in File : Queued(k)' => k[2] < hour
    BY <1>2, <1>3, HoursBeforeTyped
  <2>2. hour <= hour /\ tracked <= hour
    BY <1>2 DEF IInv, FilesPast
  <2> QED BY <1>1, <2>1, <2>2 DEF IInv, FilesPast, DbStill, InLake
<1>7. BatchComplete'
  BY <1>1 DEF BatchComplete
<1>8. Promise'
  <2>1. ASSUME NEW k \in File, k[2] \in (hour - Lookback)..(hour - 1) PROVE Queued(k)'
    <3>1. k[2] >= 0
      BY DEF File
    <3> QED BY <1>2, <1>3, <2>1, <3>1, HoursBeforeTyped
  <2> QED BY <1>1, <2>1 DEF Promise, Covered
<1> QED BY <1>4, <1>5, <1>6, <1>7, <1>8 DEF IInv

(* A flush covers the hours from the first the writer tracked: those before*)
(* the tracked one are settled, the others are in the new queue.           *)
LEMMA FlushInv ==
    ASSUME IInv, pc = "waiting", NEW p \in {"rollover", "final"}, Flush(p) PROVE IInv'
<1> USE DEF dbVars, memoryVars, historyVars
<1>1. /\ queue' = FilesOf(HoursFrom(tracked, hour)) /\ upTo' = hour
      /\ phase' = p /\ pc' = "next" /\ DbStill
      /\ UNCHANGED <<lake, stop, written, batch, tracked, missed, from, budget>>
  BY DEF Flush, HoursFrom, DbStill
<1>2. /\ hour \in 0..MaxHour /\ tracked \in 0..MaxHour /\ tracked <= hour
      /\ HoursFrom(tracked, hour) \in Seq(HourRange)
  BY HoursFromTyped DEF IInv, TypeOK, FilesPast
<1>3. \A k \in File : Queued(k)' <=>
          \E j \in 1..Len(HoursFrom(tracked, hour)) : HoursFrom(tracked, hour)[j] = k[2]
  BY <1>1, <1>2, QueuedFiles
<1>4. TypeOK'
  BY <1>1, <1>2, FilesOfTyped DEF IInv, TypeOK, DbStill, PC, Phase
<1>5. Finite' /\ RowsPast' /\ FilesComplete'
  BY <1>1, StillRows
<1>6. FilesPast'
  <2>1. \A k \in File : Queued(k)' => k[2] < hour
    BY <1>2, <1>3, HoursFromTyped
  <2>2. hour <= hour
    BY <1>2
  <2> QED BY <1>1, <1>2, <2>1, <2>2 DEF IInv, FilesPast, DbStill, InLake
<1>7. BatchComplete'
  BY <1>1 DEF BatchComplete
<1>8. Promise'
  <2>1. Through(from, tracked - 1) /\ Steady
    BY <1>1, StillFacts DEF IInv, Promise
  <2>2. ASSUME NEW k \in File, k[2] \in from..(hour - 1) PROVE Settled(k)' \/ Queued(k)'
    <3>1. k[2] \in Int /\ from \in Int /\ k[2] < hour
      BY <1>2, <2>2, ParquetWriterAssumption DEF IInv, TypeOK, File
    <3>2. CASE k[2] < tracked
      <4>1. k[2] \in from..(tracked - 1)
        BY <1>2, <2>2, <3>1, <3>2
      <4> QED BY <2>1, <3>1, <4>1, SettledStable DEF IInv, Through
    <3>3. CASE k[2] >= tracked
      <4>1. k[2] \in tracked..(hour - 1)
        BY <1>2, <3>1, <3>3
      <4> QED BY <1>2, <1>3, <4>1, HoursFromTyped
    <3> QED BY <1>2, <3>1, <3>2, <3>3
  <2> QED BY <1>1, <2>2 DEF Promise, Covered
<1> QED BY <1>4, <1>5, <1>6, <1>7, <1>8 DEF IInv

LEMMA DoneInv == ASSUME IInv, DoneWriting PROVE IInv'
<1> USE DEF dbVars, memoryVars, historyVars
<1>1. /\ pc = "next" /\ queue = <<>> /\ DbStill
      /\ tracked' = (CASE phase = "catchup" -> hour
                       [] phase = "rollover" -> upTo
                       [] phase = "final" -> tracked)
      /\ from' = IF phase = "catchup" THEN hour ELSE from
      /\ pc' = IF phase = "final" THEN "stopped" ELSE "waiting"
      /\ UNCHANGED <<lake, stop, phase, written, queue, batch, upTo, missed, budget>>
  BY DEF DoneWriting, DbStill
<1>2. TypeOK' /\ tracked' <= hour /\ upTo <= hour /\ hour \in Int
  BY <1>1 DEF IInv, TypeOK, FilesPast, DbStill, PC, Phase
<1>3. Finite' /\ RowsPast' /\ FilesComplete'
  BY <1>1, StillRows
<1>4. FilesPast' /\ BatchComplete'
  BY <1>1, <1>2 DEF IInv, FilesPast, DbStill, InLake, Queued, BatchComplete
<1>5. Promise'
  <2>1. \A k \in File : ~Queued(k)
    BY <1>1 DEF Queued
  <2>2. OnTime' = OnTime
    BY <1>1, StillFacts DEF IInv
  <2>3. \A k \in File : Settled(k) => Settled(k)'
    BY <1>1, <2>2 DEF Settled
  <2>4. CASE phase = "catchup"
    BY <1>1, <1>2, <2>4 DEF Promise, Through
  <2>5. CASE phase \in {"rollover", "final"}
    <3>1. Covered(from, upTo - 1)
      BY <1>1, <2>5 DEF IInv, Promise
    <3>2. \A k \in File : k[2] \in from..(upTo - 1) => Settled(k)'
      BY <2>1, <2>3, <3>1 DEF Covered
    <3> QED BY <1>1, <2>5, <3>2 DEF Promise, Through
  <2> QED BY <2>4, <2>5 DEF IInv, TypeOK, Phase
<1> QED BY <1>2, <1>3, <1>4, <1>5 DEF IInv

(* The steps that touch neither the rows nor the lake nor a file's place.  *)
LEMMA QuietInv ==
    ASSUME IInv, TypeOK', UNCHANGED <<hour, rows, late, lake>>, open' \subseteq open,
           UNCHANGED <<tracked>>, written' \subseteq written, upTo' \in {upTo, hour},
           \A k \in File : Queued(k)' => Queued(k),
           BatchComplete', Promise'
    PROVE  IInv'
<1>1. Finite' /\ RowsPast' /\ FilesComplete'
  BY FS_Subset DEF IInv, Finite, RowsPast, FilesComplete, InLake
<1>2. FilesPast'
  BY DEF IInv, FilesPast, InLake, TypeOK
<1> QED BY <1>1, <1>2 DEF IInv

LEMMA ControlInv ==
    ASSUME IInv, Start \/ Dies \/ Signal \/ Kill \/ UNCHANGED vars
    PROVE  IInv'
<1> USE DEF dbVars, memoryVars, historyVars
<1>1. CASE Start
  <2>1. TypeOK' /\ BatchComplete' /\ Promise'
    BY <1>1 DEF Start, IInv, TypeOK, PC, BatchComplete, Promise
  <2> QED BY <1>1, <2>1, QuietInv DEF Start, Queued
<1>2. CASE Dies
  <2>1. budget' \in 0..MaxFaults
    BY <1>2, BudgetTyped DEF Dies, IInv, TypeOK
  <2>2. TypeOK' /\ BatchComplete' /\ Promise'
    BY <1>2, <2>1 DEF Dies, IInv, TypeOK, PC, BatchComplete, Promise
  <2> QED BY <1>2, <2>2, QuietInv DEF Dies, Queued
<1>3. CASE Signal
  <2>1. budget' \in 0..MaxFaults
    BY <1>3, BudgetTyped DEF Signal, IInv, TypeOK
  <2>2. TypeOK'
    BY <1>3, <2>1 DEF Signal, IInv, TypeOK
  <2>3. BatchComplete' /\ Promise'
    BY <1>3 DEF Signal, IInv, BatchComplete, Promise, OnTime, Covered, Through, Settled,
                Queued
  <2> QED BY <1>3, <2>2, <2>3, QuietInv DEF Signal, Queued
<1>4. CASE Kill
  <2>1. budget' \in 0..MaxFaults
    BY <1>4, BudgetTyped DEF Kill, IInv, TypeOK
  <2>2. TypeOK' /\ BatchComplete' /\ Promise'
    BY <1>4, <2>1 DEF Kill, IInv, TypeOK, PC, BatchComplete, Promise
  <2>3. \A k \in File : ~Queued(k)'
    BY <1>4 DEF Kill, Queued
  <2> QED BY <1>4, <2>2, <2>3, QuietInv DEF Kill
<1>5. CASE UNCHANGED vars
  <2>1. TypeOK' /\ BatchComplete' /\ Promise'
    BY <1>5 DEF vars, IInv, TypeOK, BatchComplete, Promise, OnTime, Covered, Through,
                Settled, Queued
  <2> QED BY <1>5, <2>1, QuietInv DEF vars, Queued
<1> QED BY <1>1, <1>2, <1>3, <1>4, <1>5

LEMMA LeaveLoopInv == ASSUME IInv, LeaveLoop PROVE IInv'
<1> USE DEF dbVars, memoryVars, historyVars
<1>1. CASE tracked < hour /\ Flush("final")
  BY <1>1, FlushInv DEF LeaveLoop
<1>2. CASE tracked = hour /\ pc' = "stopped"
  <2>1. /\ pc = "waiting" /\ pc' = "stopped" /\ upTo' = hour /\ tracked = hour
        /\ UNCHANGED <<dbVars, lake, stop, phase, written, queue, batch, tracked,
                       historyVars, budget>>
    BY <1>2 DEF LeaveLoop, Flush
  <2>2. TypeOK'
    BY <2>1 DEF IInv, TypeOK, PC
  <2>3. BatchComplete' /\ Promise'
    BY <2>1 DEF IInv, BatchComplete, Promise, OnTime, Through, Settled
  <2> QED BY <2>1, <2>2, <2>3, QuietInv DEF Queued
<1> QED BY <1>1, <1>2 DEF LeaveLoop

LEMMA ListInv == ASSUME IInv, List \/ ListRefused PROVE IInv'
<1>1. CASE List
  BY <1>1, CatchUpInv DEF List, IInv, TypeOK
<1>2. CASE ListRefused
  BY <1>2, CatchUpInv, BudgetTyped DEF ListRefused, IInv, TypeOK
<1> QED BY <1>1, <1>2

LEMMA IInvInit == Init => IInv
<1> SUFFICES ASSUME Init PROVE IInv OBVIOUS
<1>1. TypeOK
  <2>1. 0 \in 0..MaxHour /\ MaxFaults \in 0..MaxFaults
    BY ParquetWriterAssumption
  <2>2. queue \in Seq(File)
    BY DEF Init
  <2> QED BY <2>1, <2>2 DEF Init, TypeOK, PC, Phase
<1>2. Finite
  BY FS_EmptySet DEF Init, Finite
<1>3. RowsPast /\ FilesPast /\ FilesComplete /\ BatchComplete /\ Promise
  BY DEF Init, RowsPast, FilesPast, FilesComplete, BatchComplete, Promise, InLake, Queued
<1> QED BY <1>1, <1>2, <1>3 DEF IInv

LEMMA IInvStep == IInv /\ [Next]_vars => IInv'
<1> SUFFICES ASSUME IInv, [Next]_vars PROVE IInv' OBVIOUS
<1>1. CASE RollOver
  BY <1>1, FlushInv DEF RollOver
<1> QED BY <1>1, DbInv, SkipInv, QueryInv, PutInv, RefusedInv, DoneInv, ControlInv,
           LeaveLoopInv, ListInv DEF Next, WriterStep, DbStep

LEMMA IInvInvariant == Spec => []IInv
BY IInvInit, IInvStep, PTL DEF Spec

----------------------------------------------------------------------------
(* The theorems *)

(* Every variable keeps its type. *)
THEOREM TypeCorrect == Spec => []TypeOK
BY IInvInvariant, PTL DEF IInv

(* A file of the lake has every row of its hour that was committed on time,*)
(* however often the writer was killed, refused or restarted.              *)
THEOREM Complete == Spec => []FilesComplete
BY IInvInvariant, PTL DEF IInv

(* When the catch-up is through, the hours it looked back on are in the    *)
(* lake, save what was refused.                                            *)
THEOREM CatchUpComplete == Spec => []CaughtUp
<1>1. IInv => CaughtUp
  <2> SUFFICES ASSUME IInv, pc = "next", queue = <<>>, phase = "catchup",
                      NEW r \in rows \ late, r.hour \in (upTo - Lookback)..(upTo - 1),
                      FileOf(r) \notin missed
               PROVE  r \in lake[FileOf(r)]
    BY DEF CaughtUp
  <2>1. Covered(upTo - Lookback, upTo - 1) /\ ~Queued(FileOf(r))
    BY DEF IInv, Promise, Queued
  <2>2. FileOf(r) \in File /\ FileOf(r)[2] = r.hour
    BY RowFile DEF IInv, TypeOK, FileOf
  <2>3. Settled(FileOf(r))
    BY <2>1, <2>2 DEF Covered
  <2> QED BY <2>3 DEF Settled, OnTime
<1> QED BY <1>1, IInvInvariant, PTL

(* A stopped writer has written every hour from the first it tracked to the*)
(* last that was over when it stopped, save what was refused.              *)
THEOREM StopComplete == Spec => []StopFlushesHours
<1>1. IInv => StopFlushesHours
  <2> SUFFICES ASSUME IInv, pc = "stopped",
                      NEW r \in rows \ late, r.hour \in from..(upTo - 1),
                      FileOf(r) \notin missed
               PROVE  r \in lake[FileOf(r)]
    BY DEF StopFlushesHours
  <2>1. FileOf(r) \in File /\ FileOf(r)[2] = r.hour
    BY RowFile DEF IInv, TypeOK, FileOf
  <2>2. Settled(FileOf(r))
    BY <2>1 DEF IInv, Promise, Through
  <2> QED BY <2>2 DEF Settled, OnTime
<1> QED BY <1>1, IInvInvariant, PTL
=============================================================================
