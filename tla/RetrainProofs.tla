--------------------------- MODULE RetrainProofs ---------------------------
(***************************************************************************)
(* The safety properties of Retrain, for any number of drift threads, any  *)
(* cooldown and any registry that has one Production version at most.      *)
(***************************************************************************)
EXTENDS Retrain, Integers, FiniteSetTheorems, WellFoundedInduction, TLAPS

(* Where a run has a version of its own in the registry, not yet staged.   *)
HasVersion == {"gate", "query", "evaluate", "tag", "stage", "reject"}

(* There is room for the versions that runs are about to register.         *)
RoomKept == Len(registry) + Cardinality(Registering) <= MaxVersion

(* A run's version belongs to it alone, to no stage, and is not rejected.  *)
Candidates ==
    /\ \A r \in Runner : run[r].at \in HasVersion =>
          /\ run[r].version \in 1..Len(registry)
          /\ registry[run[r].version] = "none"
          /\ run[r].version \notin rejected
    /\ \A r, s \in Runner :
          run[r].at \in HasVersion /\ run[s].at \in HasVersion
             /\ run[r].version = run[s].version => r = s

(* What a run compares with is, or was, Production.                        *)
WasProduction(v) == v \in 1..Len(registry) /\ registry[v] \in {"Production", "Archived"}

Baselines ==
    /\ \A r \in Runner : run[r].at \in {"evaluate", "tag"} => WasProduction(run[r].prod)
    /\ \A v \in 1..MaxVersion : compared[v] # 0 => WasProduction(compared[v])

(* Only one version is in Production.                                      *)
OneProduction == \A v, w \in 1..Len(registry) :
    registry[v] = "Production" /\ registry[w] = "Production" => v = w

(* Stamps are not in the future, and drift's is not younger than the last. *)
Stamps ==
    /\ triggered <= clock
    /\ lastDrift # None => triggered # None /\ lastDrift <= triggered

(* A drift thread about to ask for the lock was started in this tick, when *)
(* the cooldown was over; drift may have started a run since, in this tick.*)
StartsApart ==
    \A d \in DriftThread : run[d].at = "start" =>
        lastDrift = None \/ lastDrift = clock \/ clock - lastDrift >= Cooldown

(* What was rejected is never staged.                                      *)
RejectedOut == \A v \in rejected : registry[v] = "none"

RegistryInv == TypeOK /\ RoomKept /\ Candidates /\ Baselines /\ OneProduction /\ RejectedOut
LockInv == OneRetrain /\ Stamps /\ StartsApart
-----------------------------------------------------------------------------
(***************************************************************************)
(* What the operators of ModelRegistry return, for every registry.         *)
(***************************************************************************)
(* A set of natural numbers has a smallest element.                        *)
LEMMA SmallestOf ==
    ASSUME NEW S \in SUBSET Nat, S # {}
    PROVE  \E m \in S : \A n \in S : m <= n
<1> DEFINE Less == {p \in Nat \X Nat : p[1] < p[2]}
<1>1. IsWellFoundedOn(Less, Nat)
  BY NatLessThanWellFounded DEF OpToRel
<1>2. PICK m \in S : \A n \in S : <<n, m>> \notin Less
  BY <1>1, WFMin
<1>3. \A n \in S : n < m => <<n, m>> \in Less
  OBVIOUS
<1>4. \A n \in S : n \in Nat
  OBVIOUS
<1>5. ASSUME NEW n \in S PROVE m <= n
  <2>1. ~(n < m)
    BY <1>2, <1>3
  <2> HIDE DEF Less
  <2> QED
    BY <2>1, <1>4
<1> QED
  BY <1>5

(* The versions of a stage have a highest one, which Latest returns; it is *)
(* 0 for a stage without versions (_latest_in_stage).                      *)
LEMMA LatestIsHighest ==
    ASSUME NEW r \in Seq(Stage), NEW s, InStage(r, s) # {}
    PROVE  /\ Latest(r, s) \in InStage(r, s)
           /\ \A v \in InStage(r, s) : v <= Latest(r, s)
<1> DEFINE V == InStage(r, s)
           Below == {Len(r) - v : v \in V}
<1>1. V \subseteq 1..Len(r)
  BY DEF InStage
<1>2. Below \in SUBSET Nat /\ Below # {}
  BY <1>1
<1>3. PICK d \in Below : \A n \in Below : d <= n
  BY <1>2, SmallestOf
<1>4. PICK m \in V : d = Len(r) - m
  BY <1>3
<1>5. ASSUME NEW v \in V PROVE v <= m
  <2>1. Len(r) - v \in Below
    OBVIOUS
  <2>2. Len(r) - m <= Len(r) - v
    BY <2>1, <1>3, <1>4
  <2> QED
    BY <2>2, <1>1, <1>4
<1> QED
  BY <1>4, <1>5 DEF Latest

LEMMA LatestRange ==
    ASSUME NEW r \in Seq(Stage), NEW s
    PROVE  /\ Latest(r, s) \in 0..Len(r)
           /\ Latest(r, s) # 0 => Latest(r, s) \in DOMAIN r /\ r[Latest(r, s)] = s
           /\ InStage(r, s) # {} => Latest(r, s) # 0
<1>1. CASE InStage(r, s) = {}
  BY <1>1 DEF Latest
<1>2. CASE InStage(r, s) # {}
  BY <1>2, LatestIsHighest DEF InStage
<1> QED
  BY <1>1, <1>2

(* A registration leaves the versions before it where they are.            *)
LEMMA RegisterFacts ==
    ASSUME NEW r \in Seq(Stage)
    PROVE  /\ Register(r) \in Seq(Stage)
           /\ Len(Register(r)) = Len(r) + 1
           /\ Register(r)[Len(r) + 1] = "none"
           /\ \A v \in 1..Len(r) : Register(r)[v] = r[v]
BY DEF Register, Stage

(* A transition keeps the versions.                                        *)
LEMMA TransitionTyped ==
    ASSUME NEW r \in Seq(Stage), NEW v, NEW s \in Stage, NEW archive \in BOOLEAN
    PROVE  /\ Transition(r, v, s, archive) \in Seq(Stage)
           /\ Len(Transition(r, v, s, archive)) = Len(r)
<1>1. "Archived" \in Stage /\ \A w \in 1..Len(r) : r[w] \in Stage
  BY DEF Stage
<1>2. DOMAIN r = 1..Len(r)
  OBVIOUS
<1> QED
  BY <1>1, <1>2 DEF Transition
-----------------------------------------------------------------------------
LEMMA RunnerFinite == IsFiniteSet(Runner)
BY RetrainAssumption, FS_AddElement DEF Runner, InWorker

(***************************************************************************)
(* The lock and the stamps.                                                *)
(***************************************************************************)

(* The steps of a run between the lock and its release.                    *)
InsideStep(r) ==
    \/ Train(r) \/ RegisterModel(r) \/ DriftGate(r) \/ Query(r) \/ Evaluate(r)
    \/ Tag(r) \/ StageModel(r) \/ Reject(r) \/ RunFails(r)

(* They leave every run on its side of the lock.                           *)
KeepsSides ==
    /\ UNCHANGED process
    /\ \A s \in Runner : /\ Inside(s)' <=> Inside(s)
                         /\ run'[s].at = "start" <=> run[s].at = "start"

LEMMA InsideStepKeepsSides ==
    ASSUME TypeOK, NEW r \in Runner, InsideStep(r)
    PROVE  KeepsSides
<1> USE DEF KeepsSides, Inside, Goto, TypeOK, process
<1>1. CASE Train(r)
  BY <1>1 DEF Train
<1>2. CASE RegisterModel(r)
  BY <1>2 DEF RegisterModel
<1>3. CASE DriftGate(r)
  BY <1>3 DEF DriftGate
<1>4. CASE Query(r)
  BY <1>4 DEF Query
<1>5. CASE Evaluate(r)
  BY <1>5 DEF Evaluate
<1>6. CASE Tag(r)
  BY <1>6 DEF Tag
<1>7. CASE StageModel(r)
  BY <1>7 DEF StageModel
<1>8. CASE Reject(r)
  BY <1>8 DEF Reject
<1>9. CASE RunFails(r)
  BY <1>9 DEF RunFails, Working
<1> QED
  BY <1>1, <1>2, <1>3, <1>4, <1>5, <1>6, <1>7, <1>8, <1>9 DEF InsideStep
(* Every step of the specification but those.                              *)
LEMMA NextCases ==
    ASSUME Next
    PROVE  \/ \E d \in DriftThread : DriftCheck(d)
           \/ WeeklyJob \/ TrainerStarts \/ Tick \/ Promotion \/ RestartWorker
           \/ \E r \in Runner : Acquire(r) \/ Release(r) \/ InsideStep(r)
BY DEF Next, RunStep, InsideStep

LEMMA LockStep ==
    ASSUME TypeOK, LockInv, Next
    PROVE  LockInv'
<1> USE RetrainAssumption DEF LockInv
<1> DEFINE Typed == /\ clock \in Nat /\ triggered \in Int /\ lastDrift \in Int
                    /\ Cooldown \in Nat
                    /\ run \in [Runner -> [at : Place, version : 0..MaxVersion,
                                           prod : 0..MaxVersion, beats : BOOLEAN]]
<1>0. Typed
  BY DEF TypeOK
<1> HIDE DEF Typed
<1>1. ASSUME NEW d \in DriftThread, DriftCheck(d) PROVE LockInv'
  <2> USE <1>1 DEF DriftCheck, Goto, process
  <2>1. OneRetrain'
    BY <1>0 DEF Typed, OneRetrain, Inside, InWorker, Runner
  <2>2. Stamps'
    BY DEF Stamps
  <2>3. lastDrift = None \/ clock - lastDrift >= Cooldown
    BY <1>0 DEF Typed, Stamps, CoolingDown
  <2>4. StartsApart'
    BY <2>3, <1>0 DEF Typed, StartsApart, Runner, InWorker
  <2> QED
    BY <2>1, <2>2, <2>4
<1>2. CASE WeeklyJob \/ TrainerStarts \/ Promotion
  <2> USE DEF WeeklyJob, TrainerStarts, Promotion, Goto, process
  <2>1. OneRetrain'
    <3>1. UNCHANGED process
      BY <1>2
    <3>2. ASSUME NEW s \in InWorker PROVE Inside(s)' <=> Inside(s)
      BY <1>2, <1>0 DEF Typed, Inside, InWorker, Runner
    <3> QED
      BY <3>1, <3>2 DEF OneRetrain
  <2>2. Stamps' /\ StartsApart'
    BY <1>2, <1>0 DEF Typed, Stamps, StartsApart, InWorker, Runner
  <2> QED
    BY <2>1, <2>2
<1>3. CASE Tick
  <2> USE <1>3 DEF Tick
  <2>1. OneRetrain'
    BY DEF OneRetrain, Inside
  <2>2. Stamps'
    BY <1>0 DEF Typed, Stamps
  <2>3. StartsApart'
    BY DEF StartsApart, Runner, InWorker
  <2> QED
    BY <2>1, <2>2, <2>3
<1>4. CASE RestartWorker
  <2> USE <1>4 DEF RestartWorker
  <2>1. OneRetrain'
    BY <1>0 DEF Typed, OneRetrain, Inside, InWorker, Runner, Idle
  <2>2. Stamps' /\ StartsApart'
    BY <1>0 DEF Typed, Stamps, StartsApart, None
  <2> QED
    BY <2>1, <2>2
<1>5. ASSUME NEW r \in Runner, Acquire(r) PROVE LockInv'
  <2> USE <1>5 DEF Acquire, Goto, process
  <2>1. OneRetrain'
    <3>1. CASE locked
      <4>1. ASSUME NEW s \in InWorker PROVE Inside(s)' <=> Inside(s)
        BY <3>1, <1>0 DEF Typed, Inside, InWorker, Runner
      <4> QED
        BY <3>1, <4>1 DEF OneRetrain
    <3>2. CASE ~locked
      <4>1. ASSUME NEW s \in InWorker PROVE Inside(s)' <=> s = r
        BY <3>2, <1>0 DEF Typed, OneRetrain, Inside, InWorker, Runner
      <4> QED
        BY <3>2, <4>1 DEF OneRetrain
    <3> QED
      BY <3>1, <3>2
  <2>2. Stamps'
    BY <1>0 DEF Typed, Stamps, None
  <2>3. StartsApart'
    BY <1>0 DEF Typed, StartsApart, Runner, InWorker
  <2> QED
    BY <2>1, <2>2, <2>3
<1>6. ASSUME NEW r \in Runner, Release(r) PROVE LockInv'
  <2> USE <1>6 DEF Release
  <2>1. OneRetrain'
    BY <1>0 DEF Typed, OneRetrain, Inside, InWorker, Runner, Idle
  <2>2. Stamps' /\ StartsApart'
    BY <1>0 DEF Typed, Stamps, StartsApart, InWorker, Runner, Idle
  <2> QED
    BY <2>1, <2>2
<1>7. ASSUME NEW r \in Runner, InsideStep(r) PROVE LockInv'
  <2>1. KeepsSides
    BY <1>7, InsideStepKeepsSides
  <2>2. OneRetrain'
    BY <2>1 DEF KeepsSides, OneRetrain, InWorker, Runner, process
  <2>3. Stamps' /\ StartsApart'
    BY <2>1 DEF KeepsSides, Stamps, StartsApart, InWorker, Runner, process
  <2> QED
    BY <2>2, <2>3
<1> QED
  BY <1>1, <1>2, <1>3, <1>4, <1>5, <1>6, <1>7, NextCases
-----------------------------------------------------------------------------
(***************************************************************************)
(* Types and room.                                                         *)
(***************************************************************************)
LEMMA RoomFacts ==
    /\ IsFiniteSet(Registering) /\ Cardinality(Registering) \in Nat
    /\ \A r \in Registering : Cardinality(Registering \ {r}) = Cardinality(Registering) - 1
    /\ \A r \in Runner \ Registering :
          Cardinality(Registering \cup {r}) = Cardinality(Registering) + 1
    /\ \A R \in SUBSET Registering :
          Cardinality(R) \in Nat /\ Cardinality(R) <= Cardinality(Registering)
<1>1. Registering \subseteq Runner
  BY DEF Registering
<1>2. IsFiniteSet(Registering)
  BY <1>1, RunnerFinite, FS_Subset
<1> QED
  BY <1>2, FS_CardinalityType, FS_RemoveElement, FS_AddElement, FS_Subset

(* What a run's version number may become.                                 *)
LEMMA RoomToRegister ==
    ASSUME TypeOK, RoomKept, NEW r \in Runner, run[r].at = "register"
    PROVE  Len(registry) + 1 <= MaxVersion
<1>1. r \in Registering
  BY DEF Registering
<1>2. Cardinality(Registering) \in Nat /\ Cardinality(Registering \ {r}) \in Nat
      /\ Cardinality(Registering \ {r}) = Cardinality(Registering) - 1
  BY <1>1, RoomFacts
<1>3. Len(registry) \in Nat /\ MaxVersion \in Nat
  BY RetrainAssumption DEF TypeOK
<1> QED
  BY <1>2, <1>3 DEF RoomKept

RunType == [Runner -> [at : Place, version : 0..MaxVersion, prod : 0..MaxVersion,
                       beats : BOOLEAN]]

(* What an action may write into a run.                                    *)
LEMMA RunUpdates ==
    ASSUME TypeOK, NEW r \in Runner
    PROVE  /\ \A p \in Place : [run EXCEPT ![r].at = p] \in RunType
           /\ \A p \in Place, n \in 0..MaxVersion :
                 [run EXCEPT ![r].at = p, ![r].version = n] \in RunType
           /\ Idle \in [at : Place, version : 0..MaxVersion, prod : 0..MaxVersion,
                        beats : BOOLEAN]
           /\ [run EXCEPT ![r] = Idle] \in RunType
<1>1. run \in RunType
  BY DEF TypeOK, RunType
<1>2. Idle \in [at : Place, version : 0..MaxVersion, prod : 0..MaxVersion, beats : BOOLEAN]
  BY RetrainAssumption DEF Idle, Place
<1> HIDE DEF Idle, Place
<1> QED
  BY <1>1, <1>2 DEF RunType

LEMMA Places ==
    /\ {"idle", "start", "release", "train", "register", "gate", "query"} \subseteq Place
    /\ {"evaluate", "tag", "stage", "reject"} \subseteq Place
BY DEF Place, Working

LEMMA RunTyped ==
    ASSUME TypeOK, RoomKept, Next
    PROVE  run' \in RunType
<1> USE Places DEF Goto
<1>0. run \in RunType
  BY DEF TypeOK, RunType
<1>1. ASSUME NEW d \in DriftThread, DriftCheck(d) PROVE run' \in RunType
  BY <1>1, RunUpdates DEF DriftCheck, Runner, InWorker
<1>2. CASE WeeklyJob
  BY <1>2, RunUpdates DEF WeeklyJob, Runner, InWorker
<1>3. CASE TrainerStarts
  BY <1>3, RunUpdates DEF TrainerStarts, Runner
<1>4. CASE Tick \/ Promotion
  BY <1>0, <1>4 DEF Tick, Promotion
<1>5. CASE RestartWorker
  BY <1>0, <1>5, RunUpdates DEF RestartWorker, RunType
<1>6. ASSUME NEW r \in Runner, Acquire(r) \/ Train(r) PROVE run' \in RunType
  <2>1. \E p \in Place : run' = [run EXCEPT ![r].at = p]
    BY <1>6 DEF Acquire, Train
  <2> QED
    BY <2>1, RunUpdates
<1>11. ASSUME NEW r \in Runner, Release(r) PROVE run' \in RunType
  BY <1>11, RunUpdates DEF Release
<1>7. ASSUME NEW r \in Runner, RegisterModel(r) PROVE run' \in RunType
  <2>1. Len(registry) + 1 \in 0..MaxVersion
    BY <1>7, RoomToRegister, RetrainAssumption DEF RegisterModel, TypeOK
  <2> QED
    BY <1>7, <2>1, RunUpdates DEF RegisterModel
<1>8. ASSUME NEW r \in Runner, Query(r) PROVE run' \in RunType
  <2>1. Latest(registry, "Production") \in 0..MaxVersion
    BY LatestRange, RetrainAssumption DEF TypeOK
  <2> QED
    <3>1. CASE \E p \in Place, n \in 0..MaxVersion :
                run' = [run EXCEPT ![r].at = p, ![r].prod = n]
      <4>1. PICK p \in Place, n \in 0..MaxVersion :
              run' = [run EXCEPT ![r].at = p, ![r].prod = n]
        BY <3>1
      <4> QED
        BY ONLY <4>1, <1>0 DEF RunType
    <3>2. CASE \E p \in Place : run' = [run EXCEPT ![r].at = p]
      BY <3>2, RunUpdates
    <3> QED
      BY <1>8, <2>1, <3>1, <3>2 DEF Query
<1>9. ASSUME NEW r \in Runner, Evaluate(r) PROVE run' \in RunType
  <2>1. CASE \E p \in Place, b \in BOOLEAN :
              run' = [run EXCEPT ![r].at = p, ![r].beats = b]
    <3>1. PICK p \in Place, b \in BOOLEAN :
            run' = [run EXCEPT ![r].at = p, ![r].beats = b]
      BY <2>1
    <3> QED
      BY ONLY <3>1, <1>0 DEF RunType
  <2>2. CASE \E p \in Place : run' = [run EXCEPT ![r].at = p]
    BY <2>2, RunUpdates
  <2> QED
    BY <1>9, <2>1, <2>2 DEF Evaluate
<1>10. ASSUME NEW r \in Runner, DriftGate(r) \/ Tag(r) \/ StageModel(r) \/ Reject(r) \/ RunFails(r)
       PROVE  run' \in RunType
  <2>1. \E p \in Place : run' = [run EXCEPT ![r].at = p]
    BY <1>10 DEF DriftGate, Tag, StageModel, Reject, RunFails
  <2> QED
    BY <2>1, RunUpdates
<1> QED
  BY <1>1, <1>2, <1>3, <1>4, <1>5, <1>6, <1>7, <1>8, <1>9, <1>10, <1>11, NextCases
  DEF InsideStep

(* TypeOK without the runs.                                                *)
OthersTyped ==
    /\ clock \in 0..MaxTime /\ locked \in BOOLEAN
    /\ triggered \in -1..MaxTime /\ lastDrift \in -1..MaxTime
    /\ registry \in Seq(Stage) /\ Len(registry) <= MaxVersion
    /\ compared \in [1..MaxVersion -> 0..MaxVersion] /\ rejected \subseteq DOMAIN registry
    /\ budget \in 0..MaxFaults

LEMMA TypeSplit == TypeOK <=> run \in RunType /\ OthersTyped
BY DEF TypeOK, RunType, OthersTyped

LEMMA OthersStep ==
    ASSUME TypeOK, RoomKept, Candidates, Next
    PROVE  OthersTyped'
<1> USE RetrainAssumption DEF OthersTyped, Goto, Spend, process, mlflow
<1>0. OthersTyped
  BY TypeSplit
<1>1. ASSUME NEW d \in DriftThread, DriftCheck(d) PROVE OthersTyped'
  BY <1>0, <1>1 DEF DriftCheck
<1>2. CASE WeeklyJob \/ TrainerStarts \/ Tick
  BY <1>0, <1>2 DEF WeeklyJob, TrainerStarts, Tick
<1>3. CASE Promotion
  <2>1. registry' \in Seq(Stage) /\ Len(registry') = Len(registry)
    BY <1>0, <1>3, TransitionTyped DEF Promotion, Stage
  <2> QED
    <3>1. UNCHANGED <<process, compared, rejected, budget>>
      BY <1>3 DEF Promotion
    <3>2. DOMAIN registry' = DOMAIN registry
      BY <1>0, <2>1
    <3> QED
      BY <1>0, <2>1, <3>1, <3>2
<1>4. CASE RestartWorker
  <2>1. budget' \in 0..MaxFaults /\ -1 \in -1..MaxTime
    BY <1>0, <1>4 DEF RestartWorker
  <2> QED
    BY <1>0, <1>4, <2>1 DEF RestartWorker, None
<1>5. ASSUME NEW r \in Runner, Acquire(r) PROVE OthersTyped'
  <2>1. clock \in -1..MaxTime
    BY <1>0
  <2> QED
    BY <1>0, <1>5, <2>1 DEF Acquire
<1>11. ASSUME NEW r \in Runner, Release(r) \/ Train(r) PROVE OthersTyped'
  BY <1>0, <1>11 DEF Release, Train
<1>6. ASSUME NEW r \in Runner, RegisterModel(r) PROVE OthersTyped'
  <2>1. Len(registry) + 1 <= MaxVersion
    BY <1>6, RoomToRegister DEF RegisterModel
  <2>2. registry' \in Seq(Stage) /\ Len(registry') = Len(registry) + 1
    BY <1>0, <1>6, RegisterFacts DEF RegisterModel
  <2>3. rejected' \subseteq DOMAIN registry'
    BY <1>0, <1>6, <2>2 DEF RegisterModel
  <2> QED
    BY <1>0, <1>6, <2>1, <2>2, <2>3 DEF RegisterModel
<1>7. ASSUME NEW r \in Runner, DriftGate(r) \/ Reject(r) PROVE OthersTyped'
  <2>1. run[r].version \in DOMAIN registry
    BY <1>0, <1>7 DEF Candidates, HasVersion, DriftGate, Reject
  <2> QED
    BY <1>0, <1>7, <2>1 DEF DriftGate, Reject
<1>8. ASSUME NEW r \in Runner, Query(r) \/ Evaluate(r) PROVE OthersTyped'
  BY <1>0, <1>8 DEF Query, Evaluate
<1>9. ASSUME NEW r \in Runner, Tag(r) PROVE OthersTyped'
  <2>1. run[r].prod \in 0..MaxVersion
    BY DEF TypeOK
  <2> QED
    BY <1>0, <1>9, <2>1 DEF Tag
<1>10. ASSUME NEW r \in Runner, StageModel(r) \/ RunFails(r) PROVE OthersTyped'
  <2>4. budget' = budget \/ (budget > 0 /\ budget' = budget - 1)
    BY <1>10 DEF StageModel, RunFails
  <2>6. budget' \in 0..MaxFaults
    BY <1>0, <2>4
  <2>5. UNCHANGED <<process, compared, rejected>>
    BY <1>10 DEF StageModel, RunFails
  <2>1. LET staged == Transition(registry, run[r].version, "Staging", FALSE)
        IN  staged \in Seq(Stage) /\ Len(staged) = Len(registry)
    BY <1>0, TransitionTyped DEF Stage
  <2>2. registry' \in Seq(Stage) /\ Len(registry') = Len(registry)
    BY <1>0, <1>10, <2>1 DEF StageModel, RunFails
  <2>3. DOMAIN registry' = DOMAIN registry
    BY <1>0, <2>2
  <2> QED
    BY <1>0, <2>2, <2>3, <2>6, <2>5
<1> QED
  BY <1>1, <1>2, <1>3, <1>4, <1>5, <1>6, <1>7, <1>8, <1>9, <1>10, <1>11, NextCases
  DEF InsideStep

LEMMA TypeStep ==
    ASSUME TypeOK, RoomKept, Candidates, Next
    PROVE  TypeOK'
<1>1. run' \in RunType /\ OthersTyped'
  BY RunTyped, OthersStep
<1> QED
  BY <1>1 DEF TypeOK, RunType, OthersTyped

(***************************************************************************)
(* How the steps of one run move it, and no other.                         *)
(***************************************************************************)
Moves(r, from, to) ==
    /\ run[r].at \in from /\ run'[r].at \in to
    /\ \A s \in Runner \ {r} : run'[s] = run[s]

KeepsTags == registry' = registry /\ compared' = compared /\ rejected' = rejected

(* The run compares with what it did.                                      *)
SameRun(r) == run'[r].version = run[r].version /\ run'[r].prod = run[r].prod

LEMMA Triggers ==
    ASSUME TypeOK, NEW r \in Runner
    PROVE  /\ DriftCheck(r) => Moves(r, {"idle"}, {"start"}) /\ KeepsTags
           /\ WeeklyJob /\ r = Weekly => Moves(r, {"idle"}, {"start"}) /\ KeepsTags
           /\ TrainerStarts /\ r = Trainer => Moves(r, {"idle"}, {"train"}) /\ KeepsTags
           /\ Acquire(r) => Moves(r, {"start"}, {"idle", "train"}) /\ KeepsTags
           /\ Release(r) => Moves(r, {"release"}, {"idle"}) /\ KeepsTags
           /\ Train(r) => Moves(r, {"train"}, {"register", "release"}) /\ KeepsTags
<1> USE DEF TypeOK, Moves, KeepsTags, mlflow, Goto
<1>1. DriftCheck(r) => Moves(r, {"idle"}, {"start"}) /\ KeepsTags
  BY DEF DriftCheck
<1>2. WeeklyJob /\ r = Weekly => Moves(r, {"idle"}, {"start"}) /\ KeepsTags
  BY DEF WeeklyJob
<1>3. TrainerStarts /\ r = Trainer => Moves(r, {"idle"}, {"train"}) /\ KeepsTags
  BY DEF TrainerStarts
<1>4. Acquire(r) => Moves(r, {"start"}, {"idle", "train"}) /\ KeepsTags
  BY DEF Acquire
<1>5. Release(r) => Moves(r, {"release"}, {"idle"}) /\ KeepsTags
  BY DEF Release, Idle
<1>6. Train(r) => Moves(r, {"train"}, {"register", "release"}) /\ KeepsTags
  BY DEF Train
<1> HIDE DEF TypeOK, Moves, KeepsTags, mlflow, Goto
<1> QED
  BY <1>1, <1>2, <1>3, <1>4, <1>5, <1>6

LEMMA RunMoves ==
    ASSUME TypeOK, NEW r \in Runner
    PROVE  /\ DriftGate(r) => Moves(r, {"gate"}, {"query", "release"}) /\ SameRun(r)
           /\ Query(r) => Moves(r, {"query"}, {"stage", "evaluate"}) /\ KeepsTags
                          /\ run'[r].version = run[r].version
           /\ Evaluate(r) => Moves(r, {"evaluate"}, {"stage", "tag"}) /\ KeepsTags /\ SameRun(r)
           /\ Tag(r) => Moves(r, {"tag"}, {"stage", "reject"}) /\ SameRun(r)
           /\ StageModel(r) => Moves(r, {"stage"}, {"release"})
           /\ Reject(r) => Moves(r, {"reject"}, {"release"})
           /\ RunFails(r) => Moves(r, Working, {"release"})
<1> USE DEF TypeOK, Moves, KeepsTags, SameRun, mlflow, Goto
<1>1. DriftGate(r) => Moves(r, {"gate"}, {"query", "release"}) /\ SameRun(r)
  BY DEF DriftGate
<1>2. Query(r) => Moves(r, {"query"}, {"stage", "evaluate"}) /\ KeepsTags
                  /\ run'[r].version = run[r].version
  BY DEF Query
<1>3. Evaluate(r) => Moves(r, {"evaluate"}, {"stage", "tag"}) /\ KeepsTags /\ SameRun(r)
  BY DEF Evaluate
<1>4. Tag(r) => Moves(r, {"tag"}, {"stage", "reject"}) /\ SameRun(r)
  BY DEF Tag
<1>5. StageModel(r) => Moves(r, {"stage"}, {"release"})
  BY DEF StageModel
<1>6. Reject(r) => Moves(r, {"reject"}, {"release"})
  BY DEF Reject
<1>7. RunFails(r) => Moves(r, Working, {"release"})
  BY DEF RunFails
<1> HIDE DEF TypeOK, Moves, KeepsTags, SameRun, mlflow, Goto
<1> QED
  BY <1>1, <1>2, <1>3, <1>4, <1>5, <1>6, <1>7

(***************************************************************************)
(* What the steps write into the registry.                                 *)
(***************************************************************************)
SameVersions == registry' \in Seq(Stage) /\ Len(registry') = Len(registry)

Staged(v) ==
    /\ SameVersions
    /\ \A w \in 1..Len(registry) : registry'[w] = IF w = v THEN "Staging" ELSE registry[w]

Promoted(v) ==
    /\ SameVersions
    /\ v \in 1..Len(registry) /\ registry[v] = "Staging"
    /\ \A w \in 1..Len(registry) :
          registry'[w] = IF w = v THEN "Production"
                         ELSE IF registry[w] = "Production" THEN "Archived" ELSE registry[w]

Added ==
    /\ registry' \in Seq(Stage) /\ Len(registry') = Len(registry) + 1
    /\ registry'[Len(registry) + 1] = "none"
    /\ \A w \in 1..Len(registry) : registry'[w] = registry[w]

LEMMA Writes ==
    ASSUME TypeOK, NEW r \in Runner
    PROVE  /\ RegisterModel(r) => Added
           /\ StageModel(r) => Staged(run[r].version)
           /\ RunFails(r) => registry' = registry
                             \/ (run[r].at = "stage" /\ Staged(run[r].version))
           /\ Promotion => \E v \in 1..Len(registry) : Promoted(v)
<1>1. registry \in Seq(Stage)
  BY DEF TypeOK
<1>2. ASSUME registry' = Transition(registry, run[r].version, "Staging", FALSE)
      PROVE  Staged(run[r].version)
  <2>1. "Staging" \in Stage /\ FALSE \in BOOLEAN
    BY DEF Stage
  <2> QED
    <3>1. \A w \in 1..Len(registry) : registry'[w] =
             IF w = run[r].version THEN "Staging" ELSE registry[w]
      BY ONLY <1>1, <1>2, DOMAIN registry = 1..Len(registry) DEF Transition
    <3>2. registry' \in Seq(Stage) /\ Len(registry') = Len(registry)
      BY ONLY <1>1, <1>2, <2>1, TransitionTyped
    <3> QED
      BY <3>1, <3>2 DEF Staged, SameVersions
<1>3. ASSUME RegisterModel(r) PROVE Added
  BY <1>1, <1>3, RegisterFacts DEF RegisterModel, Added
<1>4. ASSUME Promotion PROVE \E v \in 1..Len(registry) : Promoted(v)
  <2> DEFINE v == Latest(registry, "Staging")
  <2>1. v \in 1..Len(registry) /\ registry[v] = "Staging"
    BY <1>1, <1>4, LatestRange DEF Promotion
  <2>2. "Production" \in Stage /\ TRUE \in BOOLEAN
    BY DEF Stage
  <2>3. registry' = Transition(registry, v, "Production", TRUE)
    BY <1>4 DEF Promotion
  <2> HIDE DEF v
  <2>4. Promoted(v)
    <3>1. \A w \in 1..Len(registry) : registry'[w] =
             IF w = v THEN "Production"
             ELSE IF registry[w] = "Production" THEN "Archived" ELSE registry[w]
      BY ONLY <1>1, <2>3, DOMAIN registry = 1..Len(registry) DEF Transition
    <3>2. registry' \in Seq(Stage) /\ Len(registry') = Len(registry)
      BY ONLY <1>1, <2>3, <2>2, TransitionTyped
    <3> QED
      BY <2>1, <3>1, <3>2 DEF Promoted, SameVersions
  <2> QED
    BY <2>1, <2>4
<1> QED
  BY <1>2, <1>3, <1>4 DEF StageModel, RunFails

(***************************************************************************)
(* Room for new versions.                                                  *)
(***************************************************************************)
LEMMA RoomStep ==
    ASSUME TypeOK, RoomKept, Next
    PROVE  RoomKept'
<1>0. Len(registry) \in Nat /\ MaxVersion \in Nat /\ Cardinality(Registering) \in Nat
  BY RoomFacts, RetrainAssumption DEF TypeOK
<1>1. ASSUME Registering' \in SUBSET Registering, Len(registry') = Len(registry)
      PROVE  RoomKept'
  <2>1. Cardinality(Registering') \in Nat /\ Cardinality(Registering') <= Cardinality(Registering)
    BY <1>1, RoomFacts
  <2> QED
    BY <1>0, <1>1, <2>1 DEF RoomKept
<1>2. ASSUME NEW r \in Runner, Train(r) PROVE RoomKept'
  <2>1. CASE Registering' \in SUBSET Registering
    BY <1>1, <1>2, <2>1 DEF Train, mlflow
  <2>2. CASE Room /\ Goto(r, "register")
    <3>1. run[r].at = "train" /\ registry' = registry
      BY <1>2 DEF Train, mlflow
    <3>2. r \in Runner \ Registering
      BY <3>1 DEF Registering
    <3>3. Registering' = Registering \cup {r}
      BY <2>2 DEF Registering, Goto, TypeOK
    <3>4. Cardinality(Registering') = Cardinality(Registering) + 1
      BY <3>2, <3>3, RoomFacts
    <3> QED
      BY <1>0, <2>2, <3>1, <3>4 DEF Room, RoomKept
  <2>3. CASE Goto(r, "release")
    BY <2>1, <2>3 DEF Registering, Goto, TypeOK
  <2> QED
    BY <1>2, <2>2, <2>3 DEF Train
<1>3. ASSUME NEW r \in Runner, RegisterModel(r) PROVE RoomKept'
  <2>1. r \in Registering
    BY <1>3 DEF RegisterModel, Registering
  <2>2. Registering' = Registering \ {r}
    BY <1>3 DEF RegisterModel, Registering, TypeOK
  <2>3. Cardinality(Registering') = Cardinality(Registering) - 1
    BY <2>1, <2>2, RoomFacts
  <2>4. Len(registry') = Len(registry) + 1
    BY <1>3, Writes DEF Added
  <2> QED
    BY <1>0, <2>3, <2>4 DEF RoomKept
<1>4. ASSUME Promotion \/ (\E r \in Runner : StageModel(r) \/ RunFails(r))
      PROVE  Len(registry') = Len(registry)
  <2>1. CASE Promotion
    BY <2>1, Writes DEF Promoted, SameVersions, Runner
  <2>2. ASSUME NEW r \in Runner, StageModel(r) \/ RunFails(r)
        PROVE  Len(registry') = Len(registry)
    BY <2>2, Writes DEF Staged, SameVersions
  <2> QED
    BY <1>4, <2>1, <2>2
<1>5. ASSUME Promotion \/ Tick
      PROVE  Registering' = Registering
  BY <1>5 DEF Promotion, Tick, Registering
<1>6. ASSUME NEW r \in Runner, NEW from, NEW to, Moves(r, from, to), "register" \notin to
      PROVE  Registering' \in SUBSET Registering
  BY <1>6 DEF Moves, Registering
<1>7. ASSUME RestartWorker PROVE Registering' \in SUBSET Registering /\ registry' = registry
  BY <1>7 DEF RestartWorker, Registering, Idle, TypeOK, mlflow
<1>8. ASSUME NEW r \in Runner,
             DriftCheck(r) \/ (WeeklyJob /\ r = Weekly) \/ (TrainerStarts /\ r = Trainer)
             \/ Acquire(r) \/ Release(r)
      PROVE  RoomKept'
  BY <1>1, <1>6, <1>8, Triggers DEF KeepsTags
<1>15. ASSUME NEW r \in Runner, Query(r) \/ Evaluate(r)
       PROVE  RoomKept'
  BY <1>1, <1>6, <1>15, RunMoves DEF KeepsTags
<1>16. ASSUME NEW r \in Runner, DriftGate(r) \/ Tag(r) \/ Reject(r)
       PROVE  RoomKept'
  <2>1. registry' = registry
    BY <1>16 DEF DriftGate, Tag, Reject
  <2> QED
    BY <1>1, <1>6, <1>16, <2>1, RunMoves
<1>17. ASSUME NEW r \in Runner, StageModel(r) \/ RunFails(r)
       PROVE  RoomKept'
  <2>1. Len(registry') = Len(registry)
    BY <1>4, <1>17
  <2> QED
    BY <1>1, <1>6, <1>17, <2>1, RunMoves
<1>9. DriftThread \subseteq Runner /\ Weekly \in Runner /\ Trainer \in Runner
  BY DEF Runner, InWorker
<1>10. CASE (\E d \in DriftThread : DriftCheck(d)) \/ WeeklyJob \/ TrainerStarts
  BY <1>10, <1>8, <1>9
<1>11. CASE Tick
  <2>1. registry' = registry
    BY <1>11 DEF Tick, mlflow
  <2> QED
    BY <1>11, <2>1, <1>1, <1>5
<1>12. CASE Promotion
  BY <1>12, <1>1, <1>4, <1>5
<1>13. CASE RestartWorker
  BY <1>13, <1>1, <1>7
<1>14. ASSUME NEW r \in Runner, Acquire(r) \/ Release(r) \/ InsideStep(r) PROVE RoomKept'
  BY <1>14, <1>2, <1>3, <1>8, <1>15, <1>16, <1>17 DEF InsideStep
<1> QED
  BY <1>10, <1>11, <1>12, <1>13, <1>14, NextCases

(***************************************************************************)
(* Candidates, baselines, Production.                                      *)
(***************************************************************************)

(* Runs keep their versions, and compare with versions as before.          *)
KeepsRuns ==
    \A s \in Runner :
        /\ run'[s].at \in HasVersion => /\ run[s].at \in HasVersion
                                        /\ run'[s].version = run[s].version
        /\ run'[s].at \in {"evaluate", "tag"} => WasProduction(run'[s].prod)

LEMMA QueryFindsProduction ==
    ASSUME TypeOK, NEW r \in Runner, Query(r), run'[r].at \in {"evaluate", "tag"}
    PROVE  WasProduction(run'[r].prod)
<1> DEFINE p == Latest(registry, "Production")
<1>1. p # 0 /\ run'[r].prod = p
  BY DEF Query, Goto, TypeOK
<1>2. p \in DOMAIN registry /\ registry[p] = "Production"
  BY <1>1, LatestRange DEF TypeOK
<1> QED
  BY <1>1, <1>2 DEF WasProduction, TypeOK

LEMMA RunsKept ==
    ASSUME TypeOK, Baselines, Next, \A r \in Runner : ~RegisterModel(r)
    PROVE  KeepsRuns
<1>1. ASSUME NEW r \in Runner, NEW from, NEW to, Moves(r, from, to),
             to \cap HasVersion = {}
      PROVE  KeepsRuns
  BY <1>1 DEF Moves, KeepsRuns, HasVersion, Baselines
<1>2. ASSUME NEW r \in Runner,
             DriftCheck(r) \/ (WeeklyJob /\ r = Weekly) \/ (TrainerStarts /\ r = Trainer)
             \/ Acquire(r) \/ Release(r) \/ Train(r)
      PROVE  KeepsRuns
  BY <1>1, <1>2, Triggers DEF HasVersion
<1>3. ASSUME NEW r \in Runner, StageModel(r) \/ Reject(r) \/ RunFails(r) PROVE KeepsRuns
  BY <1>1, <1>3, RunMoves DEF HasVersion
<1>4. ASSUME NEW r \in Runner, DriftGate(r) PROVE KeepsRuns
  BY <1>4, RunMoves DEF Moves, SameRun, KeepsRuns, HasVersion, Baselines
<1>5. ASSUME NEW r \in Runner, Evaluate(r) \/ Tag(r) PROVE KeepsRuns
  BY <1>5, RunMoves DEF Moves, SameRun, KeepsRuns, HasVersion, Baselines
<1>6. ASSUME NEW r \in Runner, Query(r) PROVE KeepsRuns
  BY <1>6, RunMoves, QueryFindsProduction DEF Moves, KeepsRuns, HasVersion, Baselines
<1>7. CASE Tick \/ Promotion
  BY <1>7 DEF Tick, Promotion, KeepsRuns, Baselines
<1>8. CASE RestartWorker
  BY <1>8 DEF RestartWorker, KeepsRuns, Baselines, Idle, HasVersion, TypeOK
<1>9. DriftThread \subseteq Runner /\ Weekly \in Runner /\ Trainer \in Runner
  BY DEF Runner, InWorker
<1> QED
  BY <1>2, <1>3, <1>4, <1>5, <1>6, <1>7, <1>8, <1>9, NextCases DEF InsideStep

(* The ways a step changes the registry and its tags.                      *)
Rejects(r) ==
    /\ registry' = registry /\ compared' = compared
    /\ run[r].at \in HasVersion
    /\ \/ rejected' = rejected
       \/ rejected' = rejected \cup {run[r].version} /\ run'[r].at = "release"

Tags(r) ==
    /\ registry' = registry /\ rejected' = rejected
    /\ run[r].at = "tag"
    /\ compared' = [compared EXCEPT ![run[r].version] = run[r].prod]

Stages(r) ==
    /\ compared' = compared /\ rejected' = rejected
    /\ run[r].at = "stage" /\ run'[r].at = "release"
    /\ Staged(run[r].version)

Promotes ==
    /\ compared' = compared /\ rejected' = rejected
    /\ \E v \in 1..Len(registry) : Promoted(v)

Adds(r) ==
    /\ compared' = compared /\ rejected' = rejected
    /\ Moves(r, {"register"}, {"gate", "query"})
    /\ run'[r].version = Len(registry) + 1
    /\ Added

LEMMA RegistrySteps ==
    ASSUME TypeOK, Baselines, Next
    PROVE  \/ KeepsRuns /\ KeepsTags
           \/ KeepsRuns /\ Promotes
           \/ \E r \in Runner : KeepsRuns /\ (Rejects(r) \/ Tags(r) \/ Stages(r))
           \/ \E r \in Runner : Adds(r)
<1>1. ASSUME NEW r \in Runner, RegisterModel(r) PROVE Adds(r)
  <2>1. Moves(r, {"register"}, {"gate", "query"}) /\ run'[r].version = Len(registry) + 1
    BY <1>1 DEF RegisterModel, Moves, TypeOK
  <2>2. Added
    BY <1>1, Writes
  <2> QED
    BY <1>1, <2>1, <2>2 DEF RegisterModel, Adds
<1>2. CASE \A r \in Runner : ~RegisterModel(r)
  <2>1. KeepsRuns
    BY <1>2, RunsKept
  <2>10. DriftThread \subseteq Runner /\ Weekly \in Runner /\ Trainer \in Runner
    BY DEF Runner, InWorker
  <2>2. ASSUME NEW r \in Runner, DriftGate(r) \/ Reject(r) PROVE Rejects(r)
    <3>1. run[r].at \in HasVersion
      BY <2>2 DEF DriftGate, Reject, HasVersion
    <3>2. run'[r].at = "release" \/ rejected' = rejected
      BY <2>2, RunMoves DEF Moves, DriftGate, Goto, TypeOK
    <3> QED
      BY <2>2, <3>1, <3>2 DEF DriftGate, Reject, Rejects
  <2>3. ASSUME NEW r \in Runner, Tag(r) PROVE Tags(r)
    BY <2>3 DEF Tag, Tags, process
  <2>4. ASSUME NEW r \in Runner, StageModel(r) PROVE Stages(r)
    <3>1. run'[r].at = "release"
      BY <2>4, RunMoves DEF Moves
    <3>2. Staged(run[r].version)
      BY <2>4, Writes
    <3> QED
      BY <2>4, <3>1, <3>2 DEF StageModel, Stages
  <2>5. ASSUME NEW r \in Runner, RunFails(r) PROVE KeepsTags \/ Stages(r)
    <3>1. compared' = compared /\ rejected' = rejected
      BY <2>5 DEF RunFails
    <3>2. run'[r].at = "release"
      BY <2>5, RunMoves DEF Moves
    <3>3. registry' = registry \/ (run[r].at = "stage" /\ Staged(run[r].version))
      BY <2>5, Writes
    <3> QED
      BY <3>1, <3>2, <3>3 DEF KeepsTags, Stages
  <2>6. ASSUME Promotion PROVE Promotes
    <3>1. \E v \in 1..Len(registry) : Promoted(v)
      BY <2>6, <2>10, Writes
    <3> QED
      BY <2>6, <3>1 DEF Promotion, Promotes
  <2>7. ASSUME Tick \/ RestartWorker PROVE KeepsTags
    BY <2>7 DEF Tick, RestartWorker, KeepsTags, mlflow
  <2>8. ASSUME NEW r \in Runner,
               DriftCheck(r) \/ (WeeklyJob /\ r = Weekly) \/ (TrainerStarts /\ r = Trainer)
               \/ Acquire(r) \/ Release(r) \/ Train(r)
        PROVE  KeepsTags
    BY <2>8, Triggers
  <2>9. ASSUME NEW r \in Runner, Query(r) \/ Evaluate(r) PROVE KeepsTags
    BY <2>9, RunMoves
  <2> QED
    BY <1>2, <2>1, <2>2, <2>3, <2>4, <2>5, <2>6, <2>7, <2>8, <2>9, <2>10, NextCases
    DEF InsideStep
<1> QED
  BY <1>1, <1>2

(* What a version was does not change when others move.                    *)
LEMMA WasProductionStays ==
    ASSUME TypeOK, NEW v, WasProduction(v),
           \/ registry' = registry \/ Promotes
           \/ \E r \in Runner : Adds(r)
           \/ \E r \in Runner : Stages(r) /\ registry[run[r].version] = "none"
    PROVE  WasProduction(v)'
<1>1. CASE registry' = registry
  BY <1>1 DEF WasProduction
<1>2. CASE Promotes
  BY <1>2 DEF WasProduction, Promotes, Promoted, SameVersions
<1>3. ASSUME NEW r \in Runner, Adds(r) PROVE WasProduction(v)'
  BY <1>3 DEF WasProduction, Adds, Added, TypeOK
<1>4. ASSUME NEW r \in Runner, Stages(r), registry[run[r].version] = "none"
      PROVE  WasProduction(v)'
  BY <1>4 DEF WasProduction, Stages, Staged, SameVersions
<1> QED
  BY <1>1, <1>2, <1>3, <1>4

LEMMA BaselinesStep ==
    ASSUME TypeOK, Candidates, Baselines, Next
    PROVE  Baselines'
<1>1. ASSUME KeepsRuns, compared' = compared,
             \A v : WasProduction(v) => WasProduction(v)'
      PROVE  Baselines'
  BY <1>1 DEF Baselines, KeepsRuns
<1>2. CASE KeepsRuns /\ (KeepsTags \/ Promotes)
  BY <1>1, <1>2, WasProductionStays DEF KeepsTags, Promotes
<1>3. ASSUME NEW r \in Runner, KeepsRuns, Rejects(r) PROVE Baselines'
  BY <1>1, <1>3, WasProductionStays DEF Rejects
<1>4. ASSUME NEW r \in Runner, KeepsRuns, Stages(r) PROVE Baselines'
  <2>1. registry[run[r].version] = "none"
    BY <1>4 DEF Candidates, HasVersion, Stages
  <2> QED
    BY <1>1, <1>4, <2>1, WasProductionStays DEF Stages
<1>5. ASSUME NEW r \in Runner, KeepsRuns, Tags(r) PROVE Baselines'
  <2>1. WasProduction(run[r].prod)
    BY <1>5 DEF Tags, Baselines
  <2>2. \A v \in 1..MaxVersion : compared'[v] = compared[v] \/ compared'[v] = run[r].prod
    BY <1>5 DEF Tags, TypeOK
  <2>3. \A v : WasProduction(v) => WasProduction(v)'
    BY <1>5 DEF Tags, WasProduction
  <2> QED
    BY <1>5, <2>1, <2>2, <2>3 DEF Baselines, KeepsRuns
<1>6. ASSUME NEW r \in Runner, Adds(r) PROVE Baselines'
  <2>1. \A v : WasProduction(v) => WasProduction(v)'
    BY <1>6, WasProductionStays
  <2>2. \A s \in Runner : run'[s].at \in {"evaluate", "tag"} =>
            run[s].at \in {"evaluate", "tag"} /\ run'[s].prod = run[s].prod
    BY <1>6 DEF Adds, Moves
  <2> QED
    BY <1>6, <2>1, <2>2 DEF Baselines, Adds
<1> QED
  BY <1>2, <1>3, <1>4, <1>5, <1>6, RegistrySteps

LEMMA CandidatesStep ==
    ASSUME TypeOK, Candidates, Baselines, RejectedOut, Next
    PROVE  Candidates'
<1>1. ASSUME KeepsRuns, Len(registry') = Len(registry),
             \A s \in Runner : run'[s].at \in HasVersion =>
                registry'[run[s].version] = "none" /\ run[s].version \notin rejected'
      PROVE  Candidates'
  BY <1>1 DEF Candidates, KeepsRuns
<1>2. CASE KeepsRuns /\ KeepsTags
  BY <1>1, <1>2 DEF Candidates, KeepsRuns, KeepsTags
<1>3. CASE KeepsRuns /\ Promotes
  BY <1>1, <1>3 DEF Candidates, KeepsRuns, Promotes, Promoted, SameVersions
<1>4. ASSUME NEW r \in Runner, KeepsRuns, Rejects(r) PROVE Candidates'
  BY <1>1, <1>4 DEF Candidates, KeepsRuns, Rejects, HasVersion
<1>5. ASSUME NEW r \in Runner, KeepsRuns, Tags(r) PROVE Candidates'
  BY <1>1, <1>5 DEF Candidates, KeepsRuns, Tags
<1>6. ASSUME NEW r \in Runner, KeepsRuns, Stages(r) PROVE Candidates'
  <2>1. r \in Runner /\ run[r].at \in HasVersion /\ run'[r].at \notin HasVersion
    BY <1>6 DEF Stages, HasVersion
  <2>2. \A s \in Runner : run'[s].at \in HasVersion =>
           run[s].version \in 1..Len(registry) /\ run[s].version # run[r].version
    BY <1>6, <2>1 DEF Candidates, KeepsRuns
  <2> QED
    BY <1>1, <1>6, <2>2 DEF Candidates, KeepsRuns, Stages, Staged, SameVersions
<1>7. ASSUME NEW r \in Runner, Adds(r) PROVE Candidates'
  <2>1. Len(registry) \in Nat /\ rejected \subseteq 1..Len(registry)
    BY DEF TypeOK
  <2>2. \A s \in Runner \ {r} : run'[s] = run[s]
    BY <1>7 DEF Adds, Moves
  <2>3. run'[r].version = Len(registry) + 1 /\ rejected' = rejected
    BY <1>7 DEF Adds
  <2>4. /\ Len(registry') = Len(registry) + 1 /\ registry'[Len(registry) + 1] = "none"
        /\ \A w \in 1..Len(registry) : registry'[w] = registry[w]
    BY <1>7 DEF Adds, Added
  <2>5. \A s \in Runner : run'[s].at \in HasVersion =>
           /\ run'[s].version \in 1..Len(registry')
           /\ registry'[run'[s].version] = "none"
           /\ run'[s].version \notin rejected'
    BY <2>1, <2>2, <2>3, <2>4 DEF Candidates
  <2>6. \A s \in Runner \ {r} : run'[s].at \in HasVersion => run'[s].version # Len(registry) + 1
    BY <2>1, <2>2 DEF Candidates
  <2>7. \A s, t \in Runner :
           run'[s].at \in HasVersion /\ run'[t].at \in HasVersion
              /\ run'[s].version = run'[t].version => s = t
    BY <2>2, <2>3, <2>6 DEF Candidates
  <2> QED
    BY <2>5, <2>7 DEF Candidates
<1> QED
  BY <1>2, <1>3, <1>4, <1>5, <1>6, <1>7, RegistrySteps

LEMMA StagesStep ==
    ASSUME TypeOK, Candidates, Baselines, RejectedOut, OneProduction, Next
    PROVE  RejectedOut' /\ OneProduction'
<1>0. Len(registry) \in Nat /\ rejected \subseteq 1..Len(registry)
  BY DEF TypeOK
<1>1. CASE KeepsTags
  BY <1>1 DEF KeepsTags, RejectedOut, OneProduction
<1>2. CASE Promotes
  BY <1>0, <1>2 DEF Promotes, Promoted, SameVersions, RejectedOut, OneProduction
<1>3. ASSUME NEW r \in Runner, Rejects(r) PROVE RejectedOut' /\ OneProduction'
  BY <1>3 DEF Rejects, Candidates, RejectedOut, OneProduction
<1>4. ASSUME NEW r \in Runner, Tags(r) PROVE RejectedOut' /\ OneProduction'
  BY <1>4 DEF Tags, RejectedOut, OneProduction
<1>5. ASSUME NEW r \in Runner, Stages(r) PROVE RejectedOut' /\ OneProduction'
  <2>1. run[r].version \notin rejected
    BY <1>5 DEF Stages, Candidates, HasVersion
  <2> QED
    BY <1>0, <1>5, <2>1 DEF Stages, Staged, SameVersions, RejectedOut, OneProduction
<1>6. ASSUME NEW r \in Runner, Adds(r) PROVE RejectedOut' /\ OneProduction'
  BY <1>0, <1>6 DEF Adds, Added, RejectedOut, OneProduction
<1> QED
  BY <1>1, <1>2, <1>3, <1>4, <1>5, <1>6, RegistrySteps
-----------------------------------------------------------------------------
(***************************************************************************)
(* The inductive invariant.                                                *)
(***************************************************************************)
LEMMA InvInit ==
    ASSUME Init
    PROVE  RegistryInv /\ LockInv
<1> USE RetrainAssumption DEF Init
<1>1. \A r \in Runner : run[r] = Idle /\ run[r].at = "idle"
  BY DEF Idle
<1>2. TypeOK
  <2>1. run \in RunType
    BY DEF Idle, RunType, Place
  <2>2. OthersTyped
    <3>1. 0 \in 0..MaxTime /\ -1 \in -1..MaxTime /\ MaxFaults \in 0..MaxFaults
      OBVIOUS
    <3>2. compared \in [1..MaxVersion -> 0..MaxVersion]
      OBVIOUS
    <3>3. registry \in Seq(Stage) /\ Len(registry) <= MaxVersion
      OBVIOUS
    <3> QED
      BY <3>1, <3>2, <3>3 DEF OthersTyped, None
  <2> QED
    BY <2>1, <2>2, TypeSplit
<1>3. RoomKept
  <2>1. Registering = {}
    BY <1>1 DEF Registering
  <2>2. Cardinality(Registering) = 0
    BY <2>1, FS_EmptySet
  <2>3. Len(registry) <= MaxVersion /\ Len(registry) \in Nat
    OBVIOUS
  <2> QED
    BY <2>2, <2>3 DEF RoomKept
<1>4. Candidates /\ Baselines /\ RejectedOut
  BY <1>1 DEF Candidates, Baselines, RejectedOut, HasVersion
<1>5. OneProduction
  <2>1. registry \in Seq(Stage)
    OBVIOUS
  <2>2. \A v, w \in InStage(registry, "Production") : v = w
    OBVIOUS
  <2> QED
    BY <2>1, <2>2 DEF OneProduction, InStage
<1>6. OneRetrain /\ StartsApart
  BY <1>1 DEF OneRetrain, StartsApart, Inside, Runner, InWorker
<1>7. Stamps
  BY DEF Stamps, None
<1> QED
  BY <1>2, <1>3, <1>4, <1>5, <1>6, <1>7 DEF RegistryInv, LockInv

LEMMA InvStep ==
    ASSUME RegistryInv /\ LockInv, [Next]_vars
    PROVE  RegistryInv' /\ LockInv'
<1>1. CASE Next
  BY <1>1, TypeStep, RoomStep, CandidatesStep, BaselinesStep, StagesStep, LockStep
  DEF RegistryInv
<1>2. CASE UNCHANGED vars
  <2> USE <1>2 DEF vars, process, mlflow
  <2>1. TypeOK' <=> TypeOK
    BY DEF TypeOK
  <2>2. RoomKept' <=> RoomKept
    <3>1. Registering' = Registering
      BY DEF Registering
    <3> QED
      BY <3>1 DEF RoomKept
  <2>3. Candidates' <=> Candidates
    BY DEF Candidates
  <2>4. (Baselines' <=> Baselines) /\ (OneProduction' <=> OneProduction)
        /\ (RejectedOut' <=> RejectedOut)
    BY DEF Baselines, WasProduction, OneProduction, RejectedOut
  <2>5. LockInv' <=> LockInv
    BY DEF LockInv, OneRetrain, Inside, Stamps, StartsApart
  <2> QED
    BY <2>1, <2>2, <2>3, <2>4, <2>5 DEF RegistryInv
<1> QED
  BY <1>1, <1>2

(* Everything above holds in every state.                                  *)
THEOREM Invariant == Spec => [](RegistryInv /\ LockInv)
<1>1. Init => RegistryInv /\ LockInv
  BY InvInit
<1>2. RegistryInv /\ LockInv /\ [Next]_vars => (RegistryInv /\ LockInv)'
  BY InvStep
<1> QED
  BY <1>1, <1>2, PTL DEF Spec

(* Every variable keeps its type: versions that runs refer to exist.       *)
THEOREM TypeCorrect == Spec => []TypeOK
<1>1. RegistryInv => TypeOK
  BY DEF RegistryInv
<1> QED
  BY <1>1, Invariant, PTL

(* The non-blocking acquire of run_auto_retrain lets one run of the worker *)
(* train at a time, however many threads drift checks start.               *)
THEOREM MutualExclusion == Spec => []OneRetrain
<1>1. LockInv => OneRetrain
  BY DEF LockInv
<1> QED
  BY <1>1, Invariant, PTL

(* No interleaving of runs, the trainer, promotions and failures makes a   *)
(* tag false that promote_if_better or auto_retrain wrote.                 *)
THEOREM TagsTrue == Spec => []TagsAreTrue
<1>1. RegistryInv => TagsAreTrue
  BY DEF RegistryInv, Baselines, WasProduction, RejectedOut, TagsAreTrue
<1> QED
  BY <1>1, Invariant, PTL

(***************************************************************************)
(* What steps may not do.                                                  *)
(***************************************************************************)
LEMMA DriftStamp ==
    ASSUME TypeOK, LockInv, Next, lastDrift' # lastDrift, lastDrift # None, lastDrift' # None
    PROVE  lastDrift' - lastDrift >= Cooldown
<1>1. PICK r \in DriftThread : run[r].at = "start" /\ lastDrift' = clock
  <2>1. CASE \E d \in DriftThread : DriftCheck(d)
    BY <2>1 DEF DriftCheck, process
  <2>2. CASE WeeklyJob \/ TrainerStarts \/ Tick \/ Promotion \/ RestartWorker
    BY <2>2 DEF WeeklyJob, TrainerStarts, Tick, Promotion, RestartWorker, process
  <2>3. ASSUME NEW s \in Runner, Acquire(s)
        PROVE  \E r \in DriftThread : run[r].at = "start" /\ lastDrift' = clock
    BY <2>3 DEF Acquire, process
  <2>4. ASSUME NEW s \in Runner, Release(s) PROVE FALSE
    BY <2>4 DEF Release
  <2>5. ASSUME NEW s \in Runner, InsideStep(s) PROVE FALSE
    BY <2>5, InsideStepKeepsSides DEF KeepsSides, process
  <2> QED
    BY <2>1, <2>2, <2>3, <2>4, <2>5, NextCases
<1>2. lastDrift = clock \/ clock - lastDrift >= Cooldown
  BY <1>1 DEF LockInv, StartsApart
<1> QED
  BY <1>1, <1>2

(* Two runs that drift started are at least the cooldown apart, because a  *)
(* run stamps its start under the lock (run_auto_retrain) and a check reads*)
(* the stamp of whichever run was last (maybe_trigger_retrain).            *)
THEOREM DriftKeepsDistance == Spec => DriftRunsApart
<1> DEFINE Distant == lastDrift' # lastDrift /\ lastDrift # None /\ lastDrift' # None
                        => lastDrift' - lastDrift >= Cooldown
<1>1. RegistryInv /\ LockInv /\ [Next]_vars => [Distant]_vars
  BY DriftStamp DEF RegistryInv
<1>2. Spec => [][Distant]_vars
  BY <1>1, Invariant, PTL DEF Spec
<1> QED
  BY <1>2 DEF DriftRunsApart

(***************************************************************************)
(* Runs and promotions implement ModelLifecycle.                           *)
(***************************************************************************)
LEMMA SameOperators ==
    /\ \A r, v, s, a : Lifecycle!Transition(r, v, s, a) = Transition(r, v, s, a)
    /\ \A r : Lifecycle!Register(r) = Register(r)
BY DEF Lifecycle!Transition, Transition, Lifecycle!Register, Register

LEMMA LifecycleStep ==
    ASSUME RegistryInv, Next
    PROVE  [Lifecycle!LifecycleNext]_registry
<1> USE DEF RegistryInv
<1>1. ASSUME NEW r \in Runner, run[r].at = "stage",
             registry' = Transition(registry, run[r].version, "Staging", FALSE)
      PROVE  Lifecycle!LifecycleNext
  <2>1. run[r].version \in DOMAIN registry /\ registry[run[r].version] = "none"
    BY <1>1 DEF TypeOK, Candidates, HasVersion
  <2>2. Lifecycle!StageVersion(run[r].version)
    BY <1>1, <2>1, SameOperators DEF Lifecycle!StageVersion
  <2> QED
    BY <2>1, <2>2 DEF Lifecycle!LifecycleNext
<1>2. CASE Promotion
  <2> DEFINE v == Latest(registry, "Staging")
  <2>1. v \in DOMAIN registry /\ registry[v] = "Staging"
    BY <1>2, LatestRange DEF Promotion, TypeOK
  <2>2. Lifecycle!PromoteVersion(v)
    BY <1>2, <2>1, SameOperators DEF Promotion, Lifecycle!PromoteVersion
  <2> QED
    BY <2>1, <2>2 DEF Lifecycle!LifecycleNext
<1>3. ASSUME NEW r \in Runner, RegisterModel(r) PROVE Lifecycle!LifecycleNext
  BY <1>3, SameOperators DEF RegisterModel, Lifecycle!LifecycleNext, Lifecycle!RegisterVersion
<1>4. ASSUME NEW r \in Runner, StageModel(r) \/ RunFails(r)
      PROVE  [Lifecycle!LifecycleNext]_registry
  BY <1>1, <1>4 DEF StageModel, RunFails
<1>5. ASSUME NEW r \in Runner,
             Acquire(r) \/ Release(r) \/ Train(r) \/ DriftGate(r) \/ Query(r)
             \/ Evaluate(r) \/ Tag(r) \/ Reject(r)
      PROVE  registry' = registry
  BY <1>5 DEF Acquire, Release, Train, DriftGate, Query, Evaluate, Tag, Reject, mlflow
<1>6. CASE (\E d \in DriftThread : DriftCheck(d)) \/ WeeklyJob \/ TrainerStarts \/ Tick
           \/ RestartWorker
  BY <1>6 DEF DriftCheck, WeeklyJob, TrainerStarts, Tick, RestartWorker, mlflow
<1> QED
  BY <1>2, <1>3, <1>4, <1>5, <1>6, NextCases DEF InsideStep

(* Whatever the runs, the trainer and the promotions interleave to, the    *)
(* registry moves as ModelLifecycle says: only unstaged versions are       *)
(* staged, by a run, and only versions that were staged reach Production.  *)
THEOREM LifecycleKept == Spec => LifecycleSpec
<1>1. Init => Lifecycle!LifecycleInit
  BY RetrainAssumption
  DEF Init, Lifecycle!LifecycleInit, Lifecycle!AtMostOneProduction, Lifecycle!InStage, InStage,
      Lifecycle!Stage, Stage
<1>2. RegistryInv /\ LockInv /\ [Next]_vars => [Lifecycle!LifecycleNext]_registry
  <2>1. UNCHANGED vars => registry' = registry
    BY DEF vars, mlflow
  <2> QED
    BY <2>1, LifecycleStep
<1> QED
  BY <1>1, <1>2, Invariant, PTL DEF Spec, LifecycleSpec, Lifecycle!LifecycleSpec
=============================================================================
