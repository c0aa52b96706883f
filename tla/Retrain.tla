------------------------------ MODULE Retrain ------------------------------
(***************************************************************************)
(* Who trains models, and what becomes of them: the worker's drift check   *)
(* (services/worker/app/drift.py), its automatic retraining                *)
(* (services/worker/app/auto_retrain.py) with the weekly job of main.py,   *)
(* and the trainer (services/trainer/app/main.py, promote.py).             *)
(*                                                                         *)
(* In the worker a lock lets one run in at a time and a time stamp keeps   *)
(* drift from starting runs in close succession.  The trainer is another   *)
(* process and knows of neither.  All meet in the model registry, where    *)
(* the API promotes what they stage (module Serving).                      *)
(***************************************************************************)
EXTENDS Integers, Sequences, FiniteSets, ModelRegistry

CONSTANTS
    DriftThread,   \* threads started by drift checks
    Weekly,        \* the thread of the weekly job
    Trainer,       \* the trainer process
    Cooldown,      \* retrain_cooldown_minutes, in ticks of the clock
    Registries,    \* the registries a behaviour may start with
    MaxVersion,    \* bound: how many versions are registered
    MaxTime,       \* bound: ticks of the monotonic clock
    MaxFaults      \* bound: failures and kills in one behaviour

InWorker == DriftThread \cup {Weekly}
Runner == InWorker \cup {Trainer}

ASSUME RetrainAssumption ==
    /\ Weekly \notin DriftThread /\ Trainer \notin InWorker
    /\ Cooldown \in Nat /\ MaxTime \in Nat /\ MaxVersion \in Nat /\ MaxFaults \in Nat
    /\ IsFiniteSet(DriftThread)
    /\ Registries \subseteq Seq(Stage) /\ Registries # {}
    /\ \A r \in Registries :
          /\ Len(r) <= MaxVersion
          /\ \A v, w \in InStage(r, "Production") : v = w

VARIABLES
    clock,       \* time.monotonic
    locked,      \* _retrain_lock: a lock without an owner
    triggered,   \* _last_retrain_triggered_at, None is -1
    run,         \* the runs: where they are, and their local variables
    registry,    \* MLflow: the stages of the versions
    compared,    \* MLflow: the tag compared_against_prod_version, 0 if not set
    rejected,    \* MLflow: the versions with a rejection_reason
    lastDrift,   \* history: when drift last started a run in this process, or -1
    budget       \* failures still allowed

process == <<clock, locked, triggered, lastDrift>>
mlflow == <<registry, compared, rejected>>
vars == <<process, run, mlflow, budget>>

None == -1
Idle == [at |-> "idle", version |-> 0, prod |-> 0, beats |-> FALSE]

Init ==
    /\ clock = 0 /\ locked = FALSE /\ triggered = None /\ lastDrift = None
    /\ run = [r \in Runner |-> Idle]
    /\ registry \in Registries
    /\ compared = [v \in 1..MaxVersion |-> 0] /\ rejected = {}
    /\ budget = MaxFaults

Spend == budget > 0 /\ budget' = budget - 1
Goto(r, place) == run' = [run EXCEPT ![r].at = place]

(***************************************************************************)
(* Triggers.                                                               *)
(***************************************************************************)
CoolingDown == triggered # None /\ clock - triggered < Cooldown

(* A drift check against the data the Production model was trained on      *)
(* found drift; it starts a thread unless a run was started lately.        *)
DriftCheck(d) ==
    /\ run[d].at = "idle"
    /\ InStage(registry, "Production") # {}
    /\ ~CoolingDown
    /\ Goto(d, "start")
    /\ UNCHANGED <<process, mlflow, budget>>

WeeklyJob ==
    /\ run[Weekly].at = "idle"
    /\ Goto(Weekly, "start")
    /\ UNCHANGED <<process, mlflow, budget>>

TrainerStarts ==
    /\ run[Trainer].at = "idle"
    /\ Goto(Trainer, "train")
    /\ UNCHANGED <<process, mlflow, budget>>

(* Variant: the run that is not let in releases the lock all the same.     *)
AcquireInTry(r) ==
    /\ r \in InWorker /\ run[r].at = "start"
    /\ IF locked
       THEN Goto(r, "release") /\ UNCHANGED process
       ELSE /\ locked' = TRUE /\ triggered' = clock
            /\ lastDrift' = IF r \in DriftThread THEN clock ELSE lastDrift
            /\ Goto(r, "train") /\ UNCHANGED clock
    /\ UNCHANGED <<mlflow, budget>>

(* Variant: only the weekly job stamps the start of a run.                 *)
AcquireStampsWeekly(r) ==
    /\ r \in InWorker /\ run[r].at = "start"
    /\ IF locked
       THEN Goto(r, "idle") /\ UNCHANGED process
       ELSE /\ locked' = TRUE /\ triggered' = IF r = Weekly THEN clock ELSE triggered
            /\ lastDrift' = IF r \in DriftThread THEN clock ELSE lastDrift
            /\ Goto(r, "train") /\ UNCHANGED clock
    /\ UNCHANGED <<mlflow, budget>>

(* A run of the worker is let in and stamps its start, or is skipped.      *)
Acquire(r) ==
    /\ r \in InWorker /\ run[r].at = "start"
    /\ IF locked
       THEN Goto(r, "idle") /\ UNCHANGED process
       ELSE /\ locked' = TRUE /\ triggered' = clock
            /\ lastDrift' = IF r \in DriftThread THEN clock ELSE lastDrift
            /\ Goto(r, "train") /\ UNCHANGED clock
    /\ UNCHANGED <<mlflow, budget>>

(***************************************************************************)
(* A run.                                                                  *)
(***************************************************************************)

(* Bound: a run that could register no version finds too little data.      *)
Registering == {r \in Runner : run[r].at = "register"}
Room == Len(registry) + Cardinality(Registering) < MaxVersion

(* Variant: a run without enough data returns before the try block.        *)
TrainOrReturn(r) ==
    /\ run[r].at = "train"
    /\ (Room /\ Goto(r, "register")) \/ Goto(r, "idle")
    /\ UNCHANGED <<process, mlflow, budget>>

(* There may be too little data to train with.                             *)
Train(r) ==
    /\ run[r].at = "train"
    /\ (Room /\ Goto(r, "register")) \/ Goto(r, "release")
    /\ UNCHANGED <<process, mlflow, budget>>

(* Only the trainer compares the feature distributions first.              *)
RegisterModel(r) ==
    /\ run[r].at = "register"
    /\ registry' = Register(registry)
    /\ run' = [run EXCEPT ![r].at = IF r = Trainer THEN "gate" ELSE "query",
                          ![r].version = Len(registry) + 1]
    /\ UNCHANGED <<process, compared, rejected, budget>>

(* Variant: the rejection for drift does not return.                       *)
DriftGateFallsThrough(r) ==
    /\ run[r].at = "gate"
    /\ Goto(r, "query")
    /\ rejected' \in {rejected, rejected \cup {run[r].version}}
    /\ UNCHANGED <<process, registry, compared, budget>>

DriftGate(r) ==
    /\ run[r].at = "gate"
    /\ \/ Goto(r, "query") /\ UNCHANGED rejected
       \/ Goto(r, "release") /\ rejected' = rejected \cup {run[r].version}
    /\ UNCHANGED <<process, registry, compared, budget>>

(* Without a Production version there is nothing to beat; a query that     *)
(* MLflow refuses counts as none.                                          *)
Query(r) ==
    /\ run[r].at = "query"
    /\ \/ LET p == Latest(registry, "Production") IN
            run' = [run EXCEPT ![r].at = IF p = 0 THEN "stage" ELSE "evaluate", ![r].prod = p]
          /\ UNCHANGED budget
       \/ Goto(r, "stage") /\ Spend
    /\ UNCHANGED <<process, mlflow>>

(* The Production model is loaded and compared on the same hold-out; one   *)
(* that cannot be loaded does not stand in the way.                        *)
Evaluate(r) ==
    /\ run[r].at = "evaluate"
    /\ \/ \E b \in BOOLEAN : run' = [run EXCEPT ![r].at = "tag", ![r].beats = b]
          /\ UNCHANGED budget
       \/ Goto(r, "stage") /\ Spend
    /\ UNCHANGED <<process, mlflow>>

Tag(r) ==
    /\ run[r].at = "tag"
    /\ compared' = [compared EXCEPT ![run[r].version] = run[r].prod]
    /\ Goto(r, IF run[r].beats THEN "stage" ELSE "reject")
    /\ UNCHANGED <<process, registry, rejected, budget>>

(* Variant: a better version replaces Production right away.               *)
PromoteAtOnce(r) ==
    /\ run[r].at = "stage"
    /\ registry' = Transition(registry, run[r].version, "Production", TRUE)
    /\ Goto(r, "release")
    /\ UNCHANGED <<process, compared, rejected, budget>>

StageModel(r) ==
    /\ run[r].at = "stage"
    /\ registry' = Transition(registry, run[r].version, "Staging", FALSE)
    /\ Goto(r, "release")
    /\ UNCHANGED <<process, compared, rejected, budget>>

Reject(r) ==
    /\ run[r].at = "reject"
    /\ rejected' = rejected \cup {run[r].version}
    /\ Goto(r, "release")
    /\ UNCHANGED <<process, registry, compared, budget>>

(* Something raises: the worker logs it, the trainer ends.  A transition   *)
(* may have been applied.                                                  *)
Working == {"train", "register", "gate", "query", "evaluate", "tag", "stage", "reject"}

RunFails(r) ==
    /\ run[r].at \in Working
    /\ Spend
    /\ Goto(r, "release")
    /\ \/ UNCHANGED registry
       \/ run[r].at = "stage"
          /\ registry' = Transition(registry, run[r].version, "Staging", FALSE)
    /\ UNCHANGED <<process, compared, rejected>>

Release(r) ==
    /\ run[r].at = "release"
    /\ locked' = IF r \in InWorker THEN FALSE ELSE locked
    /\ run' = [run EXCEPT ![r] = Idle]
    /\ UNCHANGED <<clock, triggered, lastDrift, mlflow, budget>>

(***************************************************************************)
(* The environment.                                                        *)
(***************************************************************************)

(* A thread that was started asks for the lock before the clock moves on.  *)
Tick ==
    /\ clock < MaxTime
    /\ \A r \in Runner : run[r].at # "start"
    /\ clock' = clock + 1
    /\ UNCHANGED <<locked, triggered, lastDrift, run, mlflow, budget>>

(* Somebody promotes the latest staged version through the API.            *)
Promotion ==
    /\ InStage(registry, "Staging") # {}
    /\ registry' = Transition(registry, Latest(registry, "Staging"), "Production", TRUE)
    /\ UNCHANGED <<process, run, compared, rejected, budget>>

(* The worker is killed and started again; its threads and times are gone. *)
RestartWorker ==
    /\ Spend
    /\ locked' = FALSE /\ triggered' = None /\ lastDrift' = None
    /\ run' = [r \in Runner |-> IF r \in InWorker THEN Idle ELSE run[r]]
    /\ UNCHANGED <<clock, mlflow>>

RunStep(r) ==
    \/ Acquire(r) \/ Train(r) \/ RegisterModel(r) \/ DriftGate(r) \/ Query(r)
    \/ Evaluate(r) \/ Tag(r) \/ StageModel(r) \/ Reject(r) \/ RunFails(r) \/ Release(r)

Next ==
    \/ \E d \in DriftThread : DriftCheck(d)
    \/ WeeklyJob \/ TrainerStarts \/ Tick \/ Promotion \/ RestartWorker
    \/ \E r \in Runner : RunStep(r)

Spec == Init /\ [][Next]_vars

(* Threads and processes run.                                              *)
FairSpec == Spec /\ \A r \in Runner : WF_vars(RunStep(r))
-----------------------------------------------------------------------------
Place == {"idle", "start", "release"} \cup Working

Inside(r) == run[r].at \notin {"idle", "start"}

(* Every variable keeps its type.                                          *)
TypeOK ==
    /\ clock \in 0..MaxTime /\ locked \in BOOLEAN
    /\ triggered \in -1..MaxTime /\ lastDrift \in -1..MaxTime
    /\ run \in [Runner -> [at : Place, version : 0..MaxVersion, prod : 0..MaxVersion,
                           beats : BOOLEAN]]
    /\ registry \in Seq(Stage) /\ Len(registry) <= MaxVersion
    /\ compared \in [1..MaxVersion -> 0..MaxVersion] /\ rejected \subseteq DOMAIN registry
    /\ budget \in 0..MaxFaults

(* Drift checks and the weekly job never train at the same time: the lock  *)
(* is held exactly while one run is inside (run_auto_retrain).             *)
OneRetrain ==
    /\ \A r, s \in InWorker : Inside(r) /\ Inside(s) => r = s
    /\ locked <=> \E r \in InWorker : Inside(r)

(* Two runs started by drift are at least the cooldown apart, as long as   *)
(* the worker lives (maybe_trigger_retrain and the stamp it reads).        *)
DriftRunsApart ==
    [][lastDrift' # lastDrift /\ lastDrift # None /\ lastDrift' # None
         => lastDrift' - lastDrift >= Cooldown]_vars

(* The tags of a version are true, whatever fails and whoever promotes: one*)
(* that lost the comparison, or that drifted, is never staged, and what it *)
(* was compared with was Production, not another run's candidate.          *)
TagsAreTrue ==
    /\ \A v \in rejected : registry[v] = "none"
    /\ \A v \in 1..MaxVersion :
          compared[v] # 0 => registry[compared[v]] \in {"Production", "Archived"}

(* Whoever is let in leaves again and lets the next one in.                *)
RunsEnd == locked ~> ~locked

(* The registry moves as ModelLifecycle says: versions are only staged by  *)
(* runs, and promoted by people.                                           *)
Lifecycle == INSTANCE ModelLifecycle
LifecycleSpec == Lifecycle!LifecycleSpec
=============================================================================
