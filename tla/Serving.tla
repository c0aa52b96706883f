------------------------------ MODULE Serving ------------------------------
(***************************************************************************)
(* The prediction API, services/api/app/main.py: how it loads models from  *)
(* the registry, swaps them while it serves, and records what it answers.  *)
(*                                                                         *)
(* Everything runs on one event loop; a step here is what runs between two *)
(* awaits.  The calls into MLflow, Postgres and scikit-learn are awaited,  *)
(* so the loaders (the start-up load with its retry loop, and admin calls) *)
(* and the predictions interleave.                                         *)
(***************************************************************************)
EXTENDS Naturals, Sequences, FiniteSets, ModelRegistry

CONSTANTS
    Boot,          \* the start-up load, later the retry loop
    Admin,         \* callers of /admin/reload and /admin/promote
    Request,       \* predictions: POST /predict or the periodic refresh
    Registries,    \* the registries a behaviour may start with
    MaxVersion,    \* bound: how many versions are registered
    MaxFaults      \* bound: failures and restarts in one behaviour

ASSUME ServingAssumption ==
    /\ Boot \notin Admin
    /\ Registries \subseteq Seq(Stage) /\ Registries # {}
    /\ \A r \in Registries : Len(r) <= MaxVersion
                          /\ Cardinality(InStage(r, "Production")) <= 1
    /\ MaxVersion \in Nat /\ MaxFaults \in Nat

Loader == Admin \cup {Boot}

VARIABLES
    registry,      \* MLflow
    prod, staging, \* the loaded models, and the versions their infos name
    phase,         \* the process: starting, retrying the load, or settled
    lock,          \* reload_lock: its holder, then those that wait, in order
    loader,        \* the loads in progress
    request,       \* the predictions in progress
    log, features, \* marts.prediction_log, marts.prediction_features
    fresh,         \* history: no promotion since the search behind the loaded models
    newest,        \* history: the version promoted by the last admin call, 0 if overtaken
    budget         \* failures still allowed

served == <<prod, staging>>
history == <<fresh, newest>>
tables == <<log, features>>
vars == <<registry, served, phase, lock, loader, request, tables, history, budget>>

Version == 0..MaxVersion      \* 0: None, or no version known
NoModel == [model |-> 0, version |-> 0]

(* `found` are the versions the search returned, `model` what the two      *)
(* loads resolved to; `promoted` is the version an admin call promotes.    *)
Idle == [at |-> "idle", found |-> <<0, 0>>, model |-> <<0, 0>>,
         promoted |-> 0, overtaken |-> FALSE]

(* `swapped`, history: while the prediction computed, other models were     *)
(* published, or those it took had been overtaken by a promotion.          *)
Waiting == [at |-> "idle", model |-> 0, version |-> 0, swapped |-> FALSE]

Loading == {"loadProd", "loadStaging", "loaded", "publish"}

(***************************************************************************)
(* The process starts, and loads before it serves.                         *)
(***************************************************************************)
Process ==
    /\ prod' = NoModel /\ staging' = NoModel
    /\ phase' = "starting" /\ lock' = <<>>
    /\ loader' = [l \in Loader |-> IF l = Boot THEN [Idle EXCEPT !.at = "search"] ELSE Idle]

Init ==
    /\ registry \in Registries
    /\ prod = NoModel /\ staging = NoModel
    /\ phase = "starting" /\ lock = <<>>
    /\ loader = [l \in Loader |-> IF l = Boot THEN [Idle EXCEPT !.at = "search"] ELSE Idle]
    /\ request = [r \in Request |-> Waiting]
    /\ log = {} /\ features = {}
    /\ fresh = FALSE /\ newest = 0
    /\ budget = MaxFaults

Spend == budget > 0 /\ budget' = budget - 1

(***************************************************************************)
(* A load.  An admin call holds the lock from its first step to its last;  *)
(* Boot takes it only to publish what it loaded.                           *)
(***************************************************************************)
Turn(l) == l = Boot \/ (lock # <<>> /\ Head(lock) = l)

(* An admin call joins the queue of the lock.                              *)
Call(a, first) ==
    /\ phase # "starting" /\ loader[a].at = "idle"
    /\ loader' = [loader EXCEPT ![a].at = first]
    /\ lock' = Append(lock, a)
    /\ UNCHANGED <<registry, served, phase, request, tables, history, budget>>

(* Variant: the highest version is promoted, whatever its stage.           *)
FindLatest(a) ==
    /\ Turn(a) /\ loader[a].at = "find"
    /\ LET v == Len(registry) IN
         IF v = 0
         THEN loader' = [loader EXCEPT ![a] = Idle] /\ lock' = Tail(lock)
         ELSE /\ loader' = [loader EXCEPT ![a].at = "promote", ![a].promoted = v]
              /\ UNCHANGED lock
    /\ UNCHANGED <<registry, served, phase, request, tables, history, budget>>

(* admin_promote looks for the highest Staging version; if there is none,  *)
(* it answers 409.                                                         *)
FindStaging(a) ==
    /\ Turn(a) /\ loader[a].at = "find"
    /\ LET v == Latest(registry, "Staging") IN
         IF v = 0
         THEN loader' = [loader EXCEPT ![a] = Idle] /\ lock' = Tail(lock)
         ELSE /\ loader' = [loader EXCEPT ![a].at = "promote", ![a].promoted = v]
              /\ UNCHANGED lock
    /\ UNCHANGED <<registry, served, phase, request, tables, history, budget>>

(* History: a promotion overtakes the loads that have searched already,    *)
(* and the promotions that are still to search.                            *)
Overtaken == [l \in Loader |->
    [loader[l] EXCEPT !.overtaken = \/ loader[l].overtaken \/ loader[l].at \in Loading
                                    \/ loader[l].at = "search" /\ loader[l].promoted # 0]]

(* Variant: the former Production version is left where it was.            *)
MoveBeside(v) ==
    /\ registry' = Transition(registry, v, "Production", FALSE)
    /\ fresh' = FALSE /\ newest' = 0

(* `v` becomes the Production version, the one before it is archived.      *)
Move(v) ==
    /\ registry' = Transition(registry, v, "Production", TRUE)
    /\ fresh' = FALSE /\ newest' = 0

Promote(a) ==
    /\ Turn(a) /\ loader[a].at = "promote"
    /\ Move(loader[a].promoted)
    /\ loader' = [Overtaken EXCEPT ![a].at = "search"]
    /\ UNCHANGED <<served, phase, lock, request, tables, budget>>

(* Variant: the retry loop ends with its first failure.                    *)
GiveUpForGood(l) ==
    IF l = Boot
    THEN /\ loader' = [loader EXCEPT ![l] =
                IF phase = "starting" THEN [Idle EXCEPT !.at = "sleep"] ELSE Idle]
         /\ phase' = IF phase = "starting" THEN "retrying" ELSE "settled"
         /\ UNCHANGED lock
    ELSE /\ loader' = [loader EXCEPT ![l] = Idle]
         /\ lock' = Tail(lock)
         /\ UNCHANGED phase

(* Variant: a failed admin call keeps the lock.                            *)
GiveUpLocked(l) ==
    IF l = Boot
    THEN /\ loader' = [loader EXCEPT ![l] = [Idle EXCEPT !.at = "sleep"]]
         /\ phase' = "retrying"
         /\ UNCHANGED lock
    ELSE /\ loader' = [loader EXCEPT ![l] = Idle]
         /\ UNCHANGED <<lock, phase>>

(* A load ends without models: an admin call answers with an error and     *)
(* lets go of the lock; Boot leaves the process up and tries again later.  *)
GiveUp(l) ==
    IF l = Boot
    THEN /\ loader' = [loader EXCEPT ![l] = [Idle EXCEPT !.at = "sleep"]]
         /\ phase' = "retrying"
         /\ UNCHANGED lock
    ELSE /\ loader' = [loader EXCEPT ![l] = Idle]
         /\ lock' = Tail(lock)
         /\ UNCHANGED phase

(* The versions of both stages, by one search.                             *)
Search(l) ==
    /\ Turn(l) /\ loader[l].at = "search"
    /\ LET p == Latest(registry, "Production") IN
         IF p = 0 THEN GiveUp(l)
         ELSE /\ loader' = [loader EXCEPT
                    ![l].at = "loadProd",
                    ![l].found = <<p, Latest(registry, "Staging")>>]
              /\ UNCHANGED <<phase, lock>>
    /\ UNCHANGED <<registry, served, request, tables, history, budget>>

(* Models are fetched by stage, whatever the search returned.              *)
LoadProd(l) ==
    /\ Turn(l) /\ loader[l].at = "loadProd"
    /\ loader' = [loader EXCEPT
            ![l].at = IF loader[l].found[2] = 0 THEN "loaded" ELSE "loadStaging",
            ![l].model[1] = Latest(registry, "Production")]
    /\ UNCHANGED <<registry, served, phase, lock, request, tables, history, budget>>

(* Without a Staging model, by then or by a failure, the load goes on.     *)
LoadStaging(l) ==
    /\ Turn(l) /\ loader[l].at = "loadStaging"
    /\ \/ /\ loader' = [loader EXCEPT ![l].at = "loaded",
                                      ![l].model[2] = Latest(registry, "Staging")]
          /\ UNCHANGED budget
       \/ /\ Spend
          /\ loader' = [loader EXCEPT ![l].at = "loaded"]
    /\ UNCHANGED <<registry, served, phase, lock, request, tables, history>>

(* MLflow fails: nothing is published.  A promotion may have been applied  *)
(* though its answer was lost.                                             *)
LoadFails(l) ==
    /\ Turn(l) /\ loader[l].at \in {"find", "search", "loadProd"}
    /\ Spend /\ GiveUp(l)
    /\ UNCHANGED <<registry, served, request, tables, history>>

PromoteFails(a) ==
    /\ Turn(a) /\ loader[a].at = "promote"
    /\ Spend
    /\ \/ UNCHANGED <<registry, history>> /\ loader' = [loader EXCEPT ![a] = Idle]
       \/ Move(loader[a].promoted) /\ loader' = [Overtaken EXCEPT ![a] = Idle]
    /\ lock' = Tail(lock)
    /\ UNCHANGED <<served, phase, request, tables>>

(* Boot waits its turn for the lock.                                       *)
AskForLock ==
    /\ loader[Boot].at = "loaded"
    /\ loader' = [loader EXCEPT ![Boot].at = "publish"]
    /\ lock' = Append(lock, Boot)
    /\ UNCHANGED <<registry, served, phase, request, tables, history, budget>>

MayPublish(l) ==
    /\ lock # <<>> /\ Head(lock) = l
    /\ loader[l].at = IF l = Boot THEN "publish" ELSE "loaded"

(* History: other models are served from now on. *)
Swapped == [r \in Request |->
    [request[r] EXCEPT !.swapped = request[r].swapped \/ request[r].at = "infer"]]

(* Variant: the info is published by the next load only.                   *)
PublishModelOnly(l) ==
    /\ MayPublish(l)
    /\ LET p == loader[l].model[1]
           s == loader[l].model[2]
       IN /\ prod' = [model |-> p, version |->
                        IF prod.version = 0 THEN loader[l].found[1] ELSE prod.version]
          /\ staging' = [model |-> s, version |-> loader[l].found[2]]
    /\ phase' = IF l = Boot THEN "settled" ELSE phase
    /\ lock' = Tail(lock)
    /\ loader' = [loader EXCEPT ![l] = Idle]
    /\ fresh' = ~loader[l].overtaken
    /\ newest' = IF loader[l].promoted # 0 /\ ~loader[l].overtaken THEN loader[l].promoted ELSE newest
    /\ request' = Swapped
    /\ UNCHANGED <<registry, tables, budget>>

(* Models and infos are swapped at once; a Staging model that could not be *)
(* loaded has no info.                                                     *)
Publish(l) ==
    /\ MayPublish(l)
    /\ LET p == loader[l].model[1]
           s == loader[l].model[2]
       IN /\ prod' = [model |-> p, version |-> loader[l].found[1]]
          /\ staging' = IF s = 0 THEN NoModel
                        ELSE [model |-> s, version |-> loader[l].found[2]]
    /\ phase' = IF l = Boot THEN "settled" ELSE phase
    /\ lock' = Tail(lock)
    /\ loader' = [loader EXCEPT ![l] = Idle]
    /\ fresh' = ~loader[l].overtaken
    /\ newest' = IF loader[l].promoted # 0 /\ ~loader[l].overtaken THEN loader[l].promoted ELSE newest
    /\ request' = Swapped
    /\ UNCHANGED <<registry, tables, budget>>

(* The retry loop wakes up.                                                *)
Retry ==
    /\ loader[Boot].at = "sleep"
    /\ loader' = [loader EXCEPT ![Boot].at = "search"]
    /\ UNCHANGED <<registry, served, phase, lock, request, tables, history, budget>>

(***************************************************************************)
(* Predictions.                                                            *)
(***************************************************************************)
Ready == prod.model # 0

Predict(r) ==
    /\ phase # "starting" /\ Ready
    /\ request[r].at = "idle"
    /\ request' = [request EXCEPT ![r].at = "features"]
    /\ UNCHANGED <<registry, served, phase, lock, loader, tables, history, budget>>

(* With its features read, the prediction takes the model of the moment.   *)
Infer(r) ==
    /\ request[r].at = "features"
    /\ request' = [request EXCEPT ![r].at = "infer", ![r].model = prod.model,
                                  ![r].swapped = ~fresh]
    /\ UNCHANGED <<registry, served, phase, lock, loader, tables, history, budget>>

(* The answer names the version of the moment it is given at; the shadow   *)
(* task starts.                                                            *)
Answer(r) ==
    /\ request[r].at = "infer"
    /\ request' = [request EXCEPT ![r].at = "shadow", ![r].model = 0,
                                  ![r].version = prod.version, ![r].swapped = FALSE]
    /\ UNCHANGED <<registry, served, phase, lock, loader, tables, history, budget>>

PredictFails(r) ==
    /\ request[r].at \in {"features", "infer"}
    /\ Spend
    /\ request' = [request EXCEPT ![r].at = "failed"]
    /\ UNCHANGED <<registry, served, phase, lock, loader, tables, history>>

ShadowStart(r) ==
    /\ request[r].at = "shadow"
    /\ request' = [request EXCEPT ![r].at = IF staging.model = 0 THEN "log" ELSE "shadowInfer"]
    /\ UNCHANGED <<registry, served, phase, lock, loader, tables, history, budget>>

(* The Staging model ran, or raised and its score is left out.             *)
ShadowEnd(r) ==
    /\ request[r].at = "shadowInfer"
    /\ request' = [request EXCEPT ![r].at = "log"]
    /\ UNCHANGED <<registry, served, phase, lock, loader, tables, history, budget>>

Row(r) == [request |-> r, version |-> request[r].version]

Log(r) ==
    /\ request[r].at = "log"
    /\ log' = log \cup {Row(r)}
    /\ request' = [request EXCEPT ![r].at = "logFeatures"]
    /\ UNCHANGED <<registry, served, phase, lock, loader, features, history, budget>>

LogFeatures(r) ==
    /\ request[r].at = "logFeatures"
    /\ features' = features \cup {Row(r)}
    /\ request' = [request EXCEPT ![r].at = "done"]
    /\ UNCHANGED <<registry, served, phase, lock, loader, log, history, budget>>

(* Variant: each insert has its own error handling.                        *)
LogFailsAlone(r) ==
    /\ Spend
    /\ \/ /\ request[r].at = "log"
          /\ request' = [request EXCEPT ![r].at = "logFeatures"]
       \/ /\ request[r].at = "logFeatures"
          /\ request' = [request EXCEPT ![r].at = "unlogged"]
    /\ UNCHANGED <<registry, served, phase, lock, loader, tables, history>>

(* An insert raises, applied or not; what comes after it is left out.      *)
LogFails(r) ==
    /\ Spend
    /\ \/ /\ request[r].at = "log"
          /\ log' \in {log, log \cup {Row(r)}}
          /\ UNCHANGED features
       \/ /\ request[r].at = "logFeatures"
          /\ features' \in {features, features \cup {Row(r)}}
          /\ UNCHANGED log
    /\ request' = [request EXCEPT ![r].at = "unlogged"]
    /\ UNCHANGED <<registry, served, phase, lock, loader, history>>

(***************************************************************************)
(* The environment: the trainer or the worker registers and stages         *)
(* versions; somebody promotes one elsewhere; the process is killed and    *)
(* started again.                                                          *)
(***************************************************************************)
Registers ==
    /\ Len(registry) < MaxVersion
    /\ registry' = Register(registry)
    /\ UNCHANGED <<served, phase, lock, loader, request, tables, history, budget>>

StagesModel(v) ==
    /\ v \in InStage(registry, "none")
    /\ registry' = Transition(registry, v, "Staging", FALSE)
    /\ UNCHANGED <<served, phase, lock, loader, request, tables, history, budget>>

PromotedElsewhere(v) ==
    /\ v \in InStage(registry, "Staging")
    /\ Spend
    /\ Move(v)
    /\ loader' = Overtaken
    /\ UNCHANGED <<served, phase, lock, request, tables>>

InFlight == {"features", "infer", "shadow", "shadowInfer", "log", "logFeatures"}

Restart ==
    /\ Spend
    /\ Process
    /\ request' = [r \in Request |->
            IF request[r].at \in InFlight THEN [request[r] EXCEPT !.at = "lost"] ELSE request[r]]
    /\ fresh' = FALSE /\ newest' = 0
    /\ UNCHANGED <<registry, tables>>

LoadStep(l) == Search(l) \/ LoadProd(l) \/ LoadStaging(l) \/ LoadFails(l) \/ Publish(l)
AdminStep(a) == FindStaging(a) \/ Promote(a) \/ PromoteFails(a) \/ LoadStep(a)
BootStep == LoadStep(Boot) \/ AskForLock \/ Retry
RequestStep(r) ==
    \/ Infer(r) \/ Answer(r) \/ PredictFails(r)
    \/ ShadowStart(r) \/ ShadowEnd(r) \/ Log(r) \/ LogFeatures(r) \/ LogFails(r)

Next ==
    \/ BootStep
    \/ \E a \in Admin : AdminStep(a) \/ (\E first \in {"find", "search"} : Call(a, first))
    \/ \E r \in Request : RequestStep(r) \/ Predict(r)
    \/ Registers \/ Restart
    \/ \E v \in 1..MaxVersion : StagesModel(v) \/ PromotedElsewhere(v)

Spec == Init /\ [][Next]_vars

(* The event loop runs whatever is ready.                                  *)
FairSpec == Spec /\ WF_vars(BootStep)
                 /\ \A a \in Admin : WF_vars(AdminStep(a))
-----------------------------------------------------------------------------
Place == {"idle", "sleep", "find", "promote", "search"} \cup Loading
RequestPlace == {"idle", "done", "failed", "unlogged", "lost"} \cup InFlight

RequestRecord == [at : RequestPlace, model : Version, version : Version,
                  swapped : BOOLEAN]

(* Every variable keeps its type, and the lock holds and queues exactly    *)
(* the loads that are under way behind it.                                 *)
TypeOK ==
    /\ registry \in Seq(Stage) /\ Len(registry) <= MaxVersion
    /\ prod \in [model : Version, version : Version]
    /\ staging \in [model : Version, version : Version]
    /\ phase \in {"starting", "retrying", "settled"}
    /\ loader \in [Loader -> [at : Place, found : Version \X Version,
                              model : Version \X Version, promoted : Version,
                              overtaken : BOOLEAN]]
    /\ request \in [Request -> RequestRecord]
    /\ {lock[i] : i \in DOMAIN lock} =
          {l \in Loader : loader[l].at \notin {"idle", "sleep"}
                          /\ (l = Boot => loader[l].at = "publish")}
    /\ \A i, j \in DOMAIN lock : lock[i] = lock[j] => i = j
    /\ fresh \in BOOLEAN /\ newest \in Version /\ budget \in 0..MaxFaults

(* The API serves the Production version and names it rightly, unless a    *)
(* promotion came after the search the served models go back to            *)
(* (_do_load_models and its callers).                                      *)
ServesProduction ==
    fresh => LET v == Latest(registry, "Production")
             IN prod = [model |-> v, version |-> v]

(* admin_promote swaps to the version it promoted, also when that is an    *)
(* older one than the former Production version, unless somebody else      *)
(* promoted one in between: what it answers is what it serves.             *)
PromoteServesIt ==
    [][\A a \in Admin : Publish(a) /\ loader[a].promoted # 0 /\ ~loader[a].overtaken
            => /\ prod'.model = loader[a].promoted
               /\ prod'.version = loader[a].promoted]_vars

(* The audit agrees with the answers, and the answers with the models:     *)
(* although the version is read after the inference, it is that of the     *)
(* model that was used, unless other models were published meanwhile or a  *)
(* promotion had overtaken the load of these; both tables name the version *)
(* the client was answered with, the features of a prediction are never    *)
(* logged without it, and a shadow task that came to its end logged both,  *)
(* with or without a score of the Staging model (_do_predict, _shadow_task).*)
AuditMatchesAnswers ==
    /\ \A r \in Request : request[r].at = "infer" /\ ~request[r].swapped
                            => prod.version = request[r].model
    /\ \A row \in log \cup features : row.version = request[row.request].version
    /\ \A f \in features : \E row \in log : row.request = f.request
    /\ \A r \in Request : request[r].at = "done" => Row(r) \in log \cap features

(* A process that is not ready, in a registry that has a Production        *)
(* version, becomes ready.                                                 *)
RetryMakesReady == (<>[](InStage(registry, "Production") # {})) => <>[]Ready

(* Every admin call returns.                                               *)
CallsReturn == \A a \in Admin : loader[a].at # "idle" ~> loader[a].at = "idle"

(* No loader, at boot or for an admin, keeps the lock or its caller for good. *)
Liveness == RetryMakesReady /\ CallsReturn

(* The registry moves as ModelLifecycle says, the API and everybody else   *)
(* taken together: what was never staged is never promoted.                *)
Lifecycle == INSTANCE ModelLifecycle
LifecycleSpec == Lifecycle!LifecycleSpec

(* What ModelView.tsx says before a promotion: the API swaps to the new    *)
(* model.  It goes on serving it until somebody promotes another one.      *)
PromotionStays == newest # 0 => prod.model = newest
=============================================================================
