--------------------------- MODULE ModelRegistry ---------------------------
(***************************************************************************)
(* The MLflow model registry as its clients use it: the prediction API     *)
(* (services/api/app/main.py), the worker's automatic retraining           *)
(* (services/worker/app/auto_retrain.py) and the trainer                   *)
(* (services/trainer/app/promote.py).                                      *)
(*                                                                         *)
(* A registry is a sequence: its n-th element is the stage of version n.   *)
(***************************************************************************)
EXTENDS Naturals, Sequences

Stage == {"none", "Staging", "Production", "Archived"}

(* mlflow.register_model: a new version belongs to no stage.               *)
Register(registry) == Append(registry, "none")

InStage(registry, stage) == {v \in DOMAIN registry : registry[v] = stage}

(* What a search for a stage, and a load by stage URI, resolve to: the     *)
(* highest version of the stage, or 0 if the stage is empty.               *)
Latest(registry, stage) ==
    IF InStage(registry, stage) = {} THEN 0
    ELSE CHOOSE v \in InStage(registry, stage) :
            \A w \in InStage(registry, stage) : w <= v

(* transition_model_version_stage with archive_existing_versions.          *)
Transition(registry, version, stage, archive) ==
    [v \in DOMAIN registry |->
        IF v = version THEN stage
        ELSE IF archive /\ registry[v] = stage THEN "Archived"
        ELSE registry[v]]
=============================================================================
