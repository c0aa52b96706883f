-------------------------- MODULE ModelLifecycle ---------------------------
(***************************************************************************)
(* What the writers of the model registry promise together: a version is   *)
(* registered, may be staged, and reaches Production only from there; the  *)
(* version it replaces is archived, and may be brought back.  The stages   *)
(* are those of services/trainer/app/promote.py.                           *)
(***************************************************************************)
EXTENDS ModelRegistry, FiniteSets

VARIABLE registry

AtMostOneProduction(r) ==
    \A v, w \in InStage(r, "Production") : v = w

LifecycleInit == registry \in Seq(Stage) /\ AtMostOneProduction(registry)

RegisterVersion == registry' = Register(registry)

StageVersion(v) ==
    /\ registry[v] = "none"
    /\ registry' = Transition(registry, v, "Staging", FALSE)

PromoteVersion(v) ==
    /\ registry[v] # "none"
    /\ registry' = Transition(registry, v, "Production", TRUE)

LifecycleNext ==
    \/ RegisterVersion
    \/ \E v \in DOMAIN registry : StageVersion(v) \/ PromoteVersion(v)

LifecycleSpec == LifecycleInit /\ [][LifecycleNext]_registry
=============================================================================
