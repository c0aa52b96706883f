--------------------------- MODULE ServingProofs ---------------------------
(***************************************************************************)
(* Proofs about Serving: for any registries, callers, requests and faults, *)
(* what the API serves is what the registry has in Production, a promotion *)
(* ends with the version it promoted, the audit agrees with the answers,   *)
(* and all writers of the registry together keep to ModelLifecycle.        *)
(*                                                                         *)
(* The inductive invariant has four parts.  LoadInv says what a load that  *)
(* no promotion has overtaken knows: each thing it has found out is still  *)
(* what the registry says (Lead).  LockInv says who holds and waits for    *)
(* the lock.  AuditInv relates where a prediction is to its rows,          *)
(* LabelInv the model it has taken to the version it will name.            *)
(***************************************************************************)
EXTENDS Serving, Integers, FiniteSetTheorems, WellFoundedInduction, TLAPS

LoadRecord == [at : Place, found : Version \X Version, model : Version \X Version,
               promoted : Version, overtaken : BOOLEAN]

(* What a load that was not overtaken knows of the registry.               *)
Lead(x, r) ==
    LET v == Latest(r, "Production")
    IN  /\ x.at \in {"idle", "sleep", "find"} => x.promoted = 0
        /\ x.at = "promote" => x.promoted \in DOMAIN r /\ r[x.promoted] # "none"
        /\ ~x.overtaken =>
              /\ x.promoted # 0 /\ x.at \in {"search"} \cup Loading => x.promoted = v
              /\ x.at \in Loading => x.found[1] = v
              /\ x.at \in Loading \ {"loadProd"} => x.model[1] = v

RegistryTyped == registry \in Seq(Stage) /\ Len(registry) <= MaxVersion

LoadersTyped == loader \in [Loader -> LoadRecord]

ServedTyped ==
    /\ prod \in [model : Version, version : Version]
    /\ staging \in [model : Version, version : Version]
    /\ phase \in {"starting", "retrying", "settled"}
    /\ fresh \in BOOLEAN /\ newest \in Version

LoadInv ==
    /\ RegistryTyped /\ LoadersTyped /\ ServedTyped
    /\ \A l \in Loader : Lead(loader[l], registry)
    /\ ServesProduction

(* A load is in the queue of the lock, or at its head, behind it.          *)
Behind(l, at) == at \notin {"idle", "sleep"} /\ (l = Boot => at = "publish")

LockInv ==
    /\ lock \in Seq(Loader)
    /\ {lock[i] : i \in DOMAIN lock} = {l \in Loader : Behind(l, loader[l].at)}
    /\ \A i, j \in DOMAIN lock : lock[i] = lock[j] => i = j

RowType == [request : Request, version : Version]

AuditInv ==
    /\ request \in [Request -> RequestRecord]
    /\ log \subseteq RowType /\ features \subseteq RowType
    /\ \A row \in log :
          /\ row = Row(row.request)
          /\ request[row.request].at \in {"logFeatures", "done", "unlogged", "lost"}
    /\ \A row \in features :
          /\ row = Row(row.request) /\ row \in log
          /\ request[row.request].at \in {"done", "unlogged", "lost"}
    /\ \A r \in Request :
          /\ request[r].at \in {"logFeatures", "done"} => Row(r) \in log
          /\ request[r].at = "done" => Row(r) \in features

(* A prediction under way will name the version of its model, unless it is *)
(* known that it may not.                                                  *)
LabelInv ==
    \A r \in Request : request[r].at = "infer" /\ ~request[r].swapped
                           => prod.version = request[r].model

IInv == LoadInv /\ LockInv /\ AuditInv /\ LabelInv /\ budget \in 0..MaxFaults

----------------------------------------------------------------------------
(***************************************************************************)
(* What the operators of ModelRegistry return, for every registry (as in   *)
(* RetrainProofs).                                                         *)
(***************************************************************************)
(* A set of natural numbers has a smallest element.                        *)
LEMMA SmallestOf ==
    ASSUME NEW S \in SUBSET Nat, S # {}
    PROVE  \E m \in S : \A n \in S : m <= n
<1> DEFINE Less == {p \in Nat \X Nat : p[1] < p[2]}
<1>1. IsWellFoundedOn(Less, Nat)
  BY NatLessThanWellFounded DEF OpToRel
<1>2. PICK m \in S : \A n \in S : <<n, m>> \notin Less
  BY <1>1, WFMin
<1>3. \A n \in S : n < m => <<n, m>> \in Less
  OBVIOUS
<1>4. \A n \in S : n \in Nat
  OBVIOUS
<1>5. ASSUME NEW n \in S PROVE m <= n
  <2>1. ~(n < m)
    BY <1>2, <1>3
  <2> HIDE DEF Less
  <2> QED
    BY <2>1, <1>4
<1> QED
  BY <1>5

(* The versions of a stage have a highest one, which Latest returns; it is *)
(* 0 for a stage without versions (_latest_in_stage).                      *)
LEMMA LatestIsHighest ==
    ASSUME NEW r \in Seq(Stage), NEW s, InStage(r, s) # {}
    PROVE  /\ Latest(r, s) \in InStage(r, s)
           /\ \A v \in InStage(r, s) : v <= Latest(r, s)
<1> DEFINE V == InStage(r, s)
           Below == {Len(r) - v : v \in V}
<1>1. V \subseteq 1..Len(r)
  BY DEF InStage
<1>2. Below \in SUBSET Nat /\ Below # {}
  BY <1>1
<1>3. PICK d \in Below : \A n \in Below : d <= n
  BY <1>2, SmallestOf
<1>4. PICK m \in V : d = Len(r) - m
  BY <1>3
<1>5. ASSUME NEW v \in V PROVE v <= m
  <2>1. Len(r) - v \in Below
    OBVIOUS
  <2>2. Len(r) - m <= Len(r) - v
    BY <2>1, <1>3, <1>4
  <2> QED
    BY <2>2, <1>1, <1>4
<1> QED
  BY <1>4, <1>5 DEF Latest

LEMMA LatestRange ==
    ASSUME NEW r \in Seq(Stage), NEW s
    PROVE  /\ Latest(r, s) \in 0..Len(r)
           /\ Latest(r, s) # 0 => Latest(r, s) \in DOMAIN r /\ r[Latest(r, s)] = s
           /\ InStage(r, s) # {} => Latest(r, s) # 0
<1>1. CASE InStage(r, s) = {}
  BY <1>1 DEF Latest
<1>2. CASE InStage(r, s) # {}
  BY <1>2, LatestIsHighest DEF InStage
<1> QED
  BY <1>1, <1>2

(* A registration leaves the versions before it where they are.            *)
LEMMA RegisterFacts ==
    ASSUME NEW r \in Seq(Stage)
    PROVE  /\ Register(r) \in Seq(Stage)
           /\ Len(Register(r)) = Len(r) + 1
           /\ Register(r)[Len(r) + 1] = "none"
           /\ \A v \in 1..Len(r) : Register(r)[v] = r[v]
BY DEF Register, Stage

(* A transition keeps the versions.                                        *)
LEMMA TransitionTyped ==
    ASSUME NEW r \in Seq(Stage), NEW v, NEW s \in Stage, NEW archive \in BOOLEAN
    PROVE  /\ Transition(r, v, s, archive) \in Seq(Stage)
           /\ Len(Transition(r, v, s, archive)) = Len(r)
<1>1. "Archived" \in Stage /\ \A w \in 1..Len(r) : r[w] \in Stage
  BY DEF Stage
<1>2. DOMAIN r = 1..Len(r)
  OBVIOUS
<1> QED
  BY <1>1, <1>2 DEF Transition
----------------------------------------------------------------------------
(* The registry *)

LEMMA Bounds ==
    /\ MaxVersion \in Nat /\ MaxFaults \in Nat /\ Boot \notin Admin
    /\ Boot \in Loader /\ \A a \in Admin : a \in Loader /\ a # Boot
BY ServingAssumption DEF ServingAssumption, Loader

(* Latest depends on the versions of the stage alone.                      *)
LEMMA LatestSame ==
    ASSUME NEW r1, NEW r2, NEW s, InStage(r1, s) = InStage(r2, s)
    PROVE  Latest(r1, s) = Latest(r2, s)
<1> DEFINE latest(S) == IF S = {} THEN 0 ELSE CHOOSE v \in S : \A w \in S : w <= v
<1>1. Latest(r1, s) = latest(InStage(r1, s)) /\ Latest(r2, s) = latest(InStage(r2, s))
  BY DEF Latest
<1> HIDE DEF latest
<1> QED
  BY <1>1

(* The only version of a stage is its latest.                              *)
LEMMA LatestOnly ==
    ASSUME NEW r \in Seq(Stage), NEW s, NEW v, InStage(r, s) = {v}
    PROVE  Latest(r, s) = v
BY LatestIsHighest

(* A promoted version is alone in Production.                              *)
LEMMA PromotedOnly ==
    ASSUME NEW r \in Seq(Stage), NEW v \in DOMAIN r
    PROVE  /\ Transition(r, v, "Production", TRUE) \in Seq(Stage)
           /\ Len(Transition(r, v, "Production", TRUE)) = Len(r)
           /\ Latest(Transition(r, v, "Production", TRUE), "Production") = v
           /\ \A w \in DOMAIN r :
                 r[w] # "none" => Transition(r, v, "Production", TRUE)[w] # "none"
<1> DEFINE after == Transition(r, v, "Production", TRUE)
<1>1. after \in Seq(Stage) /\ Len(after) = Len(r)
  BY TransitionTyped DEF Stage
<1>2. InStage(after, "Production") = {v}
  BY DEF InStage, Transition
<1>3. \A w \in DOMAIN r : r[w] # "none" => after[w] # "none"
  BY DEF Transition
<1> HIDE DEF after
<1>4. Latest(after, "Production") = v
  BY <1>1, <1>2, LatestOnly
<1> QED
  BY <1>1, <1>3, <1>4 DEF after

(* What a version is registered or staged leaves: Production.              *)
LEMMA RegisteredKeeps ==
    ASSUME NEW r \in Seq(Stage)
    PROVE  /\ Latest(Register(r), "Production") = Latest(r, "Production")
           /\ DOMAIN r \subseteq DOMAIN Register(r)
           /\ \A v \in DOMAIN r : Register(r)[v] = r[v]
<1>1. Register(r) \in Seq(Stage) /\ Len(Register(r)) = Len(r) + 1
      /\ Register(r)[Len(r) + 1] = "none" /\ \A v \in 1..Len(r) : Register(r)[v] = r[v]
  BY RegisterFacts
<1>2. InStage(Register(r), "Production") = InStage(r, "Production")
  BY <1>1 DEF InStage
<1> QED
  BY <1>1, <1>2, LatestSame

LEMMA StagedKeeps ==
    ASSUME NEW r \in Seq(Stage), NEW v \in InStage(r, "none")
    PROVE  /\ Transition(r, v, "Staging", FALSE) \in Seq(Stage)
           /\ Len(Transition(r, v, "Staging", FALSE)) = Len(r)
           /\ Latest(Transition(r, v, "Staging", FALSE), "Production") = Latest(r, "Production")
           /\ \A w \in DOMAIN r :
                 r[w] # "none" => Transition(r, v, "Staging", FALSE)[w] # "none"
<1> DEFINE after == Transition(r, v, "Staging", FALSE)
<1>1. after \in Seq(Stage) /\ Len(after) = Len(r)
  BY TransitionTyped DEF Stage
<1>2. InStage(after, "Production") = InStage(r, "Production")
  BY DEF InStage, Transition
<1>3. \A w \in DOMAIN r : r[w] # "none" => after[w] # "none"
  BY DEF Transition, InStage
<1>4. Latest(after, "Production") = Latest(r, "Production")
  BY <1>2, LatestSame
<1> QED
  BY <1>1, <1>3, <1>4

LEMMA LatestTyped ==
    ASSUME RegistryTyped, NEW s
    PROVE  Latest(registry, s) \in Version
BY LatestRange, Bounds DEF RegistryTyped, Version

----------------------------------------------------------------------------
(* The loads *)

LEMMA IdleLead ==
    /\ Idle \in LoadRecord
    /\ [Idle EXCEPT !.at = "search"] \in LoadRecord /\ [Idle EXCEPT !.at = "sleep"] \in LoadRecord
    /\ \A r : /\ Lead(Idle, r)
              /\ Lead([Idle EXCEPT !.at = "search"], r) /\ Lead([Idle EXCEPT !.at = "sleep"], r)
<1>1. 0 \in Version /\ <<0, 0>> \in Version \X Version
  BY Bounds DEF Version
<1>2. Idle \in LoadRecord
  BY <1>1 DEF Idle, LoadRecord, Place
<1>3. ASSUME NEW p \in {"idle", "search", "sleep"}
      PROVE  /\ [Idle EXCEPT !.at = p] \in LoadRecord
             /\ \A r : Lead([Idle EXCEPT !.at = p], r)
  <2> DEFINE x == [Idle EXCEPT !.at = p]
  <2>1. p \in Place /\ p \notin Loading /\ p # "promote"
    BY <1>3 DEF Place, Loading
  <2>2. x \in LoadRecord
    BY <1>2, <2>1 DEF LoadRecord
  <2>3. x.at = p
    BY <1>2 DEF LoadRecord
  <2>4. x.promoted = 0
    BY DEF Idle
  <2>5. \A r : Lead(x, r)
    <3> HIDE DEF x
    <3> QED
      BY <2>1, <2>3, <2>4 DEF Lead
  <2> QED
    BY <2>2, <2>5
<1>4. \A r : Lead(Idle, r)
  BY DEF Lead, Idle, Loading
<1> QED
  BY <1>2, <1>3, <1>4

(* A step of one load, as far as the models are concerned.                 *)
LoadMove(l, x) ==
    /\ loader' = [loader EXCEPT ![l] = x]
    /\ x \in LoadRecord /\ Lead(x, registry)
    /\ registry' = registry
    /\ UNCHANGED <<served, history>>
    /\ phase' \in {phase, "retrying"}

LEMMA LoadMoveKeeps ==
    ASSUME LoadInv, NEW l \in Loader, NEW x, LoadMove(l, x)
    PROVE  LoadInv'
<1> USE DEF LoadInv, LoadMove
<1>1. RegistryTyped' /\ ServedTyped'
  BY DEF RegistryTyped, ServedTyped, served, history
<1>2. LoadersTyped'
  BY DEF LoadersTyped
<1>3. \A m \in Loader : loader'[m] \in {loader[m], x}
  BY DEF LoadersTyped
<1>4. \A m \in Loader : Lead(loader'[m], registry')
  BY <1>3
<1>5. ServesProduction'
  BY DEF ServesProduction, served, history
<1> QED
  BY <1>1, <1>2, <1>4, <1>5

(* A promotion overtakes all that was known: only the version itself is.   *)
LEMMA OvertakenKeeps ==
    ASSUME LoadInv, NEW v \in DOMAIN registry, Move(v),
           NEW l \in Loader, NEW x \in LoadRecord, Lead(x, registry'),
           \/ loader' = Overtaken
           \/ loader' = [Overtaken EXCEPT ![l] = x],
           UNCHANGED <<served, phase>>
    PROVE  LoadInv'
<1> USE DEF LoadInv
<1>1. /\ registry' \in Seq(Stage) /\ Len(registry') = Len(registry)
      /\ \A w \in DOMAIN registry : registry[w] # "none" => registry'[w] # "none"
  BY PromotedOnly DEF RegistryTyped, Move
<1>2. RegistryTyped'
  BY <1>1 DEF RegistryTyped
<1>3. DOMAIN registry' = DOMAIN registry
  BY DEF Move, Transition
<1>4. ServedTyped' /\ ServesProduction'
  <2>1. fresh' = FALSE /\ newest' = 0 /\ prod' = prod /\ staging' = staging /\ phase' = phase
    BY DEF Move, served
  <2>2. 0 \in Version
    BY Bounds DEF Version
  <2>3. ServedTyped'
    BY <2>1, <2>2 DEF ServedTyped
  <2>4. ServesProduction'
    BY <2>1 DEF ServesProduction
  <2> QED
    BY <2>3, <2>4
<1> DEFINE late(y) == \/ y.overtaken \/ y.at \in Loading
                      \/ y.at = "search" /\ y.promoted # 0
<1>5. ASSUME NEW m \in Loader
      PROVE  /\ Overtaken[m] \in LoadRecord
             /\ Lead(Overtaken[m], registry')
  <2> DEFINE y == loader[m]
  <2>1. y \in LoadRecord /\ Lead(y, registry)
    BY DEF LoadersTyped
  <2>2. late(y) \in BOOLEAN
    BY <2>1 DEF LoadRecord
  <2>3. Overtaken[m] = [y EXCEPT !.overtaken = late(y)]
    BY DEF Overtaken
  <2>4. Overtaken[m] \in LoadRecord
    BY <2>1, <2>2, <2>3 DEF LoadRecord
  <2>5. Lead(Overtaken[m], registry')
    <3> DEFINE z == Overtaken[m]
    <3>1. z.at = y.at /\ z.promoted = y.promoted
      BY <2>1, <2>3 DEF LoadRecord
    <3>2. z.overtaken = late(y)
      BY <2>1, <2>2, <2>3 DEF LoadRecord
    <3> HIDE DEF z
    <3>3. ~z.overtaken => z.at \notin Loading /\ ~(z.at = "search" /\ z.promoted # 0)
      BY <3>1, <3>2
    <3>4. Lead(z, registry')
      BY <1>1, <1>3, <2>1, <3>1, <3>3 DEF Lead
    <3> QED
      BY <3>4 DEF z
  <2> QED
    BY <2>4, <2>5
<1>6. DOMAIN Overtaken = Loader
  BY DEF Overtaken
<1>7. \A m \in Loader : loader'[m] \in LoadRecord /\ Lead(loader'[m], registry')
  BY <1>5, <1>6
<1>8. LoadersTyped'
  <2> HIDE DEF LoadInv
  <2>1. Overtaken \in [Loader -> LoadRecord]
    BY <1>5 DEF Overtaken
  <2> QED
    BY <2>1 DEF LoadersTyped
<1> QED
  BY <1>2, <1>4, <1>7, <1>8

(* A registration, or a version that is staged, changes nothing that a     *)
(* load knows.                                                             *)
LEMMA RegistryMoveKeeps ==
    ASSUME LoadInv, registry' \in Seq(Stage), Len(registry') <= MaxVersion,
           Latest(registry', "Production") = Latest(registry, "Production"),
           DOMAIN registry \subseteq DOMAIN registry',
           \A w \in DOMAIN registry : registry[w] # "none" => registry'[w] # "none",
           UNCHANGED <<served, phase, loader, history>>
    PROVE  LoadInv'
<1> USE DEF LoadInv
<1>1. RegistryTyped' /\ LoadersTyped' /\ ServedTyped'
  BY DEF RegistryTyped, LoadersTyped, ServedTyped, served, history
<1>2. \A l \in Loader : Lead(loader'[l], registry')
  BY DEF Lead
<1>3. ServesProduction'
  BY DEF ServesProduction, served, history
<1> QED
  BY <1>1, <1>2, <1>3

LEMMA LoadInit == Init => LoadInv
<1> SUFFICES ASSUME Init PROVE LoadInv
  OBVIOUS
<1>1. RegistryTyped
  BY ServingAssumption DEF ServingAssumption, RegistryTyped, Init
<1>2. LoadersTyped /\ \A l \in Loader : Lead(loader[l], registry)
  <2>1. \A l \in Loader : loader[l] \in {Idle, [Idle EXCEPT !.at = "search"]}
    BY DEF Init
  <2>2. \A l \in Loader : loader[l] \in LoadRecord /\ Lead(loader[l], registry)
    BY <2>1, IdleLead
  <2>3. loader = [l \in Loader |-> loader[l]]
    BY DEF Init
  <2> QED
    BY <2>2, <2>3 DEF LoadersTyped
<1>3. ServedTyped /\ ServesProduction
  <2>1. fresh = FALSE /\ newest = 0 /\ prod = NoModel /\ staging = NoModel
        /\ phase = "starting"
    BY DEF Init
  <2>2. 0 \in Version /\ NoModel \in [model : Version, version : Version]
    BY Bounds DEF Version, NoModel
  <2>3. ServedTyped
    BY <2>1, <2>2 DEF ServedTyped
  <2>4. ServesProduction
    BY <2>1 DEF ServesProduction
  <2> QED
    BY <2>3, <2>4
<1> QED
  BY <1>1, <1>2, <1>3 DEF LoadInv

(* One load, and with it the lock, step by step.                           *)
LEMMA GiveUpMove ==
    ASSUME LoadInv, NEW l \in Loader, GiveUp(l), registry' = registry,
           UNCHANGED <<served, history>>
    PROVE  \E x : LoadMove(l, x)
<1>1. l = Boot => LoadMove(l, [Idle EXCEPT !.at = "sleep"])
  BY IdleLead DEF GiveUp, LoadMove
<1>2. l # Boot => LoadMove(l, Idle)
  BY IdleLead DEF GiveUp, LoadMove
<1> QED
  BY <1>1, <1>2

LEMMA AdvanceMove ==
    ASSUME LoadInv, NEW l \in Loader,
           Search(l) \/ LoadProd(l) \/ LoadStaging(l) \/ LoadFails(l)
    PROVE  \E x : LoadMove(l, x)
<1> DEFINE y == loader[l]
           P == Latest(registry, "Production")
           S == Latest(registry, "Staging")
<1>1. y \in LoadRecord /\ Lead(y, registry)
  BY DEF LoadInv, LoadersTyped
<1>2. loader \in [Loader -> LoadRecord]
  BY DEF LoadInv, LoadersTyped
<1>3. P \in Version /\ S \in Version
  BY LatestTyped DEF LoadInv
<1>4. y.found \in Version \X Version /\ y.model \in Version \X Version
  BY <1>1 DEF LoadRecord
<1>5. CASE Search(l)
  <2>1. CASE GiveUp(l)
    BY <1>5, <2>1, GiveUpMove DEF Search
  <2>2. CASE ~GiveUp(l)
    <3> DEFINE x == [y EXCEPT !.at = "loadProd", !.found = <<P, S>>]
    <3>1. y.at = "search" /\ loader' = [loader EXCEPT ![l] = x] /\ phase' = phase
      BY <1>2, <1>5, <2>2 DEF Search
    <3>2. x \in LoadRecord
      BY <1>1, <1>3 DEF LoadRecord, Place, Loading
    <3>3. x.at = "loadProd" /\ x.found[1] = P /\ x.promoted = y.promoted
          /\ x.overtaken = y.overtaken
      BY <1>1 DEF LoadRecord
    <3>4. Lead(x, registry)
      <4> HIDE DEF x
      <4> QED
        BY <1>1, <3>1, <3>3 DEF Lead, Loading
    <3> QED
      BY <1>5, <3>1, <3>2, <3>4 DEF Search, LoadMove
  <2> QED
    BY <2>1, <2>2
<1>6. CASE LoadProd(l)
  <2> DEFINE p == IF y.found[2] = 0 THEN "loaded" ELSE "loadStaging"
             x == [y EXCEPT !.at = p, !.model[1] = P]
  <2>1. y.at = "loadProd" /\ loader' = [loader EXCEPT ![l] = x] /\ phase' = phase
    BY <1>2, <1>6 DEF LoadProd
  <2>2. p \in {"loaded", "loadStaging"}
    OBVIOUS
  <2> HIDE DEF p
  <2> DEFINE model == [y.model EXCEPT ![1] = P]
  <2>6. model \in Version \X Version /\ model[1] = P
    BY <1>3, <1>4
  <2>7. x = [y EXCEPT !.at = p, !.model = model]
    BY <1>1, <1>4 DEF LoadRecord
  <2> HIDE DEF model
  <2>3. x \in LoadRecord
    BY <1>1, <2>2, <2>6, <2>7 DEF LoadRecord, Place, Loading
  <2>4. x.at = p /\ x.found = y.found /\ x.model[1] = P /\ x.promoted = y.promoted
        /\ x.overtaken = y.overtaken
    BY <1>1, <2>6, <2>7 DEF LoadRecord
  <2>5. Lead(x, registry)
    <3> HIDE DEF x
    <3> QED
      BY <1>1, <2>1, <2>2, <2>4 DEF Lead, Loading
  <2> QED
    BY <1>6, <2>1, <2>3, <2>5 DEF LoadProd, LoadMove
<1>7. CASE LoadStaging(l)
  <2> DEFINE model == [y.model EXCEPT ![2] = S]
             x1 == [y EXCEPT !.at = "loaded", !.model = model]
             x2 == [y EXCEPT !.at = "loaded"]
  <2>6. model \in Version \X Version /\ model[1] = y.model[1]
    BY <1>3, <1>4
  <2>1. PICK x \in {x1, x2} : loader' = [loader EXCEPT ![l] = x]
    <3>1. [y EXCEPT !.at = "loaded", !.model[2] = S] = x1
      BY <1>1, <1>4 DEF LoadRecord
    <3> QED
      BY <1>2, <1>7, <3>1 DEF LoadStaging
  <2> HIDE DEF model
  <2>7. x1 \in LoadRecord /\ x2 \in LoadRecord
    BY <1>1, <2>6 DEF LoadRecord, Place, Loading
  <2>2. y.at = "loadStaging" /\ phase' = phase
    BY <1>7 DEF LoadStaging
  <2>3. x \in LoadRecord
    BY <2>7
  <2>4. x.at = "loaded" /\ x.found = y.found /\ x.model[1] = y.model[1]
        /\ x.promoted = y.promoted /\ x.overtaken = y.overtaken
    <3>1. /\ x1.at = "loaded" /\ x1.found = y.found /\ x1.model[1] = y.model[1]
          /\ x1.promoted = y.promoted /\ x1.overtaken = y.overtaken
      BY <1>1, <2>6 DEF LoadRecord
    <3>2. /\ x2.at = "loaded" /\ x2.found = y.found /\ x2.model[1] = y.model[1]
          /\ x2.promoted = y.promoted /\ x2.overtaken = y.overtaken
      BY <1>1 DEF LoadRecord
    <3> QED
      BY <3>1, <3>2
  <2>5. Lead(x, registry)
    BY <1>1, <2>2, <2>4 DEF Lead, Loading
  <2> QED
    BY <1>7, <2>1, <2>2, <2>3, <2>5 DEF LoadStaging, LoadMove
<1>8. CASE LoadFails(l)
  BY <1>8, GiveUpMove DEF LoadFails
<1> QED
  BY <1>5, <1>6, <1>7, <1>8

LEMMA OtherMove ==
    ASSUME LoadInv, NEW l \in Loader,
           \/ \E first \in {"find", "search"} : Call(l, first)
           \/ FindStaging(l)
           \/ l = Boot /\ (AskForLock \/ Retry)
    PROVE  \E x : LoadMove(l, x)
<1> DEFINE y == loader[l]
           S == Latest(registry, "Staging")
<1>1. y \in LoadRecord /\ Lead(y, registry) /\ loader \in [Loader -> LoadRecord]
  BY DEF LoadInv, LoadersTyped
<1>2. ASSUME NEW p \in {"find", "search"}, y.at \in {"idle", "sleep"}
      PROVE  [y EXCEPT !.at = p] \in LoadRecord /\ Lead([y EXCEPT !.at = p], registry)
  <2> DEFINE x == [y EXCEPT !.at = p]
  <2>1. x \in LoadRecord /\ x.at = p /\ x.promoted = y.promoted
    BY <1>1 DEF LoadRecord, Place
  <2>2. y.promoted = 0
    BY <1>1, <1>2 DEF Lead
  <2> HIDE DEF x
  <2>3. Lead(x, registry)
    BY <2>1, <2>2 DEF Lead, Loading
  <2> QED
    BY <2>1, <2>3 DEF x
<1>3. ASSUME NEW first \in {"find", "search"}, Call(l, first) PROVE \E x : LoadMove(l, x)
  BY <1>1, <1>2, <1>3 DEF Call, LoadMove
<1>4. CASE FindStaging(l)
  <2>1. CASE loader' = [loader EXCEPT ![l] = Idle]
    BY <1>4, <2>1, IdleLead DEF FindStaging, LoadMove
  <2>2. CASE ~(loader' = [loader EXCEPT ![l] = Idle])
    <3> DEFINE x == [y EXCEPT !.at = "promote", !.promoted = S]
    <3>1. S # 0 /\ loader' = [loader EXCEPT ![l] = x]
      BY <1>1, <1>4, <2>2 DEF FindStaging
    <3>2. S \in Version /\ S \in DOMAIN registry /\ registry[S] = "Staging"
      BY <3>1, LatestTyped, LatestRange DEF LoadInv, RegistryTyped
    <3>3. x \in LoadRecord /\ x.at = "promote" /\ x.promoted = S
      BY <1>1, <3>2 DEF LoadRecord, Place
    <3>4. Lead(x, registry)
      <4> HIDE DEF x
      <4> QED
        BY <3>2, <3>3 DEF Lead, Loading
    <3> QED
      BY <1>4, <3>1, <3>3, <3>4 DEF FindStaging, LoadMove
  <2> QED
    BY <2>1, <2>2
<1>5. CASE l = Boot /\ AskForLock
  <2> DEFINE x == [y EXCEPT !.at = "publish"]
  <2>1. y.at = "loaded" /\ loader' = [loader EXCEPT ![l] = x]
    BY <1>1, <1>5 DEF AskForLock
  <2>2. x \in LoadRecord /\ x.at = "publish" /\ x.found = y.found /\ x.model = y.model
        /\ x.promoted = y.promoted /\ x.overtaken = y.overtaken
    BY <1>1 DEF LoadRecord, Place, Loading
  <2>3. Lead(x, registry)
    <3> HIDE DEF x
    <3> QED
      BY <1>1, <2>1, <2>2 DEF Lead, Loading
  <2> QED
    BY <1>5, <2>1, <2>2, <2>3 DEF AskForLock, LoadMove
<1>6. CASE l = Boot /\ Retry
  <2>1. y.at = "sleep" /\ loader' = [loader EXCEPT ![l] = [y EXCEPT !.at = "search"]]
    BY <1>1, <1>6 DEF Retry
  <2> QED
    BY <1>2, <1>6, <2>1 DEF Retry, LoadMove
<1> QED
  BY <1>3, <1>4, <1>5, <1>6

(* What is published was found out by a load that either was overtaken,    *)
(* and says so, or knows what is in Production.                            *)
LEMMA PublishKeeps ==
    ASSUME LoadInv, NEW l \in Loader, Publish(l)
    PROVE  LoadInv'
<1> DEFINE y == loader[l]
<1> USE DEF LoadInv
<1>1. y \in LoadRecord /\ Lead(y, registry) /\ y.at \in Loading \ {"loadProd"}
  BY DEF LoadersTyped, Publish, MayPublish, Loading
<1>2. registry' = registry /\ loader' = [loader EXCEPT ![l] = Idle]
  BY DEF Publish
<1>3. y.found \in Version \X Version /\ y.model \in Version \X Version
      /\ y.promoted \in Version /\ y.overtaken \in BOOLEAN
  BY <1>1 DEF LoadRecord
<1>4. /\ prod' = [model |-> y.model[1], version |-> y.found[1]]
      /\ staging' \in {NoModel, [model |-> y.model[2], version |-> y.found[2]]}
      /\ phase' \in {phase, "settled"}
      /\ fresh' = ~y.overtaken
      /\ newest' \in {newest, y.promoted}
  BY DEF Publish
<1>5. NoModel \in [model : Version, version : Version]
  BY Bounds DEF NoModel, Version
<1>6. ServedTyped'
  <2>1. fresh' \in BOOLEAN
    BY <1>4
  <2>2. newest' \in Version /\ phase' \in {"starting", "retrying", "settled"}
    BY <1>3, <1>4 DEF ServedTyped
  <2>3. prod' \in [model : Version, version : Version]
        /\ staging' \in [model : Version, version : Version]
    BY <1>3, <1>4, <1>5
  <2> QED
    BY <2>1, <2>2, <2>3 DEF ServedTyped
<1>7. ServesProduction'
  <2>1. ~y.overtaken => y.found[1] = Latest(registry, "Production")
                     /\ y.model[1] = Latest(registry, "Production")
    BY <1>1 DEF Lead
  <2> QED
    BY <1>2, <1>4, <2>1 DEF ServesProduction
<1>8. \A m \in Loader : loader'[m] \in {loader[m], Idle}
  BY <1>2 DEF LoadersTyped
<1>9. LoadersTyped' /\ \A m \in Loader : Lead(loader'[m], registry')
  <2>1. \A m \in Loader : Lead(loader'[m], registry')
    BY <1>2, <1>8, IdleLead
  <2>2. LoadersTyped'
    BY <1>2, IdleLead DEF LoadersTyped
  <2> QED
    BY <2>1, <2>2
<1>10. RegistryTyped'
  BY <1>2 DEF RegistryTyped
<1> QED
  BY <1>6, <1>7, <1>9, <1>10

LEMMA PromoteKeeps ==
    ASSUME LoadInv, NEW a \in Admin, Promote(a) \/ PromoteFails(a)
    PROVE  LoadInv'
<1> DEFINE y == loader[a]
           v == y.promoted
<1>1. a \in Loader
  BY Bounds
<1>2. y \in LoadRecord /\ Lead(y, registry) /\ y.at = "promote" /\ v \in DOMAIN registry
  BY <1>1 DEF LoadInv, LoadersTyped, Lead, Promote, PromoteFails
<1>3. CASE Promote(a)
  <2> DEFINE z == Overtaken[a]
             x == [z EXCEPT !.at = "search"]
  <2>1. z = [y EXCEPT !.overtaken = y.overtaken]
    BY <1>1, <1>2 DEF Overtaken, Loading, LoadRecord
  <2>2. z = y
    BY <1>2, <2>1 DEF LoadRecord
  <2>3. x \in LoadRecord /\ x.at = "search" /\ x.promoted = v
    BY <1>2, <2>2 DEF LoadRecord, Place
  <2>4. registry \in Seq(Stage)
    BY DEF LoadInv, RegistryTyped
  <2>5. Latest(registry', "Production") = v
    BY <1>2, <1>3, <2>4, PromotedOnly DEF Promote, Move
  <2>6. Lead(x, registry')
    <3> HIDE DEF x
    <3> QED
      BY <2>3, <2>5 DEF Lead, Loading
  <2>7. loader' = [Overtaken EXCEPT ![a] = x]
    BY <1>1, <1>3 DEF Promote, Overtaken
  <2> HIDE DEF x, z
  <2> QED
    BY <1>1, <1>2, <1>3, <2>3, <2>6, <2>7, OvertakenKeeps DEF Promote
<1>4. CASE PromoteFails(a) /\ registry' = registry /\ UNCHANGED history /\ loader' = [loader EXCEPT ![a] = Idle]
  <2>1. LoadMove(a, Idle)
    BY <1>4, IdleLead DEF LoadMove, PromoteFails
  <2> QED
    BY <1>1, <2>1, LoadMoveKeeps
<1>5. CASE PromoteFails(a) /\ Move(v) /\ loader' = [Overtaken EXCEPT ![a] = Idle]
  BY <1>1, <1>2, <1>5, IdleLead, OvertakenKeeps DEF PromoteFails
<1> QED
  BY <1>3, <1>4, <1>5 DEF PromoteFails

LEMMA EnvironmentKeeps ==
    ASSUME LoadInv,
           \/ Registers
           \/ \E v \in 1..MaxVersion : StagesModel(v) \/ PromotedElsewhere(v)
           \/ Restart
    PROVE  LoadInv'
<1>1. registry \in Seq(Stage) /\ Len(registry) <= MaxVersion
  BY DEF LoadInv, RegistryTyped
<1>2. CASE Registers
  <2>1. registry' = Register(registry) /\ Len(registry) < MaxVersion
    BY <1>2 DEF Registers
  <2>2. registry' \in Seq(Stage) /\ Len(registry') <= MaxVersion
    BY <1>1, <2>1, RegisterFacts, Bounds
  <2> QED
    BY <1>1, <1>2, <2>1, <2>2, RegisteredKeeps, RegistryMoveKeeps DEF Registers
<1>3. ASSUME NEW v \in 1..MaxVersion, StagesModel(v) PROVE LoadInv'
  <2>1. v \in InStage(registry, "none")
        /\ registry' = Transition(registry, v, "Staging", FALSE)
    BY <1>3 DEF StagesModel
  <2>2. DOMAIN registry' = DOMAIN registry
    BY <2>1 DEF Transition
  <2> QED
    BY <1>1, <1>3, <2>1, <2>2, StagedKeeps, RegistryMoveKeeps DEF StagesModel
<1>4. ASSUME NEW v \in 1..MaxVersion, PromotedElsewhere(v) PROVE LoadInv'
  <2>1. v \in DOMAIN registry
    BY <1>4 DEF PromotedElsewhere, InStage
  <2>2. Boot \in Loader /\ Idle \in LoadRecord /\ Lead(Idle, registry')
    BY IdleLead, Bounds
  <2> QED
    BY <1>4, <2>1, <2>2, OvertakenKeeps DEF PromotedElsewhere
<1>5. CASE Restart
  <2>1. /\ registry' = registry /\ fresh' = FALSE /\ newest' = 0
        /\ prod' = NoModel /\ staging' = NoModel /\ phase' = "starting"
        /\ loader' = [l \in Loader |-> IF l = Boot THEN [Idle EXCEPT !.at = "search"] ELSE Idle]
    BY <1>5 DEF Restart, Process
  <2>2. 0 \in Version /\ NoModel \in [model : Version, version : Version]
    BY Bounds DEF Version, NoModel
  <2>3. ServedTyped' /\ ServesProduction'
    <3>1. ServedTyped'
      BY <2>1, <2>2 DEF ServedTyped
    <3>2. ServesProduction'
      BY <2>1 DEF ServesProduction
    <3> QED
      BY <3>1, <3>2
  <2>4. \A l \in Loader : loader'[l] \in {Idle, [Idle EXCEPT !.at = "search"]}
    BY <2>1
  <2>5. \A l \in Loader : loader'[l] \in LoadRecord /\ Lead(loader'[l], registry')
    BY <2>4, IdleLead
  <2>6. loader' = [l \in Loader |-> loader'[l]]
    BY <2>1
  <2>7. LoadersTyped'
    BY <2>5, <2>6 DEF LoadersTyped
  <2>8. RegistryTyped'
    BY <1>1, <2>1 DEF RegistryTyped
  <2> QED
    BY <2>3, <2>5, <2>7, <2>8 DEF LoadInv
<1> QED
  BY <1>2, <1>3, <1>4, <1>5

LoadState == <<registry, served, phase, loader, history>>

LEMMA LoadStateKept == LoadInv /\ UNCHANGED LoadState => LoadInv'
BY DEF LoadInv, LoadState, RegistryTyped, LoadersTyped, ServedTyped, ServesProduction,
       served, history

LEMMA RequestsApart ==
    ASSUME NEW r \in Request, RequestStep(r) \/ Predict(r)
    PROVE  UNCHANGED LoadState /\ lock' = lock
BY DEF RequestStep, Predict, Infer, Answer, PredictFails, ShadowStart, ShadowEnd, Log,
       LogFeatures, LogFails, LoadState

LEMMA LoadNext == LoadInv /\ [Next]_vars => LoadInv'
<1> SUFFICES ASSUME LoadInv, [Next]_vars PROVE LoadInv'
  OBVIOUS
<1>1. ASSUME NEW l \in Loader, LoadStep(l) PROVE LoadInv'
  BY <1>1, AdvanceMove, LoadMoveKeeps, PublishKeeps DEF LoadStep
<1>2. CASE BootStep
  BY <1>1, <1>2, Bounds, OtherMove, LoadMoveKeeps DEF BootStep
<1>3. ASSUME NEW a \in Admin, AdminStep(a) PROVE LoadInv'
  BY <1>1, <1>3, Bounds, OtherMove, LoadMoveKeeps, PromoteKeeps DEF AdminStep
<1>4. ASSUME NEW a \in Admin, NEW first \in {"find", "search"}, Call(a, first) PROVE LoadInv'
  BY <1>4, Bounds, OtherMove, LoadMoveKeeps
<1>5. ASSUME NEW r \in Request, RequestStep(r) \/ Predict(r) PROVE LoadInv'
  BY <1>5, RequestsApart, LoadStateKept
<1>6. CASE Registers \/ Restart \/ \E v \in 1..MaxVersion : StagesModel(v) \/ PromotedElsewhere(v)
  BY <1>6, EnvironmentKeeps
<1>7. CASE UNCHANGED vars
  BY <1>7, LoadStateKept DEF vars, LoadState
<1> QED
  BY <1>2, <1>3, <1>4, <1>5, <1>6, <1>7 DEF Next

LEMMA LoadInvariant == Spec => []LoadInv
BY LoadInit, LoadNext, PTL DEF Spec

(* The API serves the Production version and names it rightly, unless a    *)
(* promotion came after the search the served models go back to            *)
(* (main.py, _do_load_models and its callers).                             *)
THEOREM ServesTheProduction == Spec => []ServesProduction
BY LoadInvariant, PTL DEF LoadInv

(* A promotion that no other overtook ends with the version it promoted,   *)
(* model and name, whatever was loaded or published in between             *)
(* (admin_promote).                                                        *)
THEOREM PromotionServed == Spec => PromoteServesIt
<1>1. LoadInv /\ [Next]_vars =>
        [\A a \in Admin : Publish(a) /\ loader[a].promoted # 0 /\ ~loader[a].overtaken
            => /\ prod'.model = loader[a].promoted
               /\ prod'.version = loader[a].promoted]_vars
  <2> SUFFICES ASSUME LoadInv, NEW a \in Admin, Publish(a),
                      loader[a].promoted # 0, ~loader[a].overtaken
               PROVE  /\ prod'.model = loader[a].promoted
                      /\ prod'.version = loader[a].promoted
    OBVIOUS
  <2>1. a \in Loader /\ Lead(loader[a], registry) /\ loader[a].at = "loaded"
    BY Bounds DEF LoadInv, Publish, MayPublish
  <2>2. /\ loader[a].promoted = Latest(registry, "Production")
        /\ loader[a].found[1] = Latest(registry, "Production")
        /\ loader[a].model[1] = Latest(registry, "Production")
    BY <2>1 DEF Lead, Loading
  <2> QED
    BY <2>2 DEF Publish
<1> QED
  BY <1>1, LoadInvariant, PTL DEF Spec, PromoteServesIt

----------------------------------------------------------------------------
(* The lock *)

(* The queue of the lock, and which loads are behind it: it loses its      *)
(* head, grows at its end, or stays, as one load's place changes.          *)
Queued(q, behind) ==
    /\ q \in Seq(Loader)
    /\ {q[i] : i \in DOMAIN q} = behind
    /\ \A i, j \in DOMAIN q : q[i] = q[j] => i = j

LEMMA QueueGrows ==
    ASSUME NEW q, NEW behind, Queued(q, behind), NEW l \in Loader, l \notin behind
    PROVE  Queued(Append(q, l), behind \cup {l})
<1> DEFINE p == Append(q, l)
<1>1. /\ p \in Seq(Loader) /\ DOMAIN p = 1..(Len(q) + 1) /\ DOMAIN q = 1..Len(q)
      /\ Len(q) \in Nat /\ p[Len(q) + 1] = l /\ \A i \in 1..Len(q) : p[i] = q[i]
  BY DEF Queued
<1> HIDE DEF p
<1>2. {p[i] : i \in DOMAIN p} = behind \cup {l}
  <2>1. \A i \in DOMAIN p : p[i] \in behind \cup {l}
    BY <1>1 DEF Queued
  <2>2. \A x \in behind \cup {l} : \E i \in DOMAIN p : p[i] = x
    BY <1>1 DEF Queued
  <2> QED
    BY <2>1, <2>2
<1>3. \A i, j \in DOMAIN p : p[i] = p[j] => i = j
  <2>1. \A i \in DOMAIN q : p[i] = q[i] /\ q[i] # l
    BY <1>1 DEF Queued
  <2>2. \A i \in DOMAIN p : i \in DOMAIN q \/ i = Len(q) + 1
    BY <1>1
  <2> QED
    BY <1>1, <2>1, <2>2 DEF Queued
<1> QED
  BY <1>1, <1>2, <1>3 DEF Queued, p

LEMMA QueueMovesUp ==
    ASSUME NEW q, NEW behind, Queued(q, behind), q # <<>>
    PROVE  Head(q) \in behind /\ Queued(Tail(q), behind \ {Head(q)})
<1> DEFINE p == Tail(q)
<1>1. /\ p \in Seq(Loader) /\ Len(q) \in Nat \ {0} /\ DOMAIN q = 1..Len(q)
      /\ DOMAIN p = 1..(Len(q) - 1)
      /\ Head(q) = q[1] /\ \A i \in 1..(Len(q) - 1) : p[i] = q[i + 1]
  BY DEF Queued
<1> HIDE DEF p
<1>2. {p[i] : i \in DOMAIN p} = behind \ {Head(q)}
  <2>1. \A i \in DOMAIN p : i + 1 \in DOMAIN q /\ i + 1 # 1 /\ 1 \in DOMAIN q
    BY <1>1
  <2>2. \A i \in DOMAIN p : p[i] \in behind \ {Head(q)}
    BY <1>1, <2>1 DEF Queued
  <2>3. ASSUME NEW x \in behind \ {Head(q)} PROVE \E i \in DOMAIN p : p[i] = x
    <3>1. PICK i \in DOMAIN q : q[i] = x
      BY DEF Queued
    <3>2. i # 1
      BY <1>1, <3>1
    <3>3. i - 1 \in DOMAIN p /\ (i - 1) + 1 = i
      BY <1>1, <3>2
    <3>4. p[i - 1] = q[i]
      BY <1>1, <3>3
    <3> QED
      BY <3>1, <3>3, <3>4
  <2> QED
    BY <2>2, <2>3
<1>3. \A i, j \in DOMAIN p : p[i] = p[j] => i = j
  <2> SUFFICES ASSUME NEW i \in DOMAIN p, NEW j \in DOMAIN p, p[i] = p[j] PROVE i = j
    OBVIOUS
  <2>1. i + 1 \in DOMAIN q /\ j + 1 \in DOMAIN q /\ q[i + 1] = q[j + 1] /\ i \in Nat /\ j \in Nat
    BY <1>1
  <2>2. i + 1 = j + 1
    BY <2>1 DEF Queued
  <2> QED
    BY <2>1, <2>2
<1>4. Head(q) \in behind
  BY <1>1 DEF Queued
<1> QED
  BY <1>1, <1>2, <1>3, <1>4 DEF Queued, p

Waiters == {l \in Loader : Behind(l, loader[l].at)}

(* A step as far as the lock is concerned: one load changes its place.     *)
LockMove(l) ==
    /\ \A m \in Loader \ {l} : loader'[m].at = loader[m].at
    /\ \/ /\ lock' = lock
          /\ Behind(l, loader'[l].at) <=> Behind(l, loader[l].at)
       \/ /\ lock' = Append(lock, l)
          /\ ~Behind(l, loader[l].at) /\ Behind(l, loader'[l].at)
       \/ /\ lock # <<>> /\ Head(lock) = l
          /\ lock' = Tail(lock)
          /\ ~Behind(l, loader'[l].at)

LEMMA LockMoveKeeps ==
    ASSUME LockInv, NEW l \in Loader, LockMove(l)
    PROVE  LockInv'
<1>1. Queued(lock, Waiters)
  BY DEF LockInv, Queued, Waiters
<1>2. \A m \in Loader \ {l} : m \in Waiters' <=> m \in Waiters
  BY DEF LockMove, Waiters
<1>3. l \in Waiters <=> Behind(l, loader[l].at)
  BY DEF Waiters
<1>4. l \in Waiters' <=> Behind(l, loader'[l].at)
  BY DEF Waiters
<1>5. Waiters \subseteq Loader /\ Waiters' \subseteq Loader
  BY DEF Waiters
<1>6. CASE lock' = lock /\ (Behind(l, loader'[l].at) <=> Behind(l, loader[l].at))
  <2>1. Waiters' = Waiters
    BY <1>2, <1>3, <1>4, <1>5, <1>6
  <2> QED
    BY <1>1, <1>6, <2>1 DEF LockInv, Queued, Waiters
<1>7. CASE lock' = Append(lock, l) /\ ~Behind(l, loader[l].at) /\ Behind(l, loader'[l].at)
  <2>1. Waiters' = Waiters \cup {l} /\ l \notin Waiters
    BY <1>2, <1>3, <1>4, <1>5, <1>7
  <2>2. Queued(lock', Waiters')
    BY <1>1, <1>7, <2>1, QueueGrows
  <2> QED
    BY <2>2 DEF LockInv, Queued, Waiters
<1>8. CASE lock # <<>> /\ Head(lock) = l /\ lock' = Tail(lock) /\ ~Behind(l, loader'[l].at)
  <2>1. l \in Waiters /\ Queued(Tail(lock), Waiters \ {l})
    BY <1>1, <1>8, QueueMovesUp
  <2>2. Waiters' = Waiters \ {l}
    BY <1>2, <1>3, <1>4, <1>5, <1>8, <2>1
  <2> QED
    BY <1>8, <2>1, <2>2 DEF LockInv, Queued, Waiters
<1> QED
  BY <1>6, <1>7, <1>8 DEF LockMove

LEMMA LockInit == Init => LockInv
<1> SUFFICES ASSUME Init PROVE LockInv
  OBVIOUS
<1>1. \A l \in Loader : loader[l].at = IF l = Boot THEN "search" ELSE "idle"
  BY DEF Init, Idle
<1>2. Waiters = {} /\ lock = <<>>
  BY <1>1 DEF Waiters, Behind, Init
<1> QED
  BY <1>2 DEF LockInv, Waiters

(* Where a load is after a step, and who else has moved.                   *)
LEMMA PlaceSet ==
    ASSUME LoadersTyped, NEW l \in Loader
    PROVE  /\ \A x : loader' = [loader EXCEPT ![l] = x]
                => loader'[l].at = x.at /\ \A m \in Loader \ {l} : loader'[m].at = loader[m].at
           /\ Idle.at = "idle" /\ [Idle EXCEPT !.at = "sleep"].at = "sleep"
           /\ \A p : [loader[l] EXCEPT !.at = p].at = p
           /\ \A m \in Loader : Overtaken[m].at = loader[m].at
<1>1. loader \in [Loader -> LoadRecord]
  BY DEF LoadersTyped
<1>2. \A m \in Loader : loader[m] \in LoadRecord
  BY <1>1
<1>3. \A p : [loader[l] EXCEPT !.at = p].at = p
  BY <1>2 DEF LoadRecord
<1>4. \A m \in Loader : Overtaken[m].at = loader[m].at
  BY <1>2 DEF LoadRecord, Overtaken
<1>5. [Idle EXCEPT !.at = "sleep"].at = "sleep"
  BY DEF Idle
<1> QED
  BY <1>1, <1>3, <1>4, <1>5 DEF Idle

LEMMA LockLoadStep ==
    ASSUME LoadersTyped, NEW l \in Loader, LoadStep(l)
    PROVE  LockMove(l)
<1>1. loader \in [Loader -> LoadRecord] /\ \A m \in Loader : loader[m] \in LoadRecord
  BY DEF LoadersTyped
<1>2. ASSUME GiveUp(l), Turn(l), loader[l].at \in {"find", "search", "loadProd"}
      PROVE  LockMove(l)
  BY <1>2, PlaceSet DEF GiveUp, Turn, LockMove, Behind
<1>3. CASE Search(l) /\ ~GiveUp(l)
  <2>1. /\ loader[l].at = "search" /\ loader'[l].at = "loadProd" /\ lock' = lock
        /\ \A m \in Loader \ {l} : loader'[m] = loader[m]
    BY <1>1, <1>3 DEF Search, LoadRecord
  <2> QED
    BY <2>1 DEF LockMove, Behind
<1>4. CASE LoadProd(l)
  <2>1. /\ loader[l].at = "loadProd" /\ loader'[l].at \in {"loaded", "loadStaging"} /\ lock' = lock
        /\ \A m \in Loader \ {l} : loader'[m] = loader[m]
    BY <1>1, <1>4 DEF LoadProd, LoadRecord
  <2> QED
    BY <2>1 DEF LockMove, Behind
<1>5. CASE LoadStaging(l)
  <2>1. /\ loader[l].at = "loadStaging" /\ loader'[l].at = "loaded" /\ lock' = lock
        /\ \A m \in Loader \ {l} : loader'[m] = loader[m]
    BY <1>1, <1>5 DEF LoadStaging, LoadRecord
  <2> QED
    BY <2>1 DEF LockMove, Behind
<1>6. CASE Publish(l)
  BY <1>6, PlaceSet DEF Publish, MayPublish, LockMove, Behind
<1> QED
  BY <1>2, <1>3, <1>4, <1>5, <1>6 DEF LoadStep, Search, LoadFails

LEMMA LockNext == LoadInv /\ LockInv /\ [Next]_vars => LockInv'
<1> SUFFICES ASSUME LoadInv, LockInv, [Next]_vars PROVE LockInv'
  OBVIOUS
<1>1. LoadersTyped /\ loader \in [Loader -> LoadRecord]
      /\ \A m \in Loader : loader[m] \in LoadRecord
  BY DEF LoadInv, LoadersTyped
<1>2. ASSUME NEW l \in Loader, LoadStep(l) PROVE LockInv'
  BY <1>1, <1>2, LockLoadStep, LockMoveKeeps
<1>3. CASE BootStep
  <2>1. CASE AskForLock
    <3>1. loader[Boot].at = "loaded" /\ lock' = Append(lock, Boot)
          /\ loader' = [loader EXCEPT ![Boot] = [loader[Boot] EXCEPT !.at = "publish"]]
      BY <1>1, <2>1 DEF AskForLock
    <3>2. LockMove(Boot)
      BY <1>1, <3>1, PlaceSet, Bounds DEF LockMove, Behind
    <3> QED
      BY <3>2, Bounds, LockMoveKeeps
  <2>2. CASE Retry
    <3>1. loader[Boot].at = "sleep" /\ lock' = lock
          /\ loader' = [loader EXCEPT ![Boot] = [loader[Boot] EXCEPT !.at = "search"]]
      BY <1>1, <2>2 DEF Retry
    <3>2. LockMove(Boot)
      BY <1>1, <3>1, PlaceSet, Bounds DEF LockMove, Behind
    <3> QED
      BY <3>2, Bounds, LockMoveKeeps
  <2> QED
    BY <1>2, <1>3, <2>1, <2>2, Bounds DEF BootStep
<1>4. ASSUME NEW a \in Admin, AdminStep(a) PROVE LockInv'
  <2>1. CASE FindStaging(a)
    <3>1. /\ Turn(a) /\ loader[a].at = "find"
          /\ \A m \in Loader \ {a} : loader'[m] = loader[m]
          /\ \/ loader'[a].at = "idle" /\ lock' = Tail(lock)
             \/ loader'[a].at = "promote" /\ lock' = lock
      BY <1>1, <2>1, Bounds DEF FindStaging, Idle, LoadRecord
    <3>2. LockMove(a)
      BY <3>1, Bounds DEF LockMove, Behind, Turn
    <3> QED
      BY <3>2, Bounds, LockMoveKeeps
  <2>2. CASE Promote(a)
    <3>1. /\ loader[a].at = "promote" /\ lock' = lock
          /\ loader' = [Overtaken EXCEPT ![a].at = "search"]
      BY <2>2 DEF Promote
    <3>2. loader'[a].at = "search" /\ \A m \in Loader \ {a} : loader'[m] = Overtaken[m]
      BY <1>1, <3>1, Bounds DEF Overtaken, LoadRecord
    <3>3. LockMove(a)
      BY <1>1, <3>1, <3>2, PlaceSet, Bounds DEF LockMove, Behind
    <3> QED
      BY <3>3, Bounds, LockMoveKeeps
  <2>3. CASE PromoteFails(a)
    <3>1. /\ Turn(a) /\ lock' = Tail(lock)
          /\ \/ loader' = [loader EXCEPT ![a] = Idle]
             \/ loader' = [Overtaken EXCEPT ![a] = Idle]
      BY <2>3 DEF PromoteFails
    <3>2. loader'[a].at = "idle" /\ \A m \in Loader \ {a} : loader'[m].at = loader[m].at
      BY <1>1, <3>1, PlaceSet, Bounds DEF Overtaken, Idle
    <3>3. LockMove(a)
      BY <3>1, <3>2, Bounds DEF LockMove, Behind, Turn
    <3> QED
      BY <3>3, Bounds, LockMoveKeeps
  <2> QED
    BY <1>2, <1>4, <2>1, <2>2, <2>3, Bounds DEF AdminStep
<1>5. ASSUME NEW a \in Admin, NEW first \in {"find", "search"}, Call(a, first) PROVE LockInv'
  <2>1. loader[a].at = "idle" /\ lock' = Append(lock, a)
        /\ loader' = [loader EXCEPT ![a] = [loader[a] EXCEPT !.at = first]]
    BY <1>1, <1>5 DEF Call
  <2>2. LockMove(a)
    BY <1>1, <2>1, PlaceSet, Bounds DEF LockMove, Behind
  <2> QED
    BY <2>2, Bounds, LockMoveKeeps
<1>6. CASE Restart
  <2>1. lock' = <<>> /\ \A l \in Loader : loader'[l].at = IF l = Boot THEN "search" ELSE "idle"
    BY <1>6 DEF Restart, Process, Idle
  <2>2. Waiters' = {}
    BY <2>1 DEF Waiters, Behind
  <2> QED
    BY <2>1, <2>2 DEF LockInv, Waiters
<1>7. CASE \/ \E r \in Request : RequestStep(r) \/ Predict(r)
           \/ Registers \/ UNCHANGED vars
           \/ \E v \in 1..MaxVersion : StagesModel(v) \/ PromotedElsewhere(v)
  <2>1. lock' = lock /\ (loader' = loader \/ loader' = Overtaken)
    BY <1>7, RequestsApart
    DEF LoadState, Registers, StagesModel, PromotedElsewhere, vars
  <2>2. LockMove(Boot)
    BY <1>1, <2>1, PlaceSet, Bounds DEF LockMove
  <2> QED
    BY <2>2, Bounds, LockMoveKeeps
<1> QED
  BY <1>3, <1>4, <1>5, <1>6, <1>7 DEF Next

----------------------------------------------------------------------------
(* Predictions and their audit *)

RequestTyped == request \in [Request -> RequestRecord]

(* A prediction goes on without writing: its version is its own until      *)
(* there are rows.                                                         *)
RequestMove(r, x) ==
    /\ request' = [request EXCEPT ![r] = x]
    /\ x \in RequestRecord
    /\ request[r].at \in {"idle", "features", "infer", "shadow", "shadowInfer"}
    /\ x.at \in {"features", "infer", "shadow", "shadowInfer", "log", "failed"}

LEMMA RequestMoveKeeps ==
    ASSUME AuditInv, NEW r \in Request, NEW x, RequestMove(r, x), UNCHANGED tables
    PROVE  AuditInv'
<1> USE DEF AuditInv, RequestMove, tables
<1>1. request' \in [Request -> RequestRecord]
  OBVIOUS
<1>2. \A s \in Request \ {r} : request'[s] = request[s] /\ Row(s)' = Row(s)
  BY DEF Row
<1>3. request'[r] = x
  OBVIOUS
<1>4. \A row \in log \cup features : row.request \in Request \ {r}
  BY DEF RowType
<1>5. \A row \in log' :
          /\ row = Row(row.request)'
          /\ request'[row.request].at \in {"logFeatures", "done", "unlogged", "lost"}
  BY <1>2, <1>4
<1>6. \A row \in features' :
          /\ row = Row(row.request)' /\ row \in log'
          /\ request'[row.request].at \in {"done", "unlogged", "lost"}
  BY <1>2, <1>4
<1>7. \A s \in Request :
          /\ request'[s].at \in {"logFeatures", "done"} => Row(s)' \in log'
          /\ request'[s].at = "done" => Row(s)' \in features'
  BY <1>2, <1>3
<1> QED
  BY <1>1, <1>5, <1>6, <1>7

(* It writes its rows, all or some of them, or is lost.                    *)
LEMMA WriteKeeps ==
    ASSUME AuditInv, NEW r \in Request, NEW p \in {"logFeatures", "done", "unlogged"},
           request' = [request EXCEPT ![r].at = p],
           \/ /\ request[r].at = "log" /\ p = "logFeatures"
              /\ log' = log \cup {Row(r)} /\ features' = features
           \/ /\ request[r].at = "log" /\ p = "unlogged"
              /\ log' \in {log, log \cup {Row(r)}} /\ features' = features
           \/ /\ request[r].at = "logFeatures" /\ p = "done"
              /\ log' = log /\ features' = features \cup {Row(r)}
           \/ /\ request[r].at = "logFeatures" /\ p = "unlogged"
              /\ log' = log /\ features' \in {features, features \cup {Row(r)}}
    PROVE  AuditInv'
<1> USE DEF AuditInv
<1>1. request' \in [Request -> RequestRecord]
  BY DEF RequestRecord, RequestPlace, InFlight
<1>2. \A s \in Request \ {r} : request'[s] = request[s]
  OBVIOUS
<1>3. request'[r].at = p /\ request'[r].version = request[r].version
  OBVIOUS
<1>4. \A s \in Request : Row(s)' = Row(s)
  BY <1>2, <1>3 DEF Row
<1>5. Row(r) \in RowType /\ Row(r).request = r
  BY DEF Row, RowType, RequestRecord
<1>6. log' \subseteq RowType /\ features' \subseteq RowType
  BY <1>5
<1>7. \A row \in log' :
          /\ row = Row(row.request)'
          /\ request'[row.request].at \in {"logFeatures", "done", "unlogged", "lost"}
  BY <1>2, <1>3, <1>4, <1>5 DEF RowType
<1>8. \A row \in features' :
          /\ row = Row(row.request)' /\ row \in log'
          /\ request'[row.request].at \in {"done", "unlogged", "lost"}
  BY <1>2, <1>3, <1>4, <1>5 DEF RowType
<1>9. \A s \in Request :
          /\ request'[s].at \in {"logFeatures", "done"} => Row(s)' \in log'
          /\ request'[s].at = "done" => Row(s)' \in features'
  BY <1>2, <1>3, <1>4
<1> QED
  BY <1>1, <1>6, <1>7, <1>8, <1>9

LEMMA AuditRestart ==
    ASSUME AuditInv, Restart
    PROVE  AuditInv'
<1> USE DEF AuditInv
<1>1. request' = [r \in Request |->
            IF request[r].at \in InFlight THEN [request[r] EXCEPT !.at = "lost"] ELSE request[r]]
      /\ log' = log /\ features' = features
  BY DEF Restart, tables
<1>2. \A r \in Request :
          /\ request'[r] \in RequestRecord
          /\ request'[r].version = request[r].version
          /\ request'[r].at \in {request[r].at, "lost"}
          /\ request'[r].at # "lost" => request'[r].at \notin InFlight
  <2> SUFFICES ASSUME NEW r \in Request
               PROVE  /\ request'[r] \in RequestRecord
                      /\ request'[r].version = request[r].version
                      /\ request'[r].at \in {request[r].at, "lost"}
                      /\ request'[r].at # "lost" => request'[r].at \notin InFlight
    OBVIOUS
  <2>1. CASE request[r].at \in InFlight
    BY <1>1, <2>1 DEF RequestRecord, RequestPlace
  <2>2. CASE request[r].at \notin InFlight
    BY <1>1, <2>2
  <2> QED
    BY <2>1, <2>2
<1>3. request' \in [Request -> RequestRecord]
  BY <1>1, <1>2
<1>4. \A s \in Request : Row(s)' = Row(s)
  BY <1>2 DEF Row
<1>5. \A row \in log' :
          /\ row = Row(row.request)'
          /\ request'[row.request].at \in {"logFeatures", "done", "unlogged", "lost"}
  BY <1>1, <1>2, <1>4 DEF RowType
<1>6. \A row \in features' :
          /\ row = Row(row.request)' /\ row \in log'
          /\ request'[row.request].at \in {"done", "unlogged", "lost"}
  BY <1>1, <1>2, <1>4 DEF RowType
<1>7. \A s \in Request :
          /\ request'[s].at \in {"logFeatures", "done"} => Row(s)' \in log'
          /\ request'[s].at = "done" => Row(s)' \in features'
  BY <1>1, <1>2, <1>4 DEF InFlight
<1> QED
  BY <1>1, <1>3, <1>5, <1>6, <1>7

(* Other models are published: who is computing is marked, rows stay.      *)
LEMMA AuditPublish ==
    ASSUME AuditInv, request' = Swapped, UNCHANGED tables
    PROVE  AuditInv'
<1> USE DEF AuditInv, tables
<1>1. \A r \in Request :
          /\ request'[r] \in RequestRecord
          /\ request'[r].version = request[r].version
          /\ request'[r].at = request[r].at
  <2> SUFFICES ASSUME NEW r \in Request
               PROVE  /\ request'[r] \in RequestRecord
                      /\ request'[r].version = request[r].version
                      /\ request'[r].at = request[r].at
    OBVIOUS
  <2>1. request'[r] = [request[r] EXCEPT !.swapped = request[r].swapped \/ request[r].at = "infer"]
    BY DEF Swapped
  <2>2. request[r] \in RequestRecord
    OBVIOUS
  <2>3. (request[r].swapped \/ request[r].at = "infer") \in BOOLEAN
    OBVIOUS
  <2> DEFINE b == request[r].swapped \/ request[r].at = "infer"
  <2> HIDE DEF b
  <2> QED
    BY <2>1, <2>2, <2>3 DEF RequestRecord, b
<1>2. request' \in [Request -> RequestRecord]
  BY <1>1 DEF Swapped
<1>3. \A r \in Request : Row(r)' = Row(r)
  BY <1>1 DEF Row
<1> QED
  BY <1>1, <1>2, <1>3 DEF RowType

LEMMA AuditInit == Init => AuditInv
<1> SUFFICES ASSUME Init PROVE AuditInv
  OBVIOUS
<1>1. Waiting \in RequestRecord
  BY Bounds DEF Waiting, RequestRecord, RequestPlace, Version
<1> QED
  BY <1>1 DEF Init, AuditInv, Waiting

LEMMA AuditNext == LoadInv /\ AuditInv /\ [Next]_vars => AuditInv'
<1> SUFFICES ASSUME LoadInv, AuditInv, [Next]_vars PROVE AuditInv'
  OBVIOUS
<1>1. ASSUME NEW r \in Request, RequestStep(r) \/ Predict(r) PROVE AuditInv'
  <2> DEFINE y == request[r]
  <2>1. y \in RequestRecord
        /\ request \in [Request -> RequestRecord]
    BY DEF AuditInv
  <2>2. prod.model \in Version /\ prod.version \in Version /\ 0 \in Version
    BY Bounds DEF LoadInv, ServedTyped, Version
  <2>3. ASSUME NEW p \in {"features", "failed", "shadowInfer", "log"},
               request' = [request EXCEPT ![r].at = p],
               y.at \in {"idle", "features", "infer", "shadow", "shadowInfer"}
        PROVE  \E x : RequestMove(r, x)
    <3> DEFINE x == [y EXCEPT !.at = p]
    <3>1. x \in RequestRecord /\ x.at = p
      BY <2>1, <2>3 DEF RequestRecord, RequestPlace, InFlight
    <3>2. request' = [request EXCEPT ![r] = x]
      BY <2>1, <2>3
    <3> HIDE DEF x
    <3> QED
      BY <2>3, <3>1, <3>2 DEF RequestMove
  <2>4. CASE Infer(r)
    <3> DEFINE x == [y EXCEPT !.at = "infer", !.model = prod.model, !.swapped = ~fresh]
    <3>1. x \in RequestRecord /\ x.at = "infer"
      BY <2>1, <2>2 DEF RequestRecord, RequestPlace, InFlight
    <3>2. request' = [request EXCEPT ![r] = x] /\ y.at = "features"
      BY <2>1, <2>4 DEF Infer
    <3> HIDE DEF x
    <3>3. RequestMove(r, x)
      BY <3>1, <3>2 DEF RequestMove
    <3> QED
      BY <2>4, <3>3, RequestMoveKeeps DEF Infer
  <2>5. CASE Answer(r)
    <3> DEFINE x == [y EXCEPT !.at = "shadow", !.model = 0, !.version = prod.version,
                          !.swapped = FALSE]
    <3>1. x \in RequestRecord /\ x.at = "shadow"
      BY <2>1, <2>2 DEF RequestRecord, RequestPlace, InFlight
    <3>2. request' = [request EXCEPT ![r] = x] /\ y.at = "infer"
      BY <2>1, <2>5 DEF Answer
    <3> HIDE DEF x
    <3>3. RequestMove(r, x)
      BY <3>1, <3>2 DEF RequestMove
    <3> QED
      BY <2>5, <3>3, RequestMoveKeeps DEF Answer
  <2>6. CASE Predict(r) \/ PredictFails(r) \/ ShadowStart(r) \/ ShadowEnd(r)
    <3>1. \E p \in {"features", "failed", "shadowInfer", "log"} :
              /\ request' = [request EXCEPT ![r].at = p]
              /\ y.at \in {"idle", "features", "infer", "shadow", "shadowInfer"}
      BY <2>6 DEF Predict, PredictFails, ShadowStart, ShadowEnd
    <3>2. UNCHANGED tables
      BY <2>6 DEF Predict, PredictFails, ShadowStart, ShadowEnd
    <3> QED
      BY <2>3, <3>1, <3>2, RequestMoveKeeps
  <2>7. CASE Log(r) \/ LogFeatures(r) \/ LogFails(r)
    <3>1. CASE Log(r)
      BY <3>1, WriteKeeps DEF Log
    <3>2. CASE LogFeatures(r)
      BY <3>2, WriteKeeps DEF LogFeatures
    <3>3. CASE LogFails(r)
      BY <3>3, WriteKeeps DEF LogFails
    <3> QED
      BY <2>7, <3>1, <3>2, <3>3
  <2> QED
    BY <1>1, <2>4, <2>5, <2>6, <2>7 DEF RequestStep
<1>2. UNCHANGED <<request, tables>> => AuditInv'
  BY DEF AuditInv, tables, Row
<1>3. CASE Restart
  BY <1>3, AuditRestart
<1>4. ASSUME NEW l \in Loader, LoadStep(l) PROVE AuditInv'
  <2>1. CASE Publish(l)
    BY <2>1, AuditPublish DEF Publish
  <2>2. CASE Search(l) \/ LoadProd(l) \/ LoadStaging(l) \/ LoadFails(l)
    BY <1>2, <2>2 DEF Search, LoadProd, LoadStaging, LoadFails
  <2> QED
    BY <1>4, <2>1, <2>2 DEF LoadStep
<1>5. CASE BootStep
  BY <1>2, <1>4, <1>5, Bounds DEF BootStep, AskForLock, Retry
<1>6. ASSUME NEW a \in Admin, AdminStep(a) \/ (\E first \in {"find", "search"} : Call(a, first))
      PROVE  AuditInv'
  BY <1>2, <1>4, <1>6, Bounds DEF AdminStep, FindStaging, Promote, PromoteFails, Call
<1>7. CASE Registers \/ (\E v \in 1..MaxVersion : StagesModel(v) \/ PromotedElsewhere(v))
           \/ UNCHANGED vars
  BY <1>2, <1>7 DEF Registers, StagesModel, PromotedElsewhere, vars
<1> QED
  BY <1>1, <1>3, <1>5, <1>6, <1>7 DEF Next

LEMMA LabelInit == Init => LabelInv
  BY DEF Init, LabelInv, Waiting

LEMMA LabelNext == LoadInv /\ AuditInv /\ LabelInv /\ [Next]_vars => LabelInv'
<1> SUFFICES ASSUME LoadInv, AuditInv, LabelInv, [Next]_vars,
                    NEW r \in Request, request'[r].at = "infer", ~request'[r].swapped
             PROVE  prod'.version = request'[r].model
  BY DEF LabelInv
<1>1. request \in [Request -> RequestRecord]
  BY DEF AuditInv
<1>2. ASSUME UNCHANGED prod, request'[r] = request[r]
      PROVE  prod'.version = request'[r].model
  BY <1>2 DEF LabelInv
<1>3. CASE Restart
  <2>1. request'[r] = IF request[r].at \in InFlight
                      THEN [request[r] EXCEPT !.at = "lost"] ELSE request[r]
    BY <1>3 DEF Restart
  <2>2. CASE request[r].at \in InFlight
    BY <1>1, <2>1, <2>2 DEF RequestRecord
  <2>3. CASE request[r].at \notin InFlight
    BY <2>1, <2>3 DEF InFlight
  <2> QED
    BY <2>2, <2>3
<1>4. ASSUME NEW l \in Loader, LoadStep(l) PROVE prod'.version = request'[r].model
  <2>1. CASE Publish(l)
    <3>1. request'[r] = [request[r] EXCEPT !.swapped = request[r].swapped \/ request[r].at = "infer"]
      BY <2>1 DEF Publish, Swapped
    <3>2. request'[r].at = request[r].at
          /\ request'[r].swapped = (request[r].swapped \/ request[r].at = "infer")
      BY <1>1, <3>1 DEF RequestRecord
    <3> QED
      BY <3>2
  <2>2. CASE Search(l) \/ LoadProd(l) \/ LoadStaging(l) \/ LoadFails(l)
    BY <1>2, <2>2 DEF Search, LoadProd, LoadStaging, LoadFails, served
  <2> QED
    BY <1>4, <2>1, <2>2 DEF LoadStep
<1>5. ASSUME NEW q \in Request, RequestStep(q) \/ Predict(q)
      PROVE  prod'.version = request'[r].model
  <2>1. prod' = prod
    BY <1>5 DEF RequestStep, Infer, Answer, PredictFails, ShadowStart, ShadowEnd, Log,
                LogFeatures, LogFails, Predict, served
  <2>2. \E x : request' = [request EXCEPT ![q] = x]
    BY <1>5 DEF RequestStep, Infer, Answer, PredictFails, ShadowStart, ShadowEnd, Log,
                LogFeatures, LogFails, Predict
  <2>3. CASE q # r
    BY <1>1, <1>2, <2>1, <2>2, <2>3
  <2>4. CASE q = r /\ Infer(r)
    <3>1. request'[r] = [request[r] EXCEPT !.at = "infer", !.model = prod.model, !.swapped = ~fresh]
      BY <1>1, <2>4 DEF Infer
    <3>2. request'[r].model = prod.model /\ request'[r].swapped = ~fresh
      BY <1>1, <3>1 DEF RequestRecord
    <3>3. ~request'[r].swapped
      OBVIOUS
    <3>4. fresh
      BY <3>2, <3>3, Zenon
    <3>5. prod.model = prod.version
      BY <3>4 DEF LoadInv, ServesProduction
    <3> QED
      BY <2>1, <3>2, <3>5
  <2>5. CASE q = r /\ ~Infer(r)
    <3>1. request'[r].at # "infer"
      BY <1>1, <1>5, <2>5 DEF RequestStep, Answer, PredictFails, ShadowStart, ShadowEnd, Log,
                LogFeatures, LogFails, Predict, RequestRecord
    <3> QED
      BY <3>1
  <2> QED
    BY <2>3, <2>4, <2>5
<1>6. CASE BootStep
  BY <1>2, <1>4, <1>6, Bounds DEF BootStep, AskForLock, Retry, served
<1>7. ASSUME NEW a \in Admin, AdminStep(a) \/ (\E first \in {"find", "search"} : Call(a, first))
      PROVE  prod'.version = request'[r].model
  BY <1>2, <1>4, <1>7, Bounds DEF AdminStep, FindStaging, Promote, PromoteFails, Call, served
<1>8. CASE Registers \/ (\E v \in 1..MaxVersion : StagesModel(v) \/ PromotedElsewhere(v))
           \/ UNCHANGED vars
  BY <1>2, <1>8 DEF Registers, StagesModel, PromotedElsewhere, vars, served
<1> QED
  BY <1>3, <1>5, <1>6, <1>7, <1>8 DEF Next

LEMMA BudgetNext == budget \in 0..MaxFaults /\ [Next]_vars => (budget \in 0..MaxFaults)'
<1> SUFFICES ASSUME budget \in 0..MaxFaults, [Next]_vars PROVE budget' \in 0..MaxFaults
  OBVIOUS
<1>1. budget' = budget \/ Spend
  BY DEF Next, vars, BootStep, AdminStep, LoadStep, RequestStep, Search, LoadProd, LoadStaging,
         LoadFails, Publish, AskForLock, Retry, FindStaging, Promote, PromoteFails, Call,
         Predict, Infer, Answer, PredictFails, ShadowStart, ShadowEnd, Log, LogFeatures,
         LogFails, Registers, StagesModel, PromotedElsewhere, Restart
<1> QED
  BY <1>1, Bounds DEF Spend

LEMMA Invariant == Spec => []IInv
<1>1. Init => IInv
  <2>1. Init => budget \in 0..MaxFaults
    BY Bounds DEF Init
  <2> QED
    BY <2>1, LoadInit, LockInit, AuditInit, LabelInit DEF IInv
<1>2. IInv /\ [Next]_vars => IInv'
  BY LoadNext, LockNext, AuditNext, LabelNext, BudgetNext DEF IInv
<1> QED
  BY <1>1, <1>2, PTL DEF Spec

(* Every variable keeps its type, and the lock is held by one load at a    *)
(* time, queued for by the others behind it, and by nobody else: no call   *)
(* returns with the lock, and none waits without being in the queue.       *)
THEOREM TypeCorrect == Spec => []TypeOK
<1>1. IInv => TypeOK
  BY DEF IInv, LoadInv, LockInv, AuditInv, RegistryTyped, LoadersTyped, ServedTyped,
         LoadRecord, TypeOK, Behind, RequestRecord
<1> QED
  BY <1>1, Invariant, PTL

(* An answer names the version of the model it comes from, unless other    *)
(* models were published during the inference or a promotion had overtaken *)
(* the load of these; both tables name it too; features are never          *)
(* logged without the prediction, and a shadow task that came to its end   *)
(* logged both (main.py, _shadow_task).                                    *)
THEOREM AuditAgrees == Spec => []AuditMatchesAnswers
<1>1. AuditInv /\ LabelInv => AuditMatchesAnswers
  <2> SUFFICES ASSUME AuditInv, LabelInv PROVE AuditMatchesAnswers
    OBVIOUS
  <2>1. \A row \in log \cup features : row.version = request[row.request].version
    BY DEF AuditInv, Row
  <2>2. \A f \in features : \E row \in log : row.request = f.request
    BY DEF AuditInv
  <2>3. \A r \in Request : request[r].at = "done" => Row(r) \in log \cap features
    BY DEF AuditInv
  <2> QED
    BY <2>1, <2>2, <2>3 DEF AuditMatchesAnswers, LabelInv
<1> QED
  BY <1>1, Invariant, PTL DEF IInv

----------------------------------------------------------------------------
(* The lifecycle of versions *)

LEMMA SameOperators ==
    /\ \A r, v, s, a : Lifecycle!Transition(r, v, s, a) = Transition(r, v, s, a)
    /\ \A r : Lifecycle!Register(r) = Register(r)
BY DEF Lifecycle!Transition, Transition, Lifecycle!Register, Register

LEMMA LifecycleStep ==
    ASSUME LoadInv, [Next]_vars
    PROVE  [Lifecycle!LifecycleNext]_registry
<1>1. ASSUME NEW v \in DOMAIN registry, registry[v] # "none", Move(v)
      PROVE  Lifecycle!LifecycleNext
  BY <1>1, SameOperators DEF Move, Lifecycle!LifecycleNext, Lifecycle!PromoteVersion
<1>2. ASSUME NEW v \in 1..MaxVersion, StagesModel(v) \/ PromotedElsewhere(v)
      PROVE  Lifecycle!LifecycleNext
  <2>1. CASE StagesModel(v)
    BY <2>1, SameOperators
    DEF StagesModel, InStage, Lifecycle!LifecycleNext, Lifecycle!StageVersion
  <2>2. CASE PromotedElsewhere(v)
    BY <1>1, <2>2 DEF PromotedElsewhere, InStage
  <2> QED
    BY <1>2, <2>1, <2>2
<1>3. ASSUME Registers PROVE Lifecycle!LifecycleNext
  BY <1>3, SameOperators DEF Registers, Lifecycle!LifecycleNext, Lifecycle!RegisterVersion
<1>4. ASSUME NEW a \in Admin, Promote(a) \/ PromoteFails(a)
      PROVE  [Lifecycle!LifecycleNext]_registry
  <2>1. loader[a].promoted \in DOMAIN registry /\ registry[loader[a].promoted] # "none"
    BY <1>4, Bounds DEF LoadInv, Lead, Promote, PromoteFails
  <2> QED
    BY <1>1, <1>4, <2>1 DEF Promote, PromoteFails
<1>5. ASSUME NEW l \in Loader, LoadStep(l) PROVE registry' = registry
  BY <1>5 DEF LoadStep, Search, LoadProd, LoadStaging, LoadFails, Publish
<1>6. CASE BootStep
  BY <1>5, <1>6, Bounds DEF BootStep, AskForLock, Retry
<1>7. ASSUME NEW a \in Admin, AdminStep(a) \/ (\E first \in {"find", "search"} : Call(a, first))
      PROVE  [Lifecycle!LifecycleNext]_registry
  BY <1>4, <1>5, <1>7, Bounds DEF AdminStep, FindStaging, Call
<1>8. CASE Restart \/ UNCHANGED vars \/ (\E r \in Request : RequestStep(r) \/ Predict(r))
  BY <1>8, RequestsApart DEF Restart, vars, LoadState
<1> QED
  BY <1>2, <1>3, <1>6, <1>7, <1>8 DEF Next

(* At most one version of a registry that a behaviour starts with is in    *)
(* Production.                                                             *)
LEMMA LifecycleStart == Init => Lifecycle!LifecycleInit
<1> SUFFICES ASSUME Init PROVE Lifecycle!LifecycleInit
  OBVIOUS
<1> DEFINE P == InStage(registry, "Production")
<1>1. registry \in Seq(Stage) /\ Cardinality(P) <= 1
  BY ServingAssumption DEF ServingAssumption, Init
<1>2. P \subseteq 1..Len(registry) /\ IsFiniteSet(P)
  <2>1. P \subseteq 1..Len(registry)
    BY <1>1 DEF InStage
  <2>2. IsFiniteSet(1..Len(registry))
    BY <1>1, FS_Interval
  <2> QED
    BY <2>1, <2>2, FS_Subset
<1>3. ASSUME NEW v \in P, NEW w \in P PROVE v = w
  <2> SUFFICES ASSUME v # w PROVE FALSE
    OBVIOUS
  <2> HIDE DEF P
  <2>1. IsFiniteSet({v}) /\ Cardinality({v}) = 1
    BY FS_Singleton
  <2>2. IsFiniteSet({v, w}) /\ Cardinality({v, w}) = 2
    <3>1. {v, w} = {v} \cup {w} /\ w \notin {v}
      OBVIOUS
    <3> QED
      BY <2>1, <3>1, FS_AddElement
  <2>3. {v, w} \subseteq P
    OBVIOUS
  <2>4. Cardinality({v, w}) <= Cardinality(P) /\ Cardinality(P) \in Nat
    BY <1>2, <2>3, FS_Subset, FS_CardinalityType
  <2> QED
    BY <1>1, <2>2, <2>4
<1> QED
  BY <1>1, <1>3
  DEF Lifecycle!LifecycleInit, Lifecycle!AtMostOneProduction, Lifecycle!InStage, InStage,
      Lifecycle!Stage, Stage

(* The API, the trainer, the worker and everybody else together move the   *)
(* registry as ModelLifecycle says: what was never staged is never         *)
(* promoted, and one promotion archives the version before it.             *)
THEOREM LifecycleKept == Spec => LifecycleSpec
BY LifecycleStart, LifecycleStep, LoadInvariant, PTL
DEF Spec, LifecycleSpec, Lifecycle!LifecycleSpec
=============================================================================
