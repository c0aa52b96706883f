------------------------ MODULE RouteFeaturesProofs ------------------------
(***************************************************************************)
(* Proofs about RouteFeatures: for any topics, windows and faults, what an *)
(* update counts is what the lake's reconstruction finds, as long as the   *)
(* window is within the hour before every event processed, and the sorted  *)
(* sets hold their hour.                                                   *)
(*                                                                         *)
(* The inductive invariant relates the sorted sets to the events they were *)
(* ever given: they hold no others, and all of those that no trim could    *)
(* reach (Covered).  Of the weather fields it says that each was written   *)
(* no later than the hash's stamp (Stamped), and that a field without a    *)
(* value in the readings still to be written again is the newest (Fresh).  *)
(***************************************************************************)
EXTENDS RouteFeatures, FiniteSetTheorems, TLAPS

(* The events of the demand topic. *)
Logged == {demand[i] : i \in 1..Len(demand)}

(* An id names one event. *)
IdsUnique == \A e, f \in Logged : e.id = f.id => e = f

(* A sorted set holds, of the events of its type it was ever given, those  *)
(* that none of the trims could reach, and nothing else.                   *)
Covers(zset, type, given, cuts) ==
    /\ zset \subseteq {x \in given : x.type = type}
    /\ \A x \in given :
          x.type = type /\ (\A t \in cuts : t - W1h <= x.ts) => x \in zset

Shape ==
    /\ demand \in Seq(Event)
    /\ position["demand"] \in Nat
    /\ committed["demand"] \in Nat /\ pending["demand"] \in Nat
    /\ position \in [Consumer -> Nat] /\ committed \in [Consumer -> Nat]
    /\ pending \in [Consumer -> Nat]
    /\ phase \in {"idle", "counted"}
    /\ phase = "counted" => position["demand"] < Len(demand)
    /\ trims \subseteq Int
    /\ IdsUnique

(* Only searches and bookings are added to a set. *)
CountedTyped == \A x \in counted : x.type \in {"search", "booking"}

Covered ==
    /\ counted \subseteq Logged /\ CountedTyped
    /\ Covers(searches, "search", counted, trims)
    /\ Covers(bookings, "booking", counted, trims)

(* Between the two round trips the counts are those of the sets. *)
Pending ==
    phase = "counted" =>
        /\ counts = Windows(searches, bookings, Current.ts)
        /\ \A m \in searches \cup bookings : m.ts > Current.ts - W1h - Second

IInv == Shape /\ Covered /\ Pending

----------------------------------------------------------------------------

(* What the assumption says of the windows and the topics.                 *)
LEMMA Numbers ==
    /\ Second \in Nat \ {0}
    /\ W5m \in Nat /\ W15m \in Nat /\ W1h \in Nat
    /\ W5m <= W15m /\ W15m <= W1h
    /\ Topics \subseteq [demand : Seq(Event), weather : Seq(Reading)]
    /\ \A topics \in Topics : \A i, j \in DOMAIN topics.demand :
          topics.demand[i].id = topics.demand[j].id
              => topics.demand[i] = topics.demand[j]
BY RouteFeaturesAssumption DEF RouteFeaturesAssumption

(* Logged events are events, with an integer timestamp.                    *)
LEMMA LoggedEvents ==
    ASSUME demand \in Seq(Event)
    PROVE  \A e \in Logged : e \in Event /\ e.ts \in Int
<1>1. \A e \in Logged : e \in Event
    BY DEF Logged
<1>2. \A e \in Event : e.ts \in Int
    BY DEF Event
<1> QED
    BY <1>1, <1>2

(* The event of the consumer's position is in the topic.                   *)
LEMMA CurrentLogged ==
    ASSUME demand \in Seq(Event), position["demand"] \in Nat,
           position["demand"] < Len(demand)
    PROVE  Current \in Logged
BY DEF Logged, Current

(* Adding a logged event to a set of logged events loses no other member.  *)
LEMMA ZAddUnion ==
    ASSUME IdsUnique, NEW zset, zset \subseteq Logged, NEW e \in Logged
    PROVE  ZAdd(zset, e) = zset \cup {e}
BY DEF ZAdd, IdsUnique

LEMMA InitInv == Init => IInv
<1> SUFFICES ASSUME Init PROVE IInv
    OBVIOUS
<1> PICK topics \in Topics : demand = topics.demand /\ weather = topics.weather
    BY DEF Init
<1>1. demand \in Seq(Event) /\ IdsUnique
    <2>1. topics \in [demand : Seq(Event), weather : Seq(Reading)]
        BY Numbers
    <2>2. demand \in Seq(Event)
        BY <2>1
    <2>3. \A i, j \in DOMAIN demand : demand[i].id = demand[j].id => demand[i] = demand[j]
        BY Numbers
    <2>4. DOMAIN demand = 1..Len(demand)
        BY <2>2
    <2> QED
        BY <2>2, <2>3, <2>4 DEF IdsUnique, Logged
<1>2. Shape
    BY <1>1 DEF Init, Shape, Consumer
<1>3. Covered /\ Pending
    BY DEF Init, Covered, CountedTyped, Covers, Pending
<1> QED
    BY <1>2, <1>3 DEF IInv

(* No step changes the topic, nor the shape of the consumer's state.       *)
LEMMA ShapeStep == Shape /\ [Next]_vars => Shape'
<1> SUFFICES ASSUME Shape, [Next]_vars PROVE Shape'
    OBVIOUS
<1> USE DEF Shape, Advance, Note, Consumer, CanUpdate, CanWrite
<1>1. demand' = demand
    BY DEF Next, vars, kafkaVars, Pipeline, StoreCounts, PipelineFails, StoreFails,
           WriteWeather, WeatherFails, Commit, Restart, Tick
<1>2. IdsUnique'
    BY <1>1 DEF IdsUnique, Logged
<1>3. CASE Pipeline
    <2>1. Current.ts \in Int
        BY <1>3, CurrentLogged, LoggedEvents DEF Pipeline
    <2> QED
        BY <1>1, <1>2, <1>3, <2>1 DEF Pipeline
<1>4. CASE StoreCounts
    BY <1>1, <1>2, <1>4 DEF StoreCounts, setVars
<1>5. CASE PipelineFails
    <2>1. Current.ts \in Int
        BY <1>5, CurrentLogged, LoggedEvents DEF PipelineFails
    <2>2. trims' \in {trims, trims \cup {Current.ts}}
        BY <1>5 DEF PipelineFails, setVars
    <2>3. trims' \subseteq Int
        BY <2>1, <2>2
    <2> QED
        BY <1>1, <1>2, <1>5, <2>3 DEF PipelineFails
<1>6. CASE StoreFails
    BY <1>1, <1>2, <1>6 DEF StoreFails, setVars
<1>7. CASE WriteWeather
    BY <1>1, <1>2, <1>7 DEF WriteWeather, setVars
<1>8. CASE WeatherFails
    BY <1>1, <1>2, <1>8 DEF WeatherFails, setVars
<1>9. ASSUME NEW c \in Consumer, Commit(c) PROVE Shape'
    BY <1>1, <1>2, <1>9 DEF Commit, setVars
<1>10. CASE Restart
    BY <1>1, <1>2, <1>10 DEF Restart, setVars
<1>11. CASE Tick
    BY <1>1, <1>2, <1>11 DEF Tick, setVars
<1>12. CASE UNCHANGED vars
    BY <1>1, <1>2, <1>12 DEF vars, setVars
<1> QED
    BY <1>3, <1>4, <1>5, <1>6, <1>7, <1>8, <1>9, <1>10, <1>11, <1>12 DEF Next

(* One sorted set before and after a pipeline, which may have been cut     *)
(* short: trimmed only if the trim is recorded.                            *)
LEMMA SetUpdate ==
    ASSUME Shape, NEW given \in SUBSET Logged, NEW type, NEW zset,
           Covers(zset, type, given, trims),
           NEW e \in Logged, NEW after, NEW given2, NEW cuts,
           given2 \in {given, given \cup {e}},
           e.type = type => given2 = given \cup {e},
           cuts \in {trims, trims \cup {e.ts}},
           \/ after = AddTo(zset, type, e)
           \/ after = Trimmed(AddTo(zset, type, e), e.ts) /\ cuts = trims \cup {e.ts}
    PROVE  Covers(after, type, given2, cuts)
<1> DEFINE grown == AddTo(zset, type, e)
<1>1. W1h \in Int /\ Second \in Nat \ {0} /\ e.ts \in Int /\ \A x \in Logged : x.ts \in Int
    BY Numbers, LoggedEvents DEF Shape
<1>2. zset \subseteq Logged
    BY DEF Covers
<1>3. grown = IF e.type = type THEN zset \cup {e} ELSE zset
    BY <1>2, ZAddUnion DEF AddTo, Shape
<1>4. Covers(grown, type, given2, trims)
    BY <1>3 DEF Covers
<1>5. Covers(grown, type, given2, cuts)
    BY <1>4 DEF Covers
<1>6. CASE after = Trimmed(grown, e.ts) /\ cuts = trims \cup {e.ts}
    <2>1. \A x \in given2 : e.ts - W1h <= x.ts => x.ts > e.ts - W1h - Second
        BY <1>1
    <2> QED
        BY <1>5, <1>6, <2>1 DEF Covers, Trimmed
<1> QED
    BY <1>5, <1>6

(* What a step does to the sorted sets: nothing, or an update by the event *)
(* at the consumer's position that may have been cut short.                *)
SetStep ==
    LET e == Current
        s == AddTo(searches, "search", e)
        b == AddTo(bookings, "booking", e)
    IN /\ e \in Logged
       /\ searches' \in {s, Trimmed(s, e.ts)}
       /\ bookings' \in {b, Trimmed(b, e.ts)}
       /\ NoteCounted(e)
       /\ trims' \in {trims, trims \cup {e.ts}}
       /\ searches' # s \/ bookings' # b => trims' = trims \cup {e.ts}

LEMMA SetStepKeeps ==
    ASSUME Shape, Covered, SetStep, demand' = demand
    PROVE  Covered'
<1> DEFINE e == Current
<1>1. counted' \in {counted, counted \cup {e}}
    BY DEF SetStep, NoteCounted
<1>2. e.type \in {"search", "booking"} => counted' = counted \cup {e}
    BY DEF SetStep, NoteCounted
<1>3. counted \in SUBSET Logged /\ e \in Logged /\ Logged' = Logged
    BY DEF Covered, SetStep, Logged
<1>4. Covers(searches', "search", counted', trims')
    BY <1>1, <1>2, <1>3, SetUpdate DEF SetStep, Covered
<1>5. Covers(bookings', "booking", counted', trims')
    BY <1>1, <1>2, <1>3, SetUpdate DEF SetStep, Covered
<1>6. CountedTyped'
    <2>1. e.type \in EventType
        BY <1>3, LoggedEvents DEF Shape, Event
    <2> QED
        BY <2>1 DEF SetStep, NoteCounted, Covered, CountedTyped, EventType
<1> QED
    BY <1>1, <1>3, <1>4, <1>5, <1>6 DEF Covered, Covers

(* A step that leaves the sorted sets alone keeps what is known of them.   *)
LEMMA SetsUnchanged ==
    ASSUME Covered, demand' = demand, UNCHANGED setVars
    PROVE  Covered'
BY DEF setVars, Covered, CountedTyped, Covers, Logged

LEMMA InvStep == IInv /\ [Next]_vars => IInv'
<1> SUFFICES ASSUME IInv, [Next]_vars PROVE IInv'
    OBVIOUS
<1> USE DEF IInv
<1>1. Shape'
    BY ShapeStep
<1>3. Pipeline => SetStep /\ demand' = demand
    BY CurrentLogged DEF Pipeline, CanUpdate, Shape, SetStep, kafkaVars
<1>4. PipelineFails =>
        demand' = demand /\ (UNCHANGED setVars \/ SetStep)
    BY CurrentLogged DEF PipelineFails, CanUpdate, Shape, SetStep, kafkaVars, setVars
<1>5. CASE Pipeline
    <2>1. Covered'
        BY <1>3, <1>5, SetStepKeeps
    <2>2. Current' = Current
        BY <1>3, <1>5 DEF Pipeline, Current
    <2>3. counts' = Windows(searches', bookings', Current.ts)
        BY <1>5 DEF Pipeline
    <2>4. \A m \in searches' \cup bookings' : m.ts > Current.ts - W1h - Second
        BY <1>5 DEF Pipeline, Trimmed
    <2>5. Pending'
        BY <2>2, <2>3, <2>4 DEF Pending, Windows, ZCount, LookToBook
    <2> QED
        BY <1>1, <2>1, <2>5
<1>6. CASE PipelineFails
    <2>1. Covered'
        BY <1>4, <1>6, SetStepKeeps, SetsUnchanged
    <2>2. Pending'
        BY <1>6 DEF Pending, PipelineFails, CanUpdate
    <2> QED
        BY <1>1, <2>1, <2>2
<1>7. CASE StoreCounts \/ StoreFails \/ Restart
    <2>1. demand' = demand /\ UNCHANGED setVars /\ phase' = "idle"
        BY <1>7 DEF StoreCounts, StoreFails, Restart, kafkaVars, setVars
    <2> QED
        BY <1>1, <2>1, SetsUnchanged DEF Pending
<1>8. CASE WriteWeather \/ WeatherFails \/ (\E c \in Consumer : Commit(c)) \/ Tick
            \/ UNCHANGED vars
    <2>1. /\ demand' = demand /\ UNCHANGED setVars
          /\ phase' = phase /\ counts' = counts
          /\ position'["demand"] = position["demand"]
        BY <1>8 DEF WriteWeather, WeatherFails, Commit, Tick, vars, kafkaVars, setVars,
                    Advance, Shape, Consumer
    <2>2. Current' = Current
        BY <2>1 DEF Current
    <2>3. searches' = searches /\ bookings' = bookings
        BY <2>1 DEF setVars
    <2>4. Pending'
        BY <2>1, <2>2, <2>3 DEF Pending, Windows, ZCount, LookToBook
    <2> QED
        BY <1>1, <2>1, <2>4, SetsUnchanged
<1> QED
    BY <1>5, <1>6, <1>7, <1>8 DEF Next

LEMMA Invariant == Spec => []IInv
BY InitInv, InvStep, PTL DEF Spec

(* A set of logged events has finitely many ids.                           *)
LEMMA IdsFinite ==
    ASSUME Shape, NEW S \in SUBSET Logged
    PROVE  IsFiniteSet({x.id : x \in S})
<1>1. IsFiniteSet(Logged)
    <2>1. IsFiniteSet(1..Len(demand))
        BY FS_Interval DEF Shape
    <2> DEFINE at == [i \in 1..Len(demand) |-> demand[i]]
    <2>2. at \in Surjection(1..Len(demand), Logged)
        BY DEF Surjection, Logged
    <2> QED
        BY <2>1, <2>2, FS_Surjection
<1>2. IsFiniteSet(S)
    BY <1>1, FS_Subset
<1> DEFINE ids == {x.id : x \in S}
           idOf == [x \in S |-> x.id]
<1>3. idOf \in Surjection(S, ids)
    BY DEF Surjection
<1> QED
    BY <1>2, <1>3, FS_Surjection

(* A window that no trim could reach, read from a set that covers the      *)
(* events of its type, counts what the reconstruction counts; any other    *)
(* counts no more.                                                         *)
LEMMA CountExact ==
    ASSUME Shape, counted \subseteq Logged, NEW zset, NEW type,
           Covers(zset, type, counted, trims), NEW T \in Int, NEW w \in Nat
    PROVE  /\ Kept(w, T) => ZCount(zset, T - w, T) = CountDistinct(counted, type, w, T)
           /\ ZCount(zset, T - w, T) <= CountDistinct(counted, type, w, T)
<1> DEFINE members == {m \in zset : T - w <= m.ts /\ m.ts <= T}
           recorded == {x \in counted : x.type = type /\ x.ts \in (T - w)..T}
<1>1. W1h \in Int /\ trims \subseteq Int /\ \A x \in counted : x.ts \in Int
    BY Numbers, LoggedEvents DEF Shape
<1>2. members \subseteq recorded
    BY <1>1 DEF Covers
<1>3. ASSUME Kept(w, T) PROVE recorded \subseteq members
    <2> SUFFICES ASSUME NEW x \in recorded PROVE x \in zset /\ T - w <= x.ts /\ x.ts <= T
        OBVIOUS
    <2>1. x.ts \in Int /\ T - w <= x.ts /\ x.ts <= T
        BY <1>1
    <2>2. \A t \in trims : t - W1h <= x.ts
        BY <1>1, <1>3, <2>1 DEF Kept
    <2> QED
        BY <2>1, <2>2 DEF Covers
<1>4. Kept(w, T) => ZCount(zset, T - w, T) = CountDistinct(counted, type, w, T)
    <2>1. Kept(w, T) => members = recorded
        BY <1>2, <1>3
    <2> QED
        BY <2>1 DEF ZCount, CountDistinct
<1>5. IsFiniteSet({x.id : x \in recorded})
    <2>1. recorded \in SUBSET Logged
        OBVIOUS
    <2> HIDE DEF recorded
    <2> QED
        BY <2>1, IdsFinite
<1>6. {m.id : m \in members} \subseteq {x.id : x \in recorded}
    BY <1>2
<1>7. Cardinality({m.id : m \in members}) <= Cardinality({x.id : x \in recorded})
    BY <1>5, <1>6, FS_Subset
<1> QED
    BY <1>4, <1>7 DEF ZCount, CountDistinct

LEMMA ExactCounts == IInv => WindowsExact
<1> SUFFICES ASSUME IInv, phase = "counted"
             PROVE LET T == Current.ts
                       R == Reconstruct(counted, T)
                   IN /\ Kept(W5m, T) => counts.searches_5m = R.searches_5m
                      /\ Kept(W15m, T) => counts.bookings_15m = R.bookings_15m
                      /\ Kept(W1h, T) => counts.look_to_book_1h = R.look_to_book_1h
                      /\ counts.searches_5m <= R.searches_5m
                      /\ counts.bookings_15m <= R.bookings_15m
    BY DEF WindowsExact
<1> DEFINE T == Current.ts
<1>1. T \in Int
    BY CurrentLogged, LoggedEvents DEF IInv, Shape
<1>2. counts = Windows(searches, bookings, T)
    BY DEF IInv, Pending
<1> HIDE DEF T
<1>3. \A w \in {W5m, W1h} :
          /\ Kept(w, T) => ZCount(searches, T - w, T) = CountDistinct(counted, "search", w, T)
          /\ ZCount(searches, T - w, T) <= CountDistinct(counted, "search", w, T)
    <2>1. Covers(searches, "search", counted, trims) /\ Shape /\ counted \subseteq Logged
        BY DEF IInv, Covered
    <2> QED
        BY ONLY <1>1, <2>1, Numbers, CountExact
<1>4. \A w \in {W15m, W1h} :
          /\ Kept(w, T) => ZCount(bookings, T - w, T) = CountDistinct(counted, "booking", w, T)
          /\ ZCount(bookings, T - w, T) <= CountDistinct(counted, "booking", w, T)
    <2>1. Covers(bookings, "booking", counted, trims) /\ Shape /\ counted \subseteq Logged
        BY DEF IInv, Covered
    <2> QED
        BY ONLY <1>1, <2>1, Numbers, CountExact
<1> QED
    BY <1>2, <1>3, <1>4 DEF T, Windows, Reconstruct

LEMMA HourHeld == IInv => SetsHoldTheHour
<1> SUFFICES ASSUME IInv, phase = "counted"
             PROVE  LET kept == searches \cup bookings
                    IN /\ \A m \in kept : m \in counted /\ m.ts > Current.ts - W1h - Second
                       /\ \A e \in counted :
                             (\A t \in trims : t - W1h <= e.ts) => e \in kept
    BY DEF SetsHoldTheHour
<1>1. \A m \in searches \cup bookings : m \in counted /\ m.ts > Current.ts - W1h - Second
    BY DEF IInv, Pending, Covered, Covers
<1>2. ASSUME NEW e \in counted, \A t \in trims : t - W1h <= e.ts
      PROVE  e \in searches \cup bookings
    <2>1. e.type = "search" \/ e.type = "booking"
        BY DEF IInv, Covered, CountedTyped
    <2> QED
        BY <2>1, <1>2 DEF IInv, Covered, Covers
<1> QED
    BY <1>1, <1>2

(* The counts of an update are those of the reconstruction over every      *)
(* event given to the sets, for every window within reach, whatever was    *)
(* redelivered, reordered, written twice or failed half-way; no count is   *)
(* ever inflated (redis_ops.py 99-124, reconstruct.py 193-270).            *)
THEOREM UpdatesAreExact == Spec => []WindowsExact
BY Invariant, ExactCounts, PTL

(* After an update the sets hold every event that no trim could reach, and *)
(* none a second or more older than the hour (redis_ops.py 108-113).       *)
THEOREM SetsKeepTheHour == Spec => []SetsHoldTheHour
BY Invariant, HourHeld, PTL
----------------------------------------------------------------------------
(* The weather fields *)

Readings == weather \in Seq(Reading)

(* A field that has a value was written, and the hash stamped since then.  *)
Stamped ==
    /\ now \in Nat
    /\ DOMAIN hash = {"windows", "weather", "computedAt"}
    /\ hash.weather \in Reading
    /\ hash.computedAt \in Nat \cup {None}
    /\ writtenAt \in [Field -> Nat \cup {None}]
    /\ hash.computedAt # None => hash.computedAt <= now
    /\ \A f \in Field : writtenAt[f] # None =>
          hash.computedAt # None /\ writtenAt[f] <= hash.computedAt
    /\ \A f \in Field : hash.weather[f] # None => writtenAt[f] # None

(* No reading was skipped: the consumer is never past the one after the    *)
(* last one written, and nobody saw a newer one than was polled.           *)
NoneSkipped ==
    /\ weatherAt \in Int /\ polled \in Nat
    /\ committed["weather"] \in Nat /\ pending["weather"] \in Nat
    /\ position["weather"] \in Nat
    /\ committed["weather"] <= pending["weather"]
    /\ pending["weather"] <= position["weather"]
    /\ position["weather"] <= weatherAt + 1
    /\ weatherAt + 1 <= polled
    /\ polled <= Len(weather)

(* After a restart older readings are written over newer ones.  A field    *)
(* that has no value in the readings still to be written again was never   *)
(* overwritten by them either.                                             *)
Fresh ==
    \A f \in Field :
        (\A j \in (weatherAt + 2)..polled : weather[j][f] = None)
            => hash.weather[f] = Latest(f)

Offsets ==
    /\ committed \in [Consumer -> Nat] /\ position \in [Consumer -> Nat]
    /\ pending \in [Consumer -> Nat]

WeatherInv ==
    /\ Readings /\ Stamped
    /\ Offsets
    /\ ~refused => NoneSkipped /\ Fresh

LEMMA NoneApart == None \notin Nat
BY RouteFeaturesAssumption DEF RouteFeaturesAssumption

(* The maximum of a set of numbers is the member CHOOSE finds.             *)
LEMMA Newest ==
    ASSUME NEW S \in SUBSET Int, NEW m \in S, \A j \in S : j <= m
    PROVE  (CHOOSE i \in S : \A j \in S : j <= i) = m
<1> DEFINE top == CHOOSE i \in S : \A j \in S : j <= i
<1>1. top \in S /\ \A j \in S : j <= top
    OBVIOUS
<1> HIDE DEF top
<1>2. top = m
    BY <1>1
<1> QED
    BY <1>2 DEF top

(* A reading with a value, and none with one after it, is the latest.      *)
LEMMA LatestIs ==
    ASSUME NEW f \in Field, polled \in Nat, NEW m \in 1..polled,
           weather[m][f] # None, \A j \in (m + 1)..polled : weather[j][f] = None
    PROVE  Latest(f) = weather[m][f]
<1> DEFINE known == {i \in 1..polled : weather[i][f] # None}
<1>1. known \in SUBSET Int /\ m \in known
    OBVIOUS
<1>2. \A j \in known : j <= m
    OBVIOUS
<1>3. (CHOOSE i \in known : \A j \in known : j <= i) = m
    <2> HIDE DEF known
    <2> QED BY <1>1, <1>2, Newest
<1>4. known # {}
    BY <1>1
<1> QED
    BY <1>3, <1>4 DEF Latest

(* It depends on the readings polled alone. *)
LEMMA LatestKept ==
    ASSUME NEW f \in Field, weather' = weather,
           {i \in 1..polled' : weather[i][f] # None} = {i \in 1..polled : weather[i][f] # None}
    PROVE  Latest(f)' = Latest(f)
<1> DEFINE latest(S) == IF S = {} THEN None
                        ELSE weather[CHOOSE i \in S : \A j \in S : j <= i][f]
           known == {i \in 1..polled : weather[i][f] # None}
           later == {i \in 1..polled' : weather[i][f] # None}
<1>1. Latest(f) = latest(known)
    BY DEF Latest
<1>2. Latest(f)' = latest(later)
    BY DEF Latest
<1>3. later = known
    OBVIOUS
<1> HIDE DEF latest, known, later
<1> QED
    BY <1>1, <1>2, <1>3

LEMMA FreshKept ==
    ASSUME Fresh, weather' = weather, weatherAt' = weatherAt, polled' = polled,
           hash'.weather = hash.weather
    PROVE  Fresh'
<1> SUFFICES ASSUME NEW f \in Field, \A j \in (weatherAt + 2)..polled : weather[j][f] = None
             PROVE  hash.weather[f] = Latest(f)'
    BY DEF Fresh
<1>1. Latest(f)' = Latest(f)
    BY LatestKept
<1> QED
    BY <1>1 DEF Fresh

LEMMA WeatherInit == Init => WeatherInv
<1> SUFFICES ASSUME Init PROVE WeatherInv
    OBVIOUS
<1> PICK topics \in Topics : demand = topics.demand /\ weather = topics.weather
    BY DEF Init
<1>1. Readings
    BY Numbers DEF Readings
<1>2. Stamped
    BY DEF Init, Stamped, Reading
<1>3. /\ committed \in [Consumer -> Nat] /\ position = committed
      /\ pending = committed
      /\ committed["weather"] = 0
    BY DEF Init, Consumer
<1>4. NoneSkipped
    BY <1>1, <1>3 DEF Init, NoneSkipped, Readings
<1>5. Fresh
    BY DEF Init, Fresh, Latest
<1> QED
    BY <1>1, <1>2, <1>3, <1>4, <1>5 DEF WeatherInv, Offsets

(* What a step does to the weather fields: nothing, but for a write.       *)
LEMMA StampedStep == Stamped /\ Readings /\ position \in [Consumer -> Nat] /\ [Next]_vars => Stamped'
<1> SUFFICES ASSUME Stamped, Readings, position \in [Consumer -> Nat], [Next]_vars
             PROVE  Stamped'
    OBVIOUS
<1> USE NoneApart
<1>1. CASE WriteWeather
    <2> DEFINE reading == CurrentReading
    <2>1. reading \in Reading
        BY <1>1 DEF WriteWeather, CanWrite, CurrentReading, Readings, Consumer
    <2>2. /\ hash'.weather = Overlay(hash.weather, reading)
          /\ hash'.computedAt = now
          /\ now' = now
          /\ writtenAt' = [f \in Field |-> IF reading[f] = None THEN writtenAt[f] ELSE now]
          /\ DOMAIN hash' = DOMAIN hash
        <3>1. \/ hash' = [hash EXCEPT !.weather = Overlay(@, CurrentReading), !.computedAt = now]
            BY <1>1 DEF WriteWeather
        <3> QED BY <1>1, <3>1 DEF WriteWeather, Stamped
    <2> HIDE DEF reading
    <2>3. hash'.weather \in Reading
        BY <2>1, <2>2 DEF Overlay, Reading, Stamped
    <2>4. writtenAt' \in [Field -> Nat \cup {None}]
        BY <2>2 DEF Stamped
    <2>5. \A f \in Field : writtenAt'[f] # None => writtenAt'[f] <= now
        BY <2>2, NoneApart DEF Stamped
    <2>6. \A f \in Field : hash'.weather[f] # None => writtenAt'[f] # None
        BY <2>2 DEF Stamped, Overlay
    <2> QED
        BY <2>2, <2>3, <2>4, <2>5, <2>6, NoneApart DEF Stamped
<1>2. CASE StoreCounts \/ StoreFails
    <2>1. /\ UNCHANGED <<now, writtenAt>>
          /\ \/ hash' = hash
             \/ hash' = [hash EXCEPT !.windows = counts, !.computedAt = now]
        BY <1>2 DEF StoreCounts, StoreFails, weatherVars
    <2>2. /\ hash'.weather = hash.weather
          /\ hash'.computedAt \in {hash.computedAt, now}
          /\ DOMAIN hash' = DOMAIN hash
        BY <2>1 DEF Stamped
    <2>3. \A f \in Field : writtenAt[f] # None => writtenAt[f] \in Nat
        BY DEF Stamped
    <2> QED
        BY <2>1, <2>2, <2>3, NoneApart DEF Stamped
<1>3. CASE Tick
    BY <1>3 DEF Tick, weatherVars, Stamped
<1>4. CASE \/ Pipeline \/ PipelineFails \/ WeatherFails \/ (\E c \in Consumer : Commit(c))
           \/ Restart \/ UNCHANGED vars
    <2>1. UNCHANGED <<hash, now, writtenAt>>
        BY <1>4 DEF Pipeline, PipelineFails, WeatherFails, Commit, Restart, vars, weatherVars
    <2> QED
        BY <2>1 DEF Stamped
<1> QED
    BY <1>1, <1>2, <1>3, <1>4 DEF Next

(* Writing the reading at the consumer's position, new or old.             *)
LEMMA FreshWrite ==
    ASSUME Readings, Stamped, NoneSkipped, Fresh, position \in [Consumer -> Nat], WriteWeather
    PROVE  Fresh'
<1> DEFINE p == position["weather"]
<1>1. /\ p \in Nat /\ p < Len(weather) /\ p <= weatherAt + 1 /\ weatherAt + 1 <= polled
      /\ weatherAt \in Int /\ polled \in Nat
    BY DEF WriteWeather, CanWrite, NoneSkipped
<1>2. /\ weather' = weather /\ weatherAt' = p
      /\ polled' = IF p < polled THEN polled ELSE polled + 1
    BY DEF WriteWeather, NotePolled, kafkaVars
<1>3. \A f \in Field : hash'.weather[f] =
          IF weather[p + 1][f] = None THEN hash.weather[f] ELSE weather[p + 1][f]
    <2>1. hash' = [hash EXCEPT !.weather = Overlay(@, CurrentReading), !.computedAt = now]
        BY DEF WriteWeather
    <2> QED
        BY <2>1 DEF Overlay, CurrentReading, Stamped
<1> SUFFICES ASSUME NEW f \in Field, \A j \in (p + 2)..polled' : weather[j][f] = None
             PROVE  hash'.weather[f] = Latest(f)'
    BY <1>2 DEF Fresh
<1>4. p + 1 \in 1..polled' /\ polled' \in Nat
    BY <1>1, <1>2
<1> HIDE DEF p
<1>5. CASE weather[p + 1][f] # None
    <2>1. Latest(f)' = weather[p + 1][f]
        <3> DEFINE known == {i \in 1..polled' : weather[i][f] # None}
        <3>1. known \in SUBSET Int /\ p + 1 \in known
            BY <1>4, <1>5
        <3>2. \A j \in known : j <= p + 1
            BY <1>1, <1>4
        <3>3. (CHOOSE i \in known : \A j \in known : j <= i) = p + 1
            <4> HIDE DEF known
            <4> QED BY <3>1, <3>2, Newest
        <3>4. known # {}
            BY <3>1
        <3> QED
            BY <1>2, <3>3, <3>4 DEF Latest
    <2> QED
        BY <1>3, <1>5, <2>1
<1>6. CASE weather[p + 1][f] = None
    <2>1. \A j \in (weatherAt + 2)..polled : weather[j][f] = None
        BY <1>1, <1>2, <1>6
    <2>2. hash.weather[f] = Latest(f)
        BY <2>1 DEF Fresh
    <2>3. {i \in 1..polled' : weather[i][f] # None} = {i \in 1..polled : weather[i][f] # None}
        BY <1>1, <1>2, <1>6
    <2>4. Latest(f)' = Latest(f)
        BY <1>2, <2>3, LatestKept
    <2> QED
        BY <1>3, <1>6, <2>2, <2>4
<1> QED
    BY <1>5, <1>6

LEMMA WeatherStep == WeatherInv /\ [Next]_vars => WeatherInv'
<1> SUFFICES ASSUME WeatherInv, [Next]_vars PROVE WeatherInv'
    OBVIOUS
<1> USE DEF WeatherInv
<1>1. Readings' /\ weather' = weather
    BY DEF Next, vars, kafkaVars, Pipeline, StoreCounts, PipelineFails, StoreFails,
           WriteWeather, WeatherFails, Commit, Restart, Tick, Readings
<1>2. Stamped'
    BY StampedStep DEF Offsets
<1>3. CASE WriteWeather
    <2>1. /\ position' = [position EXCEPT !["weather"] = @ + 1]
          /\ pending' = [pending EXCEPT !["weather"] = position["weather"] + 1]
          /\ committed' = committed /\ refused' = refused
        BY <1>3 DEF WriteWeather, Advance, Note
    <2>2. Offsets'
        BY <2>1 DEF Consumer, Offsets
    <2>3. ASSUME ~refused PROVE NoneSkipped'
        <3>1. /\ weatherAt' = position["weather"]
              /\ position["weather"] < Len(weather) /\ Len(weather) \in Nat
              /\ polled' = IF position["weather"] < polled THEN polled ELSE polled + 1
            BY <1>3 DEF WriteWeather, CanWrite, NotePolled, Readings
        <3>2. /\ position'["weather"] = position["weather"] + 1
              /\ pending'["weather"] = position["weather"] + 1
              /\ committed'["weather"] = committed["weather"]
            BY <2>1 DEF Consumer, Offsets
        <3> QED
            BY <1>1, <2>3, <3>1, <3>2 DEF NoneSkipped
    <2>4. ASSUME ~refused PROVE Fresh'
        BY <1>2, <1>3, <2>4, FreshWrite DEF Offsets
    <2> QED
        BY <1>1, <1>2, <2>1, <2>2, <2>3, <2>4
<1>4. CASE WeatherFails
    <2>1. Offsets'
        BY <1>4 DEF WeatherFails, Advance, Consumer, Offsets
    <2> QED
        BY <1>1, <1>2, <1>4, <2>1 DEF WeatherFails
<1>5. CASE StoreCounts \/ StoreFails \/ PipelineFails
    <2>1. /\ committed' = committed
          /\ position' = [position EXCEPT !["demand"] = @ + 1]
          /\ \/ pending' = pending
             \/ pending' = [pending EXCEPT !["demand"] = position["demand"] + 1]
          /\ UNCHANGED weatherVars
        BY <1>5 DEF StoreCounts, StoreFails, PipelineFails, Advance, Note
    <2>2. Offsets'
        BY <2>1 DEF Consumer, Offsets
    <2>3. hash'.weather = hash.weather
        BY <1>5 DEF StoreCounts, StoreFails, PipelineFails, Stamped
    <2>4. ASSUME ~refused PROVE NoneSkipped' /\ Fresh'
        <3>1. Fresh'
            BY <1>1, <2>1, <2>3, <2>4, FreshKept DEF weatherVars
        <3> QED
            BY <1>1, <2>1, <2>4, <3>1 DEF NoneSkipped, weatherVars, Consumer, Offsets
    <2> QED
        BY <1>1, <1>2, <2>1, <2>2, <2>4 DEF weatherVars
<1>6. ASSUME NEW c \in Consumer, Commit(c) PROVE WeatherInv'
    <2>1. committed' = [committed EXCEPT ![c] = pending[c]] /\ UNCHANGED <<position, pending, hash, weatherVars>>
        BY <1>6 DEF Commit
    <2>2. Offsets'
        BY <2>1 DEF Offsets
    <2>3. ASSUME ~refused PROVE NoneSkipped' /\ Fresh'
        <3>1. Fresh'
            BY <1>1, <2>1, <2>3, FreshKept DEF weatherVars
        <3> QED
            BY <1>1, <2>1, <2>3, <3>1 DEF NoneSkipped, weatherVars, Consumer, Offsets
    <2> QED
        BY <1>1, <1>2, <2>1, <2>2, <2>3 DEF weatherVars
<1>7. CASE Restart
    <2>1. /\ position' = committed /\ pending' = committed
          /\ UNCHANGED <<committed, hash, weatherVars>>
        BY <1>7 DEF Restart
    <2>2. Offsets'
        BY <2>1 DEF Offsets
    <2>3. ASSUME ~refused PROVE NoneSkipped' /\ Fresh'
        <3>1. Fresh'
            BY <1>1, <2>1, <2>3, FreshKept DEF weatherVars
        <3> QED
            BY <1>1, <2>1, <2>3, <3>1 DEF NoneSkipped, weatherVars, Consumer, Offsets
    <2> QED
        BY <1>1, <1>2, <2>1, <2>2, <2>3 DEF weatherVars
<1>8. CASE Pipeline \/ Tick \/ UNCHANGED vars
    <2>1. UNCHANGED <<committed, position, pending, hash, weatherVars>>
        BY <1>8 DEF Pipeline, Tick, vars
    <2>2. ASSUME ~refused PROVE NoneSkipped' /\ Fresh'
        <3>1. Fresh'
            BY <1>1, <2>1, <2>2, FreshKept DEF weatherVars
        <3> QED
            BY <1>1, <2>1, <2>2, <3>1 DEF NoneSkipped, weatherVars
    <2> QED
        BY <1>1, <1>2, <2>1, <2>2 DEF weatherVars, Offsets
<1> QED
    BY <1>3, <1>4, <1>5, <1>6, <1>7, <1>8 DEF Next

LEMMA WeatherInvariant == Spec => []WeatherInv
BY WeatherInit, WeatherStep, PTL DEF Spec

(* When the newest reading polled is the one last written, the hash holds  *)
(* for every field the latest value that is not null, however often older  *)
(* readings were written over newer ones after a restart (redis_ops.py     *)
(* 160-185).                                                               *)
THEOREM LatestWeatherHolds == Spec => []LatestWeather
<1>1. WeatherInv => LatestWeather
    <2> SUFFICES ASSUME WeatherInv, weatherAt = polled - 1, ~refused, NEW f \in Field
                 PROVE  hash.weather[f] = Latest(f)
        BY DEF LatestWeather
    <2>1. (weatherAt + 2)..polled = {}
        BY DEF WeatherInv, NoneSkipped
    <2> QED
        BY <2>1 DEF WeatherInv, Fresh
<1> QED
    BY <1>1, WeatherInvariant, PTL

(* A field the API flags as degraded was written longer ago than its SLA,  *)
(* although one stamp serves every field of the hash (online.py 198-267).  *)
THEOREM FlaggedAreStale == Spec => []FlaggedIsStale
<1>1. WeatherInv => FlaggedIsStale
    <2> SUFFICES ASSUME WeatherInv, NEW f \in Degraded
                 PROVE  writtenAt[f] # None /\ now - writtenAt[f] > SLA
        BY DEF FlaggedIsStale
    <2>1. writtenAt[f] # None
        BY DEF Degraded, WeatherInv, Stamped
    <2>2. /\ writtenAt[f] \in Nat /\ hash.computedAt \in Nat /\ now \in Nat
          /\ writtenAt[f] <= hash.computedAt /\ now - hash.computedAt > SLA
        BY <2>1 DEF Degraded, WeatherInv, Stamped
    <2> QED
        BY <2>1, <2>2, RouteFeaturesAssumption DEF RouteFeaturesAssumption
<1> QED
    BY <1>1, WeatherInvariant, PTL
----------------------------------------------------------------------------
(* The types *)

LEMMA CountTyped ==
    ASSUME Shape, NEW zset \in SUBSET Logged, NEW lo, NEW hi
    PROVE  ZCount(zset, lo, hi) \in Nat
<1> DEFINE members == {m \in zset : lo <= m.ts /\ m.ts <= hi}
<1>1. members \in SUBSET Logged
    OBVIOUS
<1> HIDE DEF members
<1>2. Cardinality({x.id : x \in members}) \in Nat
    BY <1>1, IdsFinite, FS_CardinalityType
<1> QED
    BY <1>2 DEF ZCount, members

(* Counts of logged events are numbers, and a ratio has two.               *)
LEMMA WindowsTyped ==
    ASSUME Shape, NEW s \in SUBSET Logged, NEW b \in SUBSET Logged, NEW T
    PROVE  Windows(s, b, T) \in WindowsType
<1>1. /\ ZCount(s, T - W5m, T) \in Nat /\ ZCount(b, T - W15m, T) \in Nat
      /\ ZCount(b, T - W1h, T) \in Nat /\ ZCount(s, T - W1h, T) \in Nat
    BY CountTyped
<1>2. LookToBook(ZCount(b, T - W1h, T), ZCount(s, T - W1h, T)) \in Nat \X Nat
    BY <1>1 DEF LookToBook
<1> QED
    BY <1>1, <1>2 DEF Windows, WindowsType, Counter

(* What the other invariants do not say of the types.                      *)
Rest ==
    /\ counts \in WindowsType
    /\ hash \in [windows : WindowsType, weather : Reading, computedAt : Nat \cup {None}]
    /\ now \in 0..MaxNow
    /\ polled \in Nat /\ weatherAt \in Nat \cup {-1}
    /\ refused \in BOOLEAN /\ budget \in 0..MaxFaults

LEMMA NothingTyped == NoWindows \in WindowsType
BY DEF NoWindows, WindowsType, Counter

LEMMA RestInit == Init => Rest
<1> SUFFICES ASSUME Init PROVE Rest
    OBVIOUS
<1>1. [f \in Field |-> None] \in Reading
    BY DEF Reading
<1>2. hash \in [windows : WindowsType, weather : Reading, computedAt : Nat \cup {None}]
    BY <1>1, NothingTyped DEF Init
<1>3. MaxNow \in Nat /\ MaxFaults \in Nat
    BY RouteFeaturesAssumption DEF RouteFeaturesAssumption
<1>4. refused \in BOOLEAN
    BY DEF Init
<1>5. /\ now \in 0..MaxNow /\ budget \in 0..MaxFaults /\ counts \in WindowsType
      /\ polled \in Nat /\ weatherAt \in Nat \cup {-1}
    BY <1>3, NothingTyped DEF Init
<1> QED
    BY <1>2, <1>4, <1>5 DEF Rest

LEMMA RestStep == IInv /\ WeatherInv /\ Rest /\ [Next]_vars => Rest'
<1> SUFFICES ASSUME IInv, WeatherInv, Rest, [Next]_vars PROVE Rest'
    OBVIOUS
<1>1. IInv'
    BY InvStep
<1>2. counts' \in WindowsType
    <2>1. CASE Pipeline
        <3>1. counts' = Windows(searches', bookings', Current.ts) /\ demand' = demand
            BY <2>1 DEF Pipeline, kafkaVars
        <3>2. searches' \in SUBSET Logged /\ bookings' \in SUBSET Logged
            BY <1>1, <3>1 DEF IInv, Covered, Covers, Logged
        <3> QED
            BY <3>1, <3>2, WindowsTyped DEF IInv
    <2>2. CASE ~Pipeline
        <3>1. counts' = counts \/ counts' = NoWindows
            BY <2>2 DEF Next, vars, StoreCounts, PipelineFails, StoreFails, WriteWeather,
                       WeatherFails, Commit, Restart, Tick
        <3> QED
            BY <3>1, NothingTyped DEF Rest
    <2> QED
        BY <2>1, <2>2
<1>3. hash' \in [windows : WindowsType, weather : Reading, computedAt : Nat \cup {None}]
    <2>1. now \in Nat
        BY DEF Rest
    <2>2. CASE hash' = [hash EXCEPT !.windows = counts, !.computedAt = now]
        BY <2>1, <2>2 DEF Rest
    <2>3. CASE WriteWeather
        <3>1. Overlay(hash.weather, CurrentReading) \in Reading
            <4>1. CurrentReading \in Reading
                BY <2>3 DEF WriteWeather, CanWrite, CurrentReading, WeatherInv, Readings, Offsets, Consumer
            <4> QED
                BY <4>1 DEF Overlay, Reading, Rest
        <3>2. hash' = [hash EXCEPT !.weather = Overlay(@, CurrentReading), !.computedAt = now]
            BY <2>3 DEF WriteWeather
        <3> QED
            BY <2>1, <3>1, <3>2 DEF Rest
    <2>4. \/ hash' = hash \/ WriteWeather
          \/ hash' = [hash EXCEPT !.windows = counts, !.computedAt = now]
        BY DEF Next, vars, Pipeline, StoreCounts, PipelineFails, StoreFails, WeatherFails,
               Commit, Restart, Tick
    <2> QED
        BY <2>2, <2>3, <2>4 DEF Rest
<1>4. now' \in 0..MaxNow
    <2>1. now' = now \/ (now < MaxNow /\ now' = now + 1)
        BY DEF Next, vars, Pipeline, StoreCounts, PipelineFails, StoreFails, WriteWeather,
               WeatherFails, Commit, Restart, Tick
    <2> QED
        BY <2>1, RouteFeaturesAssumption DEF Rest, RouteFeaturesAssumption
<1>5. polled' \in Nat /\ weatherAt' \in Nat \cup {-1} /\ refused' \in BOOLEAN
    <2>1. position["weather"] \in Nat
        BY DEF WeatherInv, Offsets, Consumer
    <2>2. /\ polled' \in {polled, polled + 1}
          /\ weatherAt' \in {weatherAt, position["weather"]}
          /\ refused' = refused \/ refused' = TRUE
        BY DEF Next, vars, Pipeline, StoreCounts, PipelineFails, StoreFails, WriteWeather,
               WeatherFails, NotePolled, Commit, Restart, Tick, weatherVars
    <2>3. refused \in BOOLEAN /\ polled \in Nat /\ weatherAt \in Nat \cup {-1}
        BY DEF Rest
    <2>4. refused' \in BOOLEAN
        BY <2>2, <2>3
    <2> QED
        BY <2>1, <2>2, <2>3, <2>4
<1>6. budget' \in 0..MaxFaults
    <2>1. budget' = budget \/ (budget > 0 /\ budget' = budget - 1)
        BY DEF Next, vars, Pipeline, StoreCounts, PipelineFails, StoreFails, WriteWeather,
               WeatherFails, Commit, Restart, Tick, Fault
    <2> QED
        BY <2>1, RouteFeaturesAssumption DEF Rest, RouteFeaturesAssumption
<1> QED
    BY <1>2, <1>3, <1>4, <1>5, <1>6 DEF Rest

(* Every variable keeps its type: counts are numbers, the offsets of both  *)
(* consumers natural, and no stamp is beyond the clock's last value.       *)
THEOREM TypeCorrect == Spec => []TypeOK
<1>1. Spec => [](IInv /\ WeatherInv /\ Rest)
    BY InitInv, InvStep, WeatherInit, WeatherStep, RestInit, RestStep, PTL DEF Spec
<1>2. IInv /\ WeatherInv /\ Rest => TypeOK
    <2> SUFFICES ASSUME IInv, WeatherInv, Rest PROVE TypeOK
        OBVIOUS
    <2>1. searches \subseteq Event /\ bookings \subseteq Event /\ counted \subseteq Event
        BY LoggedEvents DEF IInv, Shape, Covered, Covers
    <2>2. hash.computedAt \in (0..MaxNow) \cup {None}
        BY RouteFeaturesAssumption DEF WeatherInv, Stamped, Rest, RouteFeaturesAssumption
    <2>3. hash \in [windows : WindowsType, weather : Reading,
                    computedAt : (0..MaxNow) \cup {None}]
        BY <2>2 DEF Rest
    <2>4. writtenAt \in [Field -> (0..MaxNow) \cup {None}]
        <3>1. \A f \in Field : writtenAt[f] \in (0..MaxNow) \cup {None}
            <4> SUFFICES ASSUME NEW f \in Field, writtenAt[f] # None
                         PROVE  writtenAt[f] \in 0..MaxNow
                OBVIOUS
            <4>1. /\ writtenAt[f] \in Nat /\ writtenAt[f] <= hash.computedAt
                  /\ hash.computedAt # None /\ hash.computedAt \in (0..MaxNow) \cup {None}
                BY <2>2 DEF WeatherInv, Stamped
            <4> QED
                BY <4>1, RouteFeaturesAssumption DEF RouteFeaturesAssumption
        <3> QED
            BY <3>1 DEF WeatherInv, Stamped
    <2>5. /\ demand \in Seq(Event) /\ weather \in Seq(Reading) /\ trims \subseteq Int
          /\ phase \in {"idle", "counted"}
          /\ committed \in [Consumer -> Nat]
          /\ position \in [Consumer -> Nat] /\ pending \in [Consumer -> Nat]
        BY DEF IInv, Shape, WeatherInv, Readings, Offsets
    <2> QED
        BY <2>1, <2>3, <2>4, <2>5 DEF Rest, TypeOK
<1> QED
    BY <1>1, <1>2, PTL
=============================================================================
