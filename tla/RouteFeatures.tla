--------------------------- MODULE RouteFeatures ---------------------------
(***************************************************************************)
(* The online features of one route: the Redis updates of                  *)
(* services/worker/app/stream_features/redis_ops.py, the read of           *)
(* services/api/app/features/online.py, and as their reference the         *)
(* reconstruction from the lake of tools/reconstruct.py.                   *)
(*                                                                         *)
(* A demand event is added to a sorted set, both sets are trimmed by its   *)
(* timestamp and counted, and a second round trip stores the counts in the *)
(* route's hash.  A weather reading overwrites the fields it has a value   *)
(* for.  Both stamp the hash with the same wall-clock field.  A route's    *)
(* events are in one partition; what the consumer loop does around an      *)
(* update is StreamFeatures, of which only the offsets are kept here.      *)
(***************************************************************************)
EXTENDS Integers, Sequences, FiniteSets

CONSTANTS
    Topics,         \* the topics' contents considered: a set of records
    Id, Value,      \* event ids; values of a weather field
    Field,          \* the weather fields of the hash
    None,           \* a field that is null, or absent from the hash
    Second,         \* the ticks of a second: timestamps are fractions of one
    W5m, W15m, W1h, \* the window lengths, in ticks
    SLA,            \* how old a weather value may be
    Faults,         \* the kinds of fault the environment may inject
    MaxFaults,      \* bound: how many faults one behaviour may contain
    MaxNow          \* bound: the wall clock's last value

EventType == {"search", "booking", "cancellation"}
Event   == [id : Id, type : EventType, ts : Int]
Reading == [Field -> Value \cup {None}]
FaultKind == {"kill", "redis"}

(* A producer that retries may write an event twice, but an id names one   *)
(* event (producer.py mints it with the payload).                          *)
RouteFeaturesAssumption ==
    /\ Topics \subseteq [demand : Seq(Event), weather : Seq(Reading)]
    /\ \A topics \in Topics : \A i, j \in DOMAIN topics.demand :
          topics.demand[i].id = topics.demand[j].id
              => topics.demand[i] = topics.demand[j]
    /\ None \notin Value \cup Nat
    /\ Second \in Nat \ {0}
    /\ W5m \in Nat /\ W15m \in Nat /\ W1h \in Nat /\ SLA \in Nat
    /\ W5m <= W15m /\ W15m <= W1h
    /\ Faults \subseteq FaultKind /\ MaxFaults \in Nat /\ MaxNow \in Nat

ASSUME RouteFeaturesAssumption

Consumer == {"demand", "weather"}

VARIABLES
    demand, weather,       \* Kafka: the route's partition of the two topics
    committed,             \* the offset each consumer group committed
    position, pending,     \* the consumers: next offset; what to commit
    phase, counts,         \* a demand update between its round trips; its result
    searches, bookings,    \* Redis: the sorted sets, members scored by ts
    hash,                  \* Redis: the route's hash
    now,                   \* the wall clock
    counted,               \* history: the events some ZADD was executed for
    trims,                 \* history: the timestamps the sets were trimmed for
    polled, weatherAt,     \* history: readings polled; the one last written
    refused,               \* history: did Redis refuse a reading?
    writtenAt,             \* history: when each weather field was written
    budget                 \* faults still allowed

kafkaVars   == <<demand, weather>>
setVars     == <<searches, bookings, counted, trims>>
weatherVars == <<polled, weatherAt, refused, writtenAt>>
vars == <<kafkaVars, committed, position, pending, phase, counts, setVars, hash,
          now, weatherVars, budget>>

----------------------------------------------------------------------------
(* Windows.  A route's hash keeps the ratio; here, its two terms. *)

LookToBook(booked, looked) == <<booked, IF looked = 0 THEN 1 ELSE looked>>

ZCount(zset, lo, hi) == Cardinality({e.id : e \in {m \in zset : lo <= m.ts /\ m.ts <= hi}})

Windows(s, b, T) ==
    [searches_5m     |-> ZCount(s, T - W5m, T),
     bookings_15m    |-> ZCount(b, T - W15m, T),
     look_to_book_1h |-> LookToBook(ZCount(b, T - W1h, T), ZCount(s, T - W1h, T))]

(* tools/reconstruct.py: the same windows from a set of recorded events.   *)
CountDistinct(events, type, w, T) ==
    Cardinality({e.id : e \in {x \in events : x.type = type /\ x.ts \in (T - w)..T}})

Reconstruct(events, T) ==
    [searches_5m     |-> CountDistinct(events, "search", W5m, T),
     bookings_15m    |-> CountDistinct(events, "booking", W15m, T),
     look_to_book_1h |-> LookToBook(CountDistinct(events, "booking", W1h, T),
                                    CountDistinct(events, "search", W1h, T))]

NoWindows == [searches_5m |-> None, bookings_15m |-> None, look_to_book_1h |-> None]

----------------------------------------------------------------------------

Fault(kind) == kind \in Faults /\ budget > 0 /\ budget' = budget - 1

Init ==
    /\ \E topics \in Topics : demand = topics.demand /\ weather = topics.weather
    /\ committed = [c \in Consumer |-> 0]
    /\ position = committed /\ pending = committed
    /\ phase = "idle" /\ counts = NoWindows
    /\ searches = {} /\ bookings = {} /\ counted = {} /\ trims = {}
    /\ hash = [windows |-> NoWindows, weather |-> [f \in Field |-> None],
               computedAt |-> None]
    /\ now = 0
    /\ polled = 0 /\ weatherAt = -1 /\ refused = FALSE
    /\ writtenAt = [f \in Field |-> None]
    /\ budget = MaxFaults

Advance(c) == position' = [position EXCEPT ![c] = @ + 1]
Note(c) == pending' = [pending EXCEPT ![c] = position[c] + 1]

(* The consumers *)
CanUpdate == phase = "idle" /\ position["demand"] < Len(demand)

Current == demand[position["demand"] + 1]

(* A member has one score. *)
ZAdd(zset, e) == {m \in zset : m.id # e.id} \cup {e}

AddTo(zset, type, e) == IF e.type = type THEN ZAdd(zset, e) ELSE zset

(* Variant: the boundary of the longest window is trimmed too. *)
TrimmedToBoundary(zset, T) == {m \in zset : m.ts > T - W1h}

(* The trim goes up to a second before the longest window begins: members  *)
(* of that second stay, a score being a float of seconds.                  *)
Trimmed(zset, T) == {m \in zset : m.ts > T - W1h - Second}

NoteCounted(e) ==
    counted' = IF e.type = "cancellation" THEN counted ELSE counted \cup {e}

(* The first round trip: add, trim both sets, count.  Every command sees   *)
(* what those before it in the pipeline did.                               *)
Pipeline ==
    /\ CanUpdate
    /\ LET e == Current
       IN /\ searches' = Trimmed(AddTo(searches, "search", e), e.ts)
          /\ bookings' = Trimmed(AddTo(bookings, "booking", e), e.ts)
          /\ counts' = Windows(searches', bookings', e.ts)
          /\ NoteCounted(e)
          /\ trims' = trims \cup {e.ts}
    /\ phase' = "counted"
    /\ UNCHANGED <<kafkaVars, committed, position, pending, hash, now,
                   weatherVars, budget>>

(* The second: the hash.  The event then goes to the lake's buffer and its *)
(* offset may be committed.                                                *)
StoreCounts ==
    /\ phase = "counted"
    /\ hash' = [hash EXCEPT !.windows = counts, !.computedAt = now]
    /\ phase' = "idle" /\ counts' = NoWindows
    /\ Advance("demand") /\ Note("demand")
    /\ UNCHANGED <<kafkaVars, committed, setVars, now, weatherVars, budget>>

(* RedisError in the first round trip.  The pipeline is no transaction:    *)
(* Redis may have executed any prefix of it.  The loop goes on.            *)
PipelineFails ==
    /\ CanUpdate
    /\ Fault("redis")
    /\ LET e == Current
           s == AddTo(searches, "search", e)
           b == AddTo(bookings, "booking", e)
       IN \/ UNCHANGED setVars
          \/ /\ searches' = s /\ bookings' = b /\ NoteCounted(e)
             /\ UNCHANGED trims
          \/ /\ searches' = Trimmed(s, e.ts)
             /\ bookings' \in {b, Trimmed(b, e.ts)}
             /\ NoteCounted(e)
             /\ trims' = trims \cup {e.ts}
    /\ Advance("demand")
    /\ UNCHANGED <<kafkaVars, committed, pending, phase, counts, hash, now,
                   weatherVars>>

(* RedisError in the second; the hash may have been written all the same.  *)
StoreFails ==
    /\ phase = "counted"
    /\ Fault("redis")
    /\ \/ UNCHANGED hash
       \/ hash' = [hash EXCEPT !.windows = counts, !.computedAt = now]
    /\ phase' = "idle" /\ counts' = NoWindows
    /\ Advance("demand")
    /\ UNCHANGED <<kafkaVars, committed, pending, setVars, now, weatherVars>>

CanWrite == position["weather"] < Len(weather)

CurrentReading == weather[position["weather"] + 1]

NotePolled == polled' = IF position["weather"] < polled THEN polled ELSE polled + 1

(* Variant: a null is stored. *)
OverlayStoresNull(fields, reading) == reading

Overlay(fields, reading) ==
    [f \in Field |-> IF reading[f] = None THEN fields[f] ELSE reading[f]]

(* Variant: the reading does not stamp the hash. *)
WriteWeatherUnstamped ==
    /\ CanWrite
    /\ hash' = [hash EXCEPT !.weather = Overlay(@, CurrentReading)]
    /\ writtenAt' = [f \in Field |-> IF CurrentReading[f] = None THEN writtenAt[f] ELSE now]
    /\ weatherAt' = position["weather"]
    /\ NotePolled
    /\ Advance("weather") /\ Note("weather")
    /\ UNCHANGED <<kafkaVars, committed, phase, counts, setVars, now, refused,
                   budget>>

WriteWeather ==
    /\ CanWrite
    /\ hash' = [hash EXCEPT !.weather = Overlay(@, CurrentReading), !.computedAt = now]
    /\ writtenAt' = [f \in Field |-> IF CurrentReading[f] = None THEN writtenAt[f] ELSE now]
    /\ weatherAt' = position["weather"]
    /\ NotePolled
    /\ Advance("weather") /\ Note("weather")
    /\ UNCHANGED <<kafkaVars, committed, phase, counts, setVars, now, refused,
                   budget>>

WeatherFails ==
    /\ CanWrite
    /\ Fault("redis")
    /\ refused' = TRUE
    /\ NotePolled
    /\ Advance("weather")
    /\ UNCHANGED <<kafkaVars, committed, pending, phase, counts, setVars, hash, now, weatherAt, writtenAt>>

(* The rest of the loops: offsets are committed between two messages.      *)
Commit(c) ==
    /\ c = "demand" => phase = "idle"
    /\ committed[c] < pending[c]
    /\ committed' = [committed EXCEPT ![c] = pending[c]]
    /\ UNCHANGED <<kafkaVars, position, pending, phase, counts, setVars, hash, now, weatherVars, budget>>

(* The worker is killed and started again.                                 *)
Restart ==
    /\ Fault("kill")
    /\ position' = committed /\ pending' = committed
    /\ phase' = "idle" /\ counts' = NoWindows
    /\ UNCHANGED <<kafkaVars, committed, setVars, hash, now, weatherVars>>

Tick ==
    /\ now < MaxNow
    /\ now' = now + 1
    /\ UNCHANGED <<kafkaVars, committed, position, pending, phase, counts, setVars,
                   hash, weatherVars, budget>>

Next ==
    \/ Pipeline \/ StoreCounts \/ PipelineFails \/ StoreFails
    \/ WriteWeather \/ WeatherFails
    \/ \E c \in Consumer : Commit(c)
    \/ Restart \/ Tick

Spec == Init /\ [][Next]_vars

----------------------------------------------------------------------------
(* The API's read: which fields it would flag as degraded, from one age.   *)

Degraded == {f \in Field : /\ hash.weather[f] # None
                           /\ hash.computedAt # None
                           /\ now - hash.computedAt > SLA}

----------------------------------------------------------------------------
(* Properties *)

Counter == Nat \cup {None}
WindowsType == [searches_5m : Counter, bookings_15m : Counter,
                look_to_book_1h : (Nat \X Nat) \cup {None}]

TypeOK ==
    /\ demand \in Seq(Event) /\ weather \in Seq(Reading)
    /\ committed \in [Consumer -> Nat]
    /\ position \in [Consumer -> Nat] /\ pending \in [Consumer -> Nat]
    /\ phase \in {"idle", "counted"} /\ counts \in WindowsType
    /\ searches \subseteq Event /\ bookings \subseteq Event
    /\ counted \subseteq Event /\ trims \subseteq Int
    /\ hash \in [windows : WindowsType, weather : Reading,
                 computedAt : (0..MaxNow) \cup {None}]
    /\ now \in 0..MaxNow
    /\ polled \in Nat /\ weatherAt \in Nat \cup {-1} /\ refused \in BOOLEAN
    /\ writtenAt \in [Field -> (0..MaxNow) \cup {None}]
    /\ budget \in 0..MaxFaults

(* A window of width w ending at T has lost nothing to a trim.             *)
Kept(w, T) == \A t \in trims : T - w >= t - W1h

(* What an update counts is what the reconstruction finds in the events    *)
(* added to the sets so far, for every window that starts within the hour  *)
(* before every event processed: late by as much as the widths leave, with *)
(* events redelivered, written twice, or failed half-way.  Redelivery      *)
(* never inflates a count, even where a late event has lost members        *)
(* (redis_ops.py 99-124, reconstruct.py 193-270).                          *)
WindowsExact ==
    phase = "counted" =>
        LET T == Current.ts
            R == Reconstruct(counted, T)
        IN /\ Kept(W5m, T) => counts.searches_5m = R.searches_5m
           /\ Kept(W15m, T) => counts.bookings_15m = R.bookings_15m
           /\ Kept(W1h, T) => counts.look_to_book_1h = R.look_to_book_1h
           /\ counts.searches_5m <= R.searches_5m
           /\ counts.bookings_15m <= R.bookings_15m

(* What the sorted sets hold after an update: of the events ever added all *)
(* that lie in the hour before every trim, and none that is a second or    *)
(* more older than the hour of this update (redis_ops.py 11-12, 108-113).  *)
SetsHoldTheHour ==
    phase = "counted" =>
        LET kept == searches \cup bookings
        IN /\ \A m \in kept : m \in counted /\ m.ts > Current.ts - W1h - Second
           /\ \A e \in counted : (\A t \in trims : t - W1h <= e.ts) => e \in kept

(* The newest reading polled so far that has a value for the field.        *)
Latest(f) ==
    LET known == {i \in 1..polled : weather[i][f] # None}
    IN IF known = {} THEN None
       ELSE weather[CHOOSE i \in known : \A j \in known : j <= i][f]

(* When the newest reading polled is the one last written, the hash holds  *)
(* for every field the latest value that is not null, also after a restart *)
(* had older readings written over newer ones (redis_ops.py 160-185).      *)
LatestWeather ==
    (weatherAt = polled - 1 /\ ~refused) => \A f \in Field : hash.weather[f] = Latest(f)

(* A field the API flags as degraded was written longer ago than its SLA   *)
(* (online.py 198-267).                                                    *)
FlaggedIsStale ==
    \A f \in Degraded : writtenAt[f] # None /\ now - writtenAt[f] > SLA
=============================================================================
