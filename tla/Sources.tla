------------------------------- MODULE Sources -------------------------------
(* Where the data comes from: the event generator with its simulated clock,  *)
(* the weather poller, the mock weather API it polls with its chaos controls, *)
(* and the Kafka producer the first two share the code of.                   *)
(*                                                                           *)
(* A demand message stands for the events of a city in one tick: of all six  *)
(* types, or of those handed over before a kill or a full queue cut the city *)
(* short.  A reading is a function of the city and the hour and stands for   *)
(* every poll of the city in that hour.                                      *)
(* The topics hold sets of messages: the producer retries without            *)
(* idempotence, so a message may be there twice, with the event id the       *)
(* consumers deduplicate on.                                                 *)
EXTENDS Clock, FiniteSets, SequencesExt

CONSTANTS
    QueueMax,     \* queue.buffering.max.messages of the producer
    Ahead,        \* bound: how many hours the simulated clock may be ahead
    ChaosUpdates  \* the bodies POST /admin/chaos is called with

ASSUME SourcesAssumption == {QueueMax, Ahead} \subseteq Nat \ {0}

VARIABLES
    gen,       \* the generator: step, next city, simulated hour, times started
    poller,    \* the poller: step, next city
    asked,     \* the processes that have got SIGTERM
    chaos,     \* ChaosConfig of the mock weather API
    queue,     \* process -> messages handed to its producer and not delivered
    topics,    \* the messages in the topics
    broker,    \* the broker can be reached
    produced,  \* history: every message handed to a producer
    excused    \* history: programs that were killed, cut off from the broker, or
               \*   out of time in their last flush

sourceVars == <<gen, poller, asked, chaos, queue, topics, broker, produced, excused>>

Program == {"generator", "poller"}
Rate == {"never", "sometimes", "always"}

-----------------------------------------------------------------------------
(* common.generator: the same city and hour give the same reading, in        *)
(* whatever process it is drawn.                                             *)
GenerateReading(city, hour) == <<city, hour>>

(* The generator's quantities hash strings into their seed, which Python     *)
(* salts per process: they repeat within one start only.                     *)
GenerateQuantity(city, hour) == <<GenerateReading(city, hour), gen.starts>>

-----------------------------------------------------------------------------
(* The mock weather API                                                      *)

(* Injected before the handler runs: a 503, after a delay that is longer     *)
(* than the poller's timeout or is not.                                      *)
Dispatch(cfg) ==
    IF cfg.latency = "long" THEN {"timeout"}
    ELSE (IF cfg.errors # "never" THEN {"503"} ELSE {})
            \cup (IF cfg.errors # "always" THEN {"handler"} ELSE {})

(* The body: whole, with a null for a value, for a nested object, or for     *)
(* currentConditions itself, the only outcome when every field is nulled.    *)
Nullify(rate) ==
    CASE rate = "never"     -> {"whole"}
      [] rate = "sometimes" -> {"whole", "null value", "null object", "null conditions"}
      [] rate = "always"    -> {"null conditions"}

Drift(body) == IF body = "null conditions" THEN body ELSE "renamed"

ApplyChaos(cfg) ==
    IF cfg.drift THEN {Drift(b) : b \in Nullify(cfg.nulls)} ELSE Nullify(cfg.nulls)

(* A partial update: what the request leaves out stays. *)
SetChaos ==
    /\ \E update \in ChaosUpdates : chaos' = [k \in DOMAIN chaos |->
           IF k \in DOMAIN update THEN update[k] ELSE chaos[k]]
    /\ UNCHANGED <<gen, poller, asked, queue, topics, broker, produced, excused>>

Calm == [latency |-> "none", errors |-> "never", nulls |-> "never", drift |-> FALSE]

-----------------------------------------------------------------------------
(* EventProducer                                                             *)

Full(p) == Len(queue[p]) >= QueueMax

Produce(p, msg) ==
    /\ queue' = [queue EXCEPT ![p] = Append(@, msg)]
    /\ produced' = produced \cup {msg}

(* librdkafka sends in the background, in order. *)
Deliver(p) ==
    /\ broker /\ queue[p] # <<>>
    /\ topics' = topics \cup {Head(queue[p])}
    /\ queue' = [queue EXCEPT ![p] = Tail(@)]
    /\ UNCHANGED <<gen, poller, asked, chaos, broker, produced, excused>>

(* Retries or the message's timeout run out: the callback logs it. *)
GiveUp(p) ==
    /\ ~broker /\ queue[p] # <<>>
    /\ queue' = [queue EXCEPT ![p] = Tail(@)]
    /\ UNCHANGED <<gen, poller, asked, chaos, topics, broker, produced, excused>>

BrokerDown ==
    /\ broker /\ broker' = FALSE
    /\ excused' = excused \cup {p \in Program : queue[p] # <<>>}
    /\ UNCHANGED <<gen, poller, asked, chaos, queue, topics, produced>>

BrokerUp ==
    /\ ~broker /\ broker' = TRUE
    /\ UNCHANGED <<gen, poller, asked, chaos, queue, topics, produced, excused>>

(* Variant: the program ends without a flush. *)
FlushedAlready(p) == TRUE

(* __exit__ of the producer, however the block was left: flush waits for the *)
(* queue to empty, ten seconds at most; FlushTimesOut has the end of that    *)
(* time while the broker is there.                                           *)
Flushed(p) == queue[p] = <<>> \/ ~broker
Drop(p) == queue' = [queue EXCEPT ![p] = <<>>]

(* A message handed over while the broker is away is excused as well. *)
Excuse(p) == excused' = IF broker THEN excused ELSE excused \cup {p}

-----------------------------------------------------------------------------
(* The event generator                                                       *)

DemandEvent(city) ==
    [table |-> "demand", id |-> <<"demand", city, gen.hour, gen.starts>>,
     city |-> city, hour |-> gen.hour,
     quantity |-> GenerateQuantity(city, gen.hour)]

(* One city of a tick.  The signal handler only sets a flag, which is looked *)
(* at between ticks.                                                         *)
GenProduce ==
    /\ gen.step = "tick" /\ ~Full("generator")
    /\ Produce("generator", DemandEvent(Cities[gen.next]))
    /\ gen' = IF gen.next < Len(Cities) THEN [gen EXCEPT !.next = @ + 1]
              ELSE [gen EXCEPT !.step = "sleep", !.next = 1, !.hour = @ + 1]
    /\ Excuse("generator")
    /\ UNCHANGED <<poller, asked, chaos, topics, broker>>

(* BufferError leaves the loop and the producer's block: at the first event  *)
(* of a city, or at a later one, the queue being full with those before it.  *)
GenBufferError ==
    /\ gen.step = "tick"
    /\ \/ /\ Full("generator")
          /\ UNCHANGED <<queue, produced, excused>>
       \/ /\ ~Full("generator")
          /\ Produce("generator", DemandEvent(Cities[gen.next])) /\ Excuse("generator")
          /\ Full("generator")'
    /\ gen' = [gen EXCEPT !.step = "flush"]
    /\ UNCHANGED <<poller, asked, chaos, topics, broker>>

(* Bound Ahead: the simulated clock runs faster than the wall clock. *)
GenTick ==
    /\ gen.step = "sleep"
    /\ IF "generator" \in asked THEN gen' = [gen EXCEPT !.step = "flush"]
       ELSE gen.hour < now + Ahead /\ gen' = [gen EXCEPT !.step = "tick", !.next = 1]
    /\ UNCHANGED <<poller, asked, chaos, queue, topics, broker, produced, excused>>

GenExit ==
    /\ gen.step = "flush" /\ Flushed("generator")
    /\ gen' = [gen EXCEPT !.step = "down", !.next = 1]
    /\ Drop("generator")
    /\ UNCHANGED <<poller, asked, chaos, topics, broker, produced, excused>>

(* Restarted by Docker after a crash, by hand after a stop: the simulated    *)
(* clock starts over at the time of the start.                               *)
GenStart ==
    /\ gen.step = "down"
    /\ gen' = [step |-> "sleep", next |-> 1, hour |-> now, starts |-> gen.starts + 1]
    /\ asked' = asked \ {"generator"}
    /\ UNCHANGED <<poller, chaos, queue, topics, broker, produced, excused>>

-----------------------------------------------------------------------------
(* The weather poller                                                        *)

(* _fetch_current: an HTTP error is a URLError, a timeout while the response *)
(* is awaited is not.  _flatten: the renamed key is a KeyError, a null where *)
(* an object is expected a TypeError.                                        *)
Fetched(body) ==
    CASE body \in {"whole", "null value"}           -> "payload"
      [] body = "renamed"                           -> "caught"
      [] body \in {"null object", "null conditions"} -> "raised"

FetchOutcomes(cfg) ==
    (IF "timeout" \in Dispatch(cfg) THEN {"raised"} ELSE {})
        \cup (IF "503" \in Dispatch(cfg) THEN {"caught"} ELSE {})
        \cup (IF "handler" \in Dispatch(cfg)
              THEN {Fetched(b) : b \in ApplyChaos(cfg)} ELSE {})

WeatherReading(city) ==
    [table |-> "weather", id |-> <<"weather", city, now>>,
     city |-> city, hour |-> now,
     quantity |-> GenerateReading(city, now)]

(* Variant: the cycle ends one city early. *)
NextCityButLast ==
    poller' = IF poller.next + 1 < Len(Cities) THEN [poller EXCEPT !.next = @ + 1]
              ELSE [step |-> "wait", next |-> 1]

NextCity ==
    poller' = IF poller.next < Len(Cities) THEN [poller EXCEPT !.next = @ + 1]
              ELSE [step |-> "wait", next |-> 1]

(* One city of a cycle: a reading, or a failure that is logged and passed. *)
PollCity ==
    /\ poller.step = "poll" /\ "poller" \notin asked
    /\ NextCity
    /\ \/ /\ "payload" \in FetchOutcomes(chaos) /\ ~Full("poller")
          /\ Produce("poller", WeatherReading(Cities[poller.next]))
          /\ Excuse("poller")
       \/ /\ "caught" \in FetchOutcomes(chaos)
          /\ UNCHANGED <<queue, produced, excused>>
    /\ UNCHANGED <<gen, asked, chaos, topics, broker>>

(* An exception nobody catches, or a full queue, ends the process. *)
PollRaises ==
    /\ poller.step = "poll" /\ "poller" \notin asked
    /\ "raised" \in FetchOutcomes(chaos) \/ ("payload" \in FetchOutcomes(chaos) /\ Full("poller"))
    /\ poller' = [poller EXCEPT !.step = "flush"]
    /\ UNCHANGED <<gen, asked, chaos, queue, topics, broker, produced, excused>>

(* The flag is looked at before every city and while waiting. *)
PollCycle ==
    /\ poller.step = "wait" \/ (poller.step = "poll" /\ "poller" \in asked)
    /\ poller' = [step |-> IF "poller" \in asked THEN "flush" ELSE "poll", next |-> 1]
    /\ UNCHANGED <<gen, asked, chaos, queue, topics, broker, produced, excused>>

PollerExit ==
    /\ poller.step = "flush" /\ Flushed("poller")
    /\ poller' = [step |-> "down", next |-> 1]
    /\ Drop("poller")
    /\ UNCHANGED <<gen, asked, chaos, topics, broker, produced, excused>>

PollerStart ==
    /\ poller.step = "down"
    /\ poller' = [step |-> "wait", next |-> 1]
    /\ asked' = asked \ {"poller"}
    /\ UNCHANGED <<gen, chaos, queue, topics, broker, produced, excused>>

-----------------------------------------------------------------------------
(* SIGTERM and SIGKILL                                                       *)

StepOf(p) == IF p = "generator" THEN gen.step ELSE poller.step
Running(p) == StepOf(p) # "down"

(* The process is gone, and with it what its producer still held. *)
Ends(p) ==
    /\ IF p = "generator"
       THEN gen' = [gen EXCEPT !.step = "down", !.next = 1] /\ UNCHANGED poller
       ELSE poller' = [step |-> "down", next |-> 1] /\ UNCHANGED gen
    /\ Drop(p)

Stop(p) ==
    /\ Running(p) /\ asked' = asked \cup {p}
    /\ UNCHANGED <<gen, poller, chaos, queue, topics, broker, produced, excused>>

Kill(p) ==
    /\ Running(p) /\ Ends(p)
    /\ excused' = IF queue[p] = <<>> THEN excused ELSE excused \cup {p}
    /\ UNCHANGED <<asked, chaos, topics, broker, produced>>

(* The ten seconds of the flush are over and the broker has not taken all. *)
FlushTimesOut(p) ==
    /\ StepOf(p) = "flush" /\ broker /\ queue[p] # <<>>
    /\ Ends(p)
    /\ excused' = excused \cup {p}
    /\ UNCHANGED <<asked, chaos, topics, broker, produced>>

SourcesInit(written) ==
    /\ gen = [step |-> "down", next |-> 1, hour |-> 0, starts |-> 0]
    /\ poller = [step |-> "down", next |-> 1]
    /\ asked = {} /\ chaos = Calm
    /\ queue = [p \in Program |-> <<>>]
    /\ topics = written /\ broker = TRUE /\ produced = {} /\ excused = {}

(* Nothing a program handed to its producer is lost while the broker can be  *)
(* reached and takes it within the ten seconds of the last flush, unless the *)
(* program was killed: not by SIGTERM in the middle of a tick, not by an     *)
(* exception in the middle of a cycle, not by a full queue.                  *)
NothingLost ==
    \A msg \in produced :
        LET p == IF msg.table = "demand" THEN "generator" ELSE "poller"
        IN  p \in excused \/ msg \in ToSet(queue[p]) \cup topics

GenStep == GenProduce \/ GenBufferError \/ GenTick \/ GenExit
PollStep == PollCity \/ PollRaises \/ PollCycle \/ PollerExit

(* Once the chaos is over, the broker back and nobody stops the poller or    *)
(* leaves it down, the reading of the current hour gets into the topic for   *)
(* every city, whatever crashes and half-done cycles came before.            *)
CitiesPolled ==
    <>[](chaos = Calm /\ broker /\ "poller" \notin asked) /\ []<>(poller.step # "down") =>
        \A c \in City :
            <>[](\E msg \in topics : msg.table = "weather" /\ msg.city = c /\ msg.hour = now)

=============================================================================
