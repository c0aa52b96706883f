------------------------------ MODULE LiveFeed -----------------------------
(***************************************************************************)
(* The live stream of predictions: ws_live and _broadcast of the API       *)
(* (services/api/app/main.py), and the browser's end of it                 *)
(* (services/ui/src/hooks/useLiveStream.ts).                               *)
(*                                                                         *)
(* A handler per connection takes messages from a queue of its own; a      *)
(* broadcast puts a message into every subscribed queue and strikes off    *)
(* the full ones.  The browser opens a new connection when it sees the old *)
(* one closed.  One browser is modelled: browsers share nothing but the    *)
(* broadcasts.  Connections are numbered as they are opened.               *)
(***************************************************************************)
EXTENDS Naturals, Sequences, FiniteSets

CONSTANTS
    QueueSize,     \* maxsize of a subscriber's queue (50)
    InitialDelay,  \* INITIAL_DELAY_MS
    MaxDelay,      \* MAX_DELAY_MS
    MaxConnection, \* bound: connections the browser opens
    MaxMessage,    \* bound: messages broadcast
    MaxFaults      \* bound: broken connections and restarts of the API

ASSUME LiveFeedAssumption ==
    /\ QueueSize \in Nat \ {0} /\ MaxConnection \in Nat \ {0}
    /\ InitialDelay \in Nat \ {0} /\ MaxDelay \in Nat /\ InitialDelay <= MaxDelay
    /\ MaxMessage \in Nat /\ MaxFaults \in Nat

Connection == 1..MaxConnection

VARIABLES
    sent,          \* how many messages were broadcast: 1, 2, ...
    subscribers,   \* ws_subscribers: the connections whose queues are in it
    handler,       \* ws_live: where each connection's handler is
    queue, hand,   \* each connection's queue; the message being sent
    link,          \* the network: opening, up, or down
    noticed,       \* the connections the API knows to be closed
    since,         \* history: how many messages were sent before the subscription
    received,      \* the messages that arrived in the browser
    status,        \* useLiveStream: its status; "unmounted" after the clean-up
    socket,        \* wsRef: the connection it holds, 0 for none
    timer,         \* timerRef: a reconnect is scheduled
    delay,         \* delayRef
    budget         \* faults still allowed

server == <<sent, subscribers, handler, queue, hand>>
client == <<status, socket, timer, delay>>
vars == <<server, link, noticed, since, received, client, budget>>

(* How many connections were opened so far.                                *)
Opened == Cardinality({k \in Connection : link[k] # "none"})

Init ==
    /\ sent = 0 /\ subscribers = {}
    /\ handler = [k \in Connection |-> "none"]
    /\ queue = [k \in Connection |-> <<>>] /\ hand = queue
    /\ link = [k \in Connection |-> IF k = 1 THEN "opening" ELSE "none"]
    /\ noticed = {}
    /\ since = [k \in Connection |-> 0]
    /\ received = [k \in Connection |-> <<>>]
    /\ status = "connecting" /\ socket = 1 /\ timer = FALSE /\ delay = InitialDelay
    /\ budget = MaxFaults

Spend == budget > 0 /\ budget' = budget - 1

(***************************************************************************)
(* The API.                                                                *)
(***************************************************************************)

(* ws_live accepts, subscribes its queue, and waits for messages.          *)
Accept(k) ==
    /\ link[k] = "opening" /\ handler[k] = "none"
    /\ handler' = [handler EXCEPT ![k] = "waiting"]
    /\ subscribers' = subscribers \cup {k}
    /\ since' = [since EXCEPT ![k] = sent]
    /\ link' = [link EXCEPT ![k] = "up"]
    /\ UNCHANGED <<sent, queue, hand, noticed, received, client, budget>>

(* Variant: the first full queue ends the loop over the subscribers.       *)
BroadcastStops ==
    LET full == {k \in subscribers : Len(queue[k]) >= QueueSize} IN
    /\ sent < MaxMessage
    /\ sent' = sent + 1
    /\ queue' = [k \in Connection |->
            IF k \in subscribers \ full /\ \A j \in full : k < j
            THEN Append(queue[k], sent + 1) ELSE queue[k]]
    /\ subscribers' = subscribers \ full
    /\ UNCHANGED <<handler, hand, link, noticed, since, received, client, budget>>

(* _broadcast, after a prediction or in the periodic refresh.              *)
Broadcast ==
    LET full == {k \in subscribers : Len(queue[k]) >= QueueSize} IN
    /\ sent < MaxMessage
    /\ sent' = sent + 1
    /\ queue' = [k \in Connection |->
            IF k \in subscribers \ full THEN Append(queue[k], sent + 1) ELSE queue[k]]
    /\ subscribers' = subscribers \ full
    /\ UNCHANGED <<handler, hand, link, noticed, since, received, client, budget>>

(* q.get: the message leaves the queue before it is sent.                  *)
Take(k) ==
    /\ handler[k] = "waiting" /\ queue[k] # <<>>
    /\ handler' = [handler EXCEPT ![k] = "sending"]
    /\ hand' = [hand EXCEPT ![k] = <<Head(queue[k])>>]
    /\ queue' = [queue EXCEPT ![k] = Tail(@)]
    /\ UNCHANGED <<sent, subscribers, link, noticed, since, received, client, budget>>

SendArrives(k) ==
    /\ link[k] = "up"
    /\ handler' = [handler EXCEPT ![k] = "waiting"]
    /\ received' = [received EXCEPT ![k] = @ \o hand[k]]
    /\ UNCHANGED subscribers

(* Nothing tells a handler that its connection broke a moment ago: the     *)
(* message is handed to the transport and gets lost.                       *)
SendVanishes(k) ==
    /\ link[k] = "down" /\ k \notin noticed
    /\ handler' = [handler EXCEPT ![k] = "waiting"]
    /\ UNCHANGED <<subscribers, received>>

(* Variant: a handler goes on after a message it could not send.           *)
SendGoesOn(k) ==
    /\ handler[k] = "sending"
    /\ \/ SendArrives(k) \/ SendVanishes(k)
       \/ /\ k \in noticed
          /\ handler' = [handler EXCEPT ![k] = "waiting"]
          /\ UNCHANGED <<subscribers, received>>
    /\ hand' = [hand EXCEPT ![k] = <<>>]
    /\ UNCHANGED <<sent, queue, link, noticed, since, client, budget>>

(* The message arrives, or it gets lost, or sending it raises, because the *)
(* connection is known to be closed.  This is the only way for a handler to*)
(* find out: it never reads from the connection.                           *)
Send(k) ==
    /\ handler[k] = "sending"
    /\ \/ SendArrives(k) \/ SendVanishes(k)
       \/ /\ k \in noticed
          /\ handler' = [handler EXCEPT ![k] = "ended"]
          /\ subscribers' = subscribers \ {k}
          /\ UNCHANGED received
    /\ hand' = [hand EXCEPT ![k] = <<>>]
    /\ UNCHANGED <<sent, queue, link, noticed, since, client, budget>>

(* A close frame, a reset or a missing answer to a ping reaches the API.   *)
Notice(k) ==
    /\ link[k] = "down" /\ k \notin noticed
    /\ handler[k] \in {"waiting", "sending"}
    /\ noticed' = noticed \cup {k}
    /\ UNCHANGED <<server, link, since, received, client, budget>>

(* The API is restarted: handlers and queues are gone, connections close.  *)
RestartApi ==
    /\ Spend
    /\ subscribers' = {}
    /\ handler' = [k \in Connection |-> IF handler[k] = "none" THEN "none" ELSE "ended"]
    /\ queue' = [k \in Connection |-> <<>>] /\ hand' = queue'
    /\ link' = [k \in Connection |-> IF link[k] = "none" THEN "none" ELSE "down"]
    /\ UNCHANGED <<sent, noticed, since, received, client>>

(* The connection breaks, or could not be made.                            *)
Break(k) ==
    /\ Spend
    /\ link[k] \in {"opening", "up"}
    /\ link' = [link EXCEPT ![k] = "down"]
    /\ UNCHANGED <<server, noticed, since, received, client>>

(***************************************************************************)
(* The browser.                                                            *)
(***************************************************************************)

(* onopen resets the back-off.                                             *)
OnOpen ==
    /\ status = "connecting" /\ socket # 0
    /\ link[socket] = "up"
    /\ status' = "connected" /\ delay' = InitialDelay
    /\ UNCHANGED <<server, link, noticed, since, received, socket, timer, budget>>

(* onclose lets go of the socket and schedules a reconnect.                *)
OnClose ==
    /\ socket # 0 /\ link[socket] = "down"
    /\ status' = "disconnected" /\ socket' = 0
    /\ timer' = TRUE
    /\ UNCHANGED <<server, link, noticed, since, received, delay, budget>>

(* connect: a new WebSocket.                                               *)
Connect ==
    /\ Opened < MaxConnection
    /\ link' = [link EXCEPT ![Opened + 1] = "opening"]
    /\ status' = "connecting" /\ socket' = Opened + 1

(* The timer fires: the delay doubles, up to its maximum.                  *)
Reconnect ==
    /\ timer /\ timer' = FALSE
    /\ delay' = IF 2 * delay <= MaxDelay THEN 2 * delay ELSE MaxDelay
    /\ Connect
    /\ UNCHANGED <<server, noticed, since, received, budget>>

(* Variant: the clean-up stops the timer only.                             *)
UnmountTimerOnly ==
    /\ status # "unmounted" /\ status' = "unmounted"
    /\ timer' = FALSE /\ socket' = 0
    /\ UNCHANGED <<server, link, noticed, since, received, delay, budget>>

(* The clean-up of the effect clears the timer and closes the socket, with *)
(* its onclose taken off before.                                           *)
Unmount ==
    /\ status # "unmounted" /\ status' = "unmounted"
    /\ timer' = FALSE /\ socket' = 0
    /\ link' = [k \in Connection |-> IF k = socket THEN "down" ELSE link[k]]
    /\ UNCHANGED <<server, noticed, since, received, delay, budget>>

HandlerStep(k) == Take(k) \/ Send(k)
ClientStep == OnOpen \/ OnClose \/ Reconnect

Next ==
    \/ Broadcast \/ RestartApi
    \/ \E k \in Connection : Accept(k) \/ HandlerStep(k) \/ Break(k) \/ Notice(k)
    \/ ClientStep \/ Unmount

Spec == Init /\ [][Next]_vars

(* The event loop, the network and the browser go on.                      *)
FairSpec ==
    Spec /\ WF_vars(ClientStep)
         /\ \A k \in Connection : WF_vars(HandlerStep(k)) /\ WF_vars(Accept(k))
-----------------------------------------------------------------------------
Messages == Seq(1..MaxMessage)

(* Every variable keeps its type, the back-off its maximum, and the        *)
(* queues their size.                                                      *)
TypeOK ==
    /\ sent \in 0..MaxMessage /\ subscribers \subseteq Connection
    /\ handler \in [Connection -> {"none", "waiting", "sending", "ended"}]
    /\ queue \in [Connection -> Messages] /\ hand \in [Connection -> Messages]
    /\ received \in [Connection -> Messages]
    /\ \A k \in Connection : Len(queue[k]) <= QueueSize
    /\ link \in [Connection -> {"none", "opening", "up", "down"}]
    /\ noticed \subseteq Connection
    /\ since \in [Connection -> 0..MaxMessage]
    /\ status \in {"connecting", "connected", "disconnected", "unmounted"}
    /\ socket \in 0..MaxConnection /\ timer \in BOOLEAN
    /\ delay \in InitialDelay..MaxDelay /\ budget \in 0..MaxFaults

(* What arrives on a connection are the broadcasts since its subscription, *)
(* in order and without gaps, however slow the browser is and whatever is  *)
(* written to a link after it broke: a full queue ends the stream, it does *)
(* not thin it out.  Who is still subscribed over an intact link has missed*)
(* nothing, whatever happened to the queues of others.                     *)
NoGaps ==
    /\ \A k \in Connection : \A i \in DOMAIN received[k] : received[k][i] = since[k] + i
    /\ \A k \in subscribers : link[k] = "up" =>
          since[k] + Len(received[k]) + Len(hand[k]) + Len(queue[k]) = sent

(* A browser never has two connections, none after the clean-up, and no    *)
(* reconnect is scheduled while it has one.                                *)
OneConnection ==
    /\ \A k \in Connection : link[k] \in {"opening", "up"} => k = socket
    /\ timer => socket = 0

(* The browser is connected again in the end.                              *)
Reconnects == <>[](status \in {"connected", "unmounted"})

(* A connection known to be closed is struck off with the next message that*)
(* is for it, whatever was lost on it before.                              *)
DeadOnesLeave ==
    \A k \in Connection :
        k \in noticed /\ k \in subscribers /\ queue[k] # <<>> ~> k \notin subscribers

(* Both ends get over a broken connection.                                 *)
Liveness == Reconnects /\ DeadOnesLeave
=============================================================================
