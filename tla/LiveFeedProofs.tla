--------------------------- MODULE LiveFeedProofs ---------------------------
(***************************************************************************)
(* Proofs about LiveFeed: for any number of connections, messages and      *)
(* faults and any size of the queues, a stream has no holes and a browser  *)
(* no two connections.                                                     *)
(*                                                                         *)
(* That a stream has no holes is not inductive: what arrives next is in    *)
(* the handler's hand or in the queue.  Stream says that these continue    *)
(* what has arrived, one message after the other, as long as the handler   *)
(* lives and the link is intact, and that a connection starts with nothing *)
(* on the way.  A link that broke never carries a message again.           *)
(***************************************************************************)
EXTENDS LiveFeed, Integers, FiniteSetTheorems, SequenceTheorems, TLAPS

Alive(k) == handler[k] \in {"waiting", "sending"}
Intact(k) == Alive(k) /\ link[k] = "up"

(* What is on its way on a connection continues what has arrived.          *)
Stream ==
    \A k \in Connection :
        /\ \A i \in DOMAIN received[k] : received[k][i] = since[k] + i
        /\ Len(hand[k]) = IF handler[k] = "sending" THEN 1 ELSE 0
        /\ handler[k] = "none" => received[k] = <<>> /\ queue[k] = <<>>
        /\ handler[k] = "none" => link[k] # "up"
        /\ handler[k] = "sending" /\ Intact(k) =>
              hand[k][1] = since[k] + Len(received[k]) + 1
        /\ Intact(k) =>
              \A i \in DOMAIN queue[k] :
                  queue[k][i] = since[k] + Len(received[k]) + Len(hand[k]) + i

(* Who is subscribed has its handler, and everything that was sent.        *)
Subscribed ==
    \A k \in subscribers :
        /\ Alive(k)
        /\ link[k] = "up" =>
              since[k] + Len(received[k]) + Len(hand[k]) + Len(queue[k]) = sent

IInv == TypeOK /\ Stream /\ Subscribed /\ OneConnection
----------------------------------------------------------------------------

LEMMA Bounds ==
    /\ QueueSize \in Nat \ {0} /\ MaxConnection \in Nat \ {0}
    /\ InitialDelay \in Nat \ {0} /\ MaxDelay \in Nat /\ InitialDelay <= MaxDelay
    /\ MaxMessage \in Nat /\ MaxFaults \in Nat
BY LiveFeedAssumption DEF LiveFeedAssumption

LEMMA InitInv == Init => IInv
<1> SUFFICES ASSUME Init PROVE IInv
  OBVIOUS
<1> USE Bounds DEF Init
<1>1. TypeOK
  <2>1. queue \in [Connection -> Messages] /\ hand \in [Connection -> Messages]
        /\ received \in [Connection -> Messages]
        /\ \A k \in Connection : Len(queue[k]) <= QueueSize
    BY DEF Messages
  <2>2. timer \in BOOLEAN
    OBVIOUS
  <2>3. /\ sent \in 0..MaxMessage /\ subscribers \subseteq Connection
        /\ handler \in [Connection -> {"none", "waiting", "sending", "ended"}]
        /\ link \in [Connection -> {"none", "opening", "up", "down"}]
        /\ since \in [Connection -> 0..MaxMessage]
        /\ status \in {"connecting", "connected", "disconnected", "unmounted"}
        /\ socket \in 0..MaxConnection
        /\ delay \in InitialDelay..MaxDelay /\ budget \in 0..MaxFaults
    OBVIOUS
  <2> QED
    BY <2>1, <2>2, <2>3 DEF TypeOK
<1>2. Stream
  BY DEF Stream, Alive, Intact
<1>3. Subscribed /\ OneConnection
  BY DEF Subscribed, OneConnection
<1> QED
  BY <1>1, <1>2, <1>3 DEF IInv

(* A message put behind others, taken from the front, and sent.            *)
LEMMA Appended ==
    ASSUME NEW T, NEW s \in Seq(T), NEW x \in T
    PROVE  /\ Append(s, x) \in Seq(T) /\ Len(Append(s, x)) = Len(s) + 1
           /\ DOMAIN Append(s, x) = 1..(Len(s) + 1) /\ DOMAIN s = 1..Len(s)
           /\ Append(s, x)[Len(s) + 1] = x
           /\ \A i \in 1..Len(s) : Append(s, x)[i] = s[i]
OBVIOUS

LEMMA Taken ==
    ASSUME NEW T, NEW s \in Seq(T), s # <<>>
    PROVE  /\ Len(s) \in Nat \ {0} /\ DOMAIN s = 1..Len(s) /\ Head(s) = s[1] /\ Head(s) \in T
           /\ Tail(s) \in Seq(T) /\ Len(Tail(s)) = Len(s) - 1
           /\ DOMAIN Tail(s) = 1..(Len(s) - 1)
           /\ \A i \in 1..(Len(s) - 1) : Tail(s)[i] = s[i + 1]
OBVIOUS

LEMMA Joined ==
    ASSUME NEW T, NEW s \in Seq(T), NEW t \in Seq(T), Len(t) = 1
    PROVE  /\ s \o t \in Seq(T) /\ Len(s \o t) = Len(s) + 1
           /\ DOMAIN (s \o t) = 1..(Len(s) + 1)
           /\ (s \o t)[Len(s) + 1] = t[1]
           /\ \A i \in 1..Len(s) : (s \o t)[i] = s[i]
<1>1. /\ s \o t \in Seq(T) /\ Len(s \o t) = Len(s) + 1
      /\ \A i \in 1..(Len(s) + 1) :
            (s \o t)[i] = IF i <= Len(s) THEN s[i] ELSE t[i - Len(s)]
  <2>1. /\ s \o t \in Seq(T) /\ Len(s \o t) = Len(s) + Len(t)
        /\ \A i \in 1..(Len(s) + Len(t)) :
              (s \o t)[i] = IF i <= Len(s) THEN s[i] ELSE t[i - Len(s)]
    BY ONLY ConcatProperties, s \in Seq(T), t \in Seq(T), Zenon
  <2> QED
    BY <2>1
<1> DEFINE u == s \o t
<1> HIDE DEF u
<1>2. Len(s) \in Nat /\ (u \in Seq(T) => DOMAIN u = 1..Len(u))
  OBVIOUS
<1>3. \A n \in Nat : 1..n \subseteq 1..(n + 1) /\ n + 1 \in 1..(n + 1) /\ (n + 1) - n = 1
                    /\ ~(n + 1 <= n) /\ \A i \in 1..n : i <= n
  OBVIOUS
<1>4. DOMAIN u = 1..(Len(s) + 1)
  BY <1>1, <1>2 DEF u
<1> QED
  BY <1>1, <1>2, <1>3, <1>4 DEF u

(* The types, variable by variable.                                        *)
LEMMA Types ==
    ASSUME TypeOK
    PROVE  /\ sent \in 0..MaxMessage /\ subscribers \subseteq Connection
           /\ handler \in [Connection -> {"none", "waiting", "sending", "ended"}]
           /\ queue \in [Connection -> Messages] /\ hand \in [Connection -> Messages]
           /\ received \in [Connection -> Messages]
           /\ link \in [Connection -> {"none", "opening", "up", "down"}]
           /\ since \in [Connection -> 0..MaxMessage]
           /\ socket \in 0..MaxConnection
           /\ \A k \in Connection :
                 /\ Len(queue[k]) \in 0..QueueSize /\ queue[k] \in Seq(1..MaxMessage)
                 /\ hand[k] \in Seq(1..MaxMessage) /\ received[k] \in Seq(1..MaxMessage)
                 /\ Len(received[k]) \in Nat /\ Len(hand[k]) \in Nat /\ since[k] \in Nat
BY Bounds DEF TypeOK, Messages

(* The connections that were opened are counted.                           *)
LEMMA OpenedTyped == Opened \in Nat
<1>1. IsFiniteSet(Connection)
  BY Bounds, FS_Interval DEF Connection
<1>2. IsFiniteSet({k \in Connection : link[k] # "none"})
  BY <1>1, FS_Subset
<1> QED
  BY <1>2, FS_CardinalityType DEF Opened

LEMMA TypesStep == TypeOK /\ [Next]_vars => TypeOK'
<1> SUFFICES ASSUME TypeOK, [Next]_vars PROVE TypeOK'
  OBVIOUS
<1> USE Bounds, Types
<1>1. ASSUME NEW k \in Connection, Accept(k) PROVE TypeOK'
  BY <1>1 DEF Accept, TypeOK, client
<1>2. CASE Broadcast
  <2>1. sent' \in 0..MaxMessage /\ sent + 1 \in 1..MaxMessage
    BY <1>2 DEF Broadcast
  <2>2. \A k \in Connection : queue'[k] \in Messages /\ Len(queue'[k]) <= QueueSize
    <3> SUFFICES ASSUME NEW k \in Connection
                 PROVE  queue'[k] \in Messages /\ Len(queue'[k]) <= QueueSize
      OBVIOUS
    <3>1. \/ queue'[k] = queue[k]
          \/ Len(queue[k]) < QueueSize /\ queue'[k] = Append(queue[k], sent + 1)
      BY <1>2 DEF Broadcast
    <3>2. CASE queue'[k] = queue[k]
      BY <3>2 DEF Messages
    <3>3. CASE Len(queue[k]) < QueueSize /\ queue'[k] = Append(queue[k], sent + 1)
      <4>1. Append(queue[k], sent + 1) \in Seq(1..MaxMessage)
            /\ Len(Append(queue[k], sent + 1)) = Len(queue[k]) + 1
        BY <2>1, Appended
      <4> QED
        BY <3>3, <4>1 DEF Messages
    <3> QED
      BY <3>1, <3>2, <3>3
  <2>3. queue' \in [Connection -> Messages]
    BY <1>2, <2>2 DEF Broadcast
  <2> QED
    BY <1>2, <2>1, <2>2, <2>3 DEF Broadcast, TypeOK, client
<1>3. ASSUME NEW k \in Connection, Take(k) PROVE TypeOK'
  <2>1. /\ Tail(queue[k]) \in Messages /\ <<Head(queue[k])>> \in Messages
        /\ Len(Tail(queue[k])) <= QueueSize
    BY <1>3 DEF Take, Messages
  <2>2. /\ queue' = [queue EXCEPT ![k] = Tail(queue[k])]
        /\ hand' = [hand EXCEPT ![k] = <<Head(queue[k])>>]
        /\ handler' = [handler EXCEPT ![k] = "sending"]
        /\ UNCHANGED <<sent, subscribers, link, noticed, since, received, client, budget>>
    BY <1>3 DEF Take
  <2> QED
    BY <2>1, <2>2 DEF TypeOK, client
<1>4. ASSUME NEW k \in Connection, Send(k) PROVE TypeOK'
  <2>1. received[k] \o hand[k] \in Messages /\ <<>> \in Messages
    BY DEF Messages
  <2>2. received' \in [Connection -> Messages] /\ hand' \in [Connection -> Messages]
        /\ handler' \in [Connection -> {"none", "waiting", "sending", "ended"}]
        /\ subscribers' \subseteq Connection
    BY <1>4, <2>1 DEF Send, SendArrives, SendVanishes
  <2> QED
    BY <1>4, <2>2 DEF Send, TypeOK, client
<1>5. CASE RestartApi
  <2>1. queue' \in [Connection -> Messages] /\ hand' \in [Connection -> Messages]
        /\ \A k \in Connection : Len(queue'[k]) <= QueueSize
    BY <1>5 DEF RestartApi, Messages
  <2>2. /\ handler' \in [Connection -> {"none", "waiting", "sending", "ended"}]
        /\ link' \in [Connection -> {"none", "opening", "up", "down"}]
        /\ budget' \in 0..MaxFaults
    BY <1>5 DEF RestartApi, Spend, TypeOK
  <2> QED
    BY <1>5, <2>1, <2>2 DEF RestartApi, TypeOK, client
<1>6. ASSUME NEW k \in Connection, Break(k) PROVE TypeOK'
  BY <1>6 DEF Break, Spend, TypeOK, server, client
<1>7. CASE OnOpen
  BY <1>7 DEF OnOpen, TypeOK, server
<1>8. CASE OnClose
  BY <1>8 DEF OnClose, TypeOK, server
<1>9. CASE Reconnect
  <2>1. delay' \in InitialDelay..MaxDelay
    BY <1>9 DEF Reconnect, TypeOK
  <2>2. /\ socket' \in 0..MaxConnection
        /\ link' \in [Connection -> {"none", "opening", "up", "down"}]
        /\ status' = "connecting"
    BY <1>9, OpenedTyped DEF Reconnect, Connect, Connection
  <2> QED
    BY <1>9, <2>1, <2>2 DEF Reconnect, TypeOK, server
<1>10. CASE Unmount
  <2>1. /\ status' = "unmounted" /\ socket' = 0 /\ timer' = FALSE
        /\ UNCHANGED <<sent, subscribers, handler, queue, hand, noticed, since, received, delay, budget>>
        /\ \A k \in Connection : link'[k] \in {"none", "opening", "up", "down"}
        /\ link' \in [Connection -> {"none", "opening", "up", "down"}]
    BY <1>10 DEF Unmount, server
  <2>2. timer' \in BOOLEAN
    BY <2>1
  <2> QED
    BY <2>1, <2>2 DEF TypeOK
<1>11. CASE UNCHANGED vars
  BY <1>11 DEF vars, server, client, TypeOK
<1>12. ASSUME NEW k \in Connection, Notice(k) PROVE TypeOK'
  BY <1>12 DEF Notice, TypeOK, server, client
<1> QED
  BY <1>1, <1>2, <1>3, <1>4, <1>5, <1>6, <1>7, <1>8, <1>9, <1>10, <1>11, <1>12
  DEF Next, HandlerStep, ClientStep

(* One connection's part of the stream.                                    *)
StreamOf(k) ==
    /\ \A i \in DOMAIN received[k] : received[k][i] = since[k] + i
    /\ Len(hand[k]) = IF handler[k] = "sending" THEN 1 ELSE 0
    /\ handler[k] = "none" => received[k] = <<>> /\ queue[k] = <<>>
    /\ handler[k] = "none" => link[k] # "up"
    /\ handler[k] = "sending" /\ Intact(k) =>
          hand[k][1] = since[k] + Len(received[k]) + 1
    /\ Intact(k) =>
          \A i \in DOMAIN queue[k] :
              queue[k][i] = since[k] + Len(received[k]) + Len(hand[k]) + i

SubscribedOf(k) ==
    k \in subscribers =>
        /\ Alive(k)
        /\ link[k] = "up" =>
              since[k] + Len(received[k]) + Len(hand[k]) + Len(queue[k]) = sent

LEMMA OthersKept ==
    ASSUME NEW k \in Connection, StreamOf(k), SubscribedOf(k),
           UNCHANGED <<handler[k], queue[k], hand[k], since[k], received[k]>>,
           link'[k] = "up" => link[k] = "up",
           k \in subscribers' => k \in subscribers /\ sent' = sent
    PROVE  StreamOf(k)' /\ SubscribedOf(k)'
BY DEF StreamOf, SubscribedOf, Alive, Intact

LEMMA StreamStep ==
    TypeOK /\ Stream /\ Subscribed /\ [Next]_vars => Stream' /\ Subscribed'
<1> SUFFICES ASSUME TypeOK, Stream, Subscribed, [Next]_vars
             PROVE  Stream' /\ Subscribed'
  OBVIOUS
<1> SUFFICES ASSUME NEW k \in Connection PROVE StreamOf(k)' /\ SubscribedOf(k)'
  <2>1. TypeOK'
    BY TypesStep
  <2>2. subscribers' \subseteq Connection
    BY <2>1 DEF TypeOK
  <2> QED
    BY <2>2 DEF Stream, Subscribed, StreamOf, SubscribedOf, Alive, Intact
<1>0. StreamOf(k) /\ SubscribedOf(k)
  BY DEF Stream, Subscribed, StreamOf, SubscribedOf
<1> USE Types
<1>1. ASSUME NEW c \in Connection, Accept(c) PROVE StreamOf(k)' /\ SubscribedOf(k)'
  <2>1. CASE k = c
    <3>1. /\ handler[k] = "none" /\ handler'[k] = "waiting" /\ since'[k] = sent
          /\ UNCHANGED <<sent, queue[k], hand[k], received[k]>>
      BY <1>1, <2>1 DEF Accept
    <3>2. received[k] = <<>> /\ queue[k] = <<>> /\ Len(hand[k]) = 0
      BY <1>0, <3>1 DEF StreamOf
    <3> QED
      BY <3>1, <3>2 DEF StreamOf, SubscribedOf, Alive, Intact
  <2>2. CASE k # c
    BY <1>0, <1>1, <2>2, OthersKept DEF Accept
  <2> QED
    BY <2>1, <2>2
<1>2. CASE Broadcast
  <2>1. CASE k \in subscribers'
    <3>1. /\ k \in subscribers /\ sent' = sent + 1
          /\ queue'[k] = Append(queue[k], sent + 1)
          /\ UNCHANGED <<handler, hand, link, since, received>>
      BY <1>2, <2>1 DEF Broadcast
    <3>2. Alive(k) /\ (link[k] = "up" =>
              since[k] + Len(received[k]) + Len(hand[k]) + Len(queue[k]) = sent)
      BY <1>0, <3>1 DEF SubscribedOf
    <3>0. sent + 1 \in 1..MaxMessage
      BY <1>2, Bounds DEF Broadcast
    <3>3. /\ Len(queue'[k]) = Len(queue[k]) + 1 /\ DOMAIN queue'[k] = 1..(Len(queue[k]) + 1)
          /\ DOMAIN queue[k] = 1..Len(queue[k]) /\ queue'[k][Len(queue[k]) + 1] = sent + 1
          /\ \A i \in 1..Len(queue[k]) : queue'[k][i] = queue[k][i]
      BY <3>1, <3>0, Appended
    <3>4. SubscribedOf(k)'
      BY <3>1, <3>2, <3>3 DEF SubscribedOf, Alive, Intact
    <3>5. ASSUME NEW i \in DOMAIN queue'[k], link[k] = "up"
          PROVE  queue'[k][i] = since[k] + Len(received[k]) + Len(hand[k]) + i
      <4>1. CASE i = Len(queue[k]) + 1
        BY <3>2, <3>3, <3>5, <4>1
      <4>2. CASE i \in DOMAIN queue[k]
        BY <1>0, <3>2, <3>3, <3>5, <4>2 DEF StreamOf, Intact
      <4> QED
        BY <3>3, <3>5, <4>1, <4>2
    <3>6. StreamOf(k)'
      BY <1>0, <3>1, <3>2, <3>5 DEF StreamOf, Alive, Intact
    <3> QED
      BY <3>4, <3>6
  <2>2. CASE k \notin subscribers'
    <3>1. queue'[k] = queue[k] /\ UNCHANGED <<handler, hand, link, since, received>>
      BY <1>2, <2>2 DEF Broadcast
    <3> QED
      BY <1>0, <2>2, <3>1, OthersKept
  <2> QED
    BY <2>1, <2>2
<1>3. ASSUME NEW c \in Connection, Take(c) PROVE StreamOf(k)' /\ SubscribedOf(k)'
  <2>1. CASE k = c
    <3> DEFINE q == queue[k]
    <3>1. /\ handler[k] = "waiting" /\ q # <<>> /\ handler'[k] = "sending"
          /\ hand'[k] = <<Head(q)>> /\ queue'[k] = Tail(q)
          /\ UNCHANGED <<sent, subscribers, link, since, received>>
      BY <1>3, <2>1 DEF Take
    <3>0. q \in Seq(1..MaxMessage)
      OBVIOUS
    <3> HIDE DEF q
    <3>2. Len(q) \in Nat /\ Len(q) > 0 /\ DOMAIN q = 1..Len(q)
      BY <3>1, <3>0, Taken
    <3>3. /\ Len(Tail(q)) = Len(q) - 1 /\ DOMAIN Tail(q) = 1..(Len(q) - 1)
          /\ \A i \in 1..(Len(q) - 1) : Tail(q)[i] = q[i + 1]
          /\ Head(q) = q[1]
      BY <3>1, <3>0, Taken
    <3>4. ASSUME link[k] = "up"
          PROVE  \A i \in 1..Len(q) : q[i] = since[k] + Len(received[k]) + i
      <4>1. /\ Alive(k) /\ Len(hand[k]) = 0
            /\ \A i \in DOMAIN q : q[i] = since[k] + Len(received[k]) + Len(hand[k]) + i
        BY <1>0, <3>1, <3>4 DEF StreamOf, Alive, Intact, q
      <4>2. since[k] + Len(received[k]) \in Nat
        OBVIOUS
      <4>3. \A n \in Nat : n + 0 = n
        OBVIOUS
      <4>4. since[k] + Len(received[k]) + Len(hand[k]) = since[k] + Len(received[k])
        BY <4>1, <4>2, <4>3
      <4> QED
        BY <3>2, <4>1, <4>4, Zenon
    <3>5. Len(hand[k]) = 0 /\ Len(hand'[k]) = 1 /\ hand'[k][1] = q[1]
      BY <1>0, <3>1, <3>3 DEF StreamOf
    <3>6. ASSUME link[k] = "up"
          PROVE  \A i \in DOMAIN queue'[k] :
                     queue'[k][i] = since[k] + Len(received[k]) + Len(hand'[k]) + i
      <4> SUFFICES ASSUME NEW i \in 1..(Len(q) - 1)
                   PROVE  Tail(q)[i] = since[k] + Len(received[k]) + Len(hand'[k]) + i
        BY <3>1, <3>3
      <4>1. i + 1 \in 1..Len(q) /\ i \in Nat
        BY <3>2
      <4> QED
        <5>1. q[i + 1] = since[k] + Len(received[k]) + (i + 1)
          BY <3>4, <3>6, <4>1
        <5>2. Tail(q)[i] = q[i + 1]
          BY <3>3
        <5>3. Len(hand'[k]) = 1 /\ since[k] + Len(received[k]) \in Nat
          BY <3>5
        <5>4. \A n \in Nat : n + (i + 1) = n + 1 + i
          BY <4>1
        <5>5. since[k] + Len(received[k]) + (i + 1)
                = since[k] + Len(received[k]) + Len(hand'[k]) + i
          BY <5>3, <5>4
        <5> QED
          BY <5>1, <5>2, <5>5, Zenon
    <3>7. StreamOf(k)'
      BY <1>0, <3>1, <3>2, <3>4, <3>5, <3>6 DEF StreamOf, Alive, Intact
    <3>8. SubscribedOf(k)'
      BY <1>0, <3>1, <3>2, <3>3, <3>5 DEF SubscribedOf, Alive, Intact, q
    <3> QED
      BY <3>7, <3>8
  <2>2. CASE k # c
    BY <1>0, <1>3, <2>2, OthersKept DEF Take
  <2> QED
    BY <2>1, <2>2
<1>4. ASSUME NEW c \in Connection, Send(c) PROVE StreamOf(k)' /\ SubscribedOf(k)'
  <2>1. CASE k = c /\ handler'[k] = "waiting" /\ link[k] = "up"
    <3> DEFINE r == received[k]
    <3>1. /\ handler[k] = "sending" /\ hand'[k] = <<>> /\ received'[k] = r \o hand[k]
          /\ UNCHANGED <<sent, subscribers, queue, link, since>>
      BY <1>4, <2>1 DEF Send, SendArrives, SendVanishes
    <3>2. Len(hand[k]) = 1 /\ hand[k][1] = since[k] + Len(r) + 1
      BY <1>0, <2>1, <3>1 DEF StreamOf, Alive, Intact
    <3>3. /\ Len(received'[k]) = Len(r) + 1 /\ DOMAIN received'[k] = 1..(Len(r) + 1)
          /\ received'[k][Len(r) + 1] = hand[k][1]
          /\ \A i \in 1..Len(r) : received'[k][i] = r[i]
      <4>1. r \in Seq(1..MaxMessage) /\ hand[k] \in Seq(1..MaxMessage)
        OBVIOUS
      <4> HIDE DEF r
      <4>2. /\ Len(r \o hand[k]) = Len(r) + 1 /\ DOMAIN (r \o hand[k]) = 1..(Len(r) + 1)
            /\ (r \o hand[k])[Len(r) + 1] = hand[k][1]
            /\ \A i \in 1..Len(r) : (r \o hand[k])[i] = r[i]
        <5>1. Len(hand[k]) = 1
          BY <3>2
        <5> QED
          BY ONLY <4>1, <5>1, Joined
      <4> QED
        BY <3>1, <4>2, Zenon
    <3>4. \A i \in DOMAIN received'[k] : received'[k][i] = since[k] + i
      <4>1. \A i \in 1..Len(r) : r[i] = since[k] + i
        BY <1>0 DEF StreamOf
      <4>2. since[k] \in Nat /\ Len(r) \in Nat
        OBVIOUS
      <4> HIDE DEF r
      <4>3. \A i \in 1..(Len(r) + 1) : i \in 1..Len(r) \/ i = Len(r) + 1
        BY <4>2
      <4>4. DOMAIN received'[k] = 1..(Len(r) + 1)
            /\ received'[k][Len(r) + 1] = since[k] + (Len(r) + 1)
        BY <3>2, <3>3, <4>2
      <4> QED
        BY <3>3, <4>1, <4>3, <4>4, Zenon
    <3>5. StreamOf(k)'
      BY <1>0, <2>1, <3>1, <3>2, <3>3, <3>4 DEF StreamOf, Alive, Intact
    <3>6. SubscribedOf(k)'
      BY <1>0, <2>1, <3>1, <3>2, <3>3 DEF SubscribedOf, Alive, Intact
    <3> QED
      BY <3>5, <3>6
  <2>2. CASE k = c /\ handler'[k] # "waiting"
    <3>1. /\ handler'[k] = "ended" /\ hand'[k] = <<>> /\ k \notin subscribers'
          /\ UNCHANGED <<received, since>>
      BY <1>4, <2>2 DEF Send, SendArrives, SendVanishes
    <3> QED
      BY <1>0, <3>1 DEF StreamOf, SubscribedOf, Alive, Intact
  <2>3. CASE k # c
    <3>1. /\ UNCHANGED <<handler[k], queue[k], hand[k], link, since[k], received[k], sent>>
          /\ k \in subscribers' => k \in subscribers
      BY <1>4, <2>3 DEF Send, SendArrives, SendVanishes
    <3> QED
      BY <1>0, <3>1, OthersKept
  <2>4. CASE k = c /\ handler'[k] = "waiting" /\ link[k] # "up"
    <3>1. /\ handler[k] = "sending" /\ hand'[k] = <<>>
          /\ UNCHANGED <<sent, subscribers, queue, link, since, received>>
      BY <1>4, <2>4 DEF Send, SendArrives, SendVanishes
    <3> QED
      BY <1>0, <2>4, <3>1 DEF StreamOf, SubscribedOf, Alive, Intact
  <2> QED
    BY <2>1, <2>2, <2>3, <2>4
<1>5. CASE RestartApi
  <2>1. /\ handler'[k] = IF handler[k] = "none" THEN "none" ELSE "ended"
        /\ queue'[k] = <<>> /\ hand'[k] = <<>> /\ subscribers' = {}
        /\ link'[k] # "up"
        /\ UNCHANGED <<received, since>>
    BY <1>5 DEF RestartApi
  <2> QED
    BY <1>0, <2>1 DEF StreamOf, SubscribedOf, Alive, Intact
<1>6. CASE \/ \E c \in Connection : Break(c) \/ Notice(c)
           \/ ClientStep \/ Unmount \/ UNCHANGED vars
  <2>1. UNCHANGED <<sent, subscribers, handler, queue, hand, since, received>>
    BY <1>6 DEF Break, Notice, ClientStep, OnOpen, OnClose, Reconnect, Unmount, vars, server
  <2>2. link'[k] = "up" => link[k] = "up"
    <3>1. CASE Reconnect
      BY <3>1 DEF Reconnect, Connect
    <3> QED
      BY <1>6, <3>1 DEF Break, Notice, ClientStep, OnOpen, OnClose, Unmount, vars
  <2> QED
    BY <1>0, <2>1, <2>2, OthersKept
<1> QED
  BY <1>1, <1>2, <1>3, <1>4, <1>5, <1>6 DEF Next, HandlerStep

LEMMA OneConnectionStep == TypeOK /\ OneConnection /\ [Next]_vars => OneConnection'
<1> SUFFICES ASSUME TypeOK, OneConnection, [Next]_vars PROVE OneConnection'
  OBVIOUS
<1> USE Types DEF OneConnection
<1>1. ASSUME NEW k \in Connection, Accept(k) PROVE OneConnection'
  BY <1>1 DEF Accept, client
<1>2. CASE Broadcast \/ (\E k \in Connection : HandlerStep(k)) \/ OnOpen \/ UNCHANGED vars
  <2>1. link' = link /\ socket' = socket /\ timer' = timer
    <3>1. CASE Broadcast
      BY <3>1 DEF Broadcast, client
    <3>2. ASSUME NEW k \in Connection, HandlerStep(k)
          PROVE  link' = link /\ socket' = socket /\ timer' = timer
      BY <3>2 DEF HandlerStep, Take, Send, client
    <3>3. CASE OnOpen \/ UNCHANGED vars
      BY <3>3 DEF OnOpen, vars, client
    <3> QED
      BY <1>2, <3>1, <3>2, <3>3
  <2> QED
    BY <2>1
<1>3. CASE RestartApi \/ \E k \in Connection : Break(k) \/ Notice(k)
  <2>1. /\ UNCHANGED <<socket, timer>>
        /\ \A j \in Connection : link'[j] \in {"opening", "up"} => link[j] \in {"opening", "up"}
    <3>1. CASE RestartApi
      BY <3>1 DEF RestartApi, client
    <3>2. ASSUME NEW k \in Connection, Break(k) \/ Notice(k)
          PROVE  /\ UNCHANGED <<socket, timer>>
                 /\ \A j \in Connection :
                        link'[j] \in {"opening", "up"} => link[j] \in {"opening", "up"}
      BY <3>2 DEF Break, Notice, client
    <3> QED
      BY <1>3, <3>1, <3>2
  <2> QED
    BY <2>1
<1>4. CASE OnClose
  BY <1>4 DEF OnClose
<1>5. CASE Reconnect
  <2>1. /\ socket = 0 /\ timer' = FALSE /\ socket' = Opened + 1
        /\ link' = [link EXCEPT ![Opened + 1] = "opening"]
    BY <1>5 DEF Reconnect, Connect
  <2>2. \A k \in Connection : link[k] \notin {"opening", "up"}
    BY <2>1 DEF Connection
  <2> QED
    BY <2>1, <2>2
<1>6. CASE Unmount
  <2>1. /\ timer' = FALSE /\ socket' = 0
        /\ \A k \in Connection : link'[k] = IF k = socket THEN "down" ELSE link[k]
    BY <1>6 DEF Unmount
  <2> QED
    BY <2>1
<1> QED
  BY <1>1, <1>2, <1>3, <1>4, <1>5, <1>6 DEF Next, ClientStep

LEMMA Invariant == Spec => []IInv
BY InitInv, TypesStep, StreamStep, OneConnectionStep, PTL DEF Spec, IInv

(* Types, the bound of every queue and that of the back-off.               *)
THEOREM TypeCorrect == Spec => []TypeOK
BY Invariant, PTL DEF IInv

(* What arrives are the broadcasts since the subscription, in order and    *)
(* without gaps, and who is still subscribed over an intact link has missed*)
(* nothing, however slow browsers are, whichever connection breaks and     *)
(* whatever is written to it before that is noticed (main.py, ws_live and  *)
(* _broadcast).                                                            *)
THEOREM NoHoles == Spec => []NoGaps
<1>1. IInv => NoGaps
  BY DEF IInv, Stream, Subscribed, NoGaps, TypeOK
<1> QED
  BY <1>1, Invariant, PTL

(* A browser never has two connections, none after the clean-up, and no    *)
(* reconnect scheduled while it has one (useLiveStream.ts).                *)
THEOREM AtMostOneConnection == Spec => []OneConnection
BY Invariant, PTL DEF IInv
=============================================================================
