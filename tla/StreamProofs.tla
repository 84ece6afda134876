---------------------------- MODULE StreamProofs ----------------------------
(***************************************************************************)
(* Two things that are followed while they grow.  Of the public stream, a  *)
(* client learns of a lost event from a flag that the collector sets after *)
(* it has found the queue full, while the client may be reading that queue. *)
(* The invariant: an event that follows a hole is only queued once the flag *)
(* is set, and the flag stays until the connection is over.  Of a unit's   *)
(* journal, what was read of it is one stretch, and what is newer stays.   *)
(***************************************************************************)
EXTENDS Stream, Telemetry, WellFoundedInduction, TLAPS

\* No event after a hole is in c's queue, nor was sent to c, unless c is marked as
\* dropped; between the full queue and the mark the collector offers nothing.
HoleIsKnown(c) ==
  /\ client[c].missed = "yes" =>
       client[c].dropped = "yes" \/ (collector.step = "full" /\ c \in collector.full)
  /\ \A i \in 1..Len(client[c].queue) : client[c].queue[i] = "gap" => client[c].dropped = "yes"
  /\ client[c].got # "hole"

Queues == UNION {[1..n -> {"next", "gap"}] : n \in 0..Depth}

StreamInv == TypeOK /\ \A c \in Clients : HoleIsKnown(c)

------------------------------------------------------------------------------
(* Queues *)

\* A queue is a sequence of at most Depth events.
LEMMA QueueIs ==
  ASSUME NEW q
  PROVE  q \in Queues <=> q \in Seq({"next", "gap"}) /\ Len(q) <= Depth
<1>1. ASSUME q \in Queues PROVE q \in Seq({"next", "gap"}) /\ Len(q) <= Depth
  <2>1. PICK n \in 0..Depth : q \in [1..n -> {"next", "gap"}] BY <1>1 DEF Queues
  <2> QED BY <2>1, StreamAssumption
<1>2. ASSUME q \in Seq({"next", "gap"}), Len(q) <= Depth PROVE q \in Queues
  BY <1>2, StreamAssumption DEF Queues
<1> QED BY <1>1, <1>2

LEMMA QueueEmpty == <<>> \in Queues /\ Len(<<>>) = 0
<1>1. <<>> \in Seq({"next", "gap"}) /\ Len(<<>>) <= Depth /\ Len(<<>>) = 0 BY StreamAssumption
<1> QED BY <1>1, QueueIs, Zenon

\* put_nowait on a queue with room, and get, keep it one.
LEMMA QueuePut ==
  ASSUME NEW q \in Queues, Len(q) < Depth, NEW e \in {"next", "gap"}
  PROVE  /\ Append(q, e) \in Queues
         /\ \A i \in 1..Len(Append(q, e)) : Append(q, e)[i] = IF i = Len(q) + 1 THEN e ELSE q[i]
         /\ Len(Append(q, e)) = Len(q) + 1 /\ Len(q) \in Nat
<1>1. q \in Seq({"next", "gap"}) BY QueueIs
<1>2. Append(q, e) \in Seq({"next", "gap"}) /\ Len(Append(q, e)) = Len(q) + 1 /\ Len(q) \in Nat
  BY <1>1
<1>3. Len(Append(q, e)) <= Depth BY <1>2, StreamAssumption
<1>4. Append(q, e) \in Queues BY <1>2, <1>3, QueueIs, Zenon
<1> QED BY <1>1, <1>2, <1>4

LEMMA QueueGet ==
  ASSUME NEW q \in Queues, q # <<>>
  PROVE  /\ Tail(q) \in Queues /\ Head(q) \in {"next", "gap"} /\ Head(q) = q[1]
         /\ Len(q) \in Nat \ {0} /\ Len(Tail(q)) = Len(q) - 1
         /\ \A i \in 1..Len(Tail(q)) : Tail(q)[i] = q[i + 1]
<1>1. q \in Seq({"next", "gap"}) /\ Len(q) <= Depth BY QueueIs
<1>2. /\ Tail(q) \in Seq({"next", "gap"}) /\ Len(Tail(q)) = Len(q) - 1 /\ Len(q) \in Nat \ {0}
  BY <1>1
<1>3. Len(Tail(q)) <= Depth BY <1>1, <1>2, StreamAssumption
<1>4. Tail(q) \in Queues BY <1>2, <1>3, QueueIs, Zenon
<1> QED BY <1>1, <1>2, <1>4

------------------------------------------------------------------------------
(* The clients *)

\* One client's record changes to one of the type: the types stay.
LEMMA TypeSet ==
  ASSUME TypeOK, NEW c \in Clients, NEW new \in Client, Set(c, new),
         collector' \in Collector, subs' \subseteq Clients, UNCHANGED <<hook, hooks, worker>>
  PROVE  TypeOK'
BY DEF TypeOK, Set

\* One client's record changes to one that knows its holes, and the collector is not
\* between a full queue and its mark, or stays there: the others know theirs still.
LEMMA KnownSet ==
  ASSUME StreamInv, NEW c \in Clients, NEW new, Set(c, new),
         UNCHANGED collector \/ collector.step # "full", HoleIsKnown(c)'
  PROVE  \A d \in Clients : HoleIsKnown(d)'
BY DEF StreamInv, TypeOK, Set, HoleIsKnown

\* The collector alone moves.
LEMMA CollectorMoves ==
  ASSUME StreamInv, UNCHANGED client, collector.step # "full"
  PROVE  \A d \in Clients : HoleIsKnown(d)'
BY DEF StreamInv, HoleIsKnown

LEMMA StreamInit == Init => StreamInv
<1> SUFFICES ASSUME Init PROVE StreamInv OBVIOUS
<1>1. <<>> \in Queues BY QueueEmpty
<1>2. NoClient \in Client BY <1>1 DEF NoClient, Client, Queues
<1>3. collector \in Collector BY StreamAssumption DEF Init, NoCollector, Collector
<1>4. TypeOK BY <1>2, <1>3, StreamAssumption DEF Init, TypeOK, Worker
<1>5. \A c \in Clients : HoleIsKnown(c) BY DEF Init, NoClient, HoleIsKnown
<1> QED BY <1>4, <1>5 DEF StreamInv

\* A client connects, reads, or leaves.
LEMMA ClientStep ==
  ASSUME StreamInv, NEW c \in Clients, Subscribe(c) \/ Serve(c) \/ Sent(c) \/ Disconnect(c)
  PROVE  StreamInv'
<1> DEFINE me == client[c]
<1>0. /\ TypeOK /\ me \in Client /\ HoleIsKnown(c) /\ me.queue \in Queues
      /\ subs \subseteq Clients /\ collector \in Collector
  BY DEF StreamInv, TypeOK, Client, Queues
<1>1. <<>> \in Queues /\ Len(<<>>) = 0 BY QueueEmpty
<1>2. NoClient \in Client /\ [NoClient EXCEPT !.step = "gone"] \in Client
  BY <1>1 DEF NoClient, Client, Queues
<1>3. ASSUME NEW s \in {"joining", "reading", "leaving"}, Set(c, [me EXCEPT !.step = s]),
             UNCHANGED <<hook, hooks, worker>>, collector' \in Collector, subs' \subseteq Clients,
             UNCHANGED collector \/ collector.step # "full"
      PROVE  StreamInv'
  <2>1. [me EXCEPT !.step = s] \in Client BY <1>0 DEF Client
  <2>2. TypeOK' BY <1>0, <1>3, <2>1, TypeSet
  <2>3. HoleIsKnown(c)' BY <1>0, <1>3 DEF HoleIsKnown, Set, TypeOK, Client
  <2> QED BY <1>3, <2>2, <2>3, KnownSet DEF StreamInv
<1>4. ASSUME Set(c, [NoClient EXCEPT !.step = "gone"]),
             UNCHANGED <<hook, hooks, worker>>, collector' \in Collector, subs' \subseteq Clients,
             UNCHANGED collector \/ collector.step # "full"
      PROVE  StreamInv'
  <2>1. TypeOK' BY <1>0, <1>2, <1>4, TypeSet
  <2>2. HoleIsKnown(c)' BY <1>0, <1>1, <1>4 DEF HoleIsKnown, Set, TypeOK, NoClient
  <2> QED BY <1>4, <2>1, <2>2, KnownSet DEF StreamInv
<1>5. CASE Subscribe(c) BY <1>0, <1>3, <1>5 DEF Subscribe
<1>6. CASE EnsureRunning(c)
  <2>1. Started \in Collector /\ (Started = collector \/ collector.step # "full")
    BY <1>0, StreamAssumption DEF Started, NoCollector, Collector
  <2> QED BY <1>0, <1>3, <1>4, <1>6, <2>1 DEF EnsureRunning
<1>7. CASE Unsubscribe(c) BY <1>0, <1>4, <1>7 DEF Unsubscribe
<1>8. CASE Sent(c) \/ Disconnect(c) BY <1>0, <1>3, <1>8 DEF Sent, Disconnect
<1>9. CASE Get(c)
  <2> DEFINE dropped == [me EXCEPT !.queue = Tail(me.queue), !.got = "overrun", !.step = "leaving"]
             sent == [me EXCEPT !.queue = Tail(me.queue), !.step = "sending",
                                !.got = IF @ = "hole" \/ Head(me.queue) = "gap" THEN "hole" ELSE "events"]
  <2>1. Tail(me.queue) \in Queues /\ Head(me.queue) = me.queue[1]
        /\ Len(me.queue) \in Nat \ {0} /\ Len(Tail(me.queue)) = Len(me.queue) - 1
        /\ \A i \in 1..Len(Tail(me.queue)) : Tail(me.queue)[i] = me.queue[i + 1]
    BY <1>0, <1>9, QueueGet DEF Get
  <2>2. dropped \in Client /\ sent \in Client BY <1>0, <2>1 DEF Client, Queues
  <2>3. UNCHANGED <<hook, subs, collector, hooks, worker>> BY <1>9 DEF Get
  <2>4. \A i \in 1..Len(Tail(me.queue)) : Tail(me.queue)[i] = "gap" => me.dropped = "yes"
    BY <1>0, <2>1 DEF HoleIsKnown
  <2>5. CASE me.dropped = "yes"
    <3>1. Set(c, dropped) BY <1>9, <2>5 DEF Get
    <3>2. TypeOK' BY <1>0, <2>2, <2>3, <3>1, TypeSet
    <3>3. HoleIsKnown(c)' BY <1>0, <2>3, <2>5, <3>1 DEF HoleIsKnown, Set, TypeOK, Client
    <3> QED BY <2>3, <3>1, <3>2, <3>3, KnownSet DEF StreamInv
  <2>6. CASE me.dropped # "yes"
    <3>1. Set(c, sent) BY <1>9, <2>6 DEF Get
    <3>2. TypeOK' BY <1>0, <2>2, <2>3, <3>1, TypeSet
    <3>3. Head(me.queue) # "gap" /\ me.got # "hole" BY <1>0, <2>1, <2>6 DEF HoleIsKnown
    <3>4. client'[c] = sent BY <1>0, <3>1 DEF Set, TypeOK
    <3>5. HoleIsKnown(c)' BY <1>0, <2>3, <2>4, <3>3, <3>4 DEF HoleIsKnown, Client
    <3> QED BY <2>3, <3>1, <3>2, <3>5, KnownSet DEF StreamInv
  <2> QED BY <2>5, <2>6
<1> QED BY <1>5, <1>6, <1>7, <1>8, <1>9 DEF Serve

------------------------------------------------------------------------------
(* The collector and the rest *)

\* An event is offered to a client: queued, and known to follow a hole when it does; or
\* the queue is full, and the collector is about to mark the client.
LEMMA OfferStep ==
  ASSUME StreamInv, NEW c \in Clients, Offer(c)
  PROVE  StreamInv'
<1> DEFINE me == client[c]
           event == IF me.missed = "yes" THEN "gap" ELSE "next"
           queued == [me EXCEPT !.queue = Append(me.queue, event), !.missed = "no"]
           missed == [me EXCEPT !.missed = "yes"]
<1>0. /\ TypeOK /\ me \in Client /\ HoleIsKnown(c) /\ me.queue \in Queues
      /\ subs \subseteq Clients /\ collector \in Collector /\ collector.step = "offer"
      /\ UNCHANGED <<hook, subs, hooks, worker>>
  BY DEF StreamInv, TypeOK, Client, Queues, Offer
<1>1. [collector EXCEPT !.todo = @ \ {c}] \in Collector
      /\ [collector EXCEPT !.todo = @ \ {c}, !.step = "full", !.full = {c}] \in Collector
  BY <1>0 DEF Collector
<1>2. CASE client[c].step = "gone"
  <2>1. UNCHANGED client /\ collector' \in Collector BY <1>1, <1>2 DEF Offer
  <2>2. TypeOK' BY <1>0, <2>1 DEF TypeOK
  <2> QED BY <1>0, <2>1, <2>2, CollectorMoves DEF StreamInv
<1>3. CASE client[c].step # "gone" /\ Len(me.queue) < Depth
  <2>1. /\ Append(me.queue, event) \in Queues /\ Len(Append(me.queue, event)) = Len(me.queue) + 1
        /\ \A i \in 1..Len(Append(me.queue, event)) :
             Append(me.queue, event)[i] = IF i = Len(me.queue) + 1 THEN event ELSE me.queue[i]
        /\ Len(me.queue) \in Nat
    BY <1>0, <1>3, QueuePut
  <2>2. queued \in Client BY <1>0, <2>1 DEF Client, Queues
  <2>3. Set(c, queued) /\ collector' = [collector EXCEPT !.todo = @ \ {c}]
    <3>1. Len(me.queue) # Depth BY <1>3, <2>1, StreamAssumption
    <3> QED BY <1>3, <3>1 DEF Offer, Queued
  <2>4. TypeOK' BY <1>0, <1>1, <2>2, <2>3, TypeSet
  <2>5. client'[c] = queued BY <1>0, <2>3 DEF Set, TypeOK
  <2>6. me.missed = "yes" => me.dropped = "yes" BY <1>0 DEF HoleIsKnown
  <2>7. \A i \in 1..Len(Append(me.queue, event)) :
          Append(me.queue, event)[i] = "gap" => me.dropped = "yes"
    BY <1>0, <2>1, <2>6 DEF HoleIsKnown
  <2>8. HoleIsKnown(c)' BY <1>0, <2>5, <2>7 DEF HoleIsKnown, Client
  <2> QED BY <1>0, <2>3, <2>4, <2>8, KnownSet DEF StreamInv
<1>4. CASE client[c].step # "gone" /\ Len(me.queue) = Depth
  <2>1. missed \in Client BY <1>0 DEF Client
  <2>2. /\ Set(c, missed) /\ collector' \in Collector
        /\ collector'.step = "full" /\ c \in collector'.full
    <3>1. ~(Len(me.queue) < Depth) BY <1>4, StreamAssumption
    <3>2. Set(c, missed) /\ collector' = [collector EXCEPT !.todo = @ \ {c}, !.step = "full", !.full = {c}]
      BY <1>4, <3>1 DEF Offer
    <3> QED BY <1>0, <1>1, <3>2 DEF Collector
  <2>3. TypeOK' BY <1>0, <2>1, <2>2, TypeSet
  <2>4. client'[c] = missed BY <1>0, <2>2 DEF Set, TypeOK
  <2>5. HoleIsKnown(c)' BY <1>0, <2>2, <2>4 DEF HoleIsKnown, Client
  <2> QED BY <1>0, <2>2, <2>3, <2>5, KnownSet DEF StreamInv
<1> QED BY <1>2, <1>3, <1>4 DEF Offer

\* The mark itself.
LEMMA DropStep == StreamInv /\ Drop => StreamInv'
<1> SUFFICES ASSUME StreamInv, Drop PROVE StreamInv' OBVIOUS
<1>1. \A c \in Clients : client[c] \in Client BY DEF StreamInv, TypeOK
<1>2. TypeOK'
  <2>1. client' \in [Clients -> Client] BY <1>1 DEF Drop, Client
  <2>2. collector' \in Collector BY DEF StreamInv, TypeOK, Drop, Collector
  <2> QED BY <2>1, <2>2 DEF StreamInv, TypeOK, Drop
<1>3. ASSUME NEW c \in Clients PROVE HoleIsKnown(c)'
  <2>1. HoleIsKnown(c) BY DEF StreamInv
  <2>2. client'[c] = IF c \in collector.full THEN [client[c] EXCEPT !.dropped = "yes"] ELSE client[c]
    BY DEF Drop
  <2> QED BY <1>1, <2>1, <2>2 DEF HoleIsKnown, Client
<1> QED BY <1>2, <1>3 DEF StreamInv

LEMMA CollectStep == StreamInv /\ Collect => StreamInv'
<1> SUFFICES ASSUME StreamInv, Collect PROVE StreamInv' OBVIOUS
<1>1. CASE Drop BY <1>1, DropStep
<1>2. CASE \E c \in Clients : Offer(c) BY <1>2, OfferStep
<1>3. ASSUME UNCHANGED <<hook, subs, client>>, collector.step # "full", collector' \in Collector,
             hooks' \in 0..HookDepth, worker' \in Worker
      PROVE  StreamInv'
  BY <1>3, CollectorMoves DEF StreamInv, TypeOK
<1>4. collector \in Collector /\ hooks \in 0..HookDepth /\ worker \in Worker /\ subs \subseteq Clients
  BY DEF StreamInv, TypeOK
<1> USE StreamAssumption
<1>5. CASE Check \/ TickFails \/ Waited \/ Died
  <2>1. collector' \in Collector BY <1>5 DEF Check, TickFails, Waited, Died, NoCollector, Collector
  <2> QED BY <1>3, <1>4, <1>5, <2>1 DEF Check, TickFails, Waited, Died
<1>6. CASE Publish
  <2>1. collector' \in Collector BY <1>4, <1>6 DEF Publish, Collector
  <2> QED BY <1>3, <1>4, <1>6, <2>1 DEF Publish
<1>7. AfterEvent \subseteq Collector
  <2>1. ASSUME NEW n \in 0..MaxTold
        PROVE  [NoCollector EXCEPT !.step = "publish", !.told = n] \in Collector
    BY DEF NoCollector, Collector
  <2>2. [NoCollector EXCEPT !.step = "wait"] \in Collector BY DEF NoCollector, Collector
  <2> QED BY <2>1, <2>2 DEF AfterEvent
<1>8. CASE Published
  <2>1. collector' \in Collector BY <1>4, <1>7, <1>8 DEF Published, Collector
  <2>2. hooks' \in 0..HookDepth BY <1>4, <1>8 DEF Published
  <2> QED BY <1>3, <1>4, <1>8, <2>1, <2>2 DEF Published
<1>9. CASE EnsureWorker
  <2>1. worker' \in Worker BY <1>4, <1>9 DEF EnsureWorker, Worker
  <2> QED BY <1>3, <1>4, <1>7, <1>9, <2>1 DEF EnsureWorker
<1> QED BY <1>1, <1>2, <1>5, <1>6, <1>8, <1>9 DEF Collect

\* The webhook's worker and the operator leave the clients and the collector alone.
LEMMA OtherStep ==
  ASSUME StreamInv, Deliver \/ Save \/ UNCHANGED vars
  PROVE  StreamInv'
<1>1. UNCHANGED <<client, collector, subs>>
  BY DEF Deliver, TakeHook, Posted, NoHooks, WorkerDied, Save, vars
<1>2. hook' \in {"set", "unset"} /\ hooks' \in 0..HookDepth /\ worker' \in Worker
  BY StreamAssumption
  DEF StreamInv, TypeOK, Worker, Deliver, TakeHook, Posted, NoHooks, WorkerDied, Save, vars
<1>3. TypeOK' BY <1>1, <1>2 DEF StreamInv, TypeOK
<1>4. \A c \in Clients : HoleIsKnown(c)' BY <1>1 DEF StreamInv, HoleIsKnown
<1> QED BY <1>3, <1>4 DEF StreamInv

LEMMA StreamNext == StreamInv /\ [Next]_vars => StreamInv'
  BY ClientStep, CollectStep, OtherStep DEF Next

\* A queue never holds more than SUBSCRIBER_QUEUE_DEPTH events, the webhooks' no more than
\* WEBHOOK_QUEUE_DEPTH, and every value of the threads and connections is of its type.
THEOREM StreamIsTyped == Spec => []TypeOK
<1>1. StreamInv => TypeOK BY DEF StreamInv
<1> QED BY <1>1, StreamInit, StreamNext, PTL DEF Spec

\* No client is sent an event that follows one it was not sent, however the collector's
\* thread and the clients' interleave, for any number of clients and any queue depth.
THEOREM NoClientIsMisled == Spec => []NoSilentGap
<1>1. StreamInv => NoSilentGap BY DEF StreamInv, HoleIsKnown, NoSilentGap
<1> QED BY <1>1, StreamInit, StreamNext, PTL DEF Spec

------------------------------------------------------------------------------
(* The history of a unit's journal *)

\* Every set of numbers has a least one.
LEMMA LeastOfSome ==
  ASSUME NEW T \in SUBSET Nat, T # {} PROVE \E m \in T : \A k \in T : m <= k
<1>1. PICK m \in T : \A k \in T : ~(<<k, m>> \in OpToRel(<, Nat))
  BY WFMin, NatLessThanWellFounded
<1>2. \A k, h \in Nat : k < h => <<k, h>> \in OpToRel(<, Nat) BY DEF OpToRel
<1>3. \A k \in T : ~(k < m)
  <2> SUFFICES ASSUME NEW k \in T PROVE ~(k < m) OBVIOUS
  <2>1. k \in Nat /\ m \in Nat BY <1>1
  <2> QED BY <2>1, <1>1, <1>2, Zenon
<1> QED BY <1>3

\* What is kept of the first n lines: one by one, and each that is newer.
Picks(seeded, live, n, g) ==
  g = [k \in 0..n |-> IF k = 0 THEN << >>
                      ELSE IF seeded = << >> \/ live[k] > Last(seeded)
                           THEN Append(g[k - 1], live[k]) ELSE g[k - 1]]

LEMMA PicksExist ==
  ASSUME NEW seeded, NEW live, NEW n \in Nat PROVE \E g : Picks(seeded, live, n, g)
<1> DEFINE T == {k \in Nat : ~\E g : Picks(seeded, live, k, g)}
<1>1. SUFFICES ASSUME T # {} PROVE FALSE OBVIOUS
<1>2. PICK m \in T : \A k \in T : m <= k BY <1>1, LeastOfSome
<1>3. CASE m = 0
  <2>1. Picks(seeded, live, 0, [k \in 0..0 |-> << >>]) BY DEF Picks
  <2> QED BY <2>1, <1>2, <1>3
<1>4. CASE m # 0
  <2>1. m - 1 \in Nat /\ m - 1 \notin T BY <1>2, <1>4
  <2>2. PICK h : Picks(seeded, live, m - 1, h) BY <2>1
  <2> DEFINE g == [k \in 0..m |-> IF k = m
                     THEN IF seeded = << >> \/ live[m] > Last(seeded)
                          THEN Append(h[m - 1], live[m]) ELSE h[m - 1]
                     ELSE h[k]]
  <2>3. \A k \in 0..(m - 1) : h[k] = IF k = 0 THEN << >>
                      ELSE IF seeded = << >> \/ live[k] > Last(seeded)
                           THEN Append(h[k - 1], live[k]) ELSE h[k - 1]
    BY <2>2 DEF Picks
  <2>4. \A k \in 0..m : g[k] = IF k = 0 THEN << >>
                      ELSE IF seeded = << >> \/ live[k] > Last(seeded)
                           THEN Append(g[k - 1], live[k]) ELSE g[k - 1]
    BY <2>3, <1>4
  <2>5. Picks(seeded, live, m, g) BY <2>4 DEF Picks
  <2> QED BY <2>5, <1>2
<1> QED BY <1>3, <1>4

\* What is kept is a sequence, and nothing that is newer is left out of it.
LEMMA NewerIsKept ==
  ASSUME NEW seeded \in Seq(Nat), NEW live \in Seq(Nat)
  PROVE  /\ NewerThan(seeded, live) \in Seq(Nat)
         /\ \A i \in ToSet(live) : seeded = << >> \/ i > Last(seeded) => i \in ToSet(NewerThan(seeded, live))
<1> DEFINE n == Len(live)
           g == CHOOSE g : Picks(seeded, live, n, g)
           Kept(k) == /\ g[k] \in Seq(Nat)
                      /\ \A j \in 1..k : seeded = << >> \/ live[j] > Last(seeded) =>
                           \E h \in 1..Len(g[k]) : g[k][h] = live[j]
           T == {k \in 0..n : ~Kept(k)}
<1>1. n \in Nat /\ live \in [1..n -> Nat] OBVIOUS
<1>2. Picks(seeded, live, n, g) BY <1>1, PicksExist
<1>3. NewerThan(seeded, live) = g[n] BY DEF NewerThan, Picks
<1> HIDE DEF n, g, Kept
<1>4. \A k \in 0..n : g[k] = IF k = 0 THEN << >>
                      ELSE IF seeded = << >> \/ live[k] > Last(seeded)
                           THEN Append(g[k - 1], live[k]) ELSE g[k - 1]
  BY <1>2 DEF Picks
<1>5. T = {}
  <2> SUFFICES ASSUME T # {} PROVE FALSE OBVIOUS
  <2>0. T \in SUBSET Nat BY <1>1
  <2>1. PICK m \in T : \A k \in T : m <= k BY LeastOfSome, <2>0
  <2>a. m \in 0..n BY <2>1
  <2>b. Kept(0)
    <3>1. g[0] = << >> BY <1>1, <1>4
    <3> QED BY <3>1 DEF Kept
  <2>2. m # 0 BY <2>b, <2>1
  <2>3. m \in 1..n /\ m - 1 \in 0..n /\ m - 1 \notin T BY <2>1, <2>2, <2>a, <1>1
  <2>4. Kept(m - 1) BY <2>3
  <2>5. live[m] \in Nat BY <2>3, <1>1
  <2>6. CASE seeded = << >> \/ live[m] > Last(seeded)
    <3>1. g[m] = Append(g[m - 1], live[m]) BY <1>4, <2>2, <2>3, <2>6
    <3>0. g[m - 1] \in Seq(Nat) BY <2>4 DEF Kept
    <3>2. g[m] \in Seq(Nat) BY <3>1, <3>0, <2>5
    <3>3. Len(g[m]) = Len(g[m - 1]) + 1 /\ g[m][Len(g[m])] = live[m] /\ Len(g[m - 1]) \in Nat
          /\ \A h \in 1..Len(g[m - 1]) : g[m][h] = g[m - 1][h]
      BY <3>1, <3>0, <2>5
    <3>4. ASSUME NEW j \in 1..m, seeded = << >> \/ live[j] > Last(seeded)
          PROVE  \E h \in 1..Len(g[m]) : g[m][h] = live[j]
      <4>1. CASE j = m
        <5>1. Len(g[m]) \in 1..Len(g[m]) BY <3>3
        <5> QED BY <4>1, <5>1, <3>3
      <4>2. CASE j # m
        <5>1. j \in 1..(m - 1) BY <4>2, <2>3
        <5>2. PICK h \in 1..Len(g[m - 1]) : g[m - 1][h] = live[j] BY <5>1, <2>4, <3>4 DEF Kept
        <5> QED BY <5>2, <3>3
      <4> QED BY <4>1, <4>2
    <3> QED BY <3>2, <3>4, <2>1 DEF Kept
  <2>7. CASE ~(seeded = << >> \/ live[m] > Last(seeded))
    <3>1. g[m] = g[m - 1] BY <1>4, <2>2, <2>3, <2>7
    <3>2. \A j \in 1..m : j \in 1..(m - 1) \/ j = m BY <2>3
    <3> QED BY <3>1, <3>2, <2>4, <2>1, <2>7 DEF Kept
  <2> QED BY <2>6, <2>7
<1>6. Kept(n) BY <1>5, <1>1
<1>7. ASSUME NEW i \in ToSet(live), seeded = << >> \/ i > Last(seeded) PROVE i \in ToSet(g[n])
  <2>1. PICK j \in 1..n : live[j] = i BY <1>1 DEF ToSet
  <2>2. PICK h \in 1..Len(g[n]) : g[n][h] = i BY <2>1, <1>6, <1>7 DEF Kept
  <2> QED BY <2>2, <1>6 DEF ToSet, Kept
<1> QED BY <1>3, <1>6, <1>7 DEF Kept

\* What a request has read of the journal is one stretch of it.
PollState == [window : Nat, read : BOOLEAN, seeded : Seq(Nat)]
HistoryInv ==
  /\ journal \in Seq(Slots) /\ events \in Seq(Nat)
  /\ tail # Idle => tail.next \in Nat
  /\ DOMAIN poll = Pollers
  /\ \A r \in Pollers : poll[r] # Idle =>
       /\ poll[r] \in PollState
       /\ \E lo, hi \in Nat : lo >= 1 /\ poll[r].seeded = Places(lo, hi)

LEMMA PlacesIsAStretch ==
  ASSUME NEW lo \in Nat, NEW hi \in Nat
  PROVE  /\ Places(lo, hi) \in Seq(Nat)
         /\ ToSet(Places(lo, hi)) = lo..hi
         /\ Places(lo, hi) # << >> => Head(Places(lo, hi)) = lo /\ Last(Places(lo, hi)) = hi
<1> DEFINE p == Places(lo, hi)
           n == IF lo > hi THEN 0 ELSE hi - lo + 1
<1>1. n \in Nat /\ p = [k \in 1..n |-> lo + k - 1] BY DEF Places
<1>2. p \in Seq(Nat) /\ Len(p) = n BY <1>1
<1>3. ToSet(p) = lo..hi
  <2>1. \A x \in lo..hi : x - lo + 1 \in 1..n /\ p[x - lo + 1] = x BY <1>1
  <2>2. \A k \in 1..n : p[k] \in lo..hi BY <1>1
  <2> QED BY <2>1, <2>2, <1>1 DEF ToSet
<1>4. p # << >> => Head(p) = lo /\ Last(p) = hi
  <2> SUFFICES ASSUME p # << >> PROVE Head(p) = lo /\ Last(p) = hi OBVIOUS
  <2>1. n > 0 /\ n = hi - lo + 1 BY <1>1, <1>2
  <2> QED BY <2>1, <1>1, <1>2 DEF Last
<1> QED BY <1>2, <1>3, <1>4

\* A deque keeps the end of what it is given, and loses something only when it is full.
LEMMA NewestKeeps ==
  ASSUME NEW s \in Seq(Nat)
  PROVE  /\ Newest(s) \in Seq(Nat)
         /\ Len(Newest(s)) = MaxHeld \/ Newest(s) = s
<1>1. MaxHeld \in Nat \ {0} /\ Len(s) \in Nat BY TelemetryAssumption
<1>2. CASE Len(s) > MaxHeld BY <1>1, <1>2 DEF Newest
<1>3. CASE ~(Len(s) > MaxHeld) BY <1>1, <1>3 DEF Newest
<1> QED BY <1>2, <1>3

LEMMA HistoryInit == TelemetryInit => HistoryInv
  BY DEF TelemetryInit, HistoryInv

LEMMA LoggedIsTyped == ASSUME HistoryInv, NEW s \in Slots, Logged(s) PROVE journal' \in Seq(Slots)
  BY DEF HistoryInv, Logged

LEMMA MergedIsTyped ==
  ASSUME HistoryInv, NEW r \in Pollers, poll[r] # Idle
  PROVE  Merged(poll[r].seeded, events) \in Seq(Nat)
<1>1. poll[r].seeded \in Seq(Nat) /\ events \in Seq(Nat) BY DEF HistoryInv, PollState
<1>2. poll[r].seeded \o NewerThan(poll[r].seeded, events) \in Seq(Nat) BY <1>1, NewerIsKept
<1> QED BY <1>2, NewestKeeps DEF Merged

LEMMA HistoryNext == HistoryInv /\ [TelemetryNext]_telemetryVars => HistoryInv'
<1> SUFFICES ASSUME HistoryInv, [TelemetryNext]_telemetryVars PROVE HistoryInv' OBVIOUS
<1>0. Len(journal) \in Nat BY DEF HistoryInv
<1>1. CASE \E r \in Pollers : \E w \in Windows : PollAsks(r, w)
  <2>1. PICK r \in Pollers, w \in Windows : PollAsks(r, w) BY <1>1
  <2>2. w \in Nat BY TelemetryAssumption
  <2>3. << >> = Places(1, 0) BY DEF Places
  <2>4. [window |-> w, read |-> FALSE, seeded |-> << >>] \in PollState BY <2>2 DEF PollState
  <2> QED BY <2>1, <2>3, <2>4 DEF PollAsks, HistoryInv
<1>2. CASE \E r \in Pollers : JournalRead(r)
  <2>1. PICK r \in Pollers : JournalRead(r) BY <1>2
  <2> DEFINE n == Len(journal)
             w == poll[r].window
             lo == IF n > w THEN n - w + 1 ELSE 1
             q == [window |-> w, read |-> TRUE, seeded |-> Places(lo, n)]
  <2>2. w \in Nat BY <2>1 DEF JournalRead, HistoryInv, PollState
  <2>3. lo \in Nat /\ lo >= 1 BY <1>0, <2>2
  <2>4. q \in PollState BY <1>0, <2>2, <2>3, PlacesIsAStretch DEF PollState
  <2>5. poll' = [poll EXCEPT ![r] = q] \/ poll' = [poll EXCEPT ![r] = Idle] BY <2>1 DEF JournalRead
  <2>6. q.seeded = Places(lo, n) OBVIOUS
  <2> HIDE DEF q
  <2>7. \A x \in Pollers : x # r => poll'[x] = poll[x] BY <2>5 DEF HistoryInv
  <2>8. poll'[r] = q \/ poll'[r] = Idle BY <2>1, <2>5 DEF HistoryInv
  <2>9. DOMAIN poll' = Pollers BY <2>5 DEF HistoryInv
  <2>10. ASSUME NEW x \in Pollers, poll'[x] # Idle
         PROVE  /\ poll'[x] \in PollState
                /\ \E a, b \in Nat : a >= 1 /\ poll'[x].seeded = Places(a, b)
    <3>1. CASE x = r BY <3>1, <2>10, <2>8, <2>3, <2>4, <2>6, <1>0
    <3>2. CASE x # r BY <3>2, <2>10, <2>7 DEF HistoryInv
    <3> QED BY <3>1, <3>2
  <2>11. journal' = journal /\ events' = events /\ tail' = tail BY <2>1 DEF JournalRead
  <2> QED BY <2>9, <2>10, <2>11 DEF HistoryInv
<1>3. CASE \E r \in Pollers : Seeds(r)
  <2>1. PICK r \in Pollers : Seeds(r) BY <1>3
  <2>2. events' \in Seq(Nat) BY <2>1, MergedIsTyped DEF Seeds
  <2> QED BY <2>1, <2>2 DEF Seeds, HistoryInv
<1>4. CASE Turn BY <1>4, LoggedIsTyped DEF Turn, HistoryInv
<1>5. CASE Delivers
  <2>1. Append(events, tail.next) \in Seq(Nat) BY <1>5 DEF Delivers, HistoryInv
  <2>2. events' \in Seq(Nat) BY <1>5, <2>1, NewestKeeps DEF Delivers
  <2> QED BY <1>5, <2>2 DEF Delivers, HistoryInv
<1>6. CASE Follows \/ Exits \/ Restarts BY <1>0, <1>6 DEF Follows, Exits, Restarts, HistoryInv
<1>7. CASE ProbeStarts \/ ProbeSends \/ ProbeReads
  BY <1>7, LoggedIsTyped DEF ProbeStarts, ProbeSends, ProbeReads, HistoryInv
<1>8. CASE UNCHANGED telemetryVars BY <1>8 DEF telemetryVars, HistoryInv
<1> QED BY <1>1, <1>2, <1>3, <1>4, <1>5, <1>6, <1>7, <1>8 DEF TelemetryNext

\* Seeding keeps what is newer than the history it seeds, and the history has no holes.
LEMMA SeedsKeeps ==
  ASSUME HistoryInv, NEW r \in Pollers, Seeds(r), NEW i \in ToSet(events) \ ToSet(events')
  PROVE  \/ Len(events') = MaxHeld
         \/ poll[r] # Idle /\ poll'[r] = Idle /\ poll[r].seeded # << >> /\ i < Head(poll[r].seeded)
<1> DEFINE s == poll[r].seeded
           all == s \o NewerThan(s, events)
<1>1. poll[r] # Idle /\ poll'[r] = Idle /\ events' = Newest(all) BY DEF Seeds, HistoryInv, Merged
<1>2. PICK lo, hi \in Nat : s = Places(lo, hi) BY <1>1 DEF HistoryInv
<1>3. s \in Seq(Nat) /\ events \in Seq(Nat) BY <1>1 DEF HistoryInv, PollState
<1>4. NewerThan(s, events) \in Seq(Nat) BY <1>3, NewerIsKept
<1>5. SUFFICES ASSUME events' = all
               PROVE  s # << >> /\ i < Head(s)
  <2>1. all \in Seq(Nat) BY <1>3, <1>4
  <2> HIDE DEF all
  <2> QED BY <1>1, <2>1, NewestKeeps
<1>6. i \in Nat BY <1>3 DEF ToSet
<1>7. \A x \in ToSet(s) \cup ToSet(NewerThan(s, events)) : x \in ToSet(all)
  <2> HIDE DEF s
  <2> DEFINE t == NewerThan(s, events)
  <2>1. t \in Seq(Nat) BY <1>4
  <2> HIDE DEF t
  <2> DEFINE u == s \o t
  <2>2. /\ DOMAIN s = 1..Len(s) /\ DOMAIN t = 1..Len(t) /\ DOMAIN u = 1..Len(u)
        /\ Len(u) = Len(s) + Len(t) /\ Len(s) \in Nat /\ Len(t) \in Nat
        /\ \A k \in 1..Len(s) : u[k] = s[k]
    BY <2>1, <1>3
  <2>3. \A k \in 1..Len(t) : u[k + Len(s)] = t[k] /\ k + Len(s) \in 1..Len(u) BY <2>1, <2>2, <1>3
  <2>a. all = u BY DEF t
  <2> HIDE DEF u
  <2>4. ASSUME NEW x \in ToSet(s) PROVE x \in ToSet(u)
    <3>1. PICK k \in 1..Len(s) : x = s[k] BY <2>2 DEF ToSet
    <3>2. k \in DOMAIN u /\ u[k] = x BY <3>1, <2>2
    <3> QED BY <3>2 DEF ToSet
  <2>5. ASSUME NEW x \in ToSet(t) PROVE x \in ToSet(u)
    <3>1. PICK k \in 1..Len(t) : x = t[k] BY <2>2 DEF ToSet
    <3> QED BY <3>1, <2>2, <2>3 DEF ToSet
  <2> QED BY <2>4, <2>5, <2>a DEF t
<1>8. i \notin ToSet(s) /\ ~(s = << >> \/ i > Last(s)) BY <1>5, <1>7, <1>3, NewerIsKept
<1>9. Head(s) = lo /\ Last(s) = hi /\ ToSet(s) = lo..hi BY <1>2, <1>8, PlacesIsAStretch
<1> QED BY <1>6, <1>8, <1>9

\* A line leaves the collector only when newer ones fill it or when it is older than the
\* window being seeded (UnitCollector.backfill): none is lost where the journal that was
\* read and what was followed meanwhile meet.
THEOREM SeedingLosesNothing == TelemetrySpec => SeedingKeeps
<1>1. ASSUME HistoryInv, TelemetryNext, NEW i \in ToSet(events) \ ToSet(events')
      PROVE  \/ Len(events') = MaxHeld
             \/ \E r \in Pollers : /\ poll[r] # Idle /\ poll'[r] = Idle
                                   /\ poll[r].seeded # << >> /\ i < Head(poll[r].seeded)
  <2>1. CASE \E r \in Pollers : Seeds(r) BY <2>1, <1>1, SeedsKeeps
  <2>2. CASE Delivers
    <3> DEFINE all == Append(events, tail.next)
    <3>1. events \in Seq(Nat) /\ tail.next \in Nat BY <1>1, <2>2 DEF Delivers, HistoryInv
    <3>2. all \in Seq(Nat) /\ Len(all) = Len(events) + 1 /\ \A k \in 1..Len(events) : all[k] = events[k]
      BY <3>1
    <3>3. ToSet(events) \subseteq ToSet(all) BY <3>1, <3>2 DEF ToSet
    <3>4. events' = Newest(all) BY <2>2 DEF Delivers
    <3> HIDE DEF all
    <3> QED BY <3>2, <3>3, <3>4, <1>1, NewestKeeps
  <2>3. CASE UNCHANGED events BY <2>3, <1>1
  <2> QED BY <1>1, <2>1, <2>2, <2>3
          DEF TelemetryNext, PollAsks, JournalRead, Turn, Follows, Exits, Restarts, ProbeStarts, ProbeSends, ProbeReads
<1>2. HistoryInv /\ [TelemetryNext]_telemetryVars =>
        [\A i \in ToSet(events) \ ToSet(events') :
                     \/ Len(events') = MaxHeld
                     \/ \E r \in Pollers : /\ poll[r] # Idle /\ poll'[r] = Idle
                                           /\ poll[r].seeded # << >> /\ i < Head(poll[r].seeded)
        ]_telemetryVars
  BY <1>1
<1> QED BY <1>2, HistoryInit, HistoryNext, PTL DEF TelemetrySpec, SeedingKeeps

=============================================================================
