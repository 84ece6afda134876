------------------------------- MODULE Stream -------------------------------
(***************************************************************************)
(* web/public_api.py and web/routes/public.py: the live stream.  One       *)
(* collector thread, the Broadcaster, serves every client of               *)
(* /api/v1/events through a bounded queue each, and hands state changes to *)
(* the WebhookSender, a bounded queue with a worker of its own.  Both      *)
(* threads stop by themselves and are started again by who needs them,     *)
(* who asks whether the thread is alive.                                   *)
(*                                                                         *)
(* What an event says is left out.  An event in a queue is "next", or      *)
(* "gap" when events before it were not queued.                            *)
(***************************************************************************)
EXTENDS Integers, Sequences, FiniteSets

CONSTANTS
  Clients,
  Depth,      \* SUBSCRIBER_QUEUE_DEPTH
  HookDepth,  \* WEBHOOK_QUEUE_DEPTH
  MaxTold     \* bound: the events of one tick after its snapshot

ASSUME StreamAssumption ==
  IsFiniteSet(Clients) /\ Depth \in Nat \ {0} /\ HookDepth \in Nat \ {0} /\ MaxTold \in Nat

VARIABLES
  hook,       \* LLM_API_WEBHOOK_URL
  subs,       \* _subscribers
  client,     \* each client's connection and the generator that serves it
  collector,  \* the Broadcaster's thread
  hooks,      \* how many events are in the WebhookSender's queue
  worker      \* its thread

vars == <<hook, subs, client, collector, hooks, worker>>

\* step: the connection; queue, dropped: the Subscription; missed: events were lost
\* since the last one queued; got: of what the client was sent.
Client == [step: {"out", "joining", "reading", "sending", "leaving", "gone"},
           queue: UNION {[1..n -> {"next", "gap"}] : n \in 0..Depth},
           dropped: {"no", "yes"}, missed: {"no", "yes"},
           got: {"nothing", "events", "hole", "overrun"}]
NoClient == [step |-> "out", queue |-> <<>>, dropped |-> "no", missed |-> "no", got |-> "nothing"]

\* step "alive": the thread runs, at the top of its loop; "ending": it has returned
\* from _run and is_alive() still holds.  todo: subscribers the event is still to be
\* offered to; full: the one whose queue has just been full.
Collector == [step: {"none", "alive", "publish", "offer", "full", "told", "wait", "ending"},
              todo: SUBSET Clients, told: 0..MaxTold, full: SUBSET Clients]
NoCollector == [step |-> "none", todo |-> {}, told |-> 0, full |-> {}]
Worker == {"none", "alive", "posting", "ending"}

Set(c, new) == client' = [client EXCEPT ![c] = new]
Started == IF collector.step = "none" THEN [NoCollector EXCEPT !.step = "alive"] ELSE collector

------------------------------------------------------------------------------
(* A client connects, reads and leaves *)

Subscribe(c) ==
  /\ client[c].step = "out" /\ subs' = subs \cup {c}
  /\ Set(c, [client[c] EXCEPT !.step = "joining"])
  /\ UNCHANGED <<hook, collector, hooks, worker>>
\* ensure_running: a thread that is alive is not started.
EnsureRunning(c) ==
  /\ client[c].step = "joining"
  /\ collector' = Started
  /\ \/ Set(c, [client[c] EXCEPT !.step = "reading"])
     \/ Set(c, [NoClient EXCEPT !.step = "gone"])   \* HEAD: the generator never runs
  /\ UNCHANGED <<hook, subs, hooks, worker>>

Get(c) ==
  /\ client[c].step = "reading" /\ client[c].queue # <<>>
  /\ LET event == Head(client[c].queue)
         rest == Tail(client[c].queue)
     IN IF client[c].dropped = "yes"
        THEN Set(c, [client[c] EXCEPT !.queue = rest, !.got = "overrun", !.step = "leaving"])
        ELSE Set(c, [client[c] EXCEPT !.queue = rest, !.step = "sending",
                                      !.got = IF @ = "hole" \/ event = "gap" THEN "hole" ELSE "events"])
  /\ UNCHANGED <<hook, subs, collector, hooks, worker>>
\* The client has read it.
Sent(c) ==
  /\ client[c].step = "sending" /\ Set(c, [client[c] EXCEPT !.step = "reading"])
  /\ UNCHANGED <<hook, subs, collector, hooks, worker>>
\* The connection is closed: the next write, an event or a ping, fails.
Disconnect(c) ==
  /\ client[c].step \in {"reading", "sending"} /\ Set(c, [client[c] EXCEPT !.step = "leaving"])
  /\ UNCHANGED <<hook, subs, collector, hooks, worker>>
Unsubscribe(c) ==
  /\ client[c].step = "leaving" /\ subs' = subs \ {c}
  /\ Set(c, [NoClient EXCEPT !.step = "gone"])
  /\ UNCHANGED <<hook, collector, hooks, worker>>

------------------------------------------------------------------------------
(* The Broadcaster's thread *)

\* _run: on, or out when nothing needs it.
CheckEither ==   \* mutant: stops when either reason is gone
  /\ collector.step = "alive"
  /\ collector' = IF subs = {} \/ hook = "unset" THEN [NoCollector EXCEPT !.step = "ending"]
                  ELSE [NoCollector EXCEPT !.step = "publish"]
  /\ UNCHANGED <<hook, subs, client, hooks, worker>>
Check ==
  /\ collector.step = "alive"
  /\ collector' = IF subs = {} /\ hook = "unset" THEN [NoCollector EXCEPT !.step = "ending"]
                  ELSE [NoCollector EXCEPT !.step = "publish"]
  /\ UNCHANGED <<hook, subs, client, hooks, worker>>
\* The snapshot cannot be built: the tick is over.
TickFails ==
  /\ collector.step = "publish" /\ collector.told = 0
  /\ collector' = [NoCollector EXCEPT !.step = "wait"]
  /\ UNCHANGED <<hook, subs, client, hooks, worker>>
\* _publish: to those who are subscribed now.
Publish ==
  /\ collector.step = "publish"
  /\ collector' = [collector EXCEPT !.step = "offer", !.todo = subs]
  /\ UNCHANGED <<hook, subs, client, hooks, worker>>
\* Subscription.offer: put_nowait.  Nobody reads the queue of one that is gone.
Queued(c) == Append(client[c].queue, IF client[c].missed = "yes" THEN "gap" ELSE "next")
Offer(c) ==
  /\ collector.step = "offer" /\ c \in collector.todo
  /\ \/ /\ client[c].step = "gone"
        /\ collector' = [collector EXCEPT !.todo = @ \ {c}] /\ UNCHANGED client
     \/ /\ client[c].step # "gone" /\ Len(client[c].queue) < Depth
        /\ Set(c, [client[c] EXCEPT !.queue = Queued(c), !.missed = "no"])
        /\ collector' = [collector EXCEPT !.todo = @ \ {c}]
     \/ /\ client[c].step # "gone" /\ Len(client[c].queue) = Depth
        /\ Set(c, [client[c] EXCEPT !.missed = "yes"])
        /\ collector' = [collector EXCEPT !.todo = @ \ {c}, !.step = "full", !.full = {c}]
  /\ UNCHANGED <<hook, subs, hooks, worker>>
\* except queue.Full
DropAtFirst ==   \* mutant: only a client that has been sent nothing is dropped
  /\ collector.step = "full"
  /\ client' = [c \in Clients |-> IF c \in collector.full /\ client[c].got = "nothing"
                                  THEN [client[c] EXCEPT !.dropped = "yes"] ELSE client[c]]
  /\ collector' = [collector EXCEPT !.step = "offer", !.full = {}]
  /\ UNCHANGED <<hook, subs, hooks, worker>>
Drop ==
  /\ collector.step = "full"
  /\ client' = [c \in Clients |-> IF c \in collector.full
                                  THEN [client[c] EXCEPT !.dropped = "yes"] ELSE client[c]]
  /\ collector' = [collector EXCEPT !.step = "offer", !.full = {}]
  /\ UNCHANGED <<hook, subs, hooks, worker>>
\* The event is published, and a change handed to the webhooks; there may be another.
AfterEvent ==
  {[NoCollector EXCEPT !.step = "wait"]}
  \cup {[NoCollector EXCEPT !.step = "publish", !.told = n] : n \in {collector.told + 1} \cap 0..MaxTold}
Published ==
  /\ collector.step = "offer" /\ collector.todo = {}
  /\ \/ collector' \in AfterEvent /\ UNCHANGED hooks
     \/ /\ collector.told > 0 /\ hook = "set" /\ hooks = HookDepth   \* queue.Full
        /\ collector' \in AfterEvent /\ UNCHANGED hooks
     \/ /\ collector.told > 0 /\ hook = "set" /\ hooks < HookDepth
        /\ hooks' = hooks + 1 /\ collector' = [collector EXCEPT !.step = "told"]
  /\ UNCHANGED <<hook, subs, client, worker>>
\* _ensure_worker
EnsureWorker ==
  /\ collector.step = "told"
  /\ worker' = IF worker = "none" THEN "alive" ELSE worker
  /\ collector' \in AfterEvent
  /\ UNCHANGED <<hook, subs, client, hooks>>
WaitedOn ==   \* mutant: whether it is needed is asked once
  /\ collector.step = "wait" /\ collector' = [NoCollector EXCEPT !.step = "publish"]
  /\ UNCHANGED <<hook, subs, client, hooks, worker>>
Waited ==
  /\ collector.step = "wait" /\ collector' = [NoCollector EXCEPT !.step = "alive"]
  /\ UNCHANGED <<hook, subs, client, hooks, worker>>
Died ==
  /\ collector.step = "ending" /\ collector' = NoCollector
  /\ UNCHANGED <<hook, subs, client, hooks, worker>>

------------------------------------------------------------------------------
(* The WebhookSender's worker *)

TakeHook ==
  /\ worker = "alive" /\ hooks > 0
  /\ worker' = "posting" /\ hooks' = hooks - 1
  /\ UNCHANGED <<hook, subs, client, collector>>
\* Delivered, or not: nothing is tried again.
Posted ==
  /\ worker = "posting" /\ worker' = "alive"
  /\ UNCHANGED <<hook, subs, client, collector, hooks>>
\* Nothing for 30 s.
NoHooksHasty ==   \* mutant: 30 s since it started
  /\ worker = "alive" /\ worker' = "ending"
  /\ UNCHANGED <<hook, subs, client, collector, hooks>>
NoHooks ==
  /\ worker = "alive" /\ hooks = 0 /\ worker' = "ending"
  /\ UNCHANGED <<hook, subs, client, collector, hooks>>
WorkerDied ==
  /\ worker = "ending" /\ worker' = "none"
  /\ UNCHANGED <<hook, subs, client, collector, hooks>>

------------------------------------------------------------------------------
\* The operator saves another webhook URL; nothing else happens then.
Save ==
  /\ hook' \in {"set", "unset"} \ {hook}
  /\ UNCHANGED <<subs, client, collector, hooks, worker>>

\* start_state_api: a webhook that is configured at the start starts the collector.
Init ==
  /\ hook \in {"set", "unset"} /\ subs = {} /\ client = [c \in Clients |-> NoClient]
  /\ collector = [NoCollector EXCEPT !.step = IF hook = "set" THEN "alive" ELSE "none"]
  /\ hooks = 0 /\ worker = "none"

Collect ==
  \/ Check \/ TickFails \/ Publish \/ (\E c \in Clients : Offer(c)) \/ Drop \/ Published
  \/ EnsureWorker \/ Waited \/ Died
Deliver == TakeHook \/ Posted \/ NoHooks \/ WorkerDied
Serve(c) == EnsureRunning(c) \/ Get(c) \/ Unsubscribe(c)
Next ==
  \/ \E c \in Clients : Subscribe(c) \/ Serve(c) \/ Sent(c) \/ Disconnect(c)
  \/ Collect \/ Deliver \/ Save

Spec == Init /\ [][Next]_vars
\* The threads run, and a snapshot can be built now and then.
FairSpec ==
  /\ Spec /\ WF_vars(Collect) /\ WF_vars(Deliver) /\ SF_vars(Publish)
  /\ \A c \in Clients : WF_vars(Serve(c))

------------------------------------------------------------------------------
(* Properties *)

TypeOK ==
  /\ hook \in {"set", "unset"} /\ subs \subseteq Clients /\ client \in [Clients -> Client]
  /\ collector \in Collector /\ hooks \in 0..HookDepth /\ worker \in Worker

\* A client that is sent events is sent all of them from its first on, or is told
\* that it fell behind: no event is left out in silence.
NoSilentGap == \A c \in Clients : client[c].got # "hole"

\* The collector stops once nothing needs it.
CollectorStops == subs = {} /\ hook = "unset" ~> collector.step = "none" \/ subs # {} \/ hook = "set"

\* A client that connects while the collector is at work is served, or leaves.
Served ==
  \A c \in Clients :
    client[c].step = "joining" /\ collector.step \notin {"none", "ending"} ~>
      client[c].got # "nothing" \/ client[c].step \in {"leaving", "gone"}

\* An event that is queued for the webhook is taken up, if the worker was at work.
HooksTaken == hooks > 0 /\ worker \in {"alive", "posting"} ~> worker = "posting"

\* "It runs only while something needs it -- a connected client or a configured
\* webhook": a webhook that is configured is served.
HookServed == hook = "set" ~> collector.step \notin {"none", "ending"} \/ hook = "unset"

\* A client that has connected is served.
EachServed ==
  \A c \in Clients : client[c].step = "joining" ~> client[c].got # "nothing" \/ client[c].step \in {"leaving", "gone"}

\* A connection that is over keeps no collector busy.
NothingKept == \A c \in Clients : client[c].step = "gone" => c \notin subs
=============================================================================
