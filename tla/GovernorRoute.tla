--------------------------- MODULE GovernorRoute ---------------------------
(***************************************************************************)
(* scripts/llm-chat-proxy.py, _governor_route: whether a generation        *)
(* request that this machine could serve goes to the fallback, because the *)
(* backend here is refusing to grow its memory.  Handler threads share the *)
(* pressure state, the probe cache and the sticky conversations; each is   *)
(* only locked while it is looked at, and both probes run unlocked.        *)
(*                                                                         *)
(* Time is kept as ages and as time left, so the clock needs no bound.     *)
(***************************************************************************)
EXTENDS Integers, FiniteSets

CONSTANTS
  Threads,        \* handler threads
  Conversations,
  Enter, Leave,   \* CHAT_FALLBACK_GOVERNOR_ENTER_SEC, .._LEAVE_SEC
  Stick,          \* CHAT_FALLBACK_STICKY_SEC
  Ttl, Probe,     \* _PROBE_TTL_SEC, _PROBE_TIMEOUT_SEC
  Prompts         \* bound: the prompts each thread is given, of Sizes

\* Too small to be worth moving, of a size to move, too large for the fallback.
Sizes == {"small", "fits", "large"}

ASSUME TimesAssumption ==
  /\ Prompts \in [Threads -> SUBSET Sizes] /\ Conversations # {}
  /\ {Enter, Leave, Stick, Ttl, Probe} \subseteq Nat \ {0}
  /\ Probe < Ttl

VARIABLES
  pressure, denied, allowed,   \* _ROUTE_STATE: the switch, and how long either has lasted
  cache,     \* _PROBE_CACHE: of each probe, the value and its age
  sticky,    \* _STICKY: how much longer a conversation stays on the fallback
  thread,    \* the request each thread handles and where it is
  home,      \* where each conversation was served last: "here", "there", or "outgrown":
             \* here since it no longer fitted the fallback (history)
  routed,    \* ticks since a request of the conversation was routed (history)
  dwell      \* ticks since the switch was last turned (history)

vars == <<pressure, denied, allowed, cache, sticky, thread, home, routed, dwell>>
switch == <<pressure, denied, allowed, dwell>>

Never == -1
Capped(n, top) == IF n < top THEN n + 1 ELSE top
Grown(n, top) == IF n = Never THEN Never ELSE Capped(n, top)
Longest == IF Enter < Leave THEN Leave ELSE Enter

Steps == {"idle", "status", "sampled", "decide", "metrics", "admit", "forward", "local"}
Samples == {"allowed", "refused", "unreadable"}
\* conv, size: the request; sample: what /status said; on: the switch as it was
\* read, or "unreadable"; busy: the fallback's requests in flight are not zero;
\* spent: ticks since the probe began; late: ticks since `now` was read to decide.
Idle == [step |-> "idle", conv |-> CHOOSE c \in Conversations : TRUE, size |-> "small",
         sample |-> "unreadable", on |-> "off", busy |-> FALSE, sticky |-> FALSE,
         spent |-> 0, late |-> 0]
Thread == [step: Steps, conv: Conversations, size: Sizes, sample: Samples,
           on: {"on", "off", "unreadable"}, busy: BOOLEAN, sticky: BOOLEAN,
           spent: 0..Probe, late: 0..Stick]
Status == [value: Samples, age: {Never} \cup 0..(Ttl - 1)]
Metrics == [value: BOOLEAN, age: {Never} \cup 0..(Ttl - 1)]
NoValue == [status |-> "unreadable", metrics |-> FALSE]

\* A probe's value is used for Ttl after its GET began.
Hit(probe) == cache[probe].age # Never
Aged(probe) == IF cache[probe].age + 1 < Ttl /\ Hit(probe) THEN [cache[probe] EXCEPT !.age = @ + 1]
               ELSE [cache[probe] EXCEPT !.age = Never, !.value = NoValue[probe]]
Keep(probe, value, age) == cache' = [cache EXCEPT ![probe] = [value |-> value, age |-> age]]
Put(t, new) == thread' = [thread EXCEPT ![t] = new]
Local(t) == [Idle EXCEPT !.step = "local", !.conv = thread[t].conv]
Forwarded == \E t \in Threads : thread[t].step = "forward"

------------------------------------------------------------------------------
(* _governor_pressure *)

Begin(t, c, size) ==
  /\ thread[t].step = "idle"
  /\ LET new == [Idle EXCEPT !.conv = c, !.size = size] IN
       Put(t, IF Hit("status") THEN [new EXCEPT !.step = "sampled", !.sample = cache["status"].value]
                               ELSE [new EXCEPT !.step = "status"])
  /\ UNCHANGED <<switch, cache, sticky, home, routed>>

\* Whatever the backend says, or nothing that can be read.
ProbeStatus(t) ==
  /\ thread[t].step = "status"
  /\ \E growth \in Samples :
       /\ Keep("status", growth, thread[t].spent)
       /\ Put(t, [thread[t] EXCEPT !.step = "sampled", !.sample = growth, !.spent = 0])
  /\ UNCHANGED <<switch, sticky, home, routed>>

\* The switch after one more sample.
Turned(sample) ==
  IF sample = "allowed" THEN pressure /\ (allowed = Never \/ allowed < Leave)
                        ELSE pressure \/ (denied # Never /\ denied >= Enter)
Since(n) == IF n = Never THEN 0 ELSE n

\* Mutant: a refusal does not restart the time growth has been allowed.
SampleKeepingAllowed(t) ==
  /\ thread[t].step = "sampled" /\ thread[t].sample # "unreadable"
  /\ LET sample == thread[t].sample IN
       /\ pressure' = Turned(sample)
       /\ denied' = IF sample = "allowed" THEN Never ELSE Since(denied)
       /\ allowed' = IF sample = "allowed" THEN Since(allowed) ELSE allowed
  /\ dwell' = IF pressure' = pressure THEN dwell ELSE 0
  /\ Put(t, [thread[t] EXCEPT !.step = "decide", !.sample = "unreadable", !.on = IF pressure' THEN "on" ELSE "off"])
  /\ UNCHANGED <<cache, sticky, home, routed>>
\* Mutant: the switch stays on once it is on.
SampleForGood(t) ==
  /\ thread[t].step = "sampled" /\ thread[t].sample # "unreadable"
  /\ LET sample == thread[t].sample IN
       /\ pressure' = (pressure \/ Turned(sample))
       /\ denied' = IF sample = "allowed" THEN Never ELSE Since(denied)
       /\ allowed' = IF sample = "allowed" THEN Since(allowed) ELSE Never
  /\ dwell' = IF pressure' = pressure THEN dwell ELSE 0
  /\ Put(t, [thread[t] EXCEPT !.step = "decide", !.sample = "unreadable", !.on = IF pressure' THEN "on" ELSE "off"])
  /\ UNCHANGED <<cache, sticky, home, routed>>
Sample(t) ==
  /\ thread[t].step = "sampled" /\ thread[t].sample # "unreadable"
  /\ LET sample == thread[t].sample IN
       /\ pressure' = Turned(sample)
       /\ denied' = IF sample = "allowed" THEN Never ELSE Since(denied)
       /\ allowed' = IF sample = "allowed" THEN Since(allowed) ELSE Never
  /\ dwell' = IF pressure' = pressure THEN dwell ELSE 0
  /\ Put(t, [thread[t] EXCEPT !.step = "decide", !.sample = "unreadable", !.on = IF pressure' THEN "on" ELSE "off"])
  /\ UNCHANGED <<cache, sticky, home, routed>>
SampleUnreadable(t) ==
  /\ thread[t].step = "sampled" /\ thread[t].sample = "unreadable"
  /\ Put(t, [thread[t] EXCEPT !.step = "decide", !.on = "unreadable"])
  /\ UNCHANGED <<switch, cache, sticky, home, routed>>

------------------------------------------------------------------------------
(* _governor_route *)

IsStickyOnce(c) == routed[c] # Never   \* mutant: a sticky conversation does not expire
IsSticky(c) == sticky[c] > 0

DecideSmall(t) ==
  /\ thread[t].step = "decide" /\ thread[t].size = "small"
  /\ Put(t, Local(t))
  /\ UNCHANGED <<switch, cache, sticky, home, routed>>

\* It does not fit; a sticky conversation is one no more.
DecideLarge(t) ==
  /\ thread[t].step = "decide" /\ thread[t].size = "large"
  /\ LET c == thread[t].conv IN
       /\ sticky' = [sticky EXCEPT ![c] = 0]
       /\ home' = [home EXCEPT ![c] = IF IsSticky(c) THEN "outgrown" ELSE @]
  /\ Put(t, Local(t))
  /\ UNCHANGED <<switch, cache, routed>>

\* Neither sticky nor under pressure, or a lease is held: served here.
DecideHere(t) ==
  /\ thread[t].step = "decide" /\ thread[t].size = "fits"
  /\ Put(t, Local(t))
  /\ UNCHANGED <<switch, cache, sticky, home, routed>>

DecideThere(t) ==
  /\ thread[t].step = "decide" /\ thread[t].size = "fits"
  /\ IsSticky(thread[t].conv) \/ thread[t].on = "on"
  /\ LET new == [thread[t] EXCEPT !.sticky = IsSticky(thread[t].conv), !.on = "off"] IN
       Put(t, IF Hit("metrics") THEN [new EXCEPT !.step = "admit", !.busy = cache["metrics"].value]
                                ELSE [new EXCEPT !.step = "metrics"])
  /\ UNCHANGED <<switch, cache, sticky, home, routed>>

\* The fallback has what was forwarded to it in flight, and perhaps others' requests;
\* metrics that cannot be read count as busy.
ProbeMetrics(t) ==
  /\ thread[t].step = "metrics"
  /\ \E busy \in {Forwarded, TRUE} :
       /\ Keep("metrics", busy, thread[t].spent)
       /\ Put(t, [thread[t] EXCEPT !.step = "admit", !.busy = busy, !.spent = 0])
  /\ UNCHANGED <<switch, sticky, home, routed>>

AdmitBusy(t) ==
  /\ thread[t].step = "admit" /\ thread[t].busy
  /\ Put(t, Local(t))
  /\ UNCHANGED <<switch, cache, sticky, home, routed>>

\* Routed: sticky from the moment of the decision, whatever becomes of the forward.
Admit(t) ==
  /\ thread[t].step = "admit" /\ ~thread[t].busy
  /\ LET c == thread[t].conv IN
       /\ sticky' = [sticky EXCEPT ![c] = Stick - thread[t].late]
       /\ routed' = [routed EXCEPT ![c] = thread[t].late]
  /\ Put(t, [thread[t] EXCEPT !.step = "forward", !.size = "small", !.late = 0])
  /\ UNCHANGED <<switch, cache, home>>

\* The soft forward answers, or fails and the request is served here (ChatRoute).
ForwardAnswers(t) ==
  /\ thread[t].step = "forward"
  /\ home' = [home EXCEPT ![thread[t].conv] = "there"]
  /\ Put(t, Idle)
  /\ UNCHANGED <<switch, cache, sticky, routed>>
ForwardFails(t) ==
  /\ thread[t].step = "forward"
  /\ Put(t, Local(t))
  /\ UNCHANGED <<switch, cache, sticky, home, routed>>
ServeHere(t) ==
  /\ thread[t].step = "local"
  /\ home' = [home EXCEPT ![thread[t].conv] = IF @ = "outgrown" THEN @ ELSE "here"]
  /\ Put(t, Idle)
  /\ UNCHANGED <<switch, cache, sticky, routed>>

------------------------------------------------------------------------------
\* A probe is over within Probe ticks.
Tick ==
  /\ \A t \in Threads : thread[t].step \in {"status", "metrics"} => thread[t].spent < Probe
  /\ dwell' = Capped(dwell, Longest)
  /\ denied' = Grown(denied, Enter) /\ allowed' = Grown(allowed, Leave)
  /\ cache' = [p \in DOMAIN cache |-> Aged(p)]
  /\ sticky' = [c \in Conversations |-> IF sticky[c] > 0 THEN sticky[c] - 1 ELSE 0]
  /\ routed' = [c \in Conversations |-> Grown(routed[c], Stick)]
  /\ thread' = [t \in Threads |->
       CASE thread[t].step = "status" -> [thread[t] EXCEPT !.spent = @ + 1]
         [] thread[t].step = "metrics" -> [thread[t] EXCEPT !.spent = @ + 1, !.late = Capped(@, Stick)]
         [] thread[t].step = "admit" -> [thread[t] EXCEPT !.late = Capped(@, Stick)]
         [] OTHER -> thread[t]]
  /\ UNCHANGED <<pressure, home>>

Init ==
  /\ pressure = FALSE /\ denied = Never /\ allowed = Never
  /\ cache = [p \in DOMAIN NoValue |-> [value |-> NoValue[p], age |-> Never]]
  /\ sticky = [c \in Conversations |-> 0]
  /\ thread = [t \in Threads |-> Idle]
  /\ home = [c \in Conversations |-> "here"]
  /\ routed = [c \in Conversations |-> Never]
  /\ dwell = Longest

Arrive(t) == \E c \in Conversations, size \in Prompts[t] : Begin(t, c, size)
Handle(t) ==
  \/ ProbeStatus(t) \/ Sample(t) \/ SampleUnreadable(t)
  \/ DecideSmall(t) \/ DecideLarge(t) \/ DecideHere(t) \/ DecideThere(t)
  \/ ProbeMetrics(t) \/ AdmitBusy(t) \/ Admit(t)
  \/ ForwardAnswers(t) \/ ForwardFails(t) \/ ServeHere(t)
Next == \/ \E t \in Threads : Arrive(t) \/ Handle(t)
        \/ Tick

Spec == Init /\ [][Next]_vars
\* Handlers go on, time passes (strongly: the clock waits for a probe's last moment), and requests keep coming: the switch is only looked at when one does.
FairSpec == Spec /\ SF_vars(Tick) /\ \A t \in Threads : WF_vars(Handle(t))

------------------------------------------------------------------------------
(* Properties *)

TypeOK ==
  /\ pressure \in BOOLEAN
  /\ denied \in {Never} \cup 0..Enter /\ allowed \in {Never} \cup 0..Leave
  /\ denied = Never \/ allowed = Never
  /\ cache["status"] \in Status /\ cache["metrics"] \in Metrics
  /\ sticky \in [Conversations -> 0..Stick]
  /\ thread \in [Threads -> Thread]
  /\ home \in [Conversations -> {"here", "there", "outgrown"}]
  /\ routed \in [Conversations -> {Never} \cup 0..Stick]
  /\ dwell \in 0..Longest

\* The switch does not flap: it is on for Leave at least and off for Enter at
\* least, however the samples of the threads interleave.
NoFlapping ==
  [][pressure' # pressure => dwell >= (IF pressure THEN Leave ELSE Enter)]_vars

\* A request is routed under pressure, or because its conversation was routed less
\* than Stick ago, counted to the moment the request was decided.
RoutedForAReason ==
  [][\A t \in Threads :
       thread[t].step = "decide" /\ thread'[t].step \in {"metrics", "admit"} =>
         \/ thread[t].on = "on"
         \/ routed[thread[t].conv] # Never /\ routed[thread[t].conv] < Stick]_vars

\* Once every answer of /status is that growth is allowed, the switch is turned off.
PressureEnds ==
  /\ <>[](\A t \in Threads : thread[t].sample # "refused")
  /\ []<>(\E t \in Threads : thread[t].sample = "allowed")
  => <>[]~pressure

\* "read to route only to an idle machine": two requests are not sent there at once.
OneAtATime == Cardinality({t \in Threads : thread[t].step = "forward"}) <= 1

\* "A routed conversation stays on the fallback, where its cache now is": what
\* follows a conversation there was served there before (another request of it apart).
StickyIsThere ==
  \A t \in Threads :
    thread[t].step = "forward" /\ thread[t].sticky =>
      \/ home[thread[t].conv] = "there"
      \/ \E u \in Threads \ {t} : thread[u].conv = thread[t].conv /\ thread[u].step # "idle"

\* "once it outgrows the fallback it stays here for good".
OutgrownStays ==
  [][\A t \in Threads :
       thread[t].step = "admit" /\ thread'[t].step = "forward" => home[thread[t].conv] # "outgrown"]_vars

\* "The proxy reads /status ... at most every 2 s": two threads do not read it at once.
OneStatusRead == Cardinality({t \in Threads : thread[t].step = "status"}) <= 1
=============================================================================
