----------------------------- MODULE ChatProofs -----------------------------
(***************************************************************************)
(* Proofs about two parts of the chat proxy, each of its own specification *)
(* and for any number of retries, threads and conversations.               *)
(*                                                                         *)
(* LoopGuard: the client of a guarded chat completion gets what Reply      *)
(* promises.  What is shown to the client and what the guard believes it   *)
(* has seen (`saw`, which decides on a retry) are separate pieces of       *)
(* state; the inductive invariant is what ties them together while a reply *)
(* goes on.                                                                *)
(*                                                                         *)
(* GovernorRoute: the switch is turned by how long the samples have said   *)
(* one thing; that this is no longer than the switch has stood as it does  *)
(* is what keeps it from flapping.                                         *)
(***************************************************************************)
EXTENDS LoopGuard, GovernorRoute, TLAPS

------------------------------------------------------------------------------
(* The loop guard *)

\* The head is out when the events of a stream are relayed; the first attempt has
\* none before.
HeadOK ==
  /\ stage = "events" /\ Streaming => Sent
  /\ attempt = 0 /\ stage \in {"connect", "head"} => ~Sent

\* What the client has been shown is of this attempt, and the guard knows of it
\* (or the attempt has finished).
ShownOK ==
  /\ reply.shown \subseteq {attempt}
  /\ stage \in {"connect", "head"} => reply.shown = {}
  /\ stage # "over" /\ ~Streaming => reply.shown = {}
  /\ stage = "events" /\ reply.shown # {} => saw = "content" \/ "finish" \in got

\* What the guard believes the client has seen, a client that is there has seen.
SawOK ==
  /\ saw = "content" => Streaming
  /\ saw = "content" /\ There => reply.shown = {attempt}
  /\ Streaming /\ "content" \in got => saw = "content"

IInv ==
  /\ LoopTypeOK /\ HeadOK /\ ShownOK /\ SawOK
  /\ NoSecondResponse /\ CompleteOrSaid /\ RestartsMarked

------------------------------------------------------------------------------

LEMMA InitIInv == LoopInit => IInv
  BY RetriesAssumption DEF RetriesAssumption, LoopInit, IInv, LoopTypeOK, HeadOK, ShownOK, SawOK, NoSecondResponse,
     CompleteOrSaid, RestartsMarked, Attempts, Ends, Pieces, Streaming, Sent, There

\* One case for each action; what all of them need is expanded here.
LEMMA StepIInv == IInv /\ [LoopNext]_loopVars => IInv'
<1> SUFFICES ASSUME IInv, [LoopNext]_loopVars PROVE IInv'
  OBVIOUS
<1> USE RetriesAssumption
    DEF RetriesAssumption, IInv, LoopTypeOK, HeadOK, ShownOK, SawOK, NoSecondResponse, CompleteOrSaid,
        RestartsMarked, Attempts, Ends, Pieces, Streaming, Sent, There, Over, Shows, Kept, chat, Failed
<1>1. CASE ConnectFails \/ Connects \/ ReadFails
  BY <1>1 DEF ConnectFails, Connects, ReadFails
<1>2. CASE HeadNotReady \/ HeadPlain
  BY <1>2 DEF HeadNotReady, HeadPlain
<1>3. CASE HeadStream
  <2>1. CASE Streaming /\ ~Sent /\ ~There
    BY <1>3, <2>1 DEF HeadStream
  <2>2. CASE ~(Streaming /\ ~Sent /\ ~There)
    BY <1>3, <2>2 DEF HeadStream
  <2> QED BY <2>1, <2>2
<1>4. ASSUME NEW field \in {"reasoning", "content"}, LoopRetried(field) PROVE IInv'
  <2>1. CASE Streaming /\ ~There
    BY <1>4, <2>1 DEF LoopRetried, Trips, MayRetry
  <2>2. CASE ~(Streaming /\ ~There)
    <3>1. MayRetry /\ stage = "events" /\ got \cap {"finish", "error"} = {}
      BY <1>4 DEF LoopRetried, Trips
    <3>2. saw = "nothing" /\ attempt \in Nat /\ attempt + 1 \in 0..Retries /\ reply.shown = {}
      BY <3>1 DEF MayRetry
    <3>3. /\ stage' = "connect" /\ attempt' = attempt + 1
          /\ UNCHANGED <<wants, fallback, got, saw, head, client>>
          /\ reply' = [reply EXCEPT !.marks = IF Streaming THEN reply.marks + 1 ELSE reply.marks]
      BY <1>4, <2>2 DEF LoopRetried
    <3>4. /\ reply' \in [end: Ends, shown: SUBSET Attempts, marks: Nat]
          /\ reply'.shown = {} /\ reply'.end = "open" /\ reply.end = "open"
          /\ reply'.marks = (IF Streaming THEN reply.marks + 1 ELSE reply.marks)
      BY <3>1, <3>2, <3>3
    <3>5. reply'.marks \in 0..Retries
      BY <3>2, <3>4
    <3>6. LoopTypeOK'
      BY <3>1, <3>2, <3>3, <3>4, <3>5
    <3>7. HeadOK' /\ ShownOK' /\ SawOK'
      BY <3>1, <3>2, <3>3, <3>4
    <3>8. NoSecondResponse' /\ CompleteOrSaid' /\ RestartsMarked'
      BY <3>1, <3>2, <3>3, <3>4
    <3> QED
      BY <3>6, <3>7, <3>8
  <2> QED BY <2>1, <2>2
<1>5. ASSUME NEW field \in {"reasoning", "content"}, LoopStopped(field) PROVE IInv'
  <2>1. CASE ~Streaming \/ (saw = "nothing" /\ field = "reasoning")
    <3>1. Shows("length") /\ UNCHANGED got /\ Kept /\ stage = "events"
      BY <1>5, <2>1 DEF LoopStopped, Trips
    <3>2. reply' \in [end: Ends, shown: SUBSET Attempts, marks: 0..Retries]
          /\ reply'.end = "length" /\ reply'.marks = reply.marks
          /\ reply'.shown = reply.shown \cup {attempt}
      BY <3>1
    <3>3. reply'.shown = {attempt}
      BY <3>2
    <3> QED
      BY <3>1, <3>2, <3>3
  <2>2. CASE ~(~Streaming \/ (saw = "nothing" /\ field = "reasoning"))
    <3>1. saw = "content"
      BY <1>5, <2>2 DEF LoopStopped, Trips
    <3> QED
      BY <1>5, <2>2, <3>1 DEF LoopStopped, Trips
  <2> QED BY <2>1, <2>2
<1>6. CASE Relayed
  BY <1>6 DEF Relayed
<1>7. CASE Rebuilt
  <2>1. CASE "finish" \in got
    <3>1. Shows("finish") /\ UNCHANGED got /\ Kept /\ stage = "events" /\ ~Streaming
      BY <1>7, <2>1 DEF Rebuilt
    <3>2. reply' \in [end: Ends, shown: SUBSET Attempts, marks: 0..Retries]
          /\ reply'.end = "finish" /\ reply'.marks = reply.marks
          /\ reply'.shown = reply.shown \cup {attempt}
      BY <3>1
    <3>3. reply'.shown = {attempt}
      BY <3>2
    <3> QED
      BY <2>1, <3>1, <3>2, <3>3
  <2>2. CASE "finish" \notin got
    BY <1>7, <2>2 DEF Rebuilt
  <2> QED BY <2>1, <2>2
<1>8. ASSUME NEW piece \in Pieces, Event(piece) PROVE IInv'
  BY <1>8 DEF Event, Telling, Visible, Spent
<1>9. CASE Keepalive \/ ClientLeaves
  BY <1>9 DEF Keepalive, ClientLeaves
<1>10. CASE UNCHANGED loopVars
  BY <1>10 DEF loopVars
<1> QED
  BY <1>1, <1>2, <1>3, <1>4, <1>5, <1>6, <1>8, <1>9, <1>10, <1>7 DEF LoopNext, Backend

LEMMA Invariant == LoopSpec => []IInv
<1> QED BY InitIInv, StepIInv, PTL DEF LoopSpec

\* However many retries a guarded reply may have, its state has its type.
THEOREM TypeCorrect == LoopSpec => []LoopTypeOK
<1>1. IInv => LoopTypeOK
  BY DEF IInv
<1> QED BY <1>1, Invariant, PTL

\* Once the head of a stream is out, neither a plain answer of the backend nor the
\* fallback's is written into it.
THEOREM NoSecond == LoopSpec => []NoSecondResponse
<1>1. IInv => NoSecondResponse
  BY DEF IInv
<1> QED BY <1>1, Invariant, PTL

\* A reply that ends as a complete one is: nothing is missing, nothing of it is from
\* an attempt that was given up.
THEOREM Complete == LoopSpec => []CompleteOrSaid
<1>1. IInv => CompleteOrSaid
  BY DEF IInv
<1> QED BY <1>1, Invariant, PTL

\* Every restart is marked in the stream, and none is made once content was shown.
THEOREM Marked == LoopSpec => []RestartsMarked
<1>1. IInv => RestartsMarked
  BY DEF IInv
<1> QED BY <1>1, Invariant, PTL

------------------------------------------------------------------------------
(***************************************************************************)
(* The guard implements Reply: every step is one of Reply's, or none.      *)
(***************************************************************************)

PhaseOf == IF stage = "over" THEN "over" ELSE IF Sent THEN "stream" ELSE "none"

\* An action that ends the reply, perhaps showing the last of this attempt.
LEMMA EndsReply ==
  ASSUME IInv, stage # "over", stage' = "over", reply'.shown \subseteq {attempt}, attempt \in Attempts,
         reply'.shown = reply.shown \/ reply'.shown = {attempt}
  PROVE  Promised!Next
<1>1. CASE Sent
  <2>1. CASE reply'.shown = reply.shown
    BY <1>1, <2>1 DEF Promised!Next, Promised!End
  <2>2. CASE reply'.shown = {attempt}
    BY <1>1, <2>2 DEF Promised!Next, Promised!ShowAndEnd, IInv, ShownOK
  <2> QED BY <2>1, <2>2
<1>2. CASE ~Sent
  BY <1>2 DEF Promised!Next, Promised!Respond
<1> QED BY <1>1, <1>2

LEMMA StepReply == IInv /\ [LoopNext]_loopVars => [Promised!Next]_<<PhaseOf, reply.shown>>
<1> SUFFICES ASSUME IInv, [LoopNext]_loopVars PROVE Promised!Next \/ UNCHANGED <<PhaseOf, reply.shown>>
  BY DEF PhaseOf
<1>0. stage # "over" \/ UNCHANGED loopVars
  BY DEF LoopNext, Backend, ConnectFails, Connects, ReadFails, HeadNotReady, HeadPlain, HeadStream, LoopRetried,
     LoopStopped, Trips, Relayed, Rebuilt, Event, Keepalive, ClientLeaves
<1>1. CASE UNCHANGED loopVars
  BY <1>1 DEF loopVars, PhaseOf, Sent
<1> USE DEF Over, Shows, Kept, Failed
<1>2. CASE stage' = "over" /\ stage # "over"
  <2>1. attempt' = attempt
    BY <1>2 DEF LoopNext, Backend, ConnectFails, Connects, ReadFails, HeadNotReady, HeadPlain, HeadStream,
       LoopRetried, LoopStopped, Relayed, Rebuilt, Event, Keepalive, ClientLeaves, loopVars
  <2>2. reply'.shown \subseteq {attempt} /\ attempt \in Attempts /\ reply.shown \subseteq {attempt}
    BY <2>1, StepIInv DEF IInv, ShownOK, LoopTypeOK
  <2>3. reply.shown \subseteq reply'.shown
    BY <1>2 DEF LoopNext, Backend, ConnectFails, Connects, ReadFails, HeadNotReady, HeadPlain, HeadStream,
       LoopRetried, LoopStopped, Relayed, Rebuilt, Event, Keepalive, ClientLeaves, loopVars, IInv, LoopTypeOK
  <2>4. reply'.shown = reply.shown \/ reply'.shown = {attempt}
    BY <2>2, <2>3
  <2> QED
    BY <1>2, <2>2, <2>4, EndsReply
<1>3. CASE stage' # "over" /\ stage # "over"
  <2>1. CASE HeadStream
    <3>1. reply' = reply /\ stage' = "events" /\ head' = (IF Streaming THEN "sent" ELSE head)
      BY <1>3, <2>1 DEF HeadStream
    <3>2. CASE Streaming /\ ~Sent
      <4>1. Promised!Start
        BY <1>3, <3>1, <3>2 DEF Promised!Start, Sent
      <4> QED BY <4>1 DEF Promised!Next
    <3>3. CASE ~Streaming \/ Sent
      BY <1>3, <3>1, <3>3 DEF PhaseOf, Sent
    <3> QED BY <3>2, <3>3
  <2>2. ASSUME NEW piece \in Pieces, Event(piece) PROVE Promised!Next \/ UNCHANGED <<PhaseOf, reply.shown>>
    <3>1. /\ UNCHANGED <<stage, head, attempt>> /\ stage = "events"
          /\ reply' = reply \/ (Streaming /\ reply'.shown = reply.shown \cup {attempt})
             \/ reply'.shown = reply.shown
      BY <1>3, <2>2 DEF Event, IInv, LoopTypeOK
    <3>2. CASE Streaming /\ reply'.shown = reply.shown \cup {attempt}
      <4>1. Promised!Show(attempt)
        BY <1>3, <3>1, <3>2 DEF Promised!Show, IInv, HeadOK, ShownOK, Sent
      <4> QED BY <4>1 DEF Promised!Next, IInv, LoopTypeOK
    <3>3. CASE reply'.shown = reply.shown
      BY <3>1, <3>3 DEF PhaseOf, Sent
    <3> QED BY <3>1, <3>2, <3>3
  <2>3. ASSUME NEW field \in {"reasoning", "content"}, LoopRetried(field)
        PROVE UNCHANGED <<PhaseOf, reply.shown>>
    BY <1>3, <2>3 DEF LoopRetried, PhaseOf, Sent, IInv, LoopTypeOK
  <2>4. CASE Connects \/ ClientLeaves
    BY <1>3, <2>4 DEF Connects, ClientLeaves, PhaseOf, Sent
  <2>5. \/ HeadStream \/ Connects \/ ClientLeaves \/ UNCHANGED loopVars
        \/ \E piece \in Pieces : Event(piece)
        \/ \E field \in {"reasoning", "content"} : LoopRetried(field)
    BY <1>3 DEF LoopNext, Backend, ConnectFails, ReadFails, HeadNotReady, HeadPlain, LoopStopped, Relayed, Rebuilt,
       Keepalive
  <2> QED BY <1>1, <2>1, <2>2, <2>3, <2>4, <2>5
<1> QED BY <1>0, <1>1, <1>2, <1>3 DEF loopVars

\* A client of a guarded chat completion gets one reply, which shows one attempt.
THEOREM Implements == LoopSpec => OneReply
<1>1. LoopInit => Promised!Init
  BY DEF LoopInit, Promised!Init, Sent
<1>2. IInv /\ [LoopNext]_loopVars => [Promised!Next]_<<PhaseOf, reply.shown>>
  BY StepReply
<1> QED
  BY <1>1, <1>2, Invariant, PTL DEF LoopSpec, OneReply, Promised!Spec, PhaseOf

------------------------------------------------------------------------------
(* The switch of the governor's route *)

\* What the samples have said for so long, they have said since the switch was turned.
SwitchInv ==
  /\ pressure \in BOOLEAN /\ dwell \in 0..Longest
  /\ denied \in {Never} \cup 0..Enter /\ allowed \in {Never} \cup 0..Leave
  /\ ~pressure /\ denied # Never => denied <= dwell
  /\ pressure /\ allowed # Never => allowed <= dwell

LEMMA Times == /\ Enter \in Nat \ {0} /\ Leave \in Nat \ {0} /\ Stick \in Nat \ {0}
               /\ Longest \in Nat /\ Enter <= Longest /\ Leave <= Longest
  BY TimesAssumption DEF Longest

\* A step of a handler that is not a readable sample leaves the switch alone.
LEMMA SwitchAlone ==
  ASSUME NEW t \in Threads, Arrive(t) \/ Handle(t)
  PROVE  UNCHANGED switch \/ Sample(t)
BY DEF Arrive, Begin, Handle, ProbeStatus, SampleUnreadable, DecideSmall, DecideLarge, DecideHere,
       DecideThere, ProbeMetrics, AdmitBusy, Admit, ForwardAnswers, ForwardFails, ServeHere

LEMMA Sampled ==
  ASSUME SwitchInv, NEW t \in Threads, Sample(t)
  PROVE  SwitchInv' /\ (pressure' # pressure => dwell >= (IF pressure THEN Leave ELSE Enter))
<1>1. /\ pressure \in BOOLEAN /\ pressure' = Turned(thread[t].sample)
      /\ dwell' = IF pressure' = pressure THEN dwell ELSE 0
      /\ denied' = IF thread[t].sample = "allowed" THEN Never ELSE Since(denied)
      /\ allowed' = IF thread[t].sample = "allowed" THEN Since(allowed) ELSE Never
  BY DEF Sample, SwitchInv
<1>2. CASE thread[t].sample = "allowed"
  <2>1. denied' = Never /\ allowed' = Since(allowed) BY <1>1, <1>2
  <2>2. allowed' \in 0..Leave /\ (allowed # Never => allowed' = allowed) BY <2>1, Times DEF SwitchInv, Since, Never
  <2>3. CASE pressure /\ allowed # Never /\ ~(allowed < Leave)
    <3>1. pressure' = FALSE /\ pressure = TRUE BY <1>1, <1>2, <2>3 DEF Turned
    <3>a. allowed \in 0..Leave /\ allowed <= dwell /\ dwell \in Nat BY <2>3, Times DEF SwitchInv
    <3>b. dwell >= Leave BY <2>3, <3>a, Times
    <3>c. pressure' # pressure BY <3>1
    <3>2. dwell' = 0 /\ dwell >= Leave BY <1>1, <3>b, <3>c
    <3>3. SwitchInv'
      <4>1. 0 \in 0..Longest BY Times
      <4>2. pressure' \in BOOLEAN /\ ~pressure' BY <3>1
      <4> QED BY <2>1, <2>2, <3>2, <4>1, <4>2 DEF SwitchInv
    <3> QED BY <3>1, <3>2, <3>3
  <2>4. CASE ~(pressure /\ allowed # Never /\ ~(allowed < Leave))
    <3>1. pressure' = pressure BY <1>1, <1>2, <2>4 DEF Turned
    <3>2. dwell' = dwell BY <1>1, <3>1
    <3>3. pressure => allowed' <= dwell
      BY <2>1, <2>2, Times DEF SwitchInv, Since, Never
    <3> QED BY <2>1, <2>2, <3>1, <3>2, <3>3 DEF SwitchInv
  <2> QED BY <2>3, <2>4
<1>3. CASE thread[t].sample # "allowed"
  <2>1. allowed' = Never /\ denied' = Since(denied) BY <1>1, <1>3
  <2>2. denied' \in 0..Enter /\ (denied # Never => denied' = denied) BY <2>1, Times DEF SwitchInv, Since, Never
  <2>3. CASE ~pressure /\ denied # Never /\ denied >= Enter
    <3>1. pressure' = TRUE /\ pressure = FALSE BY <1>1, <1>3, <2>3 DEF Turned
    <3>2. dwell' = 0 /\ dwell >= Enter BY <1>1, <2>3, <3>1, Times DEF SwitchInv, Never
    <3>3. SwitchInv'
      <4>1. 0 \in 0..Longest BY Times
      <4>2. pressure' \in BOOLEAN /\ pressure' BY <3>1
      <4> QED BY <2>1, <2>2, <3>2, <4>1, <4>2 DEF SwitchInv
    <3> QED BY <3>1, <3>2, <3>3
  <2>4. CASE ~(~pressure /\ denied # Never /\ denied >= Enter)
    <3>1. pressure' = pressure BY <1>1, <1>3, <2>4 DEF Turned
    <3>2. dwell' = dwell BY <1>1, <3>1
    <3>3. ~pressure => denied' <= dwell
      BY <2>1, <2>2, Times DEF SwitchInv, Since, Never
    <3> QED BY <2>1, <2>2, <3>1, <3>2, <3>3 DEF SwitchInv
  <2> QED BY <2>3, <2>4
<1> QED BY <1>2, <1>3

LEMMA SwitchTicks == SwitchInv /\ Tick => SwitchInv' /\ pressure' = pressure
<1> SUFFICES ASSUME SwitchInv, Tick PROVE SwitchInv' /\ pressure' = pressure OBVIOUS
<1>1. pressure' = pressure /\ dwell' = (IF dwell < Longest THEN dwell + 1 ELSE Longest)
  BY DEF Tick, Capped
<1>2. denied' = (IF denied = Never THEN Never ELSE IF denied < Enter THEN denied + 1 ELSE Enter)
  BY DEF Tick, Capped, Grown
<1>3. allowed' = (IF allowed = Never THEN Never ELSE IF allowed < Leave THEN allowed + 1 ELSE Leave)
  BY DEF Tick, Capped, Grown
<1>4. dwell' \in 0..Longest BY <1>1, Times DEF SwitchInv
<1>5. denied' \in {Never} \cup 0..Enter /\ (~pressure /\ denied' # Never => denied' <= dwell')
  BY <1>1, <1>2, Times DEF SwitchInv, Never
<1>6. allowed' \in {Never} \cup 0..Leave /\ (pressure /\ allowed' # Never => allowed' <= dwell')
  BY <1>1, <1>3, Times DEF SwitchInv, Never
<1> QED BY <1>1, <1>4, <1>5, <1>6 DEF SwitchInv

LEMMA SwitchSteps ==
  SwitchInv /\ [Next]_vars =>
    SwitchInv' /\ (pressure' # pressure => dwell >= (IF pressure THEN Leave ELSE Enter))
<1> SUFFICES ASSUME SwitchInv, [Next]_vars
             PROVE  SwitchInv' /\ (pressure' # pressure => dwell >= (IF pressure THEN Leave ELSE Enter))
  OBVIOUS
<1>1. CASE UNCHANGED switch BY <1>1 DEF switch, SwitchInv
<1>2. CASE Tick BY <1>2, SwitchTicks
<1>3. CASE \E t \in Threads : Sample(t) BY <1>3, Sampled
<1>4. UNCHANGED vars => UNCHANGED switch BY DEF vars, switch
<1> QED BY <1>1, <1>2, <1>3, <1>4, SwitchAlone DEF Next

LEMMA SwitchInvHolds == Spec => []SwitchInv
<1>1. Init => SwitchInv
  <2> SUFFICES ASSUME Init PROVE SwitchInv OBVIOUS
  <2>1. pressure = FALSE /\ denied = Never /\ allowed = Never /\ dwell = Longest BY DEF Init
  <2>2. pressure \in BOOLEAN BY <2>1
  <2>3. Longest \in 0..Longest BY Times
  <2> QED BY <2>1, <2>2, <2>3 DEF SwitchInv
<1> QED BY <1>1, SwitchSteps, PTL DEF Spec

\* However the samples of the threads interleave, the switch stays on for Leave at least and
\* off for Enter at least.
THEOREM SwitchDoesNotFlap == Spec => NoFlapping
  BY SwitchSteps, SwitchInvHolds, PTL DEF Spec, NoFlapping

------------------------------------------------------------------------------
(* The sticky conversations *)

\* A conversation that stays on the fallback was routed there, and stays for what is left of
\* Stick; a request is of a conversation, and what is read of a probe has its type.
StickyInv ==
  /\ DOMAIN cache = {"status", "metrics"} /\ cache["status"] \in Status /\ cache["metrics"] \in Metrics
  /\ sticky \in [Conversations -> 0..Stick] /\ routed \in [Conversations -> {Never} \cup 0..Stick]
  /\ thread \in [Threads -> Thread]
  /\ \A c \in Conversations : sticky[c] > 0 => routed[c] # Never /\ routed[c] + sticky[c] <= Stick

LEMMA IdleIsAThread == Idle \in Thread
<1>1. Idle.conv \in Conversations BY TimesAssumption DEF Idle
<1>2. 0 \in 0..Probe /\ 0 \in 0..Stick BY TimesAssumption
<1>3. (CHOOSE c \in Conversations : TRUE) \in Conversations BY TimesAssumption
<1> QED BY <1>2, <1>3 DEF Idle, Thread, Steps, Sizes, Samples

LEMMA LocalIsAThread ==
  ASSUME StickyInv, NEW t \in Threads
  PROVE  Local(t) \in Thread /\ Local(t).step = "local"
<1>1. thread[t].conv \in Conversations BY DEF StickyInv, Thread
<1> QED BY <1>1, IdleIsAThread DEF Local, Thread, Steps, Idle

\* Steps of a handler that look at one probe at most.
LEMMA HandlerMoves ==
  ASSUME StickyInv, NEW t \in Threads, NEW new \in Thread, Put(t, new),
         UNCHANGED <<sticky, routed>>,
         cache' = cache \/ (\E value \in Samples, age \in 0..Probe : Keep("status", value, age))
                        \/ (\E value \in BOOLEAN, age \in 0..Probe : Keep("metrics", value, age))
  PROVE  StickyInv'
<1>1. thread' \in [Threads -> Thread] BY DEF Put, StickyInv
<1>2. \A age \in 0..Probe : age \in {Never} \cup 0..(Ttl - 1) BY TimesAssumption
<1>3. /\ DOMAIN cache' = {"status", "metrics"} /\ cache'["status"] \in Status /\ cache'["metrics"] \in Metrics
  <2>1. CASE cache' = cache BY <2>1 DEF StickyInv
  <2>2. ASSUME NEW value \in Samples, NEW age \in 0..Probe, Keep("status", value, age)
        PROVE  /\ DOMAIN cache' = {"status", "metrics"}
               /\ cache'["status"] \in Status /\ cache'["metrics"] \in Metrics
    BY <2>2, <1>2 DEF StickyInv, Keep, Status
  <2>3. ASSUME NEW value \in BOOLEAN, NEW age \in 0..Probe, Keep("metrics", value, age)
        PROVE  /\ DOMAIN cache' = {"status", "metrics"}
               /\ cache'["status"] \in Status /\ cache'["metrics"] \in Metrics
    BY <2>3, <1>2 DEF StickyInv, Keep, Metrics
  <2> QED BY <2>1, <2>2, <2>3
<1> QED BY <1>1, <1>3 DEF StickyInv

LEMMA StickyBegin ==
  ASSUME StickyInv, NEW t \in Threads, Arrive(t)
  PROVE  StickyInv'
<1>1. PICK c \in Conversations, size \in Prompts[t] : Begin(t, c, size) BY DEF Arrive
<1>2. size \in Sizes BY TimesAssumption
<1> DEFINE new == [Idle EXCEPT !.conv = c, !.size = size]
           seen == [new EXCEPT !.step = "sampled", !.sample = cache["status"].value]
           asks == [new EXCEPT !.step = "status"]
<1>3. new \in Thread BY <1>2, IdleIsAThread DEF Thread
<1>4. cache["status"].value \in Samples BY DEF StickyInv, Status
<1> HIDE DEF new
<1>5. seen \in Thread /\ asks \in Thread BY <1>3, <1>4 DEF Thread, Steps
<1>6. Put(t, IF Hit("status") THEN seen ELSE asks) /\ UNCHANGED <<cache, sticky, routed>>
  BY <1>1 DEF Begin, new
<1> HIDE DEF seen, asks
<1> QED BY <1>5, <1>6, HandlerMoves

LEMMA StickyHandle ==
  ASSUME StickyInv, NEW t \in Threads, Handle(t), ~DecideLarge(t), ~Admit(t)
  PROVE  StickyInv'
<1>1. thread[t] \in Thread BY DEF StickyInv
<1>2. thread[t].spent \in 0..Probe /\ 0 \in 0..Probe BY <1>1, TimesAssumption DEF Thread
<1>3. CASE ProbeStatus(t)
  <2>1. PICK growth \in Samples : /\ Keep("status", growth, thread[t].spent)
          /\ Put(t, [thread[t] EXCEPT !.step = "sampled", !.sample = growth, !.spent = 0])
    BY <1>3 DEF ProbeStatus
  <2>2. [thread[t] EXCEPT !.step = "sampled", !.sample = growth, !.spent = 0] \in Thread
    BY <1>1, <1>2 DEF Thread, Steps
  <2>3. UNCHANGED <<sticky, routed>> BY <1>3 DEF ProbeStatus
  <2> QED BY <1>2, <2>1, <2>2, <2>3, HandlerMoves
<1>4. CASE ProbeMetrics(t)
  <2>1. PICK busy \in BOOLEAN : /\ Keep("metrics", busy, thread[t].spent)
          /\ Put(t, [thread[t] EXCEPT !.step = "admit", !.busy = busy, !.spent = 0])
    BY <1>4 DEF ProbeMetrics, Forwarded
  <2>2. [thread[t] EXCEPT !.step = "admit", !.busy = busy, !.spent = 0] \in Thread
    BY <1>1, <1>2 DEF Thread, Steps
  <2>3. UNCHANGED <<sticky, routed>> BY <1>4 DEF ProbeMetrics
  <2> QED BY <1>2, <2>1, <2>2, <2>3, HandlerMoves
<1>5. CASE Sample(t) \/ SampleUnreadable(t)
  <2>1. PICK sample \in Samples, on \in {"on", "off", "unreadable"} :
          Put(t, [thread[t] EXCEPT !.step = "decide", !.sample = sample, !.on = on])
    <3>1. CASE Sample(t)
      <4>1. Put(t, [thread[t] EXCEPT !.step = "decide", !.sample = "unreadable",
                                     !.on = IF pressure' THEN "on" ELSE "off"])
        BY <3>1 DEF Sample
      <4>2. "unreadable" \in Samples /\ (IF pressure' THEN "on" ELSE "off") \in {"on", "off", "unreadable"}
        BY DEF Samples
      <4> QED BY <4>1, <4>2
    <3>2. CASE SampleUnreadable(t)
      <4>1. Put(t, [thread[t] EXCEPT !.step = "decide", !.on = "unreadable"]) /\ thread[t].sample \in Samples
        BY <1>1, <3>2 DEF SampleUnreadable, Thread
      <4>2. [thread[t] EXCEPT !.step = "decide", !.on = "unreadable"]
            = [thread[t] EXCEPT !.step = "decide", !.sample = thread[t].sample, !.on = "unreadable"]
        BY <1>1 DEF Thread
      <4> QED BY <4>1, <4>2
    <3> QED BY <1>5, <3>1, <3>2
  <2>2. [thread[t] EXCEPT !.step = "decide", !.sample = sample, !.on = on] \in Thread
    BY <1>1 DEF Thread, Steps
  <2>3. UNCHANGED <<cache, sticky, routed>> BY <1>5 DEF Sample, SampleUnreadable
  <2> QED BY <2>1, <2>2, <2>3, HandlerMoves
<1>6. CASE DecideSmall(t) \/ DecideHere(t) \/ AdmitBusy(t) \/ ForwardFails(t)
  <2>1. Put(t, Local(t)) /\ UNCHANGED <<cache, sticky, routed>>
    BY <1>6 DEF DecideSmall, DecideHere, AdmitBusy, ForwardFails
  <2> QED BY <2>1, LocalIsAThread, HandlerMoves
<1>7. CASE ForwardAnswers(t) \/ ServeHere(t)
  <2>1. Put(t, Idle) /\ UNCHANGED <<cache, sticky, routed>> BY <1>7 DEF ForwardAnswers, ServeHere
  <2> QED BY <2>1, IdleIsAThread, HandlerMoves
<1>8. CASE DecideThere(t)
  <2> DEFINE new == [thread[t] EXCEPT !.sticky = IsSticky(thread[t].conv), !.on = "off"]
             seen == [new EXCEPT !.step = "admit", !.busy = cache["metrics"].value]
             asks == [new EXCEPT !.step = "metrics"]
  <2>1. IsSticky(thread[t].conv) \in BOOLEAN BY DEF IsSticky
  <2>2. new \in Thread BY <1>1, <2>1 DEF Thread
  <2>3. cache["metrics"].value \in BOOLEAN BY DEF StickyInv, Metrics
  <2> HIDE DEF new
  <2>4. seen \in Thread /\ asks \in Thread BY <2>2, <2>3 DEF Thread, Steps
  <2>5. Put(t, IF Hit("metrics") THEN seen ELSE asks) /\ UNCHANGED <<cache, sticky, routed>>
    BY <1>8 DEF DecideThere, new
  <2> HIDE DEF seen, asks
  <2> QED BY <2>4, <2>5, HandlerMoves
<1> QED BY <1>3, <1>4, <1>5, <1>6, <1>7, <1>8 DEF Handle

\* What is decided about a conversation: it outgrows the fallback, or is routed there.
LEMMA StickyDecides ==
  ASSUME StickyInv, NEW t \in Threads, DecideLarge(t) \/ Admit(t)
  PROVE  StickyInv'
<1>1. thread[t] \in Thread /\ thread[t].conv \in Conversations /\ thread[t].late \in 0..Stick
  BY DEF StickyInv, Thread
<1>2. cache' = cache BY DEF DecideLarge, Admit
<1>3. thread' \in [Threads -> Thread]
  <2>1. CASE DecideLarge(t) BY <2>1, LocalIsAThread DEF DecideLarge, Put, StickyInv
  <2>2. CASE Admit(t)
    <3>1. 0 \in 0..Stick BY TimesAssumption
    <3>2. [thread[t] EXCEPT !.step = "forward", !.size = "small", !.late = 0] \in Thread
      BY <1>1, <3>1 DEF Thread, Steps, Sizes
    <3> QED BY <2>2, <3>2 DEF Admit, Put, StickyInv
  <2> QED BY <2>1, <2>2
<1>4. PICK c \in Conversations, left \in 0..Stick, since \in {Never} \cup 0..Stick :
        /\ sticky' = [sticky EXCEPT ![c] = left] /\ routed' = [routed EXCEPT ![c] = since]
        /\ left > 0 => since # Never /\ since + left <= Stick
  <2>1. CASE DecideLarge(t)
    <3>1. /\ sticky' = [sticky EXCEPT ![thread[t].conv] = 0] /\ routed' = [routed EXCEPT ![thread[t].conv] = routed[thread[t].conv]]
      BY <1>1, <2>1 DEF DecideLarge, StickyInv
    <3>2. 0 \in 0..Stick /\ routed[thread[t].conv] \in {Never} \cup 0..Stick BY <1>1, TimesAssumption DEF StickyInv
    <3>3. ~(0 > 0) OBVIOUS
    <3> QED BY <1>1, <3>1, <3>2, <3>3
  <2>2. CASE Admit(t)
    <3>1. /\ sticky' = [sticky EXCEPT ![thread[t].conv] = Stick - thread[t].late]
          /\ routed' = [routed EXCEPT ![thread[t].conv] = thread[t].late]
      BY <2>2 DEF Admit
    <3>2. /\ Stick - thread[t].late \in 0..Stick /\ thread[t].late + (Stick - thread[t].late) <= Stick
          /\ thread[t].late # Never
      BY <1>1, TimesAssumption DEF Never
    <3> QED BY <1>1, <3>1, <3>2
  <2> QED BY <2>1, <2>2
<1> QED BY <1>2, <1>3, <1>4 DEF StickyInv

LEMMA StickyTicks == StickyInv /\ Tick => StickyInv'
<1> SUFFICES ASSUME StickyInv, Tick PROVE StickyInv' OBVIOUS
<1>0. \A t \in Threads : thread[t].step \in {"status", "metrics"} => thread[t].spent < Probe
  BY DEF Tick
<1>1. /\ sticky' = [c \in Conversations |-> IF sticky[c] > 0 THEN sticky[c] - 1 ELSE 0]
      /\ routed' = [c \in Conversations |-> Grown(routed[c], Stick)]
      /\ cache' = [p \in DOMAIN cache |-> Aged(p)]
  BY DEF Tick
<1>2. ASSUME NEW c \in Conversations
      PROVE  /\ sticky'[c] \in 0..Stick /\ routed'[c] \in {Never} \cup 0..Stick
             /\ sticky'[c] > 0 => routed'[c] # Never /\ routed'[c] + sticky'[c] <= Stick
  <2>1. sticky[c] \in 0..Stick /\ routed[c] \in {Never} \cup 0..Stick
        /\ (sticky[c] > 0 => routed[c] # Never /\ routed[c] + sticky[c] <= Stick)
    BY DEF StickyInv
  <2>2. sticky'[c] = (IF sticky[c] > 0 THEN sticky[c] - 1 ELSE 0) BY <1>1
  <2>3. routed'[c] = (IF routed[c] = Never THEN Never ELSE IF routed[c] < Stick THEN routed[c] + 1 ELSE Stick)
    BY <1>1 DEF Grown, Capped
  <2> QED BY <2>1, <2>2, <2>3, Times DEF Never
<1>3. sticky' \in [Conversations -> 0..Stick] /\ routed' \in [Conversations -> {Never} \cup 0..Stick]
  BY <1>1, <1>2
<1>4. /\ DOMAIN cache' = {"status", "metrics"} /\ cache'["status"] \in Status /\ cache'["metrics"] \in Metrics
  <2>1. /\ DOMAIN cache = {"status", "metrics"} /\ cache["status"] \in Status /\ cache["metrics"] \in Metrics
    BY DEF StickyInv
  <2>2. Aged("status") \in Status
    <3>1. CASE cache["status"].age + 1 < Ttl /\ Hit("status")
      <4>1. Aged("status") = [cache["status"] EXCEPT !.age = cache["status"].age + 1] BY <3>1 DEF Aged
      <4>2. cache["status"].age + 1 \in {Never} \cup 0..(Ttl - 1)
        BY <2>1, <3>1, TimesAssumption DEF Status, Hit
      <4> QED BY <2>1, <4>1, <4>2 DEF Status
    <3>2. CASE ~(cache["status"].age + 1 < Ttl /\ Hit("status"))
      <4>1. Aged("status") = [cache["status"] EXCEPT !.age = Never, !.value = "unreadable"]
        BY <3>2 DEF Aged, NoValue
      <4> QED BY <2>1, <4>1 DEF Status, Samples
    <3> QED BY <3>1, <3>2
  <2>3. Aged("metrics") \in Metrics
    <3>1. CASE cache["metrics"].age + 1 < Ttl /\ Hit("metrics")
      <4>1. Aged("metrics") = [cache["metrics"] EXCEPT !.age = cache["metrics"].age + 1] BY <3>1 DEF Aged
      <4>2. cache["metrics"].age + 1 \in {Never} \cup 0..(Ttl - 1)
        BY <2>1, <3>1, TimesAssumption DEF Metrics, Hit
      <4> QED BY <2>1, <4>1, <4>2 DEF Metrics
    <3>2. CASE ~(cache["metrics"].age + 1 < Ttl /\ Hit("metrics"))
      <4>1. Aged("metrics") = [cache["metrics"] EXCEPT !.age = Never, !.value = FALSE]
        BY <3>2 DEF Aged, NoValue
      <4> QED BY <2>1, <4>1 DEF Metrics
    <3> QED BY <3>1, <3>2
  <2> QED BY <1>1, <2>1, <2>2, <2>3
<1>5. thread' \in [Threads -> Thread]
  <2>1. DOMAIN thread' = Threads /\ thread' = [u \in Threads |-> thread'[u]] BY DEF Tick
  <2>2. ASSUME NEW t \in Threads PROVE thread'[t] \in Thread
    <3>1. thread[t] \in Thread /\ thread[t].late \in 0..Stick /\ thread[t].spent \in 0..Probe
      BY DEF StickyInv, Thread
    <3>2. Capped(thread[t].late, Stick) \in 0..Stick BY <3>1, Times DEF Capped
    <3>3. thread[t].step \in {"status", "metrics"} => thread[t].spent + 1 \in 0..Probe
      BY <3>1, <1>0, TimesAssumption
    <3>4. CASE thread[t].step = "status"
      <4>1. thread'[t] = [thread[t] EXCEPT !.spent = thread[t].spent + 1] BY <3>4 DEF Tick
      <4> QED BY <3>1, <3>3, <3>4, <4>1 DEF Thread
    <3>5. CASE thread[t].step = "metrics"
      <4>1. thread'[t] = [thread[t] EXCEPT !.spent = thread[t].spent + 1, !.late = Capped(thread[t].late, Stick)]
        BY <3>5 DEF Tick
      <4> QED BY <3>1, <3>2, <3>3, <3>5, <4>1 DEF Thread
    <3>6. CASE thread[t].step = "admit"
      <4>1. thread'[t] = [thread[t] EXCEPT !.late = Capped(thread[t].late, Stick)] BY <3>6 DEF Tick
      <4> QED BY <3>1, <3>2, <4>1 DEF Thread
    <3>7. CASE thread[t].step \notin {"status", "metrics", "admit"}
      <4>1. thread'[t] = thread[t] BY <3>7 DEF Tick
      <4> QED BY <3>1, <4>1
    <3> QED BY <3>4, <3>5, <3>6, <3>7
  <2> QED BY <2>1, <2>2
<1> QED BY <1>2, <1>3, <1>4, <1>5 DEF StickyInv

LEMMA OneThread ==
  ASSUME NEW t \in Threads, Arrive(t) \/ Handle(t)
  PROVE  \E new : Put(t, new)
<1>1. CASE Arrive(t) BY <1>1, Zenon DEF Arrive, Begin
<1>2. CASE ProbeStatus(t) \/ ProbeMetrics(t) BY <1>2, Zenon DEF ProbeStatus, ProbeMetrics
<1>3. CASE Sample(t) \/ SampleUnreadable(t) BY <1>3, Zenon DEF Sample, SampleUnreadable
<1>4. CASE DecideSmall(t) \/ DecideLarge(t) \/ DecideHere(t) \/ DecideThere(t)
  BY <1>4, Zenon DEF DecideSmall, DecideLarge, DecideHere, DecideThere
<1>5. CASE AdmitBusy(t) \/ Admit(t) \/ ForwardAnswers(t) \/ ForwardFails(t) \/ ServeHere(t)
  BY <1>5, Zenon DEF AdmitBusy, Admit, ForwardAnswers, ForwardFails, ServeHere
<1> QED BY <1>1, <1>2, <1>3, <1>4, <1>5 DEF Handle

LEMMA StickyInvHolds == Spec => []StickyInv
<1>1. Init => StickyInv
  <2> SUFFICES ASSUME Init PROVE StickyInv OBVIOUS
  <2>1. cache = [p \in DOMAIN NoValue |-> [value |-> NoValue[p], age |-> Never]]
        /\ DOMAIN NoValue = {"status", "metrics"}
    BY DEF Init, NoValue
  <2>2. cache["status"] \in Status /\ cache["metrics"] \in Metrics
    BY <2>1 DEF NoValue, Status, Metrics, Samples
  <2>3. 0 \in 0..Stick BY Times
  <2>4. sticky \in [Conversations -> 0..Stick] /\ routed \in [Conversations -> {Never} \cup 0..Stick]
        /\ \A c \in Conversations : sticky[c] = 0
    BY <2>3 DEF Init
  <2>5. thread \in [Threads -> Thread] BY IdleIsAThread DEF Init
  <2> QED BY <2>1, <2>2, <2>4, <2>5 DEF StickyInv
<1>2. StickyInv /\ [Next]_vars => StickyInv'
  <2> SUFFICES ASSUME StickyInv, [Next]_vars PROVE StickyInv' OBVIOUS
  <2>1. CASE UNCHANGED vars BY <2>1 DEF vars, StickyInv
  <2>2. CASE Tick BY <2>2, StickyTicks
  <2>3. ASSUME NEW t \in Threads, Arrive(t) \/ Handle(t) PROVE StickyInv'
    BY <2>3, StickyBegin, StickyHandle, StickyDecides
  <2> QED BY <2>1, <2>2, <2>3 DEF Next
<1> QED BY <1>1, <1>2, PTL DEF Spec

\* A request goes to the fallback under pressure, or because its conversation was routed there
\* less than Stick ago, for any number of threads and conversations.
THEOREM NoneGoesWithoutReason == Spec => RoutedForAReason
<1>1. StickyInv /\ [Next]_vars =>
        \A t \in Threads : thread[t].step = "decide" /\ thread'[t].step \in {"metrics", "admit"} =>
          \/ thread[t].on = "on"
          \/ routed[thread[t].conv] # Never /\ routed[thread[t].conv] < Stick
  <2> SUFFICES ASSUME StickyInv, [Next]_vars, NEW t \in Threads,
                      thread[t].step = "decide", thread'[t].step \in {"metrics", "admit"}
               PROVE  thread[t].on = "on" \/ (routed[thread[t].conv] # Never /\ routed[thread[t].conv] < Stick)
    OBVIOUS
  <2>1. DecideThere(t)
    <3>1. CASE Tick \/ UNCHANGED vars BY <3>1 DEF Tick, vars
    <3>2. ASSUME NEW u \in Threads, Arrive(u) \/ Handle(u) PROVE DecideThere(t)
      <4>1. CASE u # t
        <5>1. PICK new : Put(u, new) BY <3>2, OneThread
        <5>2. thread'[t] = thread[t] BY <4>1, <5>1 DEF Put
        <5> QED BY <5>2
      <4>2. CASE u = t /\ ~DecideThere(t)
        <5>1. DecideSmall(t) \/ DecideLarge(t) \/ DecideHere(t)
          BY <3>2, <4>2 DEF Arrive, Begin, Handle, ProbeStatus, Sample, SampleUnreadable, ProbeMetrics,
             AdmitBusy, Admit, ForwardAnswers, ForwardFails, ServeHere
        <5>2. thread'[t] = Local(t) BY <5>1 DEF DecideSmall, DecideLarge, DecideHere, Put, StickyInv
        <5> QED BY <5>2, LocalIsAThread
      <4> QED BY <4>1, <4>2
    <3> QED BY <3>1, <3>2 DEF Next
  <2>2. thread[t].conv \in Conversations BY DEF StickyInv, Thread
  <2>3. sticky[thread[t].conv] > 0 \/ thread[t].on = "on" BY <2>1 DEF DecideThere, IsSticky
  <2>4. sticky[thread[t].conv] > 0 =>
          routed[thread[t].conv] # Never /\ routed[thread[t].conv] < Stick
    BY <2>2, Times DEF StickyInv, Never
  <2> QED BY <2>3, <2>4
<1> QED BY <1>1, StickyInvHolds, PTL DEF Spec, RoutedForAReason

\* What either sample has lasted, the samples' cache and the handlers' state have their types.
THEOREM GovernorIsTyped == Spec => []TypeOK
<1> DEFINE Rest == /\ denied = Never \/ allowed = Never
                   /\ home \in [Conversations -> {"here", "there", "outgrown"}]
<1>1. Init => Rest BY DEF Init
<1>2. StickyInv /\ Rest /\ [Next]_vars => Rest'
  <2> SUFFICES ASSUME StickyInv, Rest, [Next]_vars PROVE Rest' OBVIOUS
  <2>1. CASE UNCHANGED vars BY <2>1 DEF vars
  <2>2. CASE Tick BY <2>2 DEF Tick, Grown, Never
  <2>3. ASSUME NEW t \in Threads, Arrive(t) \/ Handle(t) PROVE Rest'
    <3>1. CASE Sample(t) BY <3>1 DEF Sample, Never
    <3>2. CASE ~Sample(t)
      <4>1. UNCHANGED <<denied, allowed>> BY <2>3, <3>2, SwitchAlone DEF switch
      <4>2. home' = home \/ \E c \in Conversations, place \in {"here", "there", "outgrown"} :
                               home' = [home EXCEPT ![c] = place]
        <5>1. thread[t].conv \in Conversations BY DEF StickyInv, Thread
        <5>2. home[thread[t].conv] \in {"here", "there", "outgrown"} BY <5>1
        <5> QED BY <2>3, <3>2, <5>1, <5>2
              DEF Arrive, Begin, Handle, ProbeStatus, SampleUnreadable, DecideSmall, DecideLarge, DecideHere,
                  DecideThere, ProbeMetrics, AdmitBusy, Admit, ForwardAnswers, ForwardFails, ServeHere
      <4> QED BY <4>1, <4>2
    <3> QED BY <3>1, <3>2
  <2> QED BY <2>1, <2>2, <2>3 DEF Next
<1>3. SwitchInv /\ StickyInv /\ Rest => TypeOK BY DEF SwitchInv, StickyInv, TypeOK
<1> QED BY <1>1, <1>2, <1>3, StickyInvHolds, SwitchInvHolds, PTL DEF Spec
==============================================================================
