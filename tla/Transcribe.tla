----------------------------- MODULE Transcribe -----------------------------
(***************************************************************************)
(* transcribe-server.py: the speech-to-text sidecar.  Each request has a   *)
(* thread; a semaphore lets Slots of them in, ModelManager keeps one       *)
(* engine loaded and swaps it under its lock, a sweeper thread frees it    *)
(* when it is idle, and POST /unload frees it at once.  A long request is  *)
(* a job, which clients poll and delete.                                   *)
(*                                                                         *)
(* A decode calls its engine's model once or, with NeMo, window by window; *)
(* an engine that is unloaded has no model for the next call, but a call   *)
(* that is under way holds the weights until it returns.  The router       *)
(* engine has no weights here: it has llama-router load its audio model.   *)
(***************************************************************************)
EXTENDS Integers, FiniteSets

CONSTANTS
  Requests,
  Models,      \* what the local engines can load
  Slots        \* TRANSCRIPT_MAX_CONCURRENCY

Router == "router"   \* the engine that forwards to llama-router
None == "none"

ASSUME TranscribeAssumption ==
  IsFiniteSet(Requests) /\ Slots \in Nat \ {0} /\ Router \notin Models /\ None \notin Models

Refs == Models \cup {Router}

VARIABLES
  step,       \* where each request's thread is
  ref,        \* the model each asks for
  job,        \* JOBS: each request's record
  file,       \* the spooled audio of each
  engine,     \* each thread's engine: its model is there, or was taken away
  resident,   \* _resident_key
  inflight,   \* _inflight
  stale,      \* idle_unload_seconds have passed since _last_used
  router,     \* whether llama-router holds its audio model
  overlap,    \* two requests were let in at once, and one is still in (history)
  unyielded   \* llama-router was not made to yield (history)

transcribeVars == <<step, ref, job, file, engine, resident, inflight, stale, router, overlap, unyielded>>
request == <<step, ref, job, file>>
manager == <<resident, inflight, stale>>
history == <<overlap, unyielded>>

Steps == {"new", "arrived", "waiting", "in", "ready", "calling", "leaving", "told", "failing",
          "cleaning", "over"}
Inside(t) == step[t] \in {"in", "ready", "calling", "leaving"}
Holding(t) == step[t] \in {"ready", "calling", "leaving"}   \* between acquire and release
Finished == {"done", "error"}
Go(t, s) == step' = [step EXCEPT ![t] = s]

------------------------------------------------------------------------------
(* A request arrives, waits its turn, and gets its engine *)

Arrive(t) ==
  /\ step[t] = "new" /\ Go(t, "arrived")
  /\ \E m \in Refs : ref' = [ref EXCEPT ![t] = m]
  /\ \E j \in {"none", "queued"} : job' = [job EXCEPT ![t] = j]   \* answered at once, or a job
  /\ file' = [file EXCEPT ![t] = "spooled"]
  /\ UNCHANGED <<engine, manager, router, history>>

\* `with manager.guard()`
Enter(t) ==
  /\ step[t] = "waiting" /\ Cardinality({u \in Requests : Inside(u)}) < Slots
  /\ Go(t, "in")
  /\ overlap' = (overlap \/ \E u \in Requests : Inside(u))
  /\ UNCHANGED <<ref, job, file, engine, manager, router, unyielded>>

\* _release_locked: the engine's model goes; a call under way keeps the weights.
Unloaded == [u \in Requests |-> IF engine[u] = "loaded" THEN "unloaded" ELSE engine[u]]

AcquireResident(t) ==
  /\ step[t] = "in" /\ resident = ref[t]
  /\ Go(t, "ready") /\ inflight' = inflight + 1 /\ stale' = FALSE
  /\ engine' = [engine EXCEPT ![t] = "loaded"]
  /\ UNCHANGED <<ref, job, file, resident, router, history>>

\* _router_yield, best effort, before a local engine loads.
YieldNone(t) == UNCHANGED <<router, unyielded>>   \* mutant: llama-router is not asked
Yield(t) ==
  IF ref[t] = Router THEN UNCHANGED <<router, unyielded>>
  ELSE \/ router' = "empty" /\ unyielded' = FALSE
       \/ router' = router /\ unyielded' = (unyielded \/ router = "holds")

AcquireLoad(t) ==
  /\ step[t] = "in" /\ resident # ref[t]
  /\ Yield(t)
  /\ Go(t, "ready") /\ resident' = ref[t] /\ inflight' = inflight + 1 /\ stale' = FALSE
  /\ engine' = [Unloaded EXCEPT ![t] = "loaded"]
  /\ UNCHANGED <<ref, job, file, overlap>>

AcquireFailsReleased(t) ==   \* mutant: release() although nothing was acquired
  /\ step[t] = "in" /\ resident # ref[t]
  /\ Yield(t)
  /\ Go(t, "leaving") /\ resident' = None /\ engine' = Unloaded
  /\ UNCHANGED <<ref, job, file, inflight, stale, overlap>>
\* What a failed load allocated is freed; nothing is resident and nothing counted.
AcquireFails(t) ==
  /\ step[t] = "in" /\ resident # ref[t] /\ ref[t] # Router
  /\ Yield(t)
  /\ Go(t, "failing") /\ resident' = None /\ engine' = Unloaded
  /\ overlap' = (overlap /\ \E u \in Requests \ {t} : Inside(u))
  /\ UNCHANGED <<ref, job, file, inflight, stale>>

------------------------------------------------------------------------------
(* The decode *)

\* The next call of the model, or of llama-router.
Call(t) ==
  /\ step[t] = "ready" /\ engine[t] = "loaded"
  /\ Go(t, "calling")
  /\ router' = IF ref[t] = Router THEN "holds" ELSE router
  /\ UNCHANGED <<ref, job, file, engine, manager, history>>
\* NoneType has no attribute 'transcribe'.
CallFails(t) ==
  /\ step[t] = "ready" /\ engine[t] = "unloaded"
  /\ Go(t, "leaving") /\ engine' = [engine EXCEPT ![t] = "failed"]
  /\ UNCHANGED <<ref, job, file, manager, router, history>>
Returns(t) ==
  /\ step[t] = "calling"
  /\ \/ Go(t, "ready") /\ UNCHANGED engine    \* there is another window
     \/ Go(t, "leaving") /\ UNCHANGED engine
     \/ Go(t, "leaving") /\ engine' = [engine EXCEPT ![t] = "failed"]
  /\ UNCHANGED <<ref, job, file, manager, router, history>>

\* manager.release() in the `finally`, then the semaphore's end.
ReleaseUncounted(t) ==   \* mutant: _inflight is not counted down after a failed decode
  /\ step[t] = "leaving"
  /\ Go(t, IF engine[t] = "failed" THEN "failing" ELSE "told")
  /\ inflight' = IF engine[t] = "failed" THEN inflight ELSE inflight - 1
  /\ stale' = FALSE /\ engine' = [engine EXCEPT ![t] = "none"]
  /\ overlap' = (overlap /\ \E u \in Requests \ {t} : Inside(u))
  /\ UNCHANGED <<ref, job, file, resident, router, unyielded>>
Release(t) ==
  /\ step[t] = "leaving"
  /\ Go(t, IF engine[t] = "failed" THEN "failing" ELSE "told")
  /\ inflight' = IF inflight > 0 THEN inflight - 1 ELSE 0
  /\ stale' = FALSE
  /\ engine' = [engine EXCEPT ![t] = "none"]
  /\ overlap' = (overlap /\ \E u \in Requests \ {t} : Inside(u))
  /\ UNCHANGED <<ref, job, file, resident, router, unyielded>>

------------------------------------------------------------------------------
(* The answer, or the job's record *)

\* update_job: what is not in JOBS any more is not updated.
UpdatedAnyway(t, status) == [job EXCEPT ![t] = IF @ = "none" THEN @ ELSE status]   \* mutant
Updated(t, status) == [job EXCEPT ![t] = IF @ \in {"none", "deleted"} THEN @ ELSE status]
Begin(t) ==
  /\ step[t] = "arrived" /\ Go(t, "waiting")
  /\ job' = Updated(t, "running")
  /\ UNCHANGED <<ref, file, engine, manager, router, history>>
Report(t) ==
  /\ step[t] \in {"told", "failing"} /\ Go(t, "cleaning")
  /\ job' = Updated(t, IF step[t] = "told" THEN "done" ELSE "error")
  /\ UNCHANGED <<ref, file, engine, manager, router, history>>
\* mutant: a job that failed leaves its audio
CleanUpDone(t) ==
  /\ step[t] = "cleaning" /\ Go(t, "over")
  /\ file' = [file EXCEPT ![t] = IF job[t] = "error" THEN @ ELSE "gone"]
  /\ UNCHANGED <<ref, job, engine, manager, router, history>>
\* _unlink, and a job sweeps the old records of finished jobs.
CleanUp(t) ==
  /\ step[t] = "cleaning" /\ Go(t, "over")
  /\ file' = [file EXCEPT ![t] = "gone"]
  /\ \E old \in SUBSET {u \in Requests : job[u] \in Finished} :
       /\ job[t] = "none" => old = {}
       /\ job' = [u \in Requests |-> IF u \in old THEN "deleted" ELSE job[u]]
  /\ UNCHANGED <<ref, engine, manager, router, history>>
\* DELETE /jobs/<id>
Delete(t) ==
  /\ job[t] \in {"queued", "running"} \cup Finished
  /\ job' = [job EXCEPT ![t] = "deleted"]
  /\ UNCHANGED <<step, ref, file, engine, manager, router, history>>

------------------------------------------------------------------------------
(* The sweeper, the operator, llama-router and time *)

Freed ==
  /\ resident' = None /\ engine' = Unloaded
  /\ UNCHANGED <<request, inflight, stale, router, history>>
Sweep == resident # None /\ inflight = 0 /\ stale /\ Freed
Unload == resident # None /\ Freed

TimePasses ==
  /\ ~stale /\ stale' = TRUE
  /\ UNCHANGED <<request, engine, resident, inflight, router, history>>
\* llama-router lets its audio model go when it wants the room.
RouterEvicts ==
  /\ router = "holds" /\ ~\E t \in Requests : step[t] = "calling" /\ ref[t] = Router
  /\ router' = "empty" /\ unyielded' = FALSE
  /\ UNCHANGED <<request, engine, manager, overlap>>

TranscribeInit ==
  /\ step = [t \in Requests |-> "new"] /\ ref = [t \in Requests |-> None]
  /\ job = [t \in Requests |-> "none"] /\ file = [t \in Requests |-> "none"]
  /\ engine = [t \in Requests |-> "none"]
  /\ resident = None /\ inflight = 0 /\ stale = FALSE
  /\ router = "empty" /\ overlap = FALSE /\ unyielded = FALSE

Work(t) ==
  \/ Begin(t) \/ Enter(t) \/ AcquireResident(t) \/ AcquireLoad(t) \/ AcquireFails(t)
  \/ Call(t) \/ CallFails(t) \/ Returns(t) \/ Release(t) \/ Report(t) \/ CleanUp(t)
TranscribeNext ==
  \/ \E t \in Requests : Arrive(t) \/ Work(t) \/ Delete(t)
  \/ Sweep \/ Unload \/ TimePasses \/ RouterEvicts

TranscribeSpec == TranscribeInit /\ [][TranscribeNext]_transcribeVars
\* The threads run; a decode has a last window; the clock and the sweeper's loop go on.
TranscribeFairSpec ==
  /\ TranscribeSpec
  /\ \A t \in Requests :
       /\ WF_transcribeVars(Work(t)) /\ SF_transcribeVars(Returns(t) /\ step'[t] = "leaving")
  /\ WF_transcribeVars(TimePasses) /\ WF_transcribeVars(Sweep)

------------------------------------------------------------------------------
(* Properties *)

TranscribeTypeOK ==
  /\ step \in [Requests -> Steps] /\ ref \in [Requests -> Refs \cup {None}]
  /\ job \in [Requests -> {"none", "queued", "running", "deleted"} \cup Finished]
  /\ file \in [Requests -> {"none", "spooled", "gone"}]
  /\ engine \in [Requests -> {"none", "loaded", "unloaded", "failed"}]
  /\ resident \in Refs \cup {None} /\ inflight \in 0..Slots /\ stale \in BOOLEAN
  /\ router \in {"empty", "holds"} /\ overlap \in BOOLEAN /\ unyielded \in BOOLEAN

\* The sweeper never takes the engine of a request that is between acquire and
\* release, whatever requests failed to load before it.
SweepSparesDecodes == [][Sweep => \A t \in Requests : ~Holding(t)]_transcribeVars

\* What is on the GPU: the resident local model, the weights of a call that its
\* engine was unloaded under, and llama-router's audio model.
OnGpu ==
  (IF resident \in Models THEN {<<"resident", resident>>} ELSE {})
  \cup {<<t, ref[t]>> : t \in {u \in Requests : step[u] = "calling" /\ engine[u] = "unloaded" /\ ref[u] \in Models}}
  \cup (IF router = "holds" THEN {<<"router", Router>>} ELSE {})
\* "One model is resident at a time", "the two never stack": one at most, but for
\* requests let in together and a llama-router that was not made to yield.
OneOnGpu == ~overlap /\ ~unyielded => Cardinality(OnGpu) <= 1

\* A record that was deleted or swept does not come back, and one that says how the
\* job ended does not change its mind.
RecordsStay ==
  [][\A t \in Requests :
       /\ job[t] = "deleted" => job'[t] = "deleted"
       /\ job[t] \in Finished => job'[t] \in {job[t], "deleted"}]_transcribeVars

\* Every request ends, its audio is gone, and its record, if it has one, says so.
Ended ==
  \A t \in Requests :
    step[t] = "arrived" ~>
      step[t] = "over" /\ file[t] = "gone" /\ job[t] \notin {"queued", "running"}

\* An engine nobody uses does not stay on the GPU.
IdleIsFreed == []<>(resident = None \/ \E t \in Requests : Inside(t) \/ step[t] = "waiting")

\* "A running decode is never evicted out from under itself."
DecodeKeepsEngine == \A t \in Requests : step[t] \in {"ready", "calling"} => engine[t] = "loaded"
=============================================================================
