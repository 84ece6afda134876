--------------------------- MODULE GpuLeaseProofs ---------------------------
(***************************************************************************)
(* Proofs about GpuLease: its invariants, and that it implements Handover. *)
(***************************************************************************)
EXTENDS GpuLease, TLAPS

(***************************************************************************)
(* The inductive invariant: what each step of a command may rely on.       *)
(***************************************************************************)
\* An acquire past ComfyUI's queue holds the lease it wrote, a touch the one it
\* found; before the queue is empty there is none.
AcquireHolds ==
  /\ op.step \in {"rearm", "drain", "stop", "blind", "move", "arm", "grant"} => Held
  /\ op.step = "queue" => ~Held

\* From its stop on, the acquire has the backend off.
AcquireStopped == op.step \in {"move", "arm", "grant"} => backend = "off"

\* A grant lasts from its answer to the beginning of a release.
GrantLasts == granted # "no" => Held /\ op.step \in {"free", "rearm"}

\* The watchdog is armed before the answer is given.
GrantArmed == op.step = "grant" => watchdog # "off"

\* The lease covers the guest with a cleanup, and no release is past the
\* cleanup with the guest there unless the cleanup failed.
GuestCovered ==
  /\ guest = "alone" => Held /\ lease.onRelease
  /\ op.step = "cleanup" /\ op.skip => guest # "alone"
  /\ op.step \in {"empty", "home"} /\ op.cleanup # "failed" => guest # "alone"
  /\ op.step \in {"start", "ready"} => guest # "alone"

IInv ==
  /\ TypeOK
  /\ AcquireHolds /\ AcquireStopped /\ GrantLasts /\ GrantArmed /\ GuestCovered
  /\ NoLeaseBackendOn /\ EvictionHolds /\ GuestAlone /\ StopDrained /\ GrantedIsWatched

-----------------------------------------------------------------------------
(***************************************************************************)
(* Type correctness, one part of the state at a time.                      *)
(***************************************************************************)
LeaseOK == lease \in Lease \cup {NoLease}
OpOK == op \in Op /\ (op.step = "queue" => op.ask \in Ask)
FlagsOK == job \in BOOLEAN /\ quiet \in BOOLEAN
RequestOK == request \in [Requests -> {"none", "routed", "running", "late"}]
RestOK ==
  /\ backend \in {"off", "loading", "up", "latched"}
  /\ comfy \in {"home", "away", "down"}
  /\ idle \in 0..2
  /\ watchdog \in {"off", "active", "restarting"}
  /\ granted \in {"no", "evicted", "reused"}
  /\ guest \in {"none", "alone", "beside"}
  /\ left \in Left

LEMMA TypeParts == TypeOK <=> LeaseOK /\ OpOK /\ FlagsOK /\ RequestOK /\ RestOK
BY Zenon DEF TypeOK, LeaseOK, OpOK, FlagsOK, RequestOK, RestOK

LEMMA TypeInit == Init => TypeOK
<1> SUFFICES ASSUME Init PROVE TypeOK
  OBVIOUS
<1>1. LeaseOK
  BY DEF Init, LeaseOK
<1>2. OpOK
  BY DEF Init, OpOK, Free, Op, At, NoAsk, By, Steps
<1>3. FlagsOK
  BY Zenon DEF Init, FlagsOK
<1>4. RequestOK
  BY DEF Init, RequestOK
<1>5. RestOK
  BY ConstantsAssumption DEF Init, RestOK, Left, ConstantsAssumption
<1> QED BY <1>1, <1>2, <1>3, <1>4, <1>5, TypeParts

\* The command record.
LEMMA OpStep == ASSUME OpOK, [Next]_vars PROVE OpOK'
<1> USE DEF OpOK, Op, At, Free, NoAsk, By, Steps, AcquireSteps, ReleaseSteps, cardVars, comfyVars, history, Begin
<1>1. CASE Commands
  <2> USE ConstantsAssumption DEF ConstantsAssumption
  <2>1. ASSUME NEW a \in Asks, AcquireAnew(a) PROVE OpOK'
    BY <2>1 DEF AcquireAnew
  <2>2. ASSUME NEW a \in Asks, AcquireRenew(a) PROVE OpOK'
    BY <2>2 DEF AcquireRenew
  <2>3. ASSUME NEW a \in Asks, AcquireConvert(a) PROVE OpOK'
    BY <2>3 DEF AcquireConvert
  <2>4. ASSUME NEW extend \in BOOLEAN, Touch(extend) PROVE OpOK'
    BY <2>4 DEF Touch
  <2>5. ASSUME NEW h \in Holders \cup {NoHolder}, NEW skip \in BOOLEAN, Release(h, skip)
        PROVE OpOK'
    BY <2>5 DEF Release
  <2> QED BY <1>1, <2>1, <2>2, <2>3, <2>4, <2>5 DEF Commands
<1>2. CASE AcquireStep
  <2>1. ASSUME NEW answers \in BOOLEAN, AcquireDrained(answers) PROVE OpOK'
    BY <2>1 DEF AcquireDrained
  <2>2. CASE \E s \in {"free", "drain", "move", "arm", "grant"} : op' = At(s)
    BY <2>2
  <2>3. CASE op' = [At("cleanup") EXCEPT !.by = "acquire"]
    BY <2>3
  <2> QED BY Zenon, <1>2, <2>1, <2>2, <2>3 DEF AcquireStep, AcquireQueueEmpty,
     AcquireQueueTimeout, AcquireDrainTimeout, AcquireStop, AcquireMove, AcquireArm,
     AcquireGrant, MoveComfy, BackOut
<1>3. CASE Rearm
  BY <1>3 DEF Rearm, Reused
<1>4. CASE ReleaseStep
  <2>1. CASE ReleaseCleanup
    <3>1. CASE op' = [op EXCEPT !.step = "empty"]
      BY <3>1
    <3>2. CASE op' = [op EXCEPT !.step = "empty", !.cleanup = "ok"]
      BY <3>2
    <3>3. CASE op' = [op EXCEPT !.step = "empty", !.cleanup = "failed", !.errors = TRUE]
      BY <3>3
    <3> QED BY Zenon, <2>1, <3>1, <3>2, <3>3 DEF ReleaseCleanup
  <2>2. CASE ReleaseQueue
    BY <2>2 DEF ReleaseQueue
  <2>3. CASE ReleaseMove
    BY <2>3 DEF ReleaseMove, MoveComfy, AfterMove
  <2>4. CASE ReleaseStart
    BY <2>4 DEF ReleaseStart
  <2>5. CASE ReleaseReady
    BY <2>5 DEF ReleaseReady
  <2>6. CASE ReleaseSettle
    BY <2>6 DEF ReleaseSettle
  <2>7. CASE ReleaseClear
    BY <2>7 DEF ReleaseClear
  <2> QED BY <1>4, <2>1, <2>2, <2>3, <2>4, <2>5, <2>6, <2>7 DEF ReleaseStep
<1>5. CASE Watch
  <2>1. CASE op' = [At("cleanup") EXCEPT !.by = "watchdog"]
    BY <2>1
  <2>2. CASE UNCHANGED op
    BY <2>2
  <2> QED BY Zenon, <1>5, <2>1, <2>2 DEF Watch, WatchGone, WatchRound, WatchRestart
<1>6. CASE Environment
  <2>1. CASE op' = Free
    BY <2>1
  <2>2. CASE UNCHANGED op
    BY <2>2
  <2> QED BY Zenon, <1>6, <2>1, <2>2 DEF Environment, RequestRoute, RequestArrive, RequestEnd,
     BackendLoads, BackendLatches, BackendDies, JobStart, JobEnd, ComfyChanges, IdleGrows,
     EndPasses, QuietFlips, PlaceGuest, RemoveGuest, Crash, Reboot
<1>7. CASE UNCHANGED vars
  BY <1>7 DEF vars
<1> QED BY <1>1, <1>2, <1>3, <1>4, <1>5, <1>6, <1>7 DEF Next

\* The lease file.
LEMMA LeaseStep == ASSUME LeaseOK, OpOK, [Next]_vars PROVE LeaseOK'
<1> USE DEF LeaseOK, OpOK, Lease, Held, cardVars, comfyVars, history, Begin
<1>1. CASE Commands
  <2> USE ConstantsAssumption DEF ConstantsAssumption, Ask, Kinds
  <2>1. ASSUME NEW a \in Asks, AcquireAnew(a) PROVE LeaseOK'
    BY <2>1 DEF AcquireAnew
  <2>2. ASSUME NEW a \in Asks, AcquireRenew(a) PROVE LeaseOK'
    BY <2>2 DEF AcquireRenew
  <2>3. ASSUME NEW a \in Asks, AcquireConvert(a) PROVE LeaseOK'
    BY <2>3 DEF AcquireConvert
  <2>4. ASSUME NEW extend \in BOOLEAN, Touch(extend) PROVE LeaseOK'
    BY <2>4 DEF Touch
  <2>5. ASSUME NEW h \in Holders \cup {NoHolder}, NEW skip \in BOOLEAN, Release(h, skip)
        PROVE LeaseOK'
    BY <2>5 DEF Release
  <2> QED BY <1>1, <2>1, <2>2, <2>3, <2>4, <2>5 DEF Commands
<1>2. CASE AcquireStep
  <2>1. CASE AcquireQueueEmpty
    BY <2>1 DEF AcquireQueueEmpty, LeaseOf, Ask
  <2>2. CASE UNCHANGED lease
    BY <2>2
  <2> QED BY Zenon, <1>2, <2>1, <2>2 DEF AcquireStep, AcquireQueueTimeout, AcquireDrained,
     AcquireDrainTimeout, AcquireStop, AcquireMove, AcquireArm, AcquireGrant, MoveComfy, BackOut
<1>3. CASE Rearm
  BY <1>3 DEF Rearm, Reused
<1>4. CASE ReleaseStep
  BY <1>4 DEF ReleaseStep, ReleaseCleanup, ReleaseQueue, ReleaseMove, ReleaseStart, ReleaseReady,
     ReleaseSettle, ReleaseClear, MoveComfy, AfterMove
<1>5. CASE Watch
  BY <1>5 DEF Watch, WatchGone, WatchRound, WatchRestart
<1>6. CASE Environment
  BY <1>6 DEF Environment, RequestRoute, RequestArrive, RequestEnd, BackendLoads, BackendLatches,
     BackendDies, JobStart, JobEnd, ComfyChanges, IdleGrows, EndPasses, QuietFlips,
     PlaceGuest, RemoveGuest, Crash, Reboot
<1>7. CASE UNCHANGED vars
  BY <1>7 DEF vars
<1> QED BY <1>1, <1>2, <1>3, <1>4, <1>5, <1>6, <1>7 DEF Next

\* The Boolean variables.
LEMMA FlagsStep == ASSUME FlagsOK, [Next]_vars PROVE FlagsOK'
<1> USE DEF FlagsOK, cardVars, comfyVars, history, Begin
<1>1. CASE Commands
  BY ZenonT(30), <1>1 DEF Commands, AcquireAnew, AcquireRenew, AcquireConvert, Touch, Release
<1>2. CASE AcquireStep
  BY ZenonT(30), <1>2 DEF AcquireStep, AcquireQueueEmpty, AcquireQueueTimeout, AcquireDrained,
     AcquireDrainTimeout, AcquireStop, AcquireMove, AcquireArm, AcquireGrant, MoveComfy, BackOut
<1>3. CASE Rearm
  BY ZenonT(30), <1>3 DEF Rearm, Reused
<1>4. CASE ReleaseStep
  BY ZenonT(30), <1>4 DEF ReleaseStep, ReleaseCleanup, ReleaseQueue, ReleaseMove, ReleaseStart, ReleaseReady,
     ReleaseSettle, ReleaseClear, MoveComfy, AfterMove
<1>5. CASE Watch
  BY ZenonT(30), <1>5 DEF Watch, WatchGone, WatchRound, WatchRestart
<1>6. CASE Environment
  BY ZenonT(30), <1>6 DEF Environment, RequestRoute, RequestArrive, RequestEnd, BackendLoads, BackendLatches,
     BackendDies, JobStart, JobEnd, ComfyChanges, IdleGrows, EndPasses, QuietFlips,
     PlaceGuest, RemoveGuest, Crash, Reboot
<1>7. CASE UNCHANGED vars
  BY <1>7 DEF vars
<1> QED BY <1>1, <1>2, <1>3, <1>4, <1>5, <1>6, <1>7 DEF Next

\* The requests.
LEMMA RequestStep == ASSUME RequestOK, [Next]_vars PROVE RequestOK'
<1> USE DEF RequestOK, CutOff, cardVars, comfyVars, history, Begin
<1>1. CASE Commands
  <2>1. ASSUME NEW a \in Asks, AcquireAnew(a) PROVE RequestOK'
    BY <2>1 DEF AcquireAnew
  <2>2. ASSUME NEW a \in Asks, AcquireRenew(a) PROVE RequestOK'
    BY <2>2 DEF AcquireRenew
  <2>3. ASSUME NEW a \in Asks, AcquireConvert(a) PROVE RequestOK'
    BY <2>3 DEF AcquireConvert
  <2>4. ASSUME NEW extend \in BOOLEAN, Touch(extend) PROVE RequestOK'
    BY <2>4 DEF Touch
  <2>5. ASSUME NEW h \in Holders \cup {NoHolder}, NEW skip \in BOOLEAN, Release(h, skip)
        PROVE RequestOK'
    BY <2>5 DEF Release
  <2> QED BY <1>1, <2>1, <2>2, <2>3, <2>4, <2>5 DEF Commands
<1>2. CASE AcquireStep
  BY <1>2 DEF AcquireStep, AcquireQueueEmpty, AcquireQueueTimeout, AcquireDrained,
     AcquireDrainTimeout, AcquireStop, AcquireMove, AcquireArm, AcquireGrant, MoveComfy, BackOut
<1>3. CASE Rearm
  BY <1>3 DEF Rearm, Reused
<1>4. CASE ReleaseStep
  BY <1>4 DEF ReleaseStep, ReleaseCleanup, ReleaseQueue, ReleaseMove, ReleaseStart, ReleaseReady,
     ReleaseSettle, ReleaseClear, MoveComfy, AfterMove
<1>5. CASE Watch
  BY <1>5 DEF Watch, WatchGone, WatchRound, WatchRestart
<1>6. CASE Environment
  BY <1>6 DEF Environment, RequestRoute, RequestArrive, RequestEnd, BackendLoads, BackendLatches,
     BackendDies, JobStart, JobEnd, ComfyChanges, IdleGrows, EndPasses, QuietFlips,
     PlaceGuest, RemoveGuest, Crash, Reboot
<1>7. CASE UNCHANGED vars
  BY <1>7 DEF vars
<1> QED BY <1>1, <1>2, <1>3, <1>4, <1>5, <1>6, <1>7 DEF Next

\* The rest of the state.
LEMMA RestStep == ASSUME RestOK, [Next]_vars PROVE RestOK'
<1> USE DEF RestOK, Left, cardVars, comfyVars, history, Begin
<1>1. CASE Commands
  <2>1. ASSUME NEW a \in Asks, AcquireAnew(a) PROVE RestOK'
    BY <2>1 DEF AcquireAnew
  <2>2. ASSUME NEW a \in Asks, AcquireRenew(a) PROVE RestOK'
    BY <2>2 DEF AcquireRenew
  <2>3. ASSUME NEW a \in Asks, AcquireConvert(a) PROVE RestOK'
    BY <2>3 DEF AcquireConvert
  <2>4. ASSUME NEW extend \in BOOLEAN, Touch(extend) PROVE RestOK'
    BY <2>4 DEF Touch
  <2>5. ASSUME NEW h \in Holders \cup {NoHolder}, NEW skip \in BOOLEAN, Release(h, skip)
        PROVE RestOK'
    BY <2>5 DEF Release
  <2> QED BY <1>1, <2>1, <2>2, <2>3, <2>4, <2>5 DEF Commands
<1>2. CASE AcquireStep
  BY <1>2 DEF AcquireStep, AcquireQueueEmpty, AcquireQueueTimeout, AcquireDrained,
     AcquireDrainTimeout, AcquireStop, AcquireMove, AcquireArm, AcquireGrant, MoveComfy, BackOut
<1>3. CASE Rearm
  BY <1>3 DEF Rearm, Reused
<1>4. CASE ReleaseStep
  BY <1>4 DEF ReleaseStep, ReleaseCleanup, ReleaseQueue, ReleaseMove, ReleaseStart, ReleaseReady,
     ReleaseSettle, ReleaseClear, MoveComfy, AfterMove
<1>5. CASE Watch
  BY <1>5 DEF Watch, WatchGone, WatchRound, WatchRestart
<1>6. CASE Environment
  BY <1>6 DEF Environment, RequestRoute, RequestArrive, RequestEnd, BackendLoads, BackendLatches,
     BackendDies, JobStart, JobEnd, ComfyChanges, IdleGrows, EndPasses, QuietFlips,
     PlaceGuest, RemoveGuest, Crash, Reboot
<1>7. CASE UNCHANGED vars
  BY <1>7 DEF vars
<1> QED BY <1>1, <1>2, <1>3, <1>4, <1>5, <1>6, <1>7 DEF Next

LEMMA TypeStep == TypeOK /\ [Next]_vars => TypeOK'
<1> SUFFICES ASSUME TypeOK, [Next]_vars PROVE TypeOK'
  OBVIOUS
<1>1. LeaseOK /\ OpOK /\ FlagsOK /\ RequestOK /\ RestOK
  BY TypeParts
<1>2. LeaseOK' /\ OpOK' /\ FlagsOK' /\ RequestOK' /\ RestOK'
  BY <1>1, LeaseStep, OpStep, FlagsStep, RequestStep, RestStep
<1> QED BY Zenon, <1>2 DEF TypeOK, LeaseOK, OpOK, FlagsOK, RequestOK, RestOK

\* Every state is well typed: no command, failure, crash or reboot leaves the
\* lease file, the command or the devices in a state the program has no name for.
THEOREM TypeCorrect == Spec => []TypeOK
BY TypeInit, TypeStep, PTL DEF Spec

-----------------------------------------------------------------------------
(***************************************************************************)
(* The inductive invariant, one part at a time.                            *)
(***************************************************************************)
\* A release goes through its own steps until the lock is free.
LEMMA ReleaseStepNames == ASSUME OpOK, ReleaseStep
                      PROVE op.step \in ReleaseSteps /\ op'.step \in ReleaseSteps \cup {"free"}
<1> USE DEF OpOK, Op, At, Free, ReleaseSteps
<1>1. CASE ReleaseCleanup
  BY <1>1 DEF ReleaseCleanup
<1>2. CASE ReleaseQueue
  BY <1>2 DEF ReleaseQueue
<1>3. CASE ReleaseMove
  BY <1>3 DEF ReleaseMove, MoveComfy, AfterMove
<1>4. CASE ReleaseStart
  BY <1>4 DEF ReleaseStart
<1>5. CASE ReleaseReady
  BY <1>5 DEF ReleaseReady
<1>6. CASE ReleaseSettle
  BY <1>6 DEF ReleaseSettle
<1>7. CASE ReleaseClear
  BY <1>7 DEF ReleaseClear
<1> QED BY <1>1, <1>2, <1>3, <1>4, <1>5, <1>6, <1>7 DEF ReleaseStep

\* No step of another command or of the environment takes the lease from an acquire.
LEMMA AcquireHoldsStep == ASSUME OpOK, LeaseOK, AcquireHolds, [Next]_vars PROVE AcquireHolds'
<1> USE DEF AcquireHolds, OpOK, LeaseOK, Lease, NoLease, Held, LeaseOf, Op, At, Free, NoAsk, By, cardVars, comfyVars, history, Begin
<1>1. CASE Commands
  <2>1. ASSUME NEW a \in Asks, AcquireAnew(a) PROVE AcquireHolds'
    BY <2>1 DEF AcquireAnew
  <2>2. ASSUME NEW a \in Asks, AcquireRenew(a) PROVE AcquireHolds'
    BY <2>2 DEF AcquireRenew
  <2>3. ASSUME NEW a \in Asks, AcquireConvert(a) PROVE AcquireHolds'
    BY <2>3 DEF AcquireConvert
  <2>4. ASSUME NEW extend \in BOOLEAN, Touch(extend) PROVE AcquireHolds'
    BY <2>4 DEF Touch
  <2>5. ASSUME NEW h \in Holders \cup {NoHolder}, NEW skip \in BOOLEAN, Release(h, skip)
        PROVE AcquireHolds'
    BY <2>5 DEF Release
  <2> QED BY <1>1, <2>1, <2>2, <2>3, <2>4, <2>5 DEF Commands
<1>2. CASE AcquireStep
  BY <1>2 DEF AcquireStep, AcquireQueueEmpty, AcquireQueueTimeout, AcquireDrained,
     AcquireDrainTimeout, AcquireStop, AcquireMove, AcquireArm, AcquireGrant, MoveComfy, BackOut
<1>3. CASE Rearm
  BY <1>3 DEF Rearm, Reused
<1>4. CASE ReleaseStep
  BY <1>4, ReleaseStepNames DEF ReleaseSteps
<1>5. CASE Watch
  BY <1>5 DEF Watch, WatchGone, WatchRound, WatchRestart
<1>6. CASE Environment
  BY <1>6 DEF Environment, RequestRoute, RequestArrive, RequestEnd, BackendLoads, BackendLatches,
     BackendDies, JobStart, JobEnd, ComfyChanges, IdleGrows, EndPasses, QuietFlips,
     PlaceGuest, RemoveGuest, Crash, Reboot
<1>7. CASE UNCHANGED vars
  BY <1>7 DEF vars
<1> QED BY <1>1, <1>2, <1>3, <1>4, <1>5, <1>6, <1>7 DEF Next

\* Nothing starts the backend under an acquire.
LEMMA AcquireStoppedStep == ASSUME OpOK, AcquireStopped, [Next]_vars PROVE AcquireStopped'
<1> USE DEF AcquireStopped, OpOK, Op, At, Free, NoAsk, By, cardVars, comfyVars, history, Begin
<1>1. CASE Commands
  <2>1. ASSUME NEW a \in Asks, AcquireAnew(a) PROVE AcquireStopped'
    BY <2>1 DEF AcquireAnew
  <2>2. ASSUME NEW a \in Asks, AcquireRenew(a) PROVE AcquireStopped'
    BY <2>2 DEF AcquireRenew
  <2>3. ASSUME NEW a \in Asks, AcquireConvert(a) PROVE AcquireStopped'
    BY <2>3 DEF AcquireConvert
  <2>4. ASSUME NEW extend \in BOOLEAN, Touch(extend) PROVE AcquireStopped'
    BY <2>4 DEF Touch
  <2>5. ASSUME NEW h \in Holders \cup {NoHolder}, NEW skip \in BOOLEAN, Release(h, skip)
        PROVE AcquireStopped'
    BY <2>5 DEF Release
  <2> QED BY <1>1, <2>1, <2>2, <2>3, <2>4, <2>5 DEF Commands
<1>2. CASE AcquireStep
  BY <1>2 DEF AcquireStep, AcquireQueueEmpty, AcquireQueueTimeout, AcquireDrained,
     AcquireDrainTimeout, AcquireStop, AcquireMove, AcquireArm, AcquireGrant, MoveComfy, BackOut
<1>3. CASE Rearm
  BY <1>3 DEF Rearm, Reused
<1>4. CASE ReleaseStep
  BY <1>4, ReleaseStepNames DEF ReleaseSteps
<1>5. CASE Watch
  BY <1>5 DEF Watch, WatchGone, WatchRound, WatchRestart
<1>6. CASE Environment
  BY <1>6 DEF Environment, RequestRoute, RequestArrive, RequestEnd, BackendLoads, BackendLatches,
     BackendDies, JobStart, JobEnd, ComfyChanges, IdleGrows, EndPasses, QuietFlips,
     PlaceGuest, RemoveGuest, Crash, Reboot
<1>7. CASE UNCHANGED vars
  BY <1>7 DEF vars
<1> QED BY <1>1, <1>2, <1>3, <1>4, <1>5, <1>6, <1>7 DEF Next

\* A grant ends where a release begins.
LEMMA GrantStep == ASSUME OpOK, LeaseOK, AcquireHolds, GrantLasts, [Next]_vars PROVE GrantLasts'
<1> USE DEF GrantLasts, AcquireHolds, OpOK, LeaseOK, Lease, NoLease, Held, Op, At, Free, NoAsk, By, cardVars, comfyVars, history, Begin
<1>1. CASE Commands
  <2>1. ASSUME NEW a \in Asks, AcquireAnew(a) PROVE GrantLasts'
    BY <2>1 DEF AcquireAnew
  <2>2. ASSUME NEW a \in Asks, AcquireRenew(a) PROVE GrantLasts'
    BY <2>2 DEF AcquireRenew
  <2>3. ASSUME NEW a \in Asks, AcquireConvert(a) PROVE GrantLasts'
    BY <2>3 DEF AcquireConvert
  <2>4. ASSUME NEW extend \in BOOLEAN, Touch(extend) PROVE GrantLasts'
    BY <2>4 DEF Touch
  <2>5. ASSUME NEW h \in Holders \cup {NoHolder}, NEW skip \in BOOLEAN, Release(h, skip)
        PROVE GrantLasts'
    BY <2>5 DEF Release
  <2> QED BY <1>1, <2>1, <2>2, <2>3, <2>4, <2>5 DEF Commands
<1>2. CASE AcquireStep
  BY <1>2 DEF AcquireStep, AcquireQueueEmpty, AcquireQueueTimeout, AcquireDrained,
     AcquireDrainTimeout, AcquireStop, AcquireMove, AcquireArm, AcquireGrant, MoveComfy, BackOut
<1>3. CASE Rearm
  BY <1>3 DEF Rearm, Reused
<1>4. CASE ReleaseStep
  BY <1>4 DEF ReleaseStep, ReleaseCleanup, ReleaseQueue, ReleaseMove, ReleaseStart, ReleaseReady,
     ReleaseSettle, ReleaseClear, MoveComfy, AfterMove
<1>5. CASE Watch
  BY <1>5 DEF Watch, WatchGone, WatchRound, WatchRestart
<1>6. CASE Environment
  BY <1>6 DEF Environment, RequestRoute, RequestArrive, RequestEnd, BackendLoads, BackendLatches,
     BackendDies, JobStart, JobEnd, ComfyChanges, IdleGrows, EndPasses, QuietFlips,
     PlaceGuest, RemoveGuest, Crash, Reboot
<1>7. CASE UNCHANGED vars
  BY <1>7 DEF vars
<1> QED BY <1>1, <1>2, <1>3, <1>4, <1>5, <1>6, <1>7 DEF Next

\* The watchdog of a lease that is being granted stays.
LEMMA GrantArmedStep == ASSUME OpOK, AcquireHolds, GrantArmed, [Next]_vars PROVE GrantArmed'
<1> USE DEF GrantArmed, AcquireHolds, OpOK, Op, At, Free, NoAsk, By, cardVars, comfyVars, history, Begin
<1>1. CASE Commands
  <2>1. ASSUME NEW a \in Asks, AcquireAnew(a) PROVE GrantArmed'
    BY <2>1 DEF AcquireAnew
  <2>2. ASSUME NEW a \in Asks, AcquireRenew(a) PROVE GrantArmed'
    BY <2>2 DEF AcquireRenew
  <2>3. ASSUME NEW a \in Asks, AcquireConvert(a) PROVE GrantArmed'
    BY <2>3 DEF AcquireConvert
  <2>4. ASSUME NEW extend \in BOOLEAN, Touch(extend) PROVE GrantArmed'
    BY <2>4 DEF Touch
  <2>5. ASSUME NEW h \in Holders \cup {NoHolder}, NEW skip \in BOOLEAN, Release(h, skip)
        PROVE GrantArmed'
    BY <2>5 DEF Release
  <2> QED BY <1>1, <2>1, <2>2, <2>3, <2>4, <2>5 DEF Commands
<1>2. CASE AcquireStep
  BY <1>2 DEF AcquireStep, AcquireQueueEmpty, AcquireQueueTimeout, AcquireDrained,
     AcquireDrainTimeout, AcquireStop, AcquireMove, AcquireArm, AcquireGrant, MoveComfy, BackOut
<1>3. CASE Rearm
  BY <1>3 DEF Rearm, Reused
<1>4. CASE ReleaseStep
  BY <1>4, ReleaseStepNames DEF ReleaseSteps
<1>5. CASE Watch
  BY <1>5 DEF Watch, WatchGone, WatchRound, WatchRestart
<1>6. CASE Environment
  BY <1>6 DEF Environment, RequestRoute, RequestArrive, RequestEnd, BackendLoads, BackendLatches,
     BackendDies, JobStart, JobEnd, ComfyChanges, IdleGrows, EndPasses, QuietFlips,
     PlaceGuest, RemoveGuest, Crash, Reboot
<1>7. CASE UNCHANGED vars
  BY <1>7 DEF vars
<1> QED BY <1>1, <1>2, <1>3, <1>4, <1>5, <1>6, <1>7 DEF Next

\* The cleanup goes with the lease through renewals, conversions and failed releases.
LEMMA GuestCoveredStep == ASSUME OpOK, LeaseOK, RestOK, AcquireHolds, GuestAlone, GuestCovered, [Next]_vars PROVE GuestCovered'
<1> USE DEF GuestCovered, GuestAlone, RestOK, AcquireHolds, OpOK, LeaseOK, Lease, NoLease, Held, Op, At, Free, NoAsk, By, cardVars, comfyVars, history, Begin
<1>1. CASE Commands
  <2>1. ASSUME NEW a \in Asks, AcquireAnew(a) PROVE GuestCovered'
    BY <2>1 DEF AcquireAnew
  <2>2. ASSUME NEW a \in Asks, AcquireRenew(a) PROVE GuestCovered'
    BY <2>2 DEF AcquireRenew
  <2>3. ASSUME NEW a \in Asks, AcquireConvert(a) PROVE GuestCovered'
    BY <2>3 DEF AcquireConvert
  <2>4. ASSUME NEW extend \in BOOLEAN, Touch(extend) PROVE GuestCovered'
    BY <2>4 DEF Touch
  <2>5. ASSUME NEW h \in Holders \cup {NoHolder}, NEW skip \in BOOLEAN, Release(h, skip)
        PROVE GuestCovered'
    BY <2>5 DEF Release
  <2> QED BY <1>1, <2>1, <2>2, <2>3, <2>4, <2>5 DEF Commands
<1>2. CASE AcquireStep
  BY <1>2 DEF AcquireStep, AcquireQueueEmpty, AcquireQueueTimeout, AcquireDrained,
     AcquireDrainTimeout, AcquireStop, AcquireMove, AcquireArm, AcquireGrant, MoveComfy, BackOut
<1>3. CASE Rearm
  BY <1>3 DEF Rearm, Reused
<1>4. CASE ReleaseStep
  <2>1. CASE ReleaseCleanup
    <3>1. op'.step = "empty" /\ op'.skip = op.skip /\ UNCHANGED lease
      BY <2>1 DEF ReleaseCleanup
    <3>2. guest' = "none" \/ UNCHANGED guest
      BY <2>1 DEF ReleaseCleanup
    <3>3. guest = "alone" /\ op'.cleanup # "failed" => guest' = "none"
      BY <2>1 DEF ReleaseCleanup
    <3> QED BY <3>1, <3>2, <3>3
  <2>2. CASE ReleaseQueue
    BY <2>2 DEF ReleaseQueue
  <2>3. CASE ReleaseMove
    BY <2>3 DEF ReleaseMove, MoveComfy, AfterMove
  <2>4. CASE ReleaseStart
    BY <2>4 DEF ReleaseStart
  <2>5. CASE ReleaseReady
    BY <2>5 DEF ReleaseReady
  <2>6. CASE ReleaseSettle
    BY <2>6 DEF ReleaseSettle
  <2>7. CASE ReleaseClear
    BY <2>7 DEF ReleaseClear
  <2> QED BY <1>4, <2>1, <2>2, <2>3, <2>4, <2>5, <2>6, <2>7 DEF ReleaseStep
<1>5. CASE Watch
  BY <1>5 DEF Watch, WatchGone, WatchRound, WatchRestart
<1>6. CASE Environment
  BY <1>6 DEF Environment, RequestRoute, RequestArrive, RequestEnd, BackendLoads, BackendLatches,
     BackendDies, JobStart, JobEnd, ComfyChanges, IdleGrows, EndPasses, QuietFlips,
     PlaceGuest, RemoveGuest, Crash, Reboot
<1>7. CASE UNCHANGED vars
  BY <1>7 DEF vars
<1> QED BY <1>1, <1>2, <1>3, <1>4, <1>5, <1>6, <1>7 DEF Next

\* Only an acquire stops the backend, and it holds the lease; the lease goes under a backend that is up.
LEMMA BackendOnStep == ASSUME OpOK, LeaseOK, AcquireHolds, NoLeaseBackendOn, [Next]_vars PROVE NoLeaseBackendOn'
<1> USE DEF NoLeaseBackendOn, AcquireHolds, OpOK, LeaseOK, Lease, NoLease, Held, LeaseOf, Op, At, Free, NoAsk, By, cardVars, comfyVars, history, Begin
<1>1. CASE Commands
  <2>1. ASSUME NEW a \in Asks, AcquireAnew(a) PROVE NoLeaseBackendOn'
    BY <2>1 DEF AcquireAnew
  <2>2. ASSUME NEW a \in Asks, AcquireRenew(a) PROVE NoLeaseBackendOn'
    BY <2>2 DEF AcquireRenew
  <2>3. ASSUME NEW a \in Asks, AcquireConvert(a) PROVE NoLeaseBackendOn'
    BY <2>3 DEF AcquireConvert
  <2>4. ASSUME NEW extend \in BOOLEAN, Touch(extend) PROVE NoLeaseBackendOn'
    BY <2>4 DEF Touch
  <2>5. ASSUME NEW h \in Holders \cup {NoHolder}, NEW skip \in BOOLEAN, Release(h, skip)
        PROVE NoLeaseBackendOn'
    BY <2>5 DEF Release
  <2> QED BY <1>1, <2>1, <2>2, <2>3, <2>4, <2>5 DEF Commands
<1>2. CASE AcquireStep
  BY <1>2 DEF AcquireStep, AcquireQueueEmpty, AcquireQueueTimeout, AcquireDrained,
     AcquireDrainTimeout, AcquireStop, AcquireMove, AcquireArm, AcquireGrant, MoveComfy, BackOut
<1>3. CASE Rearm
  BY <1>3 DEF Rearm, Reused
<1>4. CASE ReleaseStep
  BY <1>4 DEF ReleaseStep, ReleaseCleanup, ReleaseQueue, ReleaseMove, ReleaseStart, ReleaseReady,
     ReleaseSettle, ReleaseClear, MoveComfy, AfterMove
<1>5. CASE Watch
  BY <1>5 DEF Watch, WatchGone, WatchRound, WatchRestart
<1>6. CASE Environment
  BY <1>6 DEF Environment, RequestRoute, RequestArrive, RequestEnd, BackendLoads, BackendLatches,
     BackendDies, JobStart, JobEnd, ComfyChanges, IdleGrows, EndPasses, QuietFlips,
     PlaceGuest, RemoveGuest, Crash, Reboot
<1>7. CASE UNCHANGED vars
  BY <1>7 DEF vars
<1> QED BY <1>1, <1>2, <1>3, <1>4, <1>5, <1>6, <1>7 DEF Next

\* The backend starts in a release only.
LEMMA EvictionStep == ASSUME OpOK, LeaseOK, AcquireHolds, AcquireStopped, GrantLasts, EvictionHolds, [Next]_vars PROVE EvictionHolds'
<1> USE DEF EvictionHolds, GrantLasts, AcquireStopped, AcquireHolds, OpOK, LeaseOK, Lease, NoLease, Held, Op, At, Free, NoAsk, By, cardVars, comfyVars, history, Begin
<1>1. CASE Commands
  <2>1. ASSUME NEW a \in Asks, AcquireAnew(a) PROVE EvictionHolds'
    BY <2>1 DEF AcquireAnew
  <2>2. ASSUME NEW a \in Asks, AcquireRenew(a) PROVE EvictionHolds'
    BY <2>2 DEF AcquireRenew
  <2>3. ASSUME NEW a \in Asks, AcquireConvert(a) PROVE EvictionHolds'
    BY <2>3 DEF AcquireConvert
  <2>4. ASSUME NEW extend \in BOOLEAN, Touch(extend) PROVE EvictionHolds'
    BY <2>4 DEF Touch
  <2>5. ASSUME NEW h \in Holders \cup {NoHolder}, NEW skip \in BOOLEAN, Release(h, skip)
        PROVE EvictionHolds'
    BY <2>5 DEF Release
  <2> QED BY <1>1, <2>1, <2>2, <2>3, <2>4, <2>5 DEF Commands
<1>2. CASE AcquireStep
  BY <1>2 DEF AcquireStep, AcquireQueueEmpty, AcquireQueueTimeout, AcquireDrained,
     AcquireDrainTimeout, AcquireStop, AcquireMove, AcquireArm, AcquireGrant, MoveComfy, BackOut
<1>3. CASE Rearm
  BY <1>3 DEF Rearm, Reused
<1>4. CASE ReleaseStep
  BY <1>4 DEF ReleaseStep, ReleaseCleanup, ReleaseQueue, ReleaseMove, ReleaseStart, ReleaseReady,
     ReleaseSettle, ReleaseClear, MoveComfy, AfterMove
<1>5. CASE Watch
  BY <1>5 DEF Watch, WatchGone, WatchRound, WatchRestart
<1>6. CASE Environment
  BY <1>6 DEF Environment, RequestRoute, RequestArrive, RequestEnd, BackendLoads, BackendLatches,
     BackendDies, JobStart, JobEnd, ComfyChanges, IdleGrows, EndPasses, QuietFlips,
     PlaceGuest, RemoveGuest, Crash, Reboot
<1>7. CASE UNCHANGED vars
  BY <1>7 DEF vars
<1> QED BY <1>1, <1>2, <1>3, <1>4, <1>5, <1>6, <1>7 DEF Next

\* No release past a failed cleanup starts the backend.
LEMMA GuestAloneStep == ASSUME OpOK, RestOK, GuestCovered, GuestAlone, [Next]_vars PROVE GuestAlone'
<1> USE DEF GuestAlone, GuestCovered, RestOK, OpOK, Op, At, Free, NoAsk, By, cardVars, comfyVars, history, Begin
<1>1. CASE Commands
  <2>1. ASSUME NEW a \in Asks, AcquireAnew(a) PROVE GuestAlone'
    BY <2>1 DEF AcquireAnew
  <2>2. ASSUME NEW a \in Asks, AcquireRenew(a) PROVE GuestAlone'
    BY <2>2 DEF AcquireRenew
  <2>3. ASSUME NEW a \in Asks, AcquireConvert(a) PROVE GuestAlone'
    BY <2>3 DEF AcquireConvert
  <2>4. ASSUME NEW extend \in BOOLEAN, Touch(extend) PROVE GuestAlone'
    BY <2>4 DEF Touch
  <2>5. ASSUME NEW h \in Holders \cup {NoHolder}, NEW skip \in BOOLEAN, Release(h, skip)
        PROVE GuestAlone'
    BY <2>5 DEF Release
  <2> QED BY <1>1, <2>1, <2>2, <2>3, <2>4, <2>5 DEF Commands
<1>2. CASE AcquireStep
  BY <1>2 DEF AcquireStep, AcquireQueueEmpty, AcquireQueueTimeout, AcquireDrained,
     AcquireDrainTimeout, AcquireStop, AcquireMove, AcquireArm, AcquireGrant, MoveComfy, BackOut
<1>3. CASE Rearm
  BY <1>3 DEF Rearm, Reused
<1>4. CASE ReleaseStep
  BY <1>4 DEF ReleaseStep, ReleaseCleanup, ReleaseQueue, ReleaseMove, ReleaseStart, ReleaseReady,
     ReleaseSettle, ReleaseClear, MoveComfy, AfterMove
<1>5. CASE Watch
  BY <1>5 DEF Watch, WatchGone, WatchRound, WatchRestart
<1>6. CASE Environment
  BY <1>6 DEF Environment, RequestRoute, RequestArrive, RequestEnd, BackendLoads, BackendLatches,
     BackendDies, JobStart, JobEnd, ComfyChanges, IdleGrows, EndPasses, QuietFlips,
     PlaceGuest, RemoveGuest, Crash, Reboot
<1>7. CASE UNCHANGED vars
  BY <1>7 DEF vars
<1> QED BY <1>1, <1>2, <1>3, <1>4, <1>5, <1>6, <1>7 DEF Next

\* What reaches the backend after the drain is late.
LEMMA DrainedStep == ASSUME OpOK, RequestOK, AcquireHolds, StopDrained, [Next]_vars PROVE StopDrained'
<1> USE DEF StopDrained, AcquireHolds, Generating, CutOff, RequestOK, OpOK, Op, At, Free, NoAsk, By, cardVars, comfyVars, history, Begin
<1>1. CASE Commands
  <2>1. ASSUME NEW a \in Asks, AcquireAnew(a) PROVE StopDrained'
    BY <2>1 DEF AcquireAnew
  <2>2. ASSUME NEW a \in Asks, AcquireRenew(a) PROVE StopDrained'
    BY <2>2 DEF AcquireRenew
  <2>3. ASSUME NEW a \in Asks, AcquireConvert(a) PROVE StopDrained'
    BY <2>3 DEF AcquireConvert
  <2>4. ASSUME NEW extend \in BOOLEAN, Touch(extend) PROVE StopDrained'
    BY <2>4 DEF Touch
  <2>5. ASSUME NEW h \in Holders \cup {NoHolder}, NEW skip \in BOOLEAN, Release(h, skip)
        PROVE StopDrained'
    BY <2>5 DEF Release
  <2> QED BY <1>1, <2>1, <2>2, <2>3, <2>4, <2>5 DEF Commands
<1>2. CASE AcquireStep
  BY <1>2 DEF AcquireStep, AcquireQueueEmpty, AcquireQueueTimeout, AcquireDrained,
     AcquireDrainTimeout, AcquireStop, AcquireMove, AcquireArm, AcquireGrant, MoveComfy, BackOut
<1>3. CASE Rearm
  BY <1>3 DEF Rearm, Reused
<1>4. CASE ReleaseStep
  BY <1>4, ReleaseStepNames DEF ReleaseSteps
<1>5. CASE Watch
  BY <1>5 DEF Watch, WatchGone, WatchRound, WatchRestart
<1>6. CASE Environment
  BY <1>6 DEF Environment, RequestRoute, RequestArrive, RequestEnd, BackendLoads, BackendLatches,
     BackendDies, JobStart, JobEnd, ComfyChanges, IdleGrows, EndPasses, QuietFlips,
     PlaceGuest, RemoveGuest, Crash, Reboot
<1>7. CASE UNCHANGED vars
  BY <1>7 DEF vars
<1> QED BY <1>1, <1>2, <1>3, <1>4, <1>5, <1>6, <1>7 DEF Next

\* A watchdog ends itself only with the lease, a release only after it.
LEMMA WatchedStep == ASSUME OpOK, LeaseOK, AcquireHolds, GrantLasts, GrantArmed, GrantedIsWatched, [Next]_vars PROVE GrantedIsWatched'
<1> USE DEF GrantedIsWatched, GrantArmed, GrantLasts, AcquireHolds, OpOK, LeaseOK, Lease, NoLease, Held, Op, At, Free, NoAsk, By, cardVars, comfyVars, history, Begin
<1>1. CASE Commands
  <2>1. ASSUME NEW a \in Asks, AcquireAnew(a) PROVE GrantedIsWatched'
    BY <2>1 DEF AcquireAnew
  <2>2. ASSUME NEW a \in Asks, AcquireRenew(a) PROVE GrantedIsWatched'
    BY <2>2 DEF AcquireRenew
  <2>3. ASSUME NEW a \in Asks, AcquireConvert(a) PROVE GrantedIsWatched'
    BY <2>3 DEF AcquireConvert
  <2>4. ASSUME NEW extend \in BOOLEAN, Touch(extend) PROVE GrantedIsWatched'
    BY <2>4 DEF Touch
  <2>5. ASSUME NEW h \in Holders \cup {NoHolder}, NEW skip \in BOOLEAN, Release(h, skip)
        PROVE GrantedIsWatched'
    BY <2>5 DEF Release
  <2> QED BY <1>1, <2>1, <2>2, <2>3, <2>4, <2>5 DEF Commands
<1>2. CASE AcquireStep
  BY <1>2 DEF AcquireStep, AcquireQueueEmpty, AcquireQueueTimeout, AcquireDrained,
     AcquireDrainTimeout, AcquireStop, AcquireMove, AcquireArm, AcquireGrant, MoveComfy, BackOut
<1>3. CASE Rearm
  BY <1>3 DEF Rearm, Reused
<1>4. CASE ReleaseStep
  BY <1>4 DEF ReleaseStep, ReleaseCleanup, ReleaseQueue, ReleaseMove, ReleaseStart, ReleaseReady,
     ReleaseSettle, ReleaseClear, MoveComfy, AfterMove
<1>5. CASE Watch
  BY <1>5 DEF Watch, WatchGone, WatchRound, WatchRestart
<1>6. CASE Environment
  BY <1>6 DEF Environment, RequestRoute, RequestArrive, RequestEnd, BackendLoads, BackendLatches,
     BackendDies, JobStart, JobEnd, ComfyChanges, IdleGrows, EndPasses, QuietFlips,
     PlaceGuest, RemoveGuest, Crash, Reboot
<1>7. CASE UNCHANGED vars
  BY <1>7 DEF vars
<1> QED BY <1>1, <1>2, <1>3, <1>4, <1>5, <1>6, <1>7 DEF Next

-----------------------------------------------------------------------------
LEMMA InvInit == Init => IInv
<1> SUFFICES ASSUME Init PROVE IInv
  OBVIOUS
<1>1. TypeOK
  BY TypeInit
<1>2. AcquireHolds /\ AcquireStopped /\ GrantLasts /\ GrantArmed /\ GuestCovered
  BY DEF Init, Free, At, Held, AcquireHolds, AcquireStopped, GrantLasts, GrantArmed, GuestCovered
<1>3. NoLeaseBackendOn /\ EvictionHolds /\ GuestAlone /\ StopDrained /\ GrantedIsWatched
  BY DEF Init, Free, At, Held, NoLeaseBackendOn, EvictionHolds, GuestAlone, StopDrained,
     GrantedIsWatched
<1> QED BY <1>1, <1>2, <1>3 DEF IInv

LEMMA InvStep == IInv /\ [Next]_vars => IInv'
<1> SUFFICES ASSUME IInv, [Next]_vars PROVE IInv'
  OBVIOUS
<1>1. LeaseOK /\ OpOK /\ FlagsOK /\ RequestOK /\ RestOK
  BY TypeParts DEF IInv
<1>2. TypeOK'
  BY TypeStep DEF IInv
<1>3. AcquireHolds' /\ AcquireStopped' /\ GrantLasts' /\ GrantArmed' /\ GuestCovered'
  BY <1>1, AcquireHoldsStep, AcquireStoppedStep, GrantStep, GrantArmedStep, GuestCoveredStep
     DEF IInv
<1>4. NoLeaseBackendOn' /\ EvictionHolds' /\ GuestAlone' /\ StopDrained' /\ GrantedIsWatched'
  BY <1>1, BackendOnStep, EvictionStep, GuestAloneStep, DrainedStep, WatchedStep DEF IInv
<1> QED BY <1>2, <1>3, <1>4 DEF IInv

THEOREM Invariant == Spec => []IInv
BY InvInit, InvStep, PTL DEF Spec

\* With no lease file the backend's unit runs, whichever command failed or was
\* killed: the proxy never serves locally from a backend that was left stopped.
THEOREM BackendIsOn == Spec => []NoLeaseBackendOn
<1>1. IInv => NoLeaseBackendOn
  BY DEF IInv
<1> QED BY Invariant, <1>1, PTL

\* A caller that evicted the backend keeps the card until a release begins.
THEOREM EvictionIsKept == Spec => []EvictionHolds
<1>1. IInv => EvictionHolds
  BY DEF IInv
<1> QED BY Invariant, <1>1, PTL

\* No release, retry, conversion or crash starts the backend beside what a holder
\* put on an empty card.
THEOREM GuestIsAlone == Spec => []GuestAlone
<1>1. IInv => GuestAlone
  BY DEF IInv
<1> QED BY Invariant, <1>1, PTL

\* A stop after an answered drain finds no request that was running when the
\* lease was written.
THEOREM StopIsDrained == Spec => []StopDrained
<1>1. IInv => StopDrained
  BY DEF IInv
<1> QED BY Invariant, <1>1, PTL

\* Every lease that a caller was granted has a watchdog.
THEOREM GrantIsWatched == Spec => []GrantedIsWatched
<1>1. IInv => GrantedIsWatched
  BY DEF IInv
<1> QED BY Invariant, <1>1, PTL

-----------------------------------------------------------------------------
(***************************************************************************)
(* The commands implement the hand-over.                                   *)
(***************************************************************************)
LEMMA PromiseInit == Init => Promise!Init
BY DEF Init, Promise!Init, Held, Chat

LEMMA PromiseStep == ASSUME IInv, [Next]_vars
  PROVE [Promise!Next]_<<IF Held THEN "fallback" ELSE "local", Chat, left.reboots>>
<1>1. LeaseOK /\ OpOK /\ RestOK
  BY TypeParts DEF IInv
<1> USE <1>1 DEF LeaseOK, OpOK, RestOK, IInv, AcquireHolds, Op, Lease, NoLease, Held, Chat,
    cardVars, comfyVars, history, Begin, At, Free, NoAsk, Left, Promise!Next
<1>2. CASE Commands
  <2>1. ASSUME NEW a \in Asks, AcquireAnew(a) \/ AcquireRenew(a) \/ AcquireConvert(a)
        PROVE UNCHANGED <<Held, Chat, left.reboots>>
    BY <2>1 DEF AcquireAnew, AcquireRenew, AcquireConvert
  <2>2. ASSUME NEW extend \in BOOLEAN, Touch(extend) PROVE UNCHANGED <<Held, Chat, left.reboots>>
    BY <2>2 DEF Touch
  <2>3. ASSUME NEW h \in Holders \cup {NoHolder}, NEW skip \in BOOLEAN, Release(h, skip)
        PROVE UNCHANGED <<Held, Chat, left.reboots>>
    BY <2>3 DEF Release
  <2> QED BY <1>2, <2>1, <2>2, <2>3 DEF Commands
<1>3. CASE AcquireStep
  BY <1>3 DEF AcquireStep, AcquireQueueEmpty, AcquireQueueTimeout, AcquireDrained,
     AcquireDrainTimeout, AcquireStop, AcquireMove, AcquireArm, AcquireGrant, MoveComfy,
     BackOut, LeaseOf, Promise!Divert, Promise!Stop
<1>4. CASE Rearm
  BY <1>4 DEF Rearm
<1>5. CASE ReleaseStep
  BY <1>5 DEF ReleaseStep, ReleaseCleanup, ReleaseQueue, ReleaseMove, ReleaseStart,
     ReleaseReady, ReleaseSettle, ReleaseClear, MoveComfy, Promise!Start, Promise!Return
<1>6. CASE Watch
  BY <1>6 DEF Watch, WatchGone, WatchRound, WatchRestart
<1>7. CASE Environment
  BY <1>7 DEF Environment, RequestRoute, RequestArrive, RequestEnd, BackendLoads, BackendLatches,
     BackendDies, JobStart, JobEnd, ComfyChanges, IdleGrows, EndPasses, QuietFlips,
     PlaceGuest, RemoveGuest, Crash, Reboot, Promise!Wavers, Promise!Reboot
<1>8. CASE UNCHANGED vars
  BY <1>8 DEF vars
<1> QED BY <1>2, <1>3, <1>4, <1>5, <1>6, <1>7, <1>8 DEF Next

\* Whatever fails or is killed, the commands divert requests before the backend
\* stops and route them back only to a backend that serves.
THEOREM ImplementsHandover == Spec => HandoverSpec
BY Invariant, PromiseInit, PromiseStep, PTL DEF Spec, HandoverSpec, Promise!Spec
=============================================================================
