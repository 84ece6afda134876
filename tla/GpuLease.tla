------------------------------ MODULE GpuLease ------------------------------
(***************************************************************************)
(* scripts/gpu-lease.py: GPU 1 is lent from the chat backend (the 27B,     *)
(* llm-a) to ComfyUI for one job or one session and then handed back.      *)
(*                                                                         *)
(* Every command but `status` runs under one non-blocking flock, so at     *)
(* most one is between its first and its last step: `op` is that command.  *)
(* Its waits (ComfyUI's queue, the drain, /health) are separate steps, and *)
(* the backend, ComfyUI, the clock and the watchdog unit move between      *)
(* them.  A command that finds the lock taken gives up without a change,   *)
(* so it needs no action.                                                  *)
(*                                                                         *)
(* The clock is abstracted to what due() compares: whether the lease's end *)
(* has passed, and how long ComfyUI has been idle against the two limits.  *)
(***************************************************************************)
EXTENDS Naturals

CONSTANTS
  Holders,      \* names given to --holder
  NoHolder,     \* release without --holder
  Requests,     \* generation requests that may be on their way or at the backend
  Asks,         \* the acquire commands callers may issue, a set of Ask records
  MaxCommands,  \* bound: acquire, touch and release commands by callers
  MaxCrashes,   \* bound: commands killed (or dying of an uncaught exception)
  MaxFailures,  \* bound: backend processes that exit (systemd restarts them) or latch
  MaxReboots    \* bound: reboots of the machine

Kinds == {"fixed", "idle", "sticky"}
Ask == [holder: Holders, kind: Kinds, forced: BOOLEAN, onRelease: BOOLEAN]

ASSUME ConstantsAssumption ==
  /\ NoHolder \notin Holders
  /\ Asks \subseteq Ask
  /\ MaxCommands \in Nat /\ MaxCrashes \in Nat /\ MaxFailures \in Nat /\ MaxReboots \in Nat

VARIABLES
  lease,     \* the lease file: NoLease or a Lease record
  op,        \* the command that holds the lock and where it is, or Free
  backend,   \* llm-a: "off", "loading", "up", "latched" (active, /health fails for good)
  request,   \* per generation request: "none"; "routed" to the backend by the proxy, not
             \* there yet; "running" there; "late": reached it under a lease
  comfy,     \* ComfyUI: "home" (on the lent GPU), "away", "down"
  job,       \* ComfyUI's queue is not empty
  idle,      \* time since the last activity: 0, 1 past the quiet-window limit, 2 past the lease's
  quiet,     \* inside the quiet window
  watchdog,  \* the watchdog unit: "off", "active", "restarting"
  granted,   \* what the last ok answer to an acquire rested on (history)
  guest,     \* what the holder put on the card itself (history): "none", "alone", "beside" the backend
  left       \* what is left of the bounds

vars == <<lease, op, backend, request, comfy, job, idle, quiet, watchdog, granted, guest, left>>
cardVars == <<backend, request>>
comfyVars == <<comfy, job>>
history == <<granted, guest>>

NoLease == [kind |-> "none"]
Lease == [holder: Holders, kind: Kinds, forced: BOOLEAN, onRelease: BOOLEAN, ended: BOOLEAN]

AcquireSteps == {"queue", "drain", "stop", "blind", "move", "arm", "grant"}
ReleaseSteps == {"cleanup", "empty", "home", "start", "ready", "settle", "clear"}
Steps == {"free", "rearm"} \cup AcquireSteps \cup ReleaseSteps
By == {"caller", "acquire", "watchdog"}
NoAsk == [kind |-> "none"]

\* ask: what an acquire will write; by, skip: who releases and --skip-on-release;
\* cleanup: the outcome of the on-release command; errors: the release has some.
Op == [step: Steps, ask: Ask \cup {NoAsk}, by: By, skip: BOOLEAN,
       cleanup: {"none", "ok", "failed"}, errors: BOOLEAN]
At(step) == [step |-> step, ask |-> NoAsk, by |-> "caller", skip |-> FALSE,
             cleanup |-> "none", errors |-> FALSE]
Free == At("free")
Left == [commands: Nat, crashes: Nat, failures: Nat, reboots: Nat]

Held == lease # NoLease

\* backend_busy(): a request is being generated; and what a stop leaves of them.
Generating == \E r \in Requests : request[r] \in {"running", "late"}
CutOff == [r \in Requests |-> IF request[r] = "routed" THEN "routed" ELSE "none"]

\* Mutant: the holder's cleanup is not kept in the lease.
LeaseWithoutCleanup(a) == [holder |-> a.holder, kind |-> a.kind, forced |-> a.forced,
                           ended |-> FALSE]

LeaseOf(a) == [holder |-> a.holder, kind |-> a.kind, forced |-> a.forced,
               onRelease |-> a.onRelease, ended |-> FALSE]

Init ==
  /\ lease = NoLease /\ op = Free
  /\ backend = "up" /\ request = [r \in Requests |-> "none"]
  /\ comfy = "home" /\ job = FALSE /\ idle = 0
  /\ quiet = FALSE
  /\ watchdog = "off"
  /\ granted = "no" /\ guest = "none"
  /\ left = [commands |-> MaxCommands, crashes |-> MaxCrashes,
             failures |-> MaxFailures, reboots |-> MaxReboots]

-----------------------------------------------------------------------------
\* A caller's command takes the lock.
Begin ==
  /\ op.step = "free"
  /\ left.commands > 0
  /\ left' = [left EXCEPT !.commands = @ - 1]

\* The release that runs inside an acquire whose eviction failed.
BackOut ==
  /\ op' = [At("cleanup") EXCEPT !.by = "acquire"]
  /\ UNCHANGED lease

\* ------------------------------------------------------------- acquire
\* Mutant: a lease that is held is not looked at.
AcquireOverHeld(a) ==
  /\ Begin
  /\ ~quiet \/ a.forced
  /\ comfy # "down"
  /\ op' = [At("queue") EXCEPT !.ask = a]
  /\ UNCHANGED <<lease, cardVars, comfyVars, idle, quiet, watchdog, history>>

\* No lease: outside the quiet window (or forced), with ComfyUI answering.
AcquireAnew(a) ==
  /\ Begin
  /\ ~Held
  /\ ~quiet \/ a.forced
  /\ comfy # "down"
  /\ op' = [At("queue") EXCEPT !.ask = a]
  /\ UNCHANGED <<lease, cardVars, comfyVars, idle, quiet, watchdog, history>>

\* The same holder takes its idle lease again; no quiet window is asked.
AcquireRenew(a) ==
  /\ Begin
  /\ Held /\ a.kind = "idle" /\ lease.kind = "idle" /\ lease.holder = a.holder
  /\ lease' = [lease EXCEPT !.forced = @ \/ a.forced,
                            !.onRelease = @ \/ a.onRelease,
                            !.ended = FALSE]
  /\ idle' = 0
  /\ op' = [At("rearm") EXCEPT !.ask = a]
  /\ UNCHANGED <<cardVars, comfyVars, quiet, watchdog, history>>

\* ComfyUI mode turns the lease that is held sticky, in place.
AcquireConvert(a) ==
  /\ Begin
  /\ Held /\ a.kind = "sticky" /\ lease.kind # "sticky"
  /\ ~quiet \/ a.forced
  /\ lease' = [lease EXCEPT !.kind = "sticky", !.holder = a.holder,
                            !.forced = @ \/ a.forced, !.ended = FALSE]
  /\ op' = [At("rearm") EXCEPT !.ask = a]
  /\ UNCHANGED <<cardVars, comfyVars, idle, quiet, watchdog, history>>

\* Someone else's job is over: the lease file is written, requests divert.
AcquireQueueEmpty ==
  /\ op.step = "queue" /\ comfy # "down" /\ ~job
  /\ lease' = LeaseOf(op.ask)
  /\ idle' = 0
  /\ op' = At("drain")
  /\ UNCHANGED <<cardVars, comfyVars, quiet, watchdog, history, left>>

AcquireQueueTimeout ==
  /\ op.step = "queue" /\ (comfy = "down" \/ job)
  /\ op' = Free
  /\ UNCHANGED <<lease, cardVars, comfyVars, idle, quiet, watchdog, history, left>>

\* Mutant: the drain is skipped.
DrainSkipped(answers) ==
  /\ op.step = "drain"
  /\ op' = At(IF answers THEN "stop" ELSE "blind")
  /\ UNCHANGED <<lease, cardVars, comfyVars, idle, quiet, watchdog, history, left>>

\* backend_busy() is not True: /slots shows no request, or nothing answers.
AcquireDrained(answers) ==
  /\ op.step = "drain"
  /\ answers => ~Generating
  /\ op' = At(IF answers THEN "stop" ELSE "blind")
  /\ UNCHANGED <<lease, cardVars, comfyVars, idle, quiet, watchdog, history, left>>

AcquireDrainTimeout ==
  /\ op.step = "drain" /\ Generating
  /\ BackOut
  /\ UNCHANGED <<cardVars, comfyVars, idle, quiet, watchdog, history, left>>

AcquireStop ==
  /\ op.step \in {"stop", "blind"}
  /\ \/ backend' = "off" /\ request' = CutOff /\ op' = At("move") /\ UNCHANGED lease
     \/ BackOut /\ UNCHANGED cardVars
  /\ UNCHANGED <<comfyVars, idle, quiet, watchdog, history, left>>

\* move_comfy: a restart, and the loss of a running job, only when ComfyUI is
\* not on the lent GPU.
MoveComfy(done, failed) ==
  \/ comfy = "home" /\ done /\ UNCHANGED comfyVars
  \/ comfy # "home" /\ comfy' = "home" /\ job' = FALSE /\ done
  \/ comfy # "home" /\ comfy' = "down" /\ job' = FALSE /\ failed

AcquireMove ==
  /\ op.step = "move"
  /\ MoveComfy(op' = At("arm") /\ UNCHANGED lease, BackOut)
  /\ UNCHANGED <<cardVars, idle, quiet, watchdog, history, left>>

\* clear_watchdog, then systemd-run; the clear has happened when the run fails.
AcquireArm ==
  /\ op.step = "arm"
  /\ \/ watchdog' = "active" /\ op' = At("grant") /\ UNCHANGED lease
     \/ watchdog' = "off" /\ BackOut
  /\ UNCHANGED <<cardVars, comfyVars, idle, quiet, history, left>>

AcquireGrant ==
  /\ op.step = "grant"
  /\ granted' = "evicted"
  /\ op' = Free
  /\ UNCHANGED <<lease, cardVars, comfyVars, idle, quiet, watchdog, guest, left>>

\* ------------------------------------------------------------- touch
Touch(extend) ==
  /\ Begin
  /\ Held
  /\ lease' = IF extend THEN [lease EXCEPT !.ended = FALSE] ELSE lease
  /\ idle' = 0
  /\ op' = At("rearm")
  /\ UNCHANGED <<cardVars, comfyVars, quiet, watchdog, history>>

\* What the answer "ok" to a reused lease rests on: nothing is evicted again.
Reused == IF granted = "evicted" THEN "evicted" ELSE "reused"

\* Mutant: the watchdog is taken to run.
RearmNothing ==
  /\ op.step = "rearm"
  /\ granted' = IF op.ask = NoAsk THEN granted ELSE Reused
  /\ op' = Free
  /\ UNCHANGED <<lease, cardVars, comfyVars, idle, quiet, watchdog, guest, left>>

\* The end of a touch, a renewal and a conversion: a watchdog that is not
\* running is armed, and the caller is answered (an error when arming fails).
Rearm ==
  /\ op.step = "rearm"
  /\ \/ /\ watchdog' = IF watchdog = "off" THEN "active" ELSE watchdog
        /\ granted' = IF op.ask = NoAsk THEN granted ELSE Reused
     \/ /\ watchdog = "off"
        /\ UNCHANGED <<watchdog, granted>>
  /\ op' = Free
  /\ UNCHANGED <<lease, cardVars, comfyVars, idle, quiet, guest, left>>

\* ------------------------------------------------------------- release
\* A job's release leaves the sticky lease of another holder alone.
Kept(h) == Held /\ lease.kind = "sticky" /\ h # NoHolder /\ lease.holder # h

\* --skip-on-release is for a card the operator has cleaned by hand.
Release(h, skip) ==
  /\ Begin
  /\ ~Kept(h)
  /\ skip => guest = "none"
  /\ op' = [At("cleanup") EXCEPT !.skip = skip]
  /\ granted' = "no"
  /\ UNCHANGED <<lease, cardVars, comfyVars, idle, quiet, watchdog, guest>>

\* run_on_release: the holder's cleanup command, whoever releases.
ReleaseCleanup ==
  /\ op.step = "cleanup"
  /\ IF Held /\ lease.onRelease /\ ~op.skip
       THEN \/ /\ guest' = "none"
               /\ op' = [op EXCEPT !.step = "empty", !.cleanup = "ok"]
            \/ /\ op' = [op EXCEPT !.step = "empty", !.cleanup = "failed", !.errors = TRUE]
               /\ UNCHANGED guest
       ELSE /\ op' = [op EXCEPT !.step = "empty"]
            /\ UNCHANGED guest
  /\ UNCHANGED <<lease, cardVars, comfyVars, idle, quiet, watchdog, granted, left>>

\* ComfyUI's queue empties (a ComfyUI that does not answer counts as empty),
\* or is cleared and its job interrupted; then its models are unloaded.
ReleaseQueue ==
  /\ op.step = "empty"
  /\ \/ /\ ~job \/ comfy = "down"
        /\ op' = [op EXCEPT !.step = "home"]
        /\ UNCHANGED job
     \/ /\ job /\ comfy # "down"
        /\ job' = FALSE
        /\ op' = [op EXCEPT !.step = "home", !.errors = TRUE]
  /\ UNCHANGED <<lease, cardVars, comfy, idle, quiet, watchdog, history, left>>

\* Mutant: the backend is started whatever the cleanup said.
AfterMoveStart == "start"

\* The backend is not started while the card may still be in use.
AfterMove == IF op.cleanup = "failed" THEN "settle" ELSE "start"

ReleaseMove ==
  /\ op.step = "home"
  /\ MoveComfy(op' = [op EXCEPT !.step = AfterMove],
               op' = [op EXCEPT !.step = AfterMove, !.errors = TRUE])
  /\ UNCHANGED <<lease, cardVars, idle, quiet, watchdog, history, left>>

\* systemctl start does nothing to a unit that is already active.
ReleaseStart ==
  /\ op.step = "start"
  /\ \/ /\ backend' = IF backend = "off" THEN "loading" ELSE backend
        /\ op' = [op EXCEPT !.step = "ready"]
     \/ /\ op' = [op EXCEPT !.step = "settle", !.errors = TRUE]
        /\ UNCHANGED backend
  /\ UNCHANGED <<lease, request, comfyVars, idle, quiet, watchdog, history, left>>

ReleaseReady ==
  /\ op.step = "ready"
  /\ op' = [op EXCEPT !.step = "settle", !.errors = @ \/ backend # "up"]
  /\ UNCHANGED <<lease, cardVars, comfyVars, idle, quiet, watchdog, history, left>>

\* Mutants: the lease file goes at the end of every release; or once the unit is active.
SettleAlways ==
  /\ op.step = "settle"
  /\ lease' = NoLease
  /\ op' = [op EXCEPT !.step = "clear"]
  /\ UNCHANGED <<cardVars, comfyVars, idle, quiet, watchdog, history, left>>

SettleActive ==
  /\ op.step = "settle"
  /\ lease' = IF backend # "off" THEN NoLease ELSE lease
  /\ op' = [op EXCEPT !.step = "clear"]
  /\ UNCHANGED <<cardVars, comfyVars, idle, quiet, watchdog, history, left>>

\* The lease file goes only once the backend answers.
ReleaseSettle ==
  /\ op.step = "settle"
  /\ lease' = IF backend = "up" THEN NoLease ELSE lease
  /\ op' = [op EXCEPT !.step = "clear"]
  /\ UNCHANGED <<cardVars, comfyVars, idle, quiet, watchdog, history, left>>

\* Mutant: the watchdog's unit is not restarted after a failed release.
ClearForGood ==
  /\ op.step = "clear"
  /\ watchdog' = IF op.by # "watchdog" /\ Held THEN watchdog ELSE "off"
  /\ op' = Free
  /\ UNCHANGED <<lease, cardVars, comfyVars, idle, quiet, history, left>>

\* A caller's release stops the watchdog when the lease is gone; the
\* watchdog's own ends its process, which systemd restarts after a failure.
ReleaseClear ==
  /\ op.step = "clear"
  /\ watchdog' = IF op.by = "watchdog" THEN (IF op.errors THEN "restarting" ELSE "off")
                 ELSE IF Held THEN watchdog ELSE "off"
  /\ op' = Free
  /\ UNCHANGED <<lease, cardVars, comfyVars, idle, quiet, history, left>>

\* ------------------------------------------------------------- the watchdog
Busy == job /\ comfy # "down"

\* The idle limit: shorter overnight for a lease that was not forced.
IdleLimit == IF quiet /\ ~lease.forced THEN 1 ELSE 2

Due ==
  \/ lease.kind = "fixed" /\ lease.ended
  \/ lease.kind = "idle" /\ (lease.ended \/ (~Busy /\ idle >= IdleLimit))

WatchGone ==
  /\ watchdog = "active" /\ ~Held
  /\ watchdog' = "off"
  /\ UNCHANGED <<lease, op, cardVars, comfyVars, idle, quiet, history, left>>

\* One round under the lock: note the newest activity, release when due.
WatchRound ==
  /\ op.step = "free" /\ watchdog = "active" /\ Held
  /\ idle' = IF Busy THEN 0 ELSE idle
  /\ IF Due THEN /\ op' = [At("cleanup") EXCEPT !.by = "watchdog"]
                 /\ granted' = "no"
            ELSE UNCHANGED <<op, granted>>
  /\ UNCHANGED <<lease, cardVars, comfyVars, quiet, watchdog, guest, left>>

WatchRestart ==
  /\ watchdog = "restarting"
  /\ watchdog' = "active"
  /\ UNCHANGED <<lease, op, cardVars, comfyVars, idle, quiet, history, left>>

-----------------------------------------------------------------------------
\* The proxy decides for the backend while there is no lease file; it connects
\* later (memory lookups come between), and then looks at the lease no more.  A
\* backend that is not up refuses the request, which is served elsewhere.
RequestRoute(r) ==
  /\ ~Held /\ request[r] = "none"
  /\ request' = [request EXCEPT ![r] = "routed"]
  /\ UNCHANGED <<lease, op, backend, comfyVars, idle, quiet, watchdog, history, left>>

RequestArrive(r) ==
  /\ request[r] = "routed"
  /\ request' = [request EXCEPT ![r] = IF backend # "up" THEN "none"
                                        ELSE IF Held THEN "late" ELSE "running"]
  /\ UNCHANGED <<lease, op, backend, comfyVars, idle, quiet, watchdog, history, left>>

RequestEnd(r) ==
  /\ request[r] \in {"running", "late"}
  /\ request' = [request EXCEPT ![r] = "none"]
  /\ UNCHANGED <<lease, op, backend, comfyVars, idle, quiet, watchdog, history, left>>

\* The model loads, unless the holder's own things fill the card.
BackendLoads ==
  /\ backend = "loading" /\ guest = "none"
  /\ backend' = "up"
  /\ UNCHANGED <<lease, op, request, comfyVars, idle, quiet, watchdog, history, left>>

\* A request's worker failure latches the engine unavailable, process alive.
BackendLatches ==
  /\ left.failures > 0 /\ backend = "up" /\ Generating
  /\ backend' = "latched" /\ request' = CutOff
  /\ left' = [left EXCEPT !.failures = @ - 1]
  /\ UNCHANGED <<lease, op, comfyVars, idle, quiet, watchdog, history>>

\* The process exits; systemd's Restart= brings it back.
BackendDies ==
  /\ left.failures > 0 /\ backend # "off"
  /\ backend' = "loading" /\ request' = CutOff
  /\ left' = [left EXCEPT !.failures = @ - 1]
  /\ UNCHANGED <<lease, op, comfyVars, idle, quiet, watchdog, history>>

\* ComfyUI's jobs come from any client, lease or not.
JobStart ==
  /\ comfy # "down" /\ ~job
  /\ job' = TRUE
  /\ UNCHANGED <<lease, op, cardVars, comfy, idle, quiet, watchdog, history, left>>

JobEnd ==
  /\ job
  /\ job' = FALSE /\ idle' = 0
  /\ UNCHANGED <<lease, op, cardVars, comfy, quiet, watchdog, history, left>>

\* ComfyUI fails, comes back on its unit's default GPU, or is moved for once.
ComfyChanges ==
  /\ \/ comfy # "down" /\ comfy' = "down"
     \/ comfy = "down" /\ comfy' = "home"
     \/ comfy = "home" /\ comfy' = "away"
  /\ job' = FALSE
  /\ UNCHANGED <<lease, op, cardVars, idle, quiet, watchdog, history, left>>

IdleGrows ==
  /\ idle < 2
  /\ idle' = idle + 1
  /\ UNCHANGED <<lease, op, cardVars, comfyVars, quiet, watchdog, history, left>>

\* A fixed lease's end and grace, an idle lease's ceiling; a sticky one has none.
EndPasses ==
  /\ Held /\ lease.kind # "sticky" /\ ~lease.ended
  /\ lease' = [lease EXCEPT !.ended = TRUE]
  /\ UNCHANGED <<op, cardVars, comfyVars, idle, quiet, watchdog, history, left>>

QuietFlips ==
  /\ quiet' = ~quiet
  /\ UNCHANGED <<lease, op, cardVars, comfyVars, idle, watchdog, history, left>>

\* A holder that was told ok puts something of its own on the card, covered by
\* its --on-release command, and may take it off again.
PlaceGuest ==
  /\ op.step = "free" /\ Held /\ granted # "no" /\ lease.onRelease /\ ~lease.ended
  /\ guest = "none"
  /\ guest' = IF backend = "off" THEN "alone" ELSE "beside"
  /\ UNCHANGED <<lease, op, cardVars, comfyVars, idle, quiet, watchdog, granted, left>>

RemoveGuest ==
  /\ guest # "none"
  /\ guest' = "none"
  /\ UNCHANGED <<lease, op, cardVars, comfyVars, idle, quiet, watchdog, granted, left>>

\* A command is killed: the lock is free again, what it wrote stays.
Crash ==
  /\ left.crashes > 0 /\ op.step # "free"
  /\ left' = [left EXCEPT !.crashes = @ - 1]
  /\ op' = Free
  /\ watchdog' = IF op.by = "watchdog" THEN "restarting" ELSE watchdog
  /\ UNCHANGED <<lease, cardVars, comfyVars, idle, quiet, history>>

\* The runtime directory is a tmpfs; llm-stack-restore starts the backend.
Reboot ==
  /\ left.reboots > 0
  /\ left' = [left EXCEPT !.reboots = @ - 1]
  /\ lease' = NoLease /\ op' = Free /\ watchdog' = "off"
  /\ backend' = "loading" /\ request' = [r \in Requests |-> "none"]
  /\ comfy' = "home" /\ job' = FALSE
  /\ granted' = "no" /\ guest' = "none"
  /\ UNCHANGED <<idle, quiet>>

-----------------------------------------------------------------------------
Commands ==
  \/ \E a \in Asks : AcquireAnew(a) \/ AcquireRenew(a) \/ AcquireConvert(a)
  \/ \E extend \in BOOLEAN : Touch(extend)
  \/ \E h \in Holders \cup {NoHolder}, skip \in BOOLEAN : Release(h, skip)

AcquireStep ==
  \/ AcquireQueueEmpty \/ AcquireQueueTimeout
  \/ \E answers \in BOOLEAN : AcquireDrained(answers)
  \/ AcquireDrainTimeout
  \/ AcquireStop \/ AcquireMove \/ AcquireArm \/ AcquireGrant

ReleaseStep ==
  \/ ReleaseCleanup \/ ReleaseQueue \/ ReleaseMove \/ ReleaseStart
  \/ ReleaseReady \/ ReleaseSettle \/ ReleaseClear

Watch == WatchGone \/ WatchRound \/ WatchRestart

Environment ==
  \/ \E r \in Requests : RequestRoute(r) \/ RequestArrive(r) \/ RequestEnd(r)
  \/ BackendLoads \/ BackendLatches \/ BackendDies
  \/ JobStart \/ JobEnd \/ ComfyChanges
  \/ IdleGrows \/ EndPasses \/ QuietFlips
  \/ PlaceGuest \/ RemoveGuest
  \/ Crash \/ Reboot

Next == Commands \/ AcquireStep \/ Rearm \/ ReleaseStep \/ Watch \/ Environment

Spec == Init /\ [][Next]_vars

TypeOK ==
  /\ lease \in Lease \cup {NoLease}
  /\ op \in Op /\ (op.step = "queue" => op.ask \in Ask)
  /\ backend \in {"off", "loading", "up", "latched"}
  /\ request \in [Requests -> {"none", "routed", "running", "late"}]
  /\ comfy \in {"home", "away", "down"} /\ job \in BOOLEAN
  /\ idle \in 0..2 /\ quiet \in BOOLEAN
  /\ watchdog \in {"off", "active", "restarting"}
  /\ granted \in {"no", "evicted", "reused"}
  /\ guest \in {"none", "alone", "beside"}
  /\ left \in Left

-----------------------------------------------------------------------------
(***************************************************************************)
(* Safety.                                                                 *)
(***************************************************************************)
\* With no lease file the proxy serves locally, so the backend's unit is
\* running then, whatever command failed or was killed on the way: acquire
\* writes the file before it stops the backend, and release removes it only
\* once the backend answers.
NoLeaseBackendOn == ~Held => backend # "off"

\* A caller whose acquire evicted the backend has the card to itself until a
\* release begins: the lease is there and the backend stays off.
EvictionHolds == granted = "evicted" => Held /\ backend = "off"

\* What a holder put on an empty card is never joined there by the backend:
\* every release runs the holder's cleanup first and does not start the backend
\* while it fails, across retries, crashes and conversions of the lease.
GuestAlone == guest = "alone" => backend = "off"

\* The drain is for the requests that were running when the lease was written:
\* when the backend answered it, none of them is left at the stop.
StopDrained == op.step = "stop" => \A r \in Requests : request[r] # "running"

\* A lease someone was granted always has a watchdog to give it back.
GrantedIsWatched == granted # "no" => watchdog # "off"

(***************************************************************************)
(* The hand-over that the commands implement.                              *)
(***************************************************************************)
Chat == CASE backend = "off" -> "off"
          [] backend = "up" -> "serving"
          [] OTHER -> "coming"

Promise == INSTANCE Handover WITH
             route <- IF Held THEN "fallback" ELSE "local", chat <- Chat,
             boot <- left.reboots

\* Each command, failed or killed, is a sequence of the steps Handover allows:
\* divert, stop, start, and return only to a backend that serves.
HandoverSpec == Promise!Spec

(***************************************************************************)
(* Liveness: the steps of a command that runs are taken, systemd restarts  *)
(* the watchdog, time passes, and what a release retries works in the end. *)
(***************************************************************************)
CleanupWorks == ReleaseCleanup /\ op'.cleanup # "failed"
StartWorks == ReleaseStart /\ op'.step = "ready"
ReadyInTime == ReleaseReady /\ backend = "up"

Fairness ==
  /\ WF_vars(AcquireStep) /\ WF_vars(Rearm) /\ WF_vars(ReleaseStep)
  /\ WF_vars(WatchGone) /\ SF_vars(WatchRound) /\ WF_vars(WatchRestart)
  /\ WF_vars(EndPasses) /\ WF_vars(BackendLoads)
  /\ SF_vars(CleanupWorks) /\ SF_vars(StartWorks) /\ SF_vars(ReadyInTime)

FairSpec == Spec /\ Fairness

\* A fixed or idle lease that evicted the backend is given back, even when its
\* holder died or a release failed or was killed: the watchdog sees to it.
Returned == (granted = "evicted" /\ lease.kind # "sticky")
              ~> (~Held \/ lease.kind = "sticky")

(***************************************************************************)
(* What the source or its documentation says and the code does not keep.   *)
(***************************************************************************)
\* "The 27B is already off: turn the lease that's held into ComfyUI mode": the
\* answer ok to a lease that is reused means that the backend is off.
ReusedMeansOff == granted = "reused" => backend = "off"

\* "While it fails or times out the backend is not started and the lease
\* stays": after a failed cleanup the lease file is still there.
FailedCleanupKeepsLease == op.step = "clear" /\ op.cleanup = "failed" => Held

\* "A release that left the lease keeps the watchdog, which tries again when
\* the lease is due": a lease left behind by the commands has a watchdog.
LeftLeaseIsWatched == Held /\ op.step = "free" => watchdog # "off"

\* "a release that left something wrong (exit 1) is retried five minutes later":
\* a release of the watchdog that left the lease exits 1.
LeftIsAnError == op.step = "clear" /\ op.by = "watchdog" /\ Held => op.errors

\* "The lease stays, for the watchdog to try again": a release whose cleanup
\* failed is followed by one of the watchdog, unless the lease goes earlier.
FailedCleanupRetried ==
  (op.step = "clear" /\ op.cleanup = "failed" /\ op.by = "caller" /\ Held)
    ~> (~Held \/ op.by = "watchdog")

\* "waits for the backend's in-flight request to finish (/slots)": when the
\* backend answers the drain, the stop cuts no request.
StopCutsNothing == op.step = "stop" => ~Generating

\* "Someone else's job finishes first: a ComfyUI restart would drop it": the
\* acquire restarts ComfyUI under no running job.
MoveDropsNoJob == [][op.step = "move" /\ comfy # "home" /\ comfy' = "home" => ~job]_vars
=============================================================================
