------------------------------- MODULE Setup --------------------------------
(***************************************************************************)
(* The setup engine: one state file, the threads that install (one per     *)
(* job, of the manager or of the recovery command line), and the routes    *)
(* that load and save the same file without the runner's lock.  What the   *)
(* runner does under its lock is one step; a route is two, because it      *)
(* works, for minutes when it uninstalls, between its load and its save.   *)
(***************************************************************************)
EXTENDS Naturals, FiniteSets

CONSTANTS
  SetupJobs,      \* the ids of the jobs that may be created
  Selections,     \* the component lists a client may choose
  MaxBoots,       \* bound: restarts of the manager
  MaxRoutes,      \* bound: calls of the unlocked routes
  Nobody          \* no loaded state, no request

VARIABLES
  file,           \* install-state.json
  env,            \* LLM_STACK_SELECTED_COMPONENTS in llm-stack.env
  up,             \* the components whose units are installed and active
  at,             \* where each job's thread is
  owner,          \* the process each job's thread belongs to
  took,           \* the selection each job works from
  route,          \* the unlocked request under way
  boots, calls,   \* bounds
  crossed         \* history: which overlaps have happened

setupVars == <<file, env, up, at, owner, took, route, boots, calls, crossed>>

ASSUME SetupAssumption == MaxBoots \in Nat /\ MaxRoutes \in Nat /\ Nobody \notin SetupJobs

Components == {"ocr", "glmocr-sdk", "searxng", "reranker"}
CoreDefaults == Components \ {"reranker"}
Needs(c) == IF c = "glmocr-sdk" THEN {"ocr"} ELSE {}
\* Closing under Needs once is enough: no dependency has one of its own.
ResolveComponents(s) == LET known == s \cap Components
                        IN  known \cup UNION {Needs(c) : c \in known}

Open == {"queued", "running"}
Retriable == {"failed", "needs_attention", "interrupted"}
Ended == {"idle", "done", "dead"}
Live(j) == at[j] \notin Ended
\* Mutant: only the running jobs.
InterruptRunning(f) == [f EXCEPT !.jobs = [j \in SetupJobs |->
                          IF f.jobs[j] = "running" THEN "interrupted" ELSE f.jobs[j]]]
\* SetupRunner.__init__: what it finds active is not.
Interrupt(f) == [f EXCEPT !.jobs = [j \in SetupJobs |->
                   IF f.jobs[j] \in Open THEN "interrupted" ELSE f.jobs[j]]]

SetupInit ==
  /\ file = [status |-> "new", sel |-> CoreDefaults, stages |-> {},
             jobs |-> [j \in SetupJobs |-> "none"]]
  /\ env = CoreDefaults /\ up = {}
  /\ at = [j \in SetupJobs |-> "idle"]
  /\ owner = [j \in SetupJobs |-> "manager"]
  /\ took = [j \in SetupJobs |-> {}]
  /\ route = Nobody
  /\ boots = 0 /\ calls = 0 /\ crossed = {}
-----------------------------------------------------------------------------
(* _mutate: load, change, save, under the runner's lock.                   *)

SaveState(j, new, next) ==
  /\ file' = new
  /\ at' = [at EXCEPT ![j] = next]
  /\ UNCHANGED <<env, up, owner, took, route, boots, calls, crossed>>

\* _update_job on a record that is gone raises; the handler's own _log raises
\* again and ends the thread.
SaveRecord(j, status, next) ==
  \/ /\ file.jobs[j] # "none"
     /\ SaveState(j, [file EXCEPT !.jobs[j] = status], next)
  \/ /\ file.jobs[j] = "none"
     /\ SaveState(j, file, IF at[j] = "fail" THEN "dead" ELSE "fail")
-----------------------------------------------------------------------------
(* The job. *)

Another(j) == \E k \in SetupJobs \ {j} : Live(k)

\* POST /api/setup/run, or /retry of a record that has ended.
JobAsked(j, prior) ==
  /\ at[j] = "idle"
  /\ prior # Nobody => file.jobs[prior] \in Retriable
  /\ at' = [at EXCEPT ![j] = "create"]
  /\ owner' = [owner EXCEPT ![j] = "manager"]
  /\ crossed' = crossed \cup (IF Another(j) THEN {"two jobs"} ELSE {})
  /\ UNCHANGED <<file, env, up, took, route, boots, calls>>

\* setup_engine.py run: a SetupRunner of its own, which interrupts every
\* active record, also those of threads that are alive in the manager.
CliRuns(j) ==
  /\ at[j] = "idle"
  /\ \A k \in SetupJobs : owner[k] = "cli" => ~Live(k)
  /\ file' = Interrupt(file)
  /\ at' = [at EXCEPT ![j] = "create"]
  /\ owner' = [owner EXCEPT ![j] = "cli"]
  /\ crossed' = crossed \cup (IF Another(j) THEN {"two jobs"} ELSE {})
  /\ UNCHANGED <<env, up, took, route, boots, calls>>

JobCreated(j) == /\ at[j] = "create"
                 /\ SaveState(j, [file EXCEPT !.jobs[j] = "queued"], "start")

JobBegins(j) == at[j] = "start" /\ SaveRecord(j, "running", "preflight")

JobPreflight(j) ==
  /\ at[j] = "preflight"
  /\ \/ SaveState(j, [file EXCEPT !.stages = @ \cup {"preflight"}], "take")
     \/ SaveState(j, file, "fail")

\* state = load_state(...): a read; what the job works from ever after.
JobTakes(j) ==
  /\ at[j] = "take"
  /\ took' = [took EXCEPT ![j] = ResolveComponents(file.sel)]
  /\ at' = [at EXCEPT ![j] = "place"]
  /\ UNCHANGED <<file, env, up, owner, route, boots, calls, crossed>>

\* Models validated and placed, then the env file written; or an exception.
JobPlaces(j) ==
  /\ at[j] = "place"
  /\ \/ env' = took[j] /\ at' = [at EXCEPT ![j] = "select"]
     \/ env' = env /\ at' = [at EXCEPT ![j] = "fail"]
  /\ UNCHANGED <<file, up, owner, took, route, boots, calls, crossed>>

\* Writes back the selection it took, over whatever was chosen since.
JobSelects(j) == /\ at[j] = "select"
                 /\ SaveState(j, [file EXCEPT !.sel = took[j]], "dependencies")

\* The stages that install software (dependencies, searxng, playwright,
\* glmocr-sdk) stand together as the first; a stage recorded complete is skipped.
Stages == {"dependencies", "services"}
Runs == [dependencies |-> "dependencies run", services |-> "services run"]
Did == [dependencies |-> "dependencies done", services |-> "services done"]
After == [dependencies |-> "services", services |-> "validate"]

JobStage(j, stage) ==
  /\ at[j] = stage
  /\ SaveRecord(j, file.jobs[j], IF stage \in file.stages THEN After[stage] ELSE Runs[stage])

\* Mutant: the activation's return code is not looked at.
JobCommandUnchecked(j, stage) ==
  /\ at[j] = Runs[stage]
  /\ at' = [at EXCEPT ![j] = Did[stage]]
  /\ up' = IF stage = "services" THEN {} ELSE up
  /\ UNCHANGED <<file, env, owner, took, route, boots, calls, crossed>>

\* The commands of a stage.  install.sh and activate-selected-stack.sh stop
\* every selectable unit and start those the env file selects.
JobCommand(j, stage) ==
  /\ at[j] = Runs[stage]
  /\ \/ /\ at' = [at EXCEPT ![j] = Did[stage]]
        /\ up' = IF stage = "services" THEN env ELSE up
     \/ /\ at' = [at EXCEPT ![j] = "fail"]
        /\ up' = IF stage = "services" THEN {} ELSE up
  /\ UNCHANGED <<file, env, owner, took, route, boots, calls, crossed>>

JobCompletesStage(j, stage) ==
  /\ at[j] = Did[stage]
  /\ SaveState(j, [file EXCEPT !.stages = @ \cup {stage}], After[stage])

\* validate_installation: nothing passes that is not active.  What the job
\* took is not read again.
JobValidates(j) ==
  /\ at[j] = "validate"
  /\ \/ took[j] \subseteq up /\ at' = [at EXCEPT ![j] = "passed"]
     \/ at' = [at EXCEPT ![j] = "not passed"]
  /\ took' = [took EXCEPT ![j] = {}]
  /\ UNCHANGED <<file, env, up, owner, route, boots, calls, crossed>>

Verdict(j) == IF at[j] \in {"passed", "final passed"} THEN "complete" ELSE "needs_attention"
JobSaysStatus(j) == /\ at[j] \in {"passed", "not passed"}
                    /\ SaveState(j, [file EXCEPT !.status = Verdict(j)],
                                 IF at[j] = "passed" THEN "final passed" ELSE "final")
JobEnds(j) == at[j] \in {"final passed", "final"} /\ SaveRecord(j, Verdict(j), "done")

\* Mutant: a failure is said of the installation only.
JobFailsQuietly(j) == at[j] = "fail" /\ SaveState(j, file, "fail status")
JobFails(j) == at[j] = "fail" /\ SaveRecord(j, "failed", "fail status")
JobSaysFailed(j) == /\ at[j] = "fail status"
                    /\ SaveState(j, [file EXCEPT !.status = "failed"], "done")
-----------------------------------------------------------------------------
(* The routes, and the command line's select: load, work, save; no lock.   *)

RouteKinds == {"select", "cli select", "look", "uninstall"}

RouteLoads(kind, sel) ==
  /\ route = Nobody /\ calls < MaxRoutes
  /\ calls' = calls + 1
  /\ route' = [kind |-> kind, sel |-> sel, copy |-> file]
  /\ UNCHANGED <<file, env, up, at, owner, took, boots, crossed>>

\* api_setup_uninstall of the services, between its load and its save.
UninstallRemoves ==
  /\ route # Nobody /\ route.kind = "uninstall"
  /\ route' = [route EXCEPT !.kind = "uninstalled"]
  /\ up' = {} /\ crossed' = crossed \cup {"uninstall"}
  /\ UNCHANGED <<file, env, at, owner, took, boots, calls>>

\* A selection that differs resets the stages but preflight; the command
\* line's does so always.  A look (preflight, validation) changes neither.
Selected(f, r) ==
  LET chosen == ResolveComponents(r.sel)
  IN  IF chosen = f.sel /\ r.kind = "select" THEN f
      ELSE [f EXCEPT !.sel = chosen, !.stages = @ \cap {"preflight"}, !.status = "selection_changed"]

RouteSaves ==
  /\ route # Nobody /\ route.kind # "uninstall"
  /\ file' = CASE route.kind \in {"select", "cli select"} -> Selected(route.copy, route)
               [] route.kind = "look" -> route.copy
               [] route.kind = "uninstalled" -> [route.copy EXCEPT !.status = "services_removed"]
  /\ crossed' = crossed \cup (IF route.copy # file THEN {"overlap"} ELSE {})
                  \cup (IF route.kind \in {"select", "cli select"} /\ \E j \in SetupJobs : Live(j)
                        THEN {"selection"} ELSE {})
  /\ route' = Nobody
  /\ UNCHANGED <<env, up, at, owner, took, boots, calls>>
-----------------------------------------------------------------------------
(* The manager restarts: its threads and requests are gone.                *)

Killed(j) == CASE at[j] = "create" -> "idle" [] at[j] \in Ended -> at[j] [] OTHER -> "dead"

ManagerRestarts ==
  /\ boots < MaxBoots /\ boots' = boots + 1
  /\ at' = [j \in SetupJobs |-> IF owner[j] = "manager" THEN Killed(j) ELSE at[j]]
  /\ route' = Nobody
  /\ file' = Interrupt(file)
  /\ UNCHANGED <<env, up, owner, took, calls, crossed>>

\* The command line process is killed.
CliKilled(j) ==
  /\ owner[j] = "cli" /\ Live(j) /\ boots < MaxBoots /\ boots' = boots + 1
  /\ at' = [at EXCEPT ![j] = Killed(j)]
  /\ UNCHANGED <<file, env, up, owner, took, route, calls, crossed>>

JobStep(j) ==
  \/ JobCreated(j) \/ JobBegins(j) \/ JobPreflight(j) \/ JobTakes(j)
  \/ JobPlaces(j) \/ JobSelects(j)
  \/ \E stage \in Stages :
       JobStage(j, stage) \/ JobCommand(j, stage) \/ JobCompletesStage(j, stage)
  \/ JobValidates(j) \/ JobSaysStatus(j) \/ JobEnds(j) \/ JobFails(j) \/ JobSaysFailed(j)

SetupNext ==
  \/ \E j \in SetupJobs : JobStep(j)
  \/ \E j \in SetupJobs, prior \in SetupJobs \cup {Nobody} : JobAsked(j, prior)
  \/ \E j \in SetupJobs : CliRuns(j) \/ CliKilled(j)
  \/ \E kind \in RouteKinds, sel \in Selections : RouteLoads(kind, sel)
  \/ UninstallRemoves \/ RouteSaves \/ ManagerRestarts

\* Every command and probe of a job has a timeout, so its thread moves on.
SetupFairness == /\ \A j \in SetupJobs : WF_setupVars(JobStep(j))
                 /\ WF_setupVars(UninstallRemoves) /\ WF_setupVars(RouteSaves)
SetupSpec == SetupInit /\ [][SetupNext]_setupVars /\ SetupFairness
-----------------------------------------------------------------------------
(* Properties. *)

\* The state a route will save over a newer one is not explored further:
\* every property but the last three allows anything then.
BeforeOverlap == "overlap" \notin crossed /\ (route # Nobody => route.copy = file)

\* A record that says queued or running belongs to a thread that runs (or to
\* a command line that was killed): restarts and failures leave no job that
\* looks busy for ever.  Only a save of an older copy can break it.
RunningHasThread ==
  "overlap" \notin crossed =>
    \A j \in SetupJobs : file.jobs[j] \in Open => Live(j) \/ (owner[j] = "cli" /\ at[j] = "dead")

\* A retry skips what is recorded as complete: unless two jobs ran at once,
\* the selection changed under one, the services were removed or a save was
\* lost, the units of the selection are then really in place, whatever
\* failed, was killed or was retried before.
StagesTrue == crossed = {} /\ "services" \in file.stages => file.sel \subseteq up

\* A job that was accepted gets its verdict, unless its record is lost to an
\* older copy or its command line is killed.
JobsGetVerdict ==
  \A j \in SetupJobs :
    (file.jobs[j] \in Open) ~> (file.jobs[j] \notin Open \/ "overlap" \in crossed
                                \/ (owner[j] = "cli" /\ at[j] = "dead"))

\* README.md:48: "clients poll the durable job record".  False: a route that
\* loaded the state before the job was created saves it without the record.
RecordsStay == \A j \in SetupJobs : at[j] \notin {"idle", "create"} => file.jobs[j] # "none"

\* The wizard's own reading of "complete": what is selected is in place.
\* False: a selection made while a job installs the old one.
CompleteIsInstalled == file.status = "complete" /\ crossed \subseteq {"selection"} => file.sel \subseteq up

\* Stages recorded as complete, with the services removed in between: a
\* retry skips the stage and never installs them again.
RetryReinstalls == crossed \subseteq {"uninstall"} /\ "services" \in file.stages => file.sel \subseteq up
=============================================================================
