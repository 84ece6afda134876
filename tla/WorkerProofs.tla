---------------------------- MODULE WorkerProofs ----------------------------
(***************************************************************************)
(* The safety of the setup engine, for any number of jobs, restarts and    *)
(* requests.  What a stage's record promises is kept by what the job at    *)
(* work knows: as long as nothing has disturbed it, it alone is at work,   *)
(* on the selection that the state file and the env file hold.             *)
(***************************************************************************)
EXTENDS Setup, TLAPS

Statuses == {"new", "selection_changed", "services_removed", "complete", "needs_attention", "failed"}
Records == {"none", "queued", "running", "interrupted", "failed", "complete", "needs_attention"}
States == [status : Statuses, sel : SUBSET Components,
           stages : SUBSET {"preflight", "dependencies", "services"}, jobs : [SetupJobs -> Records]]
Places == {"idle", "create", "start", "preflight", "take", "place", "select", "dependencies",
           "dependencies run", "dependencies done", "services", "services run", "services done", "validate",
           "passed", "not passed", "final passed", "final", "fail", "fail status", "done", "dead"}

\* A selection that needs nothing more.
Closed(s) == s \in SUBSET Components /\ s = ResolveComponents(s)

SetupTyped ==
  /\ file \in States /\ Closed(file.sel)
  /\ env \in SUBSET Components /\ up \in SUBSET Components
  /\ at \in [SetupJobs -> Places] /\ owner \in [SetupJobs -> {"manager", "cli"}]
  /\ DOMAIN took = SetupJobs /\ \A j \in SetupJobs : Closed(took[j])
  /\ route # Nobody => /\ route \in [kind : RouteKinds \cup {"uninstalled"}, sel : Selections, copy : States]
                       /\ Closed(route.copy.sel)

\* From the time it has read the selection until the services are recorded.
Holding == {"place", "select", "dependencies", "dependencies run", "dependencies done",
            "services", "services run", "services done"}
Holds(j) ==
  /\ at[j] \in Holding => took[j] = file.sel
  /\ at[j] \in Holding \ {"place"} => env = file.sel
  /\ at[j] = "services run" => "services" \notin file.stages
  /\ at[j] = "services done" => file.sel \subseteq up
OneAtWork == \A j, k \in SetupJobs : Live(j) /\ Live(k) => j = k
Undisturbed ==
  crossed = {} => OneAtWork /\ (\A j \in SetupJobs : Holds(j)) /\ ("services" \in file.stages => file.sel \subseteq up)

\* The records of jobs that are not at work do not say that they are.
Recorded(j) ==
  at[j] \in {"idle", "create", "fail status", "done"} \/ (at[j] = "dead" /\ owner[j] = "manager") =>
    file.jobs[j] \notin Open

SetupInv ==
  SetupTyped /\ Undisturbed /\ ("overlap" \notin crossed => \A j \in SetupJobs : Recorded(j))

------------------------------------------------------------------------------
(* Selections *)

\* The needs of what is needed are known already: resolving twice adds nothing.
LEMMA Resolved == \A s : Closed(ResolveComponents(s))
<1> SUFFICES ASSUME NEW s PROVE Closed(ResolveComponents(s)) OBVIOUS
<1>1. \A t : /\ ResolveComponents(t) \in SUBSET Components
             /\ \A c : c \in ResolveComponents(t) <=>
                         \/ c \in t /\ c \in Components
                         \/ c = "ocr" /\ "glmocr-sdk" \in t
  BY DEF ResolveComponents, Needs, Components
<1>2. \A c : c \in ResolveComponents(ResolveComponents(s)) <=> c \in ResolveComponents(s)
  BY <1>1
<1> QED BY <1>1, <1>2 DEF Closed

LEMMA DefaultsClosed == Closed(CoreDefaults) /\ Closed({})
  BY DEF Closed, CoreDefaults, ResolveComponents, Needs, Components

\* What a manager that starts changes of the file.
LEMMA Interrupted ==
  ASSUME file \in States
  PROVE  /\ Interrupt(file) \in States
         /\ Interrupt(file).sel = file.sel /\ Interrupt(file).stages = file.stages
         /\ \A k \in SetupJobs : /\ Interrupt(file).jobs[k] \in {file.jobs[k], "interrupted"}
                                 /\ Interrupt(file).jobs[k] \notin Open
<1> DEFINE jobs == [j \in SetupJobs |-> IF file.jobs[j] \in Open THEN "interrupted" ELSE file.jobs[j]]
<1>1. jobs \in [SetupJobs -> Records] BY DEF States, Records
<1>2. Interrupt(file) = [file EXCEPT !.jobs = jobs] BY DEF Interrupt
<1>3. \A k \in SetupJobs : jobs[k] \in {file.jobs[k], "interrupted"} /\ jobs[k] \notin Open BY DEF Open
<1> HIDE DEF jobs
<1> QED BY <1>1, <1>2, <1>3 DEF States

------------------------------------------------------------------------------
(* The job at work *)

LEMMA JobMoves ==
  ASSUME SetupInv, NEW j \in SetupJobs, Live(j), NEW next \in Places, at' = [at EXCEPT ![j] = next],
         UNCHANGED <<owner, route, crossed>>,
         file' \in States, Closed(file.sel)', \A k \in SetupJobs \ {j} : file'.jobs[k] = file.jobs[k],
         env' \in SUBSET Components, up' \in SUBSET Components,
         DOMAIN took' = SetupJobs, Closed(took[j])', \A k \in SetupJobs \ {j} : took'[k] = took[k],
         crossed = {} => Holds(j)' /\ ("services" \in file'.stages => file'.sel \subseteq up'),
         "overlap" \notin crossed => Recorded(j)'
  PROVE  SetupInv'
<1>1. at'[j] = next /\ \A k \in SetupJobs \ {j} : at'[k] = at[k] BY DEF SetupInv, SetupTyped
<1>2. SetupTyped'
  <2>1. \A k \in SetupJobs \ {j} : Closed(took[k])' BY DEF SetupInv, SetupTyped, Closed
  <2>2. route # Nobody => Closed(route.copy.sel)' BY DEF SetupInv, SetupTyped, Closed
  <2> QED BY <2>1, <2>2 DEF SetupInv, SetupTyped
<1>3. Undisturbed'
  <2> SUFFICES ASSUME crossed = {}
               PROVE  /\ OneAtWork' /\ \A k \in SetupJobs : Holds(k)'
                      /\ "services" \in file'.stages => file'.sel \subseteq up'
    BY DEF Undisturbed
  <2>1. \A k \in SetupJobs \ {j} : at[k] \in Ended BY DEF SetupInv, Undisturbed, OneAtWork, Live
  <2>2. OneAtWork' BY <1>1, <2>1 DEF OneAtWork, Live
  <2>3. ASSUME NEW k \in SetupJobs \ {j} PROVE Holds(k)' BY <1>1, <2>1, <2>3 DEF Holds, Holding, Ended
  <2> QED BY <2>2, <2>3
<1>4. ASSUME "overlap" \notin crossed, NEW k \in SetupJobs \ {j} PROVE Recorded(k)' 
  BY <1>1, <1>4 DEF SetupInv, Recorded
<1> QED BY <1>2, <1>3, <1>4 DEF SetupInv

\* It writes its own record, or finds it gone.
LEMMA RecordSteps ==
  ASSUME SetupInv, NEW j \in SetupJobs, Live(j), NEW status \in Records, NEW next \in Places,
         SaveRecord(j, status, next),
         next \notin Holding \/ at[j] \in Holding \ {"place"}, next \notin {"idle", "create"},
         next \in {"done", "fail status", "dead"} => status \notin Open,
         next = "services run" => "services" \notin file.stages,
         next # "services done"
  PROVE  SetupInv'
<1>1. PICK to \in {next, "fail", "dead"} :
        /\ at' = [at EXCEPT ![j] = to]
        /\ \/ to = next /\ file' = [file EXCEPT !.jobs[j] = status]
           \/ to # next /\ file' = file /\ file.jobs[j] = "none"
           \/ to = next /\ file' = file /\ file.jobs[j] = "none" /\ to \in {"fail", "dead"}
        /\ UNCHANGED <<env, up, owner, took, route, crossed>>
  BY DEF SaveRecord, SaveState
<1>2. file \in States /\ Closed(file.sel) BY DEF SetupInv, SetupTyped
<1>3. /\ file' \in States /\ file'.sel = file.sel /\ file'.stages = file.stages
      /\ \A k \in SetupJobs \ {j} : file'.jobs[k] = file.jobs[k]
      /\ file'.jobs[j] = status \/ (file'.jobs[j] = "none" /\ to \in {"fail", "dead"})
  <2>1. CASE file' = [file EXCEPT !.jobs[j] = status]
    <3>1. [file.jobs EXCEPT ![j] = status] \in [SetupJobs -> Records] BY <1>2 DEF States
    <3>2. file' = [file EXCEPT !.jobs = [file.jobs EXCEPT ![j] = status]] BY <1>2, <2>1 DEF States
    <3> QED BY <1>1, <1>2, <2>1, <3>1, <3>2 DEF States
  <2>2. CASE file' = file /\ file.jobs[j] = "none" /\ to \in {"fail", "dead"} BY <1>2, <2>2
  <2> QED BY <1>1, <2>1, <2>2
<1>4. to \in Places BY <1>1 DEF Places
<1>5. at'[j] = to BY <1>1 DEF SetupInv, SetupTyped
<1>6. Closed(file.sel)' /\ Closed(took[j])' BY <1>1, <1>2, <1>3 DEF Closed, SetupInv, SetupTyped
<1>7. crossed = {} => Holds(j)' /\ ("services" \in file'.stages => file'.sel \subseteq up')
  BY <1>1, <1>3, <1>5 DEF SetupInv, Undisturbed, Holds, Holding
<1>8. "overlap" \notin crossed => Recorded(j)' 
  BY <1>1, <1>3, <1>5 DEF SetupInv, Recorded, Open
<1> QED BY <1>1, <1>3, <1>4, <1>6, <1>7, <1>8, JobMoves DEF SetupInv, SetupTyped

\* It writes the rest of the file, of the selection it works from.
LEMMA StateSteps ==
  ASSUME SetupInv, NEW j \in SetupJobs, Live(j), NEW next \in Places, NEW new \in States,
         SaveState(j, new, next), Closed(new.sel), new.jobs = file.jobs, next \notin {"idle", "create", "dead"},
         next \in {"done", "fail status"} => at[j] \in {"done", "fail status"},
         crossed = {} => new.sel = file.sel,
         next \in Holding => at[j] \in Holding, next = "place" => at[j] = "place",
         at[j] = "place" => next \notin Holding \ {"place"}, next \notin {"services run", "services done"},
         crossed = {} /\ "services" \in new.stages => file.sel \subseteq up
  PROVE  SetupInv'
<1>1. file' = new /\ at' = [at EXCEPT ![j] = next] /\ UNCHANGED <<env, up, owner, took, route, crossed>>
  BY DEF SaveState
<1>2. at'[j] = next BY <1>1 DEF SetupInv, SetupTyped
<1>3. Closed(file.sel)' /\ Closed(took[j])' BY <1>1 DEF Closed, SetupInv, SetupTyped
<1>4. crossed = {} => Holds(j)' /\ ("services" \in file'.stages => file'.sel \subseteq up')
  BY <1>1, <1>2 DEF SetupInv, Undisturbed, Holds, Holding
<1>5. "overlap" \notin crossed => Recorded(j)' BY <1>1, <1>2 DEF SetupInv, Recorded
<1> QED BY <1>1, <1>3, <1>4, <1>5, JobMoves DEF SetupInv, SetupTyped

LEMMA JobSteps ==
  ASSUME SetupInv, NEW j \in SetupJobs, JobStep(j)
  PROVE  SetupInv'
<1> USE DEF Live, Ended, Places
<1>1. file \in States /\ Closed(file.sel) /\ at[j] \in Places /\ Closed(took[j]) /\ DOMAIN took = SetupJobs
  BY DEF SetupInv, SetupTyped
<1>2. CASE JobCreated(j)
  <2>1. /\ at[j] = "create" /\ file' = [file EXCEPT !.jobs[j] = "queued"]
        /\ at' = [at EXCEPT ![j] = "start"] /\ UNCHANGED <<env, up, owner, took, route, crossed>>
    BY <1>2 DEF JobCreated, SaveState
  <2>2. [file.jobs EXCEPT ![j] = "queued"] \in [SetupJobs -> Records] BY <1>1 DEF States, Records
  <2>3. file' = [file EXCEPT !.jobs = [file.jobs EXCEPT ![j] = "queued"]] BY <1>1, <2>1 DEF States
  <2>4. /\ file' \in States /\ file'.sel = file.sel /\ file'.stages = file.stages
        /\ \A k \in SetupJobs \ {j} : file'.jobs[k] = file.jobs[k]
    BY <1>1, <2>2, <2>3 DEF States
  <2>5. at'[j] = "start" BY <2>1 DEF SetupInv, SetupTyped
  <2>6. Closed(file.sel)' /\ Closed(took[j])' BY <1>1, <2>1, <2>4 DEF Closed
  <2>7. crossed = {} => Holds(j)' /\ ("services" \in file'.stages => file'.sel \subseteq up')
    BY <2>1, <2>4, <2>5 DEF SetupInv, Undisturbed, Holds, Holding
  <2>8. Recorded(j)' BY <2>5 DEF Recorded
  <2>9. Live(j) BY <2>1
  <2> QED BY <1>1, <2>1, <2>4, <2>6, <2>7, <2>8, <2>9, JobMoves DEF SetupInv, SetupTyped
<1>3. CASE JobBegins(j) BY <1>3, RecordSteps DEF JobBegins, Records, Holding
<1>4. CASE JobPreflight(j)
  <2>1. [file EXCEPT !.stages = @ \cup {"preflight"}] \in States
        /\ [file EXCEPT !.stages = @ \cup {"preflight"}].sel = file.sel
        /\ [file EXCEPT !.stages = @ \cup {"preflight"}].jobs = file.jobs
        /\ [file EXCEPT !.stages = @ \cup {"preflight"}].stages = file.stages \cup {"preflight"}
    BY <1>1 DEF States
  <2>2. crossed = {} /\ "services" \in file.stages => file.sel \subseteq up BY DEF SetupInv, Undisturbed
  <2>3. CASE SaveState(j, [file EXCEPT !.stages = @ \cup {"preflight"}], "take")
    BY <1>1, <1>4, <2>1, <2>2, <2>3, StateSteps DEF JobPreflight, Holding
  <2>4. CASE SaveState(j, file, "fail")
    BY <1>1, <1>4, <2>2, <2>4, StateSteps DEF JobPreflight, Holding
  <2> QED BY <1>4, <2>3, <2>4 DEF JobPreflight
<1>5. CASE JobTakes(j)
  <2>1. /\ at[j] = "take" /\ at' = [at EXCEPT ![j] = "place"] /\ took' = [took EXCEPT ![j] = file.sel]
        /\ UNCHANGED <<file, env, up, owner, route, crossed>>
    BY <1>1, <1>5 DEF JobTakes, Closed
  <2>2. at'[j] = "place" /\ DOMAIN took' = SetupJobs /\ took'[j] = file.sel
        /\ \A k \in SetupJobs \ {j} : took'[k] = took[k]
    BY <1>1, <2>1 DEF SetupInv, SetupTyped
  <2>3. Closed(file.sel)' /\ Closed(took[j])' BY <1>1, <2>1, <2>2 DEF Closed
  <2>4. crossed = {} => Holds(j)' /\ ("services" \in file'.stages => file'.sel \subseteq up')
    BY <2>1, <2>2 DEF SetupInv, Undisturbed, Holds, Holding
  <2>5. Recorded(j)' BY <2>2 DEF Recorded
  <2>6. Live(j) BY <2>1
  <2> QED BY <1>1, <2>1, <2>2, <2>3, <2>4, <2>5, <2>6, JobMoves DEF SetupInv, SetupTyped
<1>6. CASE JobPlaces(j)
  <2>1. PICK next \in {"select", "fail"} :
          /\ at[j] = "place" /\ at' = [at EXCEPT ![j] = next]
          /\ env' = IF next = "select" THEN took[j] ELSE env
          /\ UNCHANGED <<file, up, owner, took, route, crossed>>
    BY <1>6 DEF JobPlaces
  <2>2. at'[j] = next /\ env' \in SUBSET Components BY <1>1, <2>1 DEF SetupInv, SetupTyped, Closed
  <2>3. Closed(file.sel)' /\ Closed(took[j])' BY <1>1, <2>1 DEF Closed
  <2>4. crossed = {} => Holds(j)' /\ ("services" \in file'.stages => file'.sel \subseteq up')
    BY <2>1, <2>2 DEF SetupInv, Undisturbed, Holds, Holding
  <2>5. Recorded(j)' BY <2>1, <2>2 DEF Recorded
  <2>6. Live(j) BY <2>1
  <2> QED BY <1>1, <2>1, <2>2, <2>3, <2>4, <2>5, <2>6, JobMoves DEF SetupInv, SetupTyped
<1>7. CASE JobSelects(j)
  <2> DEFINE new == [file EXCEPT !.sel = took[j]]
  <2>1. new \in States /\ new.sel = took[j] /\ new.jobs = file.jobs /\ new.stages = file.stages
    BY <1>1 DEF States, Closed
  <2>2. at[j] = "select" /\ SaveState(j, new, "dependencies") BY <1>7 DEF JobSelects
  <2>3. /\ crossed = {} => took[j] = file.sel
        /\ crossed = {} /\ "services" \in file.stages => file.sel \subseteq up
    BY <2>2 DEF SetupInv, Undisturbed, Holds, Holding
  <2> HIDE DEF new
  <2> QED BY <1>1, <2>1, <2>2, <2>3, StateSteps DEF Holding
<1>8. ASSUME NEW stage \in Stages,
             JobStage(j, stage) \/ JobCommand(j, stage) \/ JobCompletesStage(j, stage)
      PROVE  SetupInv'
  <2>1. /\ Runs[stage] = (IF stage = "services" THEN "services run" ELSE "dependencies run")
        /\ Did[stage] = (IF stage = "services" THEN "services done" ELSE "dependencies done")
        /\ After[stage] = (IF stage = "services" THEN "validate" ELSE "services")
        /\ stage \in {"services", "dependencies"}
    <3>1. CASE stage = "services" BY <3>1 DEF Runs, Did, After
    <3>2. CASE stage = "dependencies" BY <3>2 DEF Runs, Did, After
    <3> QED BY <3>1, <3>2 DEF Stages
  <2>2. CASE JobStage(j, stage)
    <3>1. file.jobs[j] \in Records BY <1>1 DEF States
    <3>2. at[j] = stage /\ SaveRecord(j, file.jobs[j], IF stage \in file.stages THEN After[stage] ELSE Runs[stage])
      BY <2>2 DEF JobStage
    <3> QED BY <2>1, <3>1, <3>2, RecordSteps DEF Holding
  <2>3. CASE JobCommand(j, stage)
    <3>1. PICK next \in {Did[stage], "fail"} :
            /\ at[j] = Runs[stage] /\ at' = [at EXCEPT ![j] = next]
            /\ up' = IF stage # "services" THEN up ELSE IF next = "fail" THEN {} ELSE env
            /\ UNCHANGED <<file, env, owner, took, route, crossed>>
      BY <2>1, <2>3 DEF JobCommand
    <3>2. at'[j] = next /\ up' \in SUBSET Components BY <1>1, <3>1 DEF SetupInv, SetupTyped
    <3>3. Closed(file.sel)' /\ Closed(took[j])' BY <1>1, <3>1 DEF Closed
    <3>4. crossed = {} => Holds(j)' /\ ("services" \in file'.stages => file'.sel \subseteq up')
      BY <2>1, <3>1, <3>2 DEF SetupInv, Undisturbed, Holds, Holding
    <3>5. Recorded(j)' BY <2>1, <3>1, <3>2 DEF Recorded
    <3>6. Live(j) BY <2>1, <3>1
    <3> QED BY <1>1, <2>1, <3>1, <3>2, <3>3, <3>4, <3>5, <3>6, JobMoves DEF SetupInv, SetupTyped
  <2>4. CASE JobCompletesStage(j, stage)
    <3> DEFINE new == [file EXCEPT !.stages = @ \cup {stage}]
    <3>1. new \in States /\ new.sel = file.sel /\ new.jobs = file.jobs /\ new.stages = file.stages \cup {stage}
      BY <1>1, <2>1 DEF States
    <3>2. at[j] = Did[stage] /\ SaveState(j, new, After[stage]) BY <2>4 DEF JobCompletesStage
    <3>3. crossed = {} /\ "services" \in new.stages => file.sel \subseteq up
      BY <2>1, <3>1, <3>2 DEF SetupInv, Undisturbed, Holds
    <3> HIDE DEF new
    <3> QED BY <1>1, <2>1, <3>1, <3>2, <3>3, StateSteps DEF Holding
  <2> QED BY <1>8, <2>2, <2>3, <2>4
<1>9. CASE JobValidates(j)
  <2>1. PICK next \in {"passed", "not passed"} :
          /\ at[j] = "validate" /\ at' = [at EXCEPT ![j] = next] /\ took' = [took EXCEPT ![j] = {}]
          /\ UNCHANGED <<file, env, up, owner, route, crossed>>
    BY <1>9 DEF JobValidates
  <2>2. at'[j] = next /\ DOMAIN took' = SetupJobs /\ took'[j] = {}
        /\ \A k \in SetupJobs \ {j} : took'[k] = took[k]
    BY <1>1, <2>1 DEF SetupInv, SetupTyped
  <2>3. Closed(file.sel)' /\ Closed(took[j])' BY <1>1, <2>1, <2>2, DefaultsClosed DEF Closed
  <2>4. crossed = {} => Holds(j)' /\ ("services" \in file'.stages => file'.sel \subseteq up')
    BY <2>1, <2>2 DEF SetupInv, Undisturbed, Holds, Holding
  <2>5. Recorded(j)' BY <2>1, <2>2 DEF Recorded
  <2>6. Live(j) BY <2>1
  <2> QED BY <1>1, <2>1, <2>2, <2>3, <2>4, <2>5, <2>6, JobMoves DEF SetupInv, SetupTyped
<1>10. CASE JobSaysStatus(j)
  <2> DEFINE new == [file EXCEPT !.status = Verdict(j)]
  <2>1. new \in States /\ new.sel = file.sel /\ new.jobs = file.jobs /\ new.stages = file.stages
    BY <1>1 DEF States, Statuses, Verdict
  <2>2. at[j] \in {"passed", "not passed"} /\ SaveState(j, new, IF at[j] = "passed" THEN "final passed" ELSE "final")
    BY <1>10 DEF JobSaysStatus
  <2>3. crossed = {} /\ "services" \in file.stages => file.sel \subseteq up BY DEF SetupInv, Undisturbed
  <2> HIDE DEF new
  <2> QED BY <1>1, <2>1, <2>2, <2>3, StateSteps DEF Holding
<1>11. CASE JobEnds(j) \/ JobFails(j)
  <2>1. Verdict(j) \in {"complete", "needs_attention"} BY DEF Verdict
  <2> QED BY <1>11, <2>1, RecordSteps DEF JobEnds, JobFails, Records, Holding, Open
<1>12. CASE JobSaysFailed(j)
  <2> DEFINE new == [file EXCEPT !.status = "failed"]
  <2>1. new \in States /\ new.sel = file.sel /\ new.jobs = file.jobs /\ new.stages = file.stages
    BY <1>1 DEF States, Statuses
  <2>2. at[j] = "fail status" /\ SaveState(j, new, "done") BY <1>12 DEF JobSaysFailed
  <2>3. crossed = {} /\ "services" \in file.stages => file.sel \subseteq up BY DEF SetupInv, Undisturbed
  <2> HIDE DEF new
  <2> QED BY <1>1, <2>1, <2>2, <2>3, StateSteps DEF Holding
<1> QED BY <1>2, <1>3, <1>4, <1>5, <1>6, <1>7, <1>8, <1>9, <1>10, <1>11, <1>12 DEF JobStep

------------------------------------------------------------------------------
(* Everything else *)

\* A job is asked for: if another is at work, that has happened now.
LEMMA Begins ==
  ASSUME SetupInv, NEW j \in SetupJobs, CliRuns(j) \/ \E prior \in SetupJobs \cup {Nobody} : JobAsked(j, prior)
  PROVE  SetupInv'
<1>1. /\ at[j] = "idle" /\ at' = [at EXCEPT ![j] = "create"] /\ UNCHANGED <<env, up, took, route>>
      /\ file' = file \/ file' = Interrupt(file)
      /\ owner' \in [SetupJobs -> {"manager", "cli"}] /\ \A k \in SetupJobs \ {j} : owner'[k] = owner[k]
      /\ crossed' = crossed \cup (IF Another(j) THEN {"two jobs"} ELSE {})
  BY DEF CliRuns, JobAsked, SetupInv, SetupTyped
<1>2. /\ at' \in [SetupJobs -> Places] /\ at'[j] = "create" /\ \A k \in SetupJobs \ {j} : at'[k] = at[k]
  BY <1>1 DEF SetupInv, SetupTyped, Places
<1>3. /\ file' \in States /\ file'.sel = file.sel /\ file'.stages = file.stages
      /\ \A k \in SetupJobs : file'.jobs[k] = file.jobs[k] \/ file'.jobs[k] = "interrupted"
  BY <1>1, Interrupted DEF SetupInv, SetupTyped
<1>4. SetupTyped' BY <1>1, <1>2, <1>3 DEF SetupInv, SetupTyped, Closed
<1>5. Undisturbed'
  <2> SUFFICES ASSUME crossed' = {}
               PROVE  /\ OneAtWork' /\ \A k \in SetupJobs : Holds(k)'
                      /\ "services" \in file'.stages => file'.sel \subseteq up'
    BY DEF Undisturbed
  <2>1. crossed = {} /\ ~Another(j) BY <1>1
  <2>2. OneAtWork' BY <1>2, <2>1 DEF OneAtWork, Another, Live
  <2>3. ASSUME NEW k \in SetupJobs PROVE Holds(k)' 
    BY <1>1, <1>2, <1>3, <2>1 DEF SetupInv, Undisturbed, Holds, Holding
  <2> QED BY <1>1, <1>3, <2>1, <2>2, <2>3 DEF SetupInv, Undisturbed
<1>6. ASSUME "overlap" \notin crossed', NEW k \in SetupJobs PROVE Recorded(k)' 
  <2>1. Recorded(k) BY <1>1, <1>6 DEF SetupInv
  <2> QED BY <1>1, <1>2, <1>3, <2>1 DEF Recorded, Open
<1> QED BY <1>4, <1>5, <1>6 DEF SetupInv

\* Threads that go are no longer at work, and a manager that starts says so of every job.
LEMMA Dies ==
  ASSUME SetupInv, ManagerRestarts \/ \E j \in SetupJobs : CliKilled(j)
  PROVE  SetupInv'
<1>1. /\ UNCHANGED <<env, up, owner, took, crossed>> /\ route' \in {route, Nobody}
      /\ at' \in [SetupJobs -> Places]
      /\ \A k \in SetupJobs : at'[k] = at[k] \/ (at'[k] = Killed(k) /\ (owner[k] = "manager" => file' = Interrupt(file)))
      /\ file' = file \/ file' = Interrupt(file)
  <2>1. \A k \in SetupJobs : Killed(k) \in Places BY DEF Killed, Ended, Places
  <2>2. CASE ManagerRestarts BY <2>1, <2>2 DEF ManagerRestarts, SetupInv, SetupTyped
  <2>3. ASSUME NEW j \in SetupJobs, CliKilled(j)
        PROVE  /\ UNCHANGED <<file, env, up, owner, took, route, crossed>> /\ owner[j] # "manager"
               /\ at' \in [SetupJobs -> Places] /\ at'[j] = Killed(j)
               /\ \A k \in SetupJobs \ {j} : at'[k] = at[k]
    BY <2>1, <2>3 DEF CliKilled, SetupInv, SetupTyped
  <2> QED BY <2>2, <2>3
<1>2. /\ file' \in States /\ file'.sel = file.sel /\ file'.stages = file.stages
      /\ \A k \in SetupJobs : file'.jobs[k] = file.jobs[k] \/ file'.jobs[k] = "interrupted"
      /\ file' = Interrupt(file) => \A k \in SetupJobs : file'.jobs[k] \notin Open
  BY <1>1, Interrupted DEF SetupInv, SetupTyped
<1>3. SetupTyped' BY <1>1, <1>2 DEF SetupInv, SetupTyped, Closed
<1>4. \A k \in SetupJobs : at'[k] = at[k] \/ at'[k] \in {"idle", "dead"}
  BY <1>1 DEF Killed, Ended
<1>5. Undisturbed' BY <1>1, <1>2, <1>4 DEF SetupInv, Undisturbed, OneAtWork, Holds, Holding, Live, Ended
<1>6. ASSUME "overlap" \notin crossed', NEW k \in SetupJobs PROVE Recorded(k)' 
  <2>1. Recorded(k) BY <1>1, <1>6 DEF SetupInv
  <2>2. CASE at'[k] = at[k] BY <1>1, <1>2, <2>1, <2>2 DEF Recorded, Open
  <2>3. CASE at'[k] = Killed(k) /\ (owner[k] = "manager" => file' = Interrupt(file))
    BY <1>1, <1>2, <2>1, <2>3 DEF Recorded, Killed, Ended, Open
  <2> QED BY <1>1, <2>2, <2>3
<1> QED BY <1>3, <1>5, <1>6 DEF SetupInv

\* A request loads, works and saves.
LEMMA Requests ==
  ASSUME SetupInv,
         UninstallRemoves \/ RouteSaves \/ \E kind \in RouteKinds, sel \in Selections : RouteLoads(kind, sel)
  PROVE  SetupInv'
<1>1. file \in States /\ Closed(file.sel) /\ UNCHANGED <<env, at, owner, took>>
  BY DEF SetupInv, SetupTyped, UninstallRemoves, RouteSaves, RouteLoads
<1>2. CASE \E kind \in RouteKinds, sel \in Selections : RouteLoads(kind, sel)
  <2>1. /\ UNCHANGED <<file, up, crossed>> /\ route'.copy = file
        /\ route' \in [kind : RouteKinds \cup {"uninstalled"}, sel : Selections, copy : States]
    BY <1>1, <1>2 DEF RouteLoads
  <2>2. SetupTyped' BY <1>1, <2>1 DEF SetupInv, SetupTyped, Closed
  <2> QED BY <1>1, <2>1, <2>2 DEF SetupInv, Undisturbed, OneAtWork, Holds, Live, Recorded
<1>3. CASE UninstallRemoves
  <2>1. UNCHANGED file /\ up' = {} /\ crossed' = crossed \cup {"uninstall"} /\ route # Nobody
        /\ route' = [route EXCEPT !.kind = "uninstalled"]
    BY <1>3 DEF UninstallRemoves
  <2>2. /\ route'.copy = route.copy
        /\ route' \in [kind : RouteKinds \cup {"uninstalled"}, sel : Selections, copy : States]
    BY <2>1 DEF SetupInv, SetupTyped
  <2>3. SetupTyped' BY <1>1, <2>1, <2>2 DEF SetupInv, SetupTyped, Closed
  <2> QED BY <1>1, <2>1, <2>3 DEF SetupInv, Undisturbed, Recorded
<1>4. CASE RouteSaves
  <2>1. route # Nobody /\ route' = Nobody /\ UNCHANGED up /\ route.copy \in States /\ Closed(route.copy.sel)
    BY <1>4 DEF RouteSaves, SetupInv, SetupTyped
  <2>2. /\ crossed \subseteq crossed'
        /\ "overlap" \notin crossed' => route.copy = file
        /\ crossed' = {} => route.kind \notin {"select", "cli select"} \/ \A j \in SetupJobs : ~Live(j)
    BY <1>4 DEF RouteSaves
  <2>3. /\ file' \in States /\ Closed(file'.sel) /\ file'.jobs = route.copy.jobs
        /\ \/ file'.sel = route.copy.sel /\ file'.stages = route.copy.stages
           \/ route.kind \in {"select", "cli select"} /\ "services" \notin file'.stages
    <3>1. CASE route.kind \in {"select", "cli select"}
      <4>1. file' = Selected(route.copy, route) BY <1>4, <3>1 DEF RouteSaves
      <4>2. Closed(ResolveComponents(route.sel)) BY Resolved
      <4>3. CASE file' = route.copy BY <2>1, <4>3
      <4>4. CASE file' = [route.copy EXCEPT !.sel = ResolveComponents(route.sel),
                            !.stages = @ \cap {"preflight"}, !.status = "selection_changed"]
        BY <2>1, <3>1, <4>2, <4>4 DEF States, Statuses, Closed
      <4> QED BY <4>1, <4>3, <4>4 DEF Selected
    <3>2. CASE route.kind = "look" BY <1>4, <2>1, <3>2 DEF RouteSaves
    <3>3. CASE route.kind = "uninstalled"
      <4>1. file' = [route.copy EXCEPT !.status = "services_removed"] BY <1>4, <3>3 DEF RouteSaves
      <4> QED BY <2>1, <4>1 DEF States, Statuses
    <3> QED BY <1>4, <2>1, <3>1, <3>2, <3>3 DEF RouteSaves, SetupInv, SetupTyped, RouteKinds
  <2>4. SetupTyped' BY <1>1, <2>1, <2>3 DEF SetupInv, SetupTyped, Closed
  <2>5. Undisturbed'
    BY <1>1, <2>1, <2>2, <2>3 DEF SetupInv, Undisturbed, OneAtWork, Holds, Holding, Live, Ended
  <2>6. "overlap" \notin crossed' => \A j \in SetupJobs : Recorded(j)' 
    BY <1>1, <2>2, <2>3 DEF SetupInv, Recorded
  <2> QED BY <2>4, <2>5, <2>6 DEF SetupInv
<1> QED BY <1>2, <1>3, <1>4

LEMMA SetupInvHolds == SetupSpec => []SetupInv
<1>1. SetupInit => SetupInv
  <2> SUFFICES ASSUME SetupInit PROVE SetupInv OBVIOUS
  <2>1. file \in States /\ file.sel = CoreDefaults /\ file.stages = {} /\ \A j \in SetupJobs : file.jobs[j] = "none"
    BY DefaultsClosed DEF SetupInit, States, Statuses, Records, Closed
  <2>2. at \in [SetupJobs -> Places] /\ owner \in [SetupJobs -> {"manager", "cli"}] BY DEF SetupInit, Places
  <2>3. SetupTyped BY <2>1, <2>2, DefaultsClosed DEF SetupInit, SetupTyped, Closed
  <2>4. Undisturbed BY <2>1 DEF SetupInit, Undisturbed, OneAtWork, Live, Ended, Holds, Holding
  <2> QED BY <2>1, <2>3, <2>4 DEF SetupInv, Recorded, Open
<1>2. SetupInv /\ [SetupNext]_setupVars => SetupInv'
  <2> SUFFICES ASSUME SetupInv, [SetupNext]_setupVars PROVE SetupInv' OBVIOUS
  <2>1. CASE UNCHANGED setupVars
    BY <2>1 DEF setupVars, SetupInv, SetupTyped, Closed, Undisturbed, OneAtWork, Live, Holds, Recorded
  <2> QED BY <2>1, JobSteps, Begins, Dies, Requests DEF SetupNext
<1> QED BY <1>1, <1>2, PTL DEF SetupSpec

\* Whatever fails, is killed or is retried, the stages that are skipped were done, for the
\* selection there is.
THEOREM SkippedIsDone == SetupSpec => []StagesTrue
<1>1. SetupInv => StagesTrue BY DEF SetupInv, Undisturbed, StagesTrue
<1> QED BY <1>1, SetupInvHolds, PTL

\* No restart and no failure leaves a job that looks busy with nobody at work on it.
THEOREM NoJobIsForgotten == SetupSpec => []RunningHasThread
<1>1. SetupInv => RunningHasThread
  <2> SUFFICES ASSUME SetupInv, "overlap" \notin crossed, NEW j \in SetupJobs, file.jobs[j] \in Open
               PROVE  Live(j) \/ (owner[j] = "cli" /\ at[j] = "dead")
    BY DEF RunningHasThread
  <2>1. Recorded(j) /\ owner[j] \in {"manager", "cli"} BY DEF SetupInv, SetupTyped
  <2> QED BY <2>1 DEF Recorded, Live, Ended
<1> QED BY <1>1, SetupInvHolds, PTL
=============================================================================
