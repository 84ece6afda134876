------------------------------ MODULE MCWorkers ------------------------------
(***************************************************************************)
(* Two components that run threads of their own and promise that each      *)
(* piece of work ends: the setup engine's jobs and the fleet view's        *)
(* pollers.  A behaviour runs one of them, "part".                         *)
(***************************************************************************)
EXTENDS Setup, Fleet

VARIABLE part

vars == <<part, setupVars, fleetVars>>

Init == /\ part \in {"setup", "fleet"}
        /\ SetupInit /\ FleetInit

SetupPart == part = "setup" /\ SetupNext /\ UNCHANGED <<part, fleetVars>>
FleetPart == part = "fleet" /\ FleetNext /\ UNCHANGED <<part, setupVars>>
Next == SetupPart \/ FleetPart

\* The fairness of each component, for the part that runs.
Spec ==
  /\ Init /\ [][Next]_vars
  /\ \A j \in SetupJobs : WF_setupVars(part = "setup" /\ JobStep(j))
  /\ WF_setupVars(part = "setup" /\ UninstallRemoves)
  /\ WF_setupVars(part = "setup" /\ RouteSaves)
  /\ \A t \in Loops : /\ WF_fleetVars(part = "fleet" /\ LoopStarts(t))
                      /\ WF_fleetVars(part = "fleet" /\ TickBegins(t))
                      /\ WF_fleetVars(part = "fleet" /\ TickEnds(t))
  /\ \A t \in Loops, h \in Peers : /\ WF_fleetVars(part = "fleet" /\ ReadsSchema(t, h))
                                   /\ WF_fleetVars(part = "fleet" /\ ReadsSnapshot(t, h))
  /\ \A h \in Peers : WF_fleetVars(part = "fleet" /\ SchemaExpires(h))

\* A save through to a machine is not followed by one that fails.
\* BeforeOverlap is Setup's.
Small == BeforeOverlap /\ (writes > 0 => turns = 0)
=============================================================================
