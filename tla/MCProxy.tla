------------------------------- MODULE MCProxy -------------------------------
(***************************************************************************)
(* What serves one request: the heal timer that keeps the backend up, the  *)
(* routing between two machines, the relay that cuts loops, and the        *)
(* transcription sidecar.  Each is checked on its own small instance: a    *)
(* behaviour runs one of them, "part", and leaves the others as they start.*)
(***************************************************************************)
EXTENDS BackendHeal, ChatRoute, LoopGuard, Transcribe, TLC

CONSTANTS llms, studio

VARIABLE part

vars == <<part, healVars, routeVars, loopVars, transcribeVars>>

\* Two machines, each the other's fallback.
EachOther == (llms :> studio) @@ (studio :> llms)

\* A part that does not run starts in one of its initial states.
Init ==
  /\ part \in {"heal", "route", "loop", "transcribe"}
  /\ HealInit /\ TranscribeInit
  /\ RouteInit
  /\ part # "route" => /\ \A p \in Proxies : backend[p] = "up" /\ ~lent[p]
                       /\ \A r \in Chats : ~guarded[r]
  /\ LoopInit
  /\ part # "loop" => wants = "json" /\ fallback = "none"

HealPart == part = "heal" /\ HealNext /\ UNCHANGED <<part, routeVars, loopVars, transcribeVars>>
RoutePart == part = "route" /\ RouteNext /\ UNCHANGED <<part, healVars, loopVars, transcribeVars>>
LoopPart == part = "loop" /\ LoopNext /\ UNCHANGED <<part, healVars, routeVars, transcribeVars>>
\* The sidecar really stops when no request is left; the others never do.
TranscribePart == /\ part = "transcribe"
                  /\ TranscribeNext \/ UNCHANGED transcribeVars
                  /\ UNCHANGED <<part, healVars, routeVars, loopVars>>
Next == HealPart \/ RoutePart \/ LoopPart \/ TranscribePart

\* The fairness of the two parts that promise something in the end.
Spec ==
  /\ Init /\ [][Next]_vars
  /\ WF_healVars(part = "heal" /\ Tick) /\ WF_healVars(part = "heal" /\ Heal)
  /\ WF_healVars(part = "heal" /\ HealRefused) /\ WF_healVars(part = "heal" /\ HealRestart)
  /\ WF_healVars(part = "heal" /\ HealRecord) /\ WF_healVars(part = "heal" /\ CommandEnd)
  /\ \A t \in Requests :
       /\ WF_transcribeVars(part = "transcribe" /\ Work(t))
       /\ SF_transcribeVars(part = "transcribe" /\ Returns(t) /\ step'[t] = "leaving")
=============================================================================
