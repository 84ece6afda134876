----------------------------- MODULE ChatRoute -----------------------------
(***************************************************************************)
(* scripts/llm-chat-proxy.py, _proxy_backend and _forward_to_fallback:     *)
(* which backend answers a generation request.  Two machines run a proxy   *)
(* each, and either may be the other's fallback.  A request is served by   *)
(* its own backend, or forwarded: hard, because that backend cannot serve  *)
(* it, or softly, because it is short of memory but could.                 *)
(*                                                                         *)
(* A request is a chain of legs, one per proxy it passes: leg 1 is the     *)
(* client's, leg 2 the forwarded one, whose client is leg 1.  `out` is     *)
(* what a leg has written to its client so far.                            *)
(***************************************************************************)
EXTENDS Naturals, FiniteSets

CONSTANTS
  Proxies,
  NoProxy,
  Fallback,    \* CHAT_FALLBACK_URL of each proxy, or NoProxy
  Chats,    \* generation requests, each sent once
  MaxCrashes   \* bound: proxy processes that die

ASSUME RoutesAssumption ==
  /\ NoProxy \notin Proxies
  /\ Fallback \in [Proxies -> Proxies \cup {NoProxy}]
  /\ \A p \in Proxies : Fallback[p] # p
  /\ MaxCrashes \in Nat

VARIABLES
  backend,  \* of each proxy: "off" (refuses), "loading" (answers 503), "up"
  lent,     \* the lease file of each proxy's machine exists
  alive,    \* each proxy's process runs
  leg,      \* of each request, its legs
  guarded,  \* the request goes through LoopGuardedChatRelay
  steady,   \* the proxies that could serve ever since the request came (history)
  reached,  \* the request has reached a backend that serves (history)
  crashes   \* proxies that died so far

routeVars == <<backend, lent, alive, leg, guarded, steady, reached, crashes>>
machines == <<backend, lent, alive, crashes>>
arrival == <<guarded, steady>>

\* route: accepted; soft, hard: forwarding; connect: about to connect to its own
\* backend; read: waiting for its answer; stream: relaying it.
LegSteps == {"none", "route", "soft", "hard", "connect", "read", "stream", "done"}
\* head: a 2xx head and perhaps some of the body; whole: a complete 2xx answer;
\* blank: a 200 without anything in it; error: a complete answer that is not 2xx;
\* ended: a stream that ends in an error event; cut: a stream that stops;
\* twice: a second response inside a stream; empty: the connection just closes.
Outs == {"nothing", "head", "whole", "blank", "error", "ended", "cut", "twice", "empty", "gone"}
Leg == [at: Proxies \cup {NoProxy}, step: LegSteps, out: Outs]
NoLeg == [at |-> NoProxy, step |-> "none", out |-> "nothing"]
Hops == 1..3   \* leg 3 is never used; it is there so that this can be checked

Serves(p) == alive[p] /\ ~lent[p] /\ backend[p] = "up"
Active(l) == l.step \notin {"none", "done"}

\* A request that already came from another proxy is not forwarded again.
CanFallBackAnyHop(r, i) == Fallback[leg[r][i].at] # NoProxy   \* mutant
CanFallBack(r, i) == Fallback[leg[r][i].at] # NoProxy /\ i = 1

Goes(r, i, step) == leg' = [leg EXCEPT ![r][i].step = step]
LegEnds(r, i, out) == leg' = [leg EXCEPT ![r][i].step = "done", ![r][i].out = out]
Same == UNCHANGED <<machines, arrival, reached>>

------------------------------------------------------------------------------
(* A leg arrives and is routed *)

ChatArrives(r, p) ==
  /\ leg[r][1] = NoLeg /\ alive[p]
  /\ leg' = [leg EXCEPT ![r][1] = [at |-> p, step |-> "route", out |-> "nothing"]]
  /\ guarded' \in {[guarded EXCEPT ![r] = g] : g \in BOOLEAN}
  /\ steady' = [steady EXCEPT ![r] = {q \in Proxies : Serves(q)}]
  /\ UNCHANGED <<machines, reached>>

\* The lease file is looked at: forwarded, or refused at once if it came forwarded.
RouteLent(r, i) ==
  /\ leg[r][i].step = "route" /\ lent[leg[r][i].at] /\ CanFallBack(r, i)
  /\ Goes(r, i, "hard")
  /\ Same
RouteRefuse(r, i) ==
  /\ leg[r][i].step = "route" /\ lent[leg[r][i].at] /\ i > 1
  /\ LegEnds(r, i, "error")
  /\ Same
\* The governor may prefer the fallback (GovernorRoute).
RouteSoft(r, i) ==
  /\ leg[r][i].step = "route" /\ ~lent[leg[r][i].at] /\ CanFallBack(r, i)
  /\ Goes(r, i, "soft")
  /\ Same
RouteLocal(r, i) ==
  /\ leg[r][i].step = "route"
  /\ lent[leg[r][i].at] => ~CanFallBack(r, i) /\ i = 1
  /\ Goes(r, i, "connect")
  /\ Same

------------------------------------------------------------------------------
(* Served by its own backend *)

\* Refused, timed out or unreachable: forwarded, or a 503.
LocalRefused(r, i) ==
  /\ leg[r][i].step = "connect" /\ backend[leg[r][i].at] = "off"
  /\ IF CanFallBack(r, i) THEN Goes(r, i, "hard") ELSE LegEnds(r, i, "error")
  /\ Same
\* Mutant: a loading backend's 503 goes to the client.
LocalLoadingRelayed(r, i) ==
  /\ leg[r][i].step = "connect" /\ backend[leg[r][i].at] = "loading"
  /\ LegEnds(r, i, "error")
  /\ Same
LocalLoading(r, i) ==
  /\ leg[r][i].step = "connect" /\ backend[leg[r][i].at] = "loading"
  /\ IF CanFallBack(r, i) THEN Goes(r, i, "hard") ELSE LegEnds(r, i, "error")
  /\ Same
LocalConnect(r, i) ==
  /\ leg[r][i].step = "connect" /\ backend[leg[r][i].at] = "up"
  /\ Goes(r, i, "read") /\ reached' = [reached EXCEPT ![r] = TRUE]
  /\ UNCHANGED <<machines, arrival>>

\* The backend answers: the head of a stream, or a whole answer, 2xx or not.
LocalHead(r, i) ==
  /\ leg[r][i].step = "read" /\ backend[leg[r][i].at] = "up"
  /\ leg' = [leg EXCEPT ![r][i].step = "stream", ![r][i].out = "head"]
  /\ Same
LocalWhole(r, i) ==
  /\ leg[r][i].step = "read" /\ backend[leg[r][i].at] = "up"
  /\ \E out \in {"whole", "error"} : LegEnds(r, i, out)
  /\ Same
LocalEnds(r, i) ==
  /\ leg[r][i].step = "stream" /\ backend[leg[r][i].at] = "up"
  /\ LegEnds(r, i, "whole")
  /\ Same

\* The backend fails once it has the request (it resets, times out, or its stream
\* just stops): no fallback any more.
LocalFails(r, i) ==
  /\ leg[r][i].step \in {"read", "stream"}
  /\ \E out \in IF leg[r][i].step = "read"
                THEN IF guarded[r] THEN {"error"} ELSE {"error", "blank"}
                ELSE IF guarded[r] THEN {"ended", "cut"} ELSE {"twice", "cut"} :
       LegEnds(r, i, out)
  /\ Same

------------------------------------------------------------------------------
(* Forwarded *)

Forwarding(r, i) == leg[r][i].step \in {"soft", "hard"}
Target(r, i) == Fallback[leg[r][i].at]
Unsent(r, i) == i + 1 \in Hops /\ leg[r][i + 1] = NoLeg

\* It failed: softly, the request is served here after all, unless the client has
\* some of the answer already; hard, the client is told.
ForwardGivesUpTelling(r, i) ==   \* mutant
  IF leg[r][i].out = "nothing" THEN LegEnds(r, i, "error") ELSE LegEnds(r, i, "cut")
ForwardGivesUpServing(r, i) ==   \* mutant
  IF leg[r][i].step = "soft" THEN Goes(r, i, "connect")
  ELSE IF leg[r][i].out = "nothing" THEN LegEnds(r, i, "error") ELSE LegEnds(r, i, "cut")
ForwardGivesUp(r, i) ==
  IF leg[r][i].out # "nothing" THEN LegEnds(r, i, "cut")
  ELSE IF leg[r][i].step = "soft" THEN Goes(r, i, "connect")
  ELSE LegEnds(r, i, "error")

ForwardConnect(r, i) ==
  /\ Forwarding(r, i) /\ Unsent(r, i) /\ alive[Target(r, i)]
  /\ leg' = [leg EXCEPT ![r][i + 1] = [at |-> Target(r, i), step |-> "route", out |-> "nothing"]]
  /\ Same
ForwardRefused(r, i) ==
  /\ Forwarding(r, i) /\ Unsent(r, i) /\ ~alive[Target(r, i)]
  /\ ForwardGivesUp(r, i)
  /\ Same
\* BACKEND_READ_TIMEOUT_SEC passes without a byte from the fallback's backend.
ForwardTimeout(r, i) ==
  /\ Forwarding(r, i) /\ leg[r][i + 1].step \in {"read", "stream"}
  /\ ForwardGivesUp(r, i)
  /\ Same
\* The head of the answer is relayed, if it is one a soft forward takes.
ForwardHead(r, i) ==
  /\ Forwarding(r, i) /\ leg[r][i].out = "nothing" /\ leg[r][i + 1].out = "head"
  /\ leg' = [leg EXCEPT ![r][i].out = "head"]
  /\ Same
\* The fallback's proxy has closed the connection: what it wrote has been relayed,
\* byte for byte.  A connection that closes without a byte is no error to a forward.
ForwardEnd(r, i) ==
  /\ Forwarding(r, i) /\ leg[r][i + 1].step = "done"
  /\ IF leg[r][i].step = "soft" /\ leg[r][i].out = "nothing" /\ leg[r][i + 1].out \in {"error", "empty"}
     THEN Goes(r, i, "connect")
     ELSE LegEnds(r, i, leg[r][i + 1].out)
  /\ Same

------------------------------------------------------------------------------
(* The machines and the clients *)

\* What a leg's client is left with when the proxy that serves it dies.
Broken(l) ==
  [l EXCEPT !.step = "done", !.out = IF l.out = "nothing" THEN "empty" ELSE "cut"]

Steady == steady' = [r \in Chats |-> {p \in steady[r] : Serves(p)'}]

BackendChanges(p) ==
  /\ \E b \in {"off", "loading", "up"} \ {backend[p]} : backend' = [backend EXCEPT ![p] = b]
  /\ UNCHANGED <<lent, alive, crashes, leg, guarded, reached>> /\ Steady
LeaseChanges(p) ==
  /\ lent' = [lent EXCEPT ![p] = ~@]
  /\ UNCHANGED <<backend, alive, crashes, leg, guarded, reached>> /\ Steady
ProxyDies(p) ==
  /\ alive[p] /\ crashes < MaxCrashes
  /\ alive' = [alive EXCEPT ![p] = FALSE] /\ crashes' = crashes + 1
  /\ leg' = [r \in Chats |-> [i \in Hops |->
               IF leg[r][i].at = p /\ Active(leg[r][i]) THEN Broken(leg[r][i]) ELSE leg[r][i]]]
  /\ UNCHANGED <<backend, lent, guarded, reached>> /\ Steady
ProxyStarts(p) ==
  /\ ~alive[p] /\ alive' = [alive EXCEPT ![p] = TRUE]
  /\ UNCHANGED <<backend, lent, crashes, leg, arrival, reached>>

\* A client that leaves, and a leg whose client, the leg before it, is over: the
\* next write to it fails.
ChatLeaves(r) ==
  /\ Active(leg[r][1]) /\ LegEnds(r, 1, "gone")
  /\ Same
LegOrphaned(r, i) ==
  /\ i > 1 /\ Active(leg[r][i]) /\ leg[r][i - 1].step \notin {"soft", "hard"}
  /\ LegEnds(r, i, "gone")
  /\ Same

------------------------------------------------------------------------------
RouteInit ==
  /\ backend \in [Proxies -> {"off", "up"}]
  /\ lent = [p \in Proxies |-> FALSE]
  /\ alive = [p \in Proxies |-> TRUE]
  /\ leg = [r \in Chats |-> [i \in Hops |-> NoLeg]]
  /\ guarded = [r \in Chats |-> FALSE]
  /\ steady = [r \in Chats |-> {}]
  /\ reached = [r \in Chats |-> FALSE]
  /\ crashes = 0

Route(r, i) == RouteLent(r, i) \/ RouteRefuse(r, i) \/ RouteSoft(r, i) \/ RouteLocal(r, i)
Local(r, i) ==
  \/ LocalRefused(r, i) \/ LocalLoading(r, i) \/ LocalConnect(r, i)
  \/ LocalHead(r, i) \/ LocalWhole(r, i) \/ LocalEnds(r, i) \/ LocalFails(r, i)
Forward(r, i) ==
  \/ ForwardConnect(r, i) \/ ForwardRefused(r, i) \/ ForwardTimeout(r, i)
  \/ ForwardHead(r, i) \/ ForwardEnd(r, i)
Serve(r, i) == Route(r, i) \/ Local(r, i) \/ Forward(r, i) \/ LegOrphaned(r, i)

RouteNext ==
  \/ \E r \in Chats, p \in Proxies : ChatArrives(r, p)
  \/ \E r \in Chats, i \in {1, 2} : Serve(r, i)
  \/ \E p \in Proxies : BackendChanges(p) \/ LeaseChanges(p) \/ ProxyDies(p) \/ ProxyStarts(p)
  \/ \E r \in Chats : ChatLeaves(r)

RouteSpec == RouteInit /\ [][RouteNext]_routeVars
\* A handler thread goes on; a backend that has a request answers or times out.
RouteFairSpec == RouteSpec /\ \A r \in Chats, i \in {1, 2} : WF_routeVars(Serve(r, i))

------------------------------------------------------------------------------
(* Properties *)

RouteTypeOK ==
  /\ backend \in [Proxies -> {"off", "loading", "up"}]
  /\ lent \in [Proxies -> BOOLEAN] /\ alive \in [Proxies -> BOOLEAN]
  /\ leg \in [Chats -> [Hops -> Leg]]
  /\ \A r \in Chats, i \in Hops : leg[r][i].step = "none" => leg[r][i] = NoLeg
  /\ guarded \in [Chats -> BOOLEAN] /\ reached \in [Chats -> BOOLEAN]
  /\ steady \in [Chats -> SUBSET Proxies]
  /\ crashes \in 0..MaxCrashes

\* Two proxies that are each other's fallback do not forward a request in circles.
OneHop == \A r \in Chats : leg[r][2].step \notin {"soft", "hard"} /\ leg[r][3] = NoLeg

\* An error that no backend gave reaches the client only if neither its own
\* machine nor the fallback could serve all the while.
ErrorMeansNobody ==
  \A r \in Chats :
    leg[r][1].out = "error" /\ ~reached[r] =>
      steady[r] \cap {leg[r][1].at, Fallback[leg[r][1].at]} = {}

\* The client's reply comes from one backend: once some of the fallback's answer
\* is out, the request is not served here too.
OneAnswer ==
  \A r \in Chats : leg[r][1].step \in {"connect", "read"} => leg[r][1].out = "nothing"

\* A soft forward that fails costs nothing: while its proxy lives it never ends a
\* request with an error, or with no answer at all.
SoftNeverFails ==
  [][\A r \in Chats :
       leg[r][1].step = "soft" /\ leg'[r][1].out \in {"error", "empty"} => ~alive'[leg[r][1].at]]_routeVars

\* Every request is over at some time.
Answered == \A r \in Chats : leg[r][1].step = "route" ~> leg[r][1].step = "done"

\* "Otherwise the request has been answered, one way or the other": a hard forward
\* of a proxy that lives gives its client an answer.
ForwardAnswers ==
  [][\A r \in Chats : leg[r][1].step = "hard" /\ leg'[r][1].out = "empty" => ~alive'[leg[r][1].at]]_routeVars

\* "It never turns a request this machine could serve into an error": also not into
\* the fallback's.
SoftKeepsReplies ==
  [][\A r \in Chats :
       leg[r][1].step = "soft" /\ leg'[r][1].step = "done" /\ leg[r][1].at \in steady'[r] =>
         leg'[r][1].out \notin {"error", "ended", "twice"}]_routeVars
=============================================================================
