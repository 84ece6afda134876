------------------------------ MODULE Control -------------------------------
(***************************************************************************)
(* The manager's hand on the stack: the env file its config routes rewrite *)
(* (read whole, changed, written whole), the units and the settings each   *)
(* was launched with, the saved profile, the operator's expectations, the  *)
(* verdict the health page gives of a unit, and the boot script that reads *)
(* all of them.                                                            *)
(***************************************************************************)
EXTENDS Naturals, FiniteSets

CONSTANTS
  Clients,        \* who makes requests, one at a time each
  Editable,       \* the settings they save
  ActedOn,        \* the units they start, stop and restart
  MaxRequests,    \* bound: requests of all of them
  Chosen,         \* the components the wizard selected, as units
  MaxDeaths,      \* bound: units that die on their own
  MaxReboots,     \* bound: reboots of the host
  Stopped, Failed,\* a unit that runs with no settings
  Nothing         \* no profile, no request, no settings read

ASSUME ControlAssumption == MaxRequests \in Nat /\ MaxDeaths \in Nat /\ MaxReboots \in Nat

VARIABLES
  conf,           \* config/llm-stack.env: setting -> value
  unit,           \* unit -> the settings it runs with, Stopped or Failed
  expect,         \* config/service-expectations.json: unit -> "on", "off", "auto"
  profile,        \* the saved profile that is also the default
  req,            \* client -> its request
  seen, flap,     \* RestartTracker: the last count polled, the units flapping
  count,          \* the service manager's restart count of each unit
  asked, deaths, reboots, \* bounds
  said,           \* history: the operator's last answered word on each unit
  told,           \* history: named in restart_needed since their last launch
  dropped,        \* history: left out of it by an apply that launches
  kept            \* history: what a save under If-Match was told is written

controlVars == <<conf, unit, expect, profile, req, seen, flap, count, asked,
                 deaths, reboots, said, told, dropped, kept>>

Chat == {"llm-a", "llm-b"}
Units == Chat \cup {"llm-a-proxy", "embed", "llama-router"}
Settings == {"LLM_A", "LLM_B", "CODE", "EMBED", "ROUTER"}
Down == {Stopped, Failed}
Running(u) == unit[u] \notin Down

RouterOn(c) == c["ROUTER"] = 1
\* The one member of this model's pool is the embedding model.
Pooled(c) == IF RouterOn(c) THEN {"embed"} ELSE {}
\* What a unit's launcher reads: the router renders its members' settings.
Reads == [u \in Units |->
            CASE u = "llm-a" -> {"LLM_A"} [] u = "llm-b" -> {"LLM_B"}
              [] u = "llm-a-proxy" -> {"CODE"} [] u = "embed" -> {"EMBED"}
              [] u = "llama-router" -> {"ROUTER", "EMBED"}]
Launched(u, c) == [k \in Reads[u] |-> c[k]]
Stale(u) == Running(u) /\ unit[u] # Launched(u, conf)

\* RESTART_HINTS, pointed at the router for the models it owns.
Hints(k) == CASE k = "LLM_A" -> {"llm-a"} [] k = "LLM_B" -> {"llm-b"}
              [] k = "CODE" -> {"llm-a-proxy"} \cup Chat
              [] k = "EMBED" -> {"embed"} [] k = "ROUTER" -> {"llama-router"}
\* Mutant: the pooled unit is dropped and the router is not named.
RestartForgetsRouter(ks, c) == UNION {Hints(k) : k \in ks} \ Pooled(c)
RestartNeeded(ks, c) ==
  LET named == UNION {Hints(k) : k \in ks}
  IN  IF named \cap Pooled(c) = {} THEN named
      ELSE (named \ Pooled(c)) \cup {"llama-router"}
\* apply_code_chat_mirrors: the slot takes the code setting it is not given.
Mirrored(ups) ==
  IF "CODE" \in DOMAIN ups /\ "LLM_A" \notin DOMAIN ups
    THEN [k \in DOMAIN ups \cup {"LLM_A"} |-> IF k = "LLM_A" THEN ups["CODE"] ELSE ups[k]]
    ELSE ups

\* A unit that dies is launched again, from the file as it is then, or stays
\* failed; a unit the operator starts or stops loses its count.
Fresh(us) == /\ told' = told \ us
             /\ dropped' = dropped \ us
             /\ count' = [u \in Units |-> IF u \in us THEN 0 ELSE count[u]]

DisabledByFlag(u) == u = "llama-router" /\ ~RouterOn(conf)
Expectation(u) == IF DisabledByFlag(u) \/ u \in Pooled(conf) THEN "off" ELSE expect[u]
\* health.collect, for the unit's own state.
Verdict(u) ==
  IF u \in flap \/ unit[u] = Failed THEN "failed"
  ELSE IF Running(u) THEN "active"
  ELSE IF Expectation(u) = "on" THEN "inactive" ELSE "stopped"

\* Mutant: the expectation is read for what was selected only after it.
BootIgnoresOff(c) ==
  LET wanted == Chosen \cup {u \in Units : expect[u] = "on"}
                \cup (IF RouterOn(c) THEN {"llama-router"} ELSE {})
  IN  {u \in wanted : /\ u \in Chosen \/ expect[u] # "off"
                      /\ u \notin Pooled(c)
                      /\ u = "llama-router" => RouterOn(c)}
\* boot_units: the selection and the expectations, less what is switched off,
\* pooled, or behind a feature that is off.
BootUnits(c) ==
  LET wanted == Chosen \cup {u \in Units : expect[u] = "on"}
                \cup (IF RouterOn(c) THEN {"llama-router"} ELSE {})
  IN  {u \in wanted : /\ expect[u] # "off"
                      /\ u \notin Pooled(c)
                      /\ u = "llama-router" => RouterOn(c)}

ControlInit ==
  /\ conf \in {[k \in Settings |-> IF k = "ROUTER" THEN r ELSE 0] : r \in 0..1}
  /\ expect = [u \in Units |-> "auto"]
  /\ unit = [u \in Units |-> IF u \in BootUnits(conf) THEN Launched(u, conf) ELSE Stopped]
  /\ profile = Nothing
  /\ req = [r \in Clients |-> Nothing]
  /\ seen = [u \in Units |-> Nothing] /\ flap = {} /\ count = [u \in Units |-> 0]
  /\ asked = 0 /\ deaths = 0 /\ reboots = 0
  /\ said = expect /\ told = {} /\ dropped = {} /\ kept = [k \in Settings |-> Nothing]
-----------------------------------------------------------------------------
At(r, where) == req[r] # Nothing /\ req[r].at = where
Is(r, kind) == req[r].kind = kind
Goes(r, to) == req' = [req EXCEPT ![r] = to]
Answered(r) == Goes(r, Nothing)
Asks(r) == req[r] = Nothing /\ asked < MaxRequests /\ asked' = asked + 1

AskedFor(r, to) == /\ Asks(r) /\ Goes(r, to)
                   /\ UNCHANGED <<kept, conf, unit, expect, profile, seen, flap, count, deaths,
                                  reboots, said, told, dropped>>
WriteReq(at, kind, ups, had, act) == [at |-> at, kind |-> kind, ups |-> ups, had |-> had, act |-> act]
Rewrite(kind, ups, act) == WriteReq("read", kind, Mirrored(ups), Nothing, act)
WriteAt(r, at, had) == WriteReq(at, req[r].kind, req[r].ups, had, req[r].act)

\* perform_config_save, when the budget lets the values pass or is overruled.
AskSave(r) == \E k \in Editable : AskedFor(r, Rewrite("save", [x \in {k} |-> 1 - conf[k]], Nothing))
\* api_switch: another model for the primary slot.
AskSwitch(r) == AskedFor(r, Rewrite("switch", [x \in {"LLM_A"} |-> 1 - conf["LLM_A"]], Nothing))
\* apply_saved_config, with and without the launch.
AskApply(r) == profile # Nothing /\ \E launch \in BOOLEAN :
                 AskedFor(r, Rewrite(IF launch THEN "launch" ELSE "save", profile.values, profile))

\* api_control_v1_config_save under If-Match: the page is read, with its etag,
\* and the save is let through if the values are still those.
AskMatched(r) == \E k \in Editable :
  AskedFor(r, WriteReq("page", "matched", [x \in {k} |-> 1 - conf[k]], conf, Nothing))
IfMatch(r) ==
  /\ At(r, "page")
  /\ IF req[r].had = conf THEN Goes(r, WriteAt(r, "read", Nothing)) ELSE Answered(r)
  /\ UNCHANGED <<kept, asked, conf, unit, expect, profile, seen, flap, count, deaths, reboots, said, told, dropped>>

\* update_env_values: the whole file is read, and later written.
EnvRead(r) ==
  /\ At(r, "read") /\ Goes(r, WriteAt(r, "write", conf))
  /\ UNCHANGED <<kept, asked, conf, unit, expect, profile, seen, flap, count, deaths, reboots, said, told, dropped>>
EnvWrite(r) ==
  /\ At(r, "write") /\ Goes(r, WriteAt(r, "after", Nothing))
  /\ conf' = [k \in Settings |-> IF k \in DOMAIN req[r].ups THEN req[r].ups[k] ELSE req[r].had[k]]
  /\ kept' = [k \in Settings |-> IF k \notin DOMAIN req[r].ups THEN kept[k]
                                 ELSE IF Is(r, "matched") THEN req[r].ups[k] ELSE Nothing]
  /\ UNCHANGED <<asked, unit, expect, profile, seen, flap, count, deaths, reboots, said, told, dropped>>

\* What the answer names: the units that run now and read what was written.
NeedingRestart(r) == {u \in RestartNeeded(DOMAIN req[r].ups, conf) : Running(u)}
SaveAnswers(r) ==
  /\ At(r, "after") /\ req[r].kind \in {"save", "matched"} /\ Answered(r)
  /\ told' = told \cup NeedingRestart(r)
  /\ UNCHANGED <<kept, asked, conf, unit, expect, profile, seen, flap, count, deaths, reboots, said, dropped>>

\* The unit is restarted, and the proxy, which asks the unit what it is.
SwitchRestarts(r) ==
  /\ At(r, "after") /\ Is(r, "switch") /\ Answered(r)
  /\ LET us == {"llm-a", "llm-a-proxy"} IN
     \E fails \in SUBSET {"llm-a"} :
       /\ unit' = [u \in Units |-> IF u \in fails THEN Failed
                                   ELSE IF u \in us THEN Launched(u, conf) ELSE unit[u]]
       /\ Fresh(us)
  /\ UNCHANGED <<kept, asked, conf, expect, profile, seen, flap, deaths, reboots, said>>

\* The rest of an apply that launches.  The primary slot is restarted if the
\* profile saw it active; the other units are started and stopped, not
\* restarted, and recorded; and the answer names neither chat slot nor proxy.
Others == Units \ ({"llm-a", "llm-a-proxy"} \cup Pooled(conf))
Stops(p) == {u \in Others \ p.services : Running(u)}
Starts(p) == (IF p.chat THEN {"llm-a"} ELSE {})
             \cup {u \in {"llm-a-proxy"} \cup (Others \cap p.services) : ~Running(u)}

\* The slot does not come up: answered at once.
SlotStaysDown(r, p) ==
  /\ p.chat
  /\ unit' = [u \in Units |-> IF u = "llm-a" THEN Failed
                              ELSE IF u = "llm-a-proxy" /\ ~Running(u)
                                     THEN Launched(u, conf) ELSE unit[u]]
  /\ told' = (told \cup NeedingRestart(r)) \ {"llm-a"}
  /\ dropped' = dropped \ {"llm-a"}
  /\ UNCHANGED <<expect, said, count>>

AllAreLaunched(r, p) ==
  LET starts == Starts(p)  moved == starts \cup Stops(p)  left == {"llm-a-proxy"} \cup Chat IN
  /\ \E fails \in SUBSET (starts \cap (Others \cup {"llm-a-proxy"})) :
       unit' = [u \in Units |-> IF u \in fails THEN Failed
                               ELSE IF u \in starts THEN Launched(u, conf)
                               ELSE IF u \in moved THEN Stopped ELSE unit[u]]
  /\ expect' = [u \in Units |-> IF u \notin Others THEN expect[u]
                                ELSE IF u \in p.services THEN "on" ELSE "off"]
  /\ said' = [u \in Units |-> IF u \in Others THEN expect'[u] ELSE said[u]]
  /\ told' = (told \cup (NeedingRestart(r) \ left)) \ moved
  /\ dropped' = (dropped \cup (NeedingRestart(r) \cap left)) \ moved
  /\ count' = [u \in Units |-> IF u \in moved THEN 0 ELSE count[u]]

ApplyLaunches(r) ==
  /\ At(r, "after") /\ Is(r, "launch") /\ Answered(r)
  /\ SlotStaysDown(r, req[r].act) \/ AllAreLaunched(r, req[r].act)
  /\ UNCHANGED <<kept, asked, conf, profile, seen, flap, deaths, reboots>>
-----------------------------------------------------------------------------
Act(at, kind, u, had) == [at |-> at, kind |-> kind, unit |-> u, had |-> had]
\* perform_service_action: what the router owns is refused.
AskAction(r) ==
  \E u \in ActedOn, act \in {"start", "stop", "restart"} :
    /\ u \notin Pooled(conf)
    /\ AskedFor(r, Act("act", act, u, Nothing))

\* The service manager does it, or does not.
ActionRuns(r) ==
  /\ At(r, "act")
  /\ LET u == req[r].unit act == req[r].kind
         launches == act = "restart" \/ (act = "start" /\ ~Running(u)) IN
     \/ /\ unit' = [unit EXCEPT ![u] = IF act = "stop" THEN Stopped
                                       ELSE IF launches THEN Launched(u, conf) ELSE @]
        /\ IF act = "stop" \/ launches THEN Fresh({u}) ELSE UNCHANGED <<told, dropped, count>>
        /\ Goes(r, Act("recording", act, u, Nothing))
     \/ /\ unit' = IF act = "stop" THEN unit
                   ELSE [unit EXCEPT ![u] = IF launches THEN Failed ELSE @]
        /\ launches \/ act = "stop"
        /\ Answered(r) /\ UNCHANGED <<told, dropped, count>>
  /\ UNCHANGED <<kept, asked, conf, expect, profile, seen, flap, deaths, reboots, said>>

\* Mutant: only a start says the unit is to be up.
WordOnlyStart(act) == IF act = "start" THEN "on" ELSE "off"
Word(act) == IF act = "stop" THEN "off" ELSE "on"
\* record_service_expectation: the tracker forgets the unit, and the file is
\* read whole and written whole, without a lock.
RecordReads(r) ==
  /\ At(r, "recording")
  /\ Goes(r, Act("recorded", req[r].kind, req[r].unit, expect))
  /\ seen' = [seen EXCEPT ![req[r].unit] = Nothing] /\ flap' = flap \ {req[r].unit}
  /\ UNCHANGED <<kept, asked, conf, unit, expect, profile, count, deaths, reboots, said, told, dropped>>
RecordWrites(r) ==
  /\ At(r, "recorded") /\ Answered(r)
  /\ LET u == req[r].unit IN
     /\ expect' = [req[r].had EXCEPT ![u] = Word(req[r].kind)]
     /\ said' = [said EXCEPT ![u] = IF req[r].kind = "stop" THEN "off" ELSE "on"]
  /\ UNCHANGED <<kept, asked, conf, unit, profile, seen, flap, count, deaths, reboots, told, dropped>>

\* api_service_expect: the word alone.
Expect(r) ==
  /\ Asks(r) /\ Answered(r)
  /\ \E u \in ActedOn, word \in {"on", "off", "auto"} :
       expect' = [expect EXCEPT ![u] = word] /\ said' = [said EXCEPT ![u] = word]
  /\ UNCHANGED <<kept, conf, unit, profile, seen, flap, count, deaths, reboots, told, dropped>>

\* api_saved_configs_save, made the default: the file and what is active.
SaveProfile(r) ==
  /\ Asks(r) /\ Answered(r)
  /\ profile' = [values |-> conf, chat |-> Running("llm-a"),
                 services |-> {u \in Units \ {"llm-a", "llm-a-proxy"} : Running(u)}]
  /\ UNCHANGED <<kept, conf, unit, expect, seen, flap, count, deaths, reboots, said, told, dropped>>

\* update_llamacpp_and_restart_active_services, once the build is there.
UpdateLlama(r) ==
  /\ Asks(r) /\ Answered(r)
  /\ LET us == {u \in Chat \cup {"embed", "llm-a-proxy"} : Running(u)}
     IN \E fails \in SUBSET us :
          /\ unit' = [u \in Units |-> IF u \in fails THEN Failed
                                      ELSE IF u \in us THEN Launched(u, conf) ELSE unit[u]]
          /\ Fresh(us)
  /\ UNCHANGED <<kept, conf, expect, profile, seen, flap, deaths, reboots, said>>
-----------------------------------------------------------------------------
UnitDies(u) ==
  /\ Running(u) /\ deaths < MaxDeaths
  /\ deaths' = deaths + 1
  /\ \/ unit' = [unit EXCEPT ![u] = Failed] /\ UNCHANGED count
     \/ unit' = [unit EXCEPT ![u] = Stopped] /\ UNCHANGED count
     \/ unit' = [unit EXCEPT ![u] = Launched(u, conf)] /\ count' = [count EXCEPT ![u] = @ + 1]
  /\ told' = told \ {u} /\ dropped' = dropped \ {u}
  /\ UNCHANGED <<kept, asked, conf, expect, profile, req, seen, flap, reboots, said>>

\* RestartTracker.observe, on every status poll.
Poll ==
  /\ flap' = {u \in Units : seen[u] # Nothing /\ count[u] > seen[u]}
             \cup {u \in flap : seen[u] = Nothing}
  /\ seen' = count
  /\ UNCHANGED <<kept, asked, conf, unit, expect, profile, req, count, deaths, reboots, said, told, dropped>>

\* The host comes up: the default profile is written into the env file, the
\* units named are started, and the manager, started anew, knows no restarts.
Reboot ==
  /\ reboots < MaxReboots /\ reboots' = reboots + 1
  /\ \A r \in Clients : req[r] = Nothing
  /\ conf' = IF profile = Nothing THEN conf
             ELSE [k \in Settings |-> Mirrored(profile.values)[k]]
  /\ \E fails \in SUBSET BootUnits(conf') :
       unit' = [u \in Units |-> IF u \in fails THEN Failed
                                ELSE IF u \in BootUnits(conf') THEN Launched(u, conf') ELSE Stopped]
  /\ seen' = [u \in Units |-> Nothing] /\ flap' = {} /\ count' = [u \in Units |-> 0]
  /\ told' = {} /\ dropped' = {} /\ kept' = [k \in Settings |-> Nothing]
  /\ UNCHANGED <<asked, expect, profile, req, deaths, said>>

Request(r) == \/ AskSave(r) \/ AskMatched(r) \/ IfMatch(r) \/ AskSwitch(r) \/ AskApply(r) \/ AskAction(r)
              \/ EnvRead(r) \/ EnvWrite(r) \/ SaveAnswers(r) \/ SwitchRestarts(r)
              \/ ApplyLaunches(r) \/ ActionRuns(r) \/ RecordReads(r) \/ RecordWrites(r)
              \/ Expect(r) \/ SaveProfile(r) \/ UpdateLlama(r)
ControlNext == (\E r \in Clients : Request(r)) \/ (\E u \in Units : UnitDies(u)) \/ Poll \/ Reboot
ControlSpec == ControlInit /\ [][ControlNext]_controlVars
-----------------------------------------------------------------------------
Writing(r) == At(r, "after")
(* A unit that runs with settings the file no longer holds has been named  *)
(* to a client as needing a restart since it was launched, by the answer   *)
(* of a save, a switch or an apply, unless the answer is still to come or  *)
(* an apply that launches left the chat slots and the proxy out of it.     *)
NamedOrDropped == \A u \in Units \ Pooled(conf) :
                    Stale(u) => u \in told \cup dropped \/ \E r \in Clients : Writing(r)
(* (Does not hold.)                                                      *)
(* config_fields.py: a save names the services a key's value reaches.      *)
(* With the applies that launch: the slots left out of the answer too.     *)
StaleIsNamed == \A u \in Units \ Pooled(conf) :
                  Stale(u) => u \in told \/ \E r \in Clients : Writing(r)
(* A unit the operator switched on and that went down is never shown as    *)
(* stopped on purpose, unless the router or a feature switch holds it.     *)
DownIsNotStopped == \A u \in Units :
                      Verdict(u) = "stopped" /\ said[u] = "on" => DisabledByFlag(u) \/ u \in Pooled(conf)
(* The host's start leaves down every unit the operator last switched off, *)
(* and never gives a pooled model two owners.                              *)
BootObeys == [][reboots' # reboots =>
                  \A u \in Units : unit'[u] \notin Down =>
                    said[u] # "off" /\ u \notin Pooled(conf')]_controlVars
(* (Does not hold.)                                                      *)
(* docs/control-api.md: If-Match guards against a concurrent write.  What  *)
(* a save under it wrote stays until someone else sets the same key.       *)
MatchedSaveStays == \A k \in Settings : kept[k] # Nothing => conf[k] = kept[k]
=============================================================================
