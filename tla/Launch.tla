------------------------------- MODULE Launch -------------------------------
(***************************************************************************)
(* How a unit's command is made out of the configuration                   *)
(* (src/web/backends, start-backend.sh, start-proxy.sh), how the model     *)
(* router's preset is made out of the same keys                            *)
(* (src/scripts/render-models-ini.py), and which units a save of the       *)
(* configuration names as needing a restart (RESTART_HINTS).               *)
(*                                                                         *)
(* The keys here are representatives: one plain flag, one toggle of each   *)
(* kind and every key that is decided by more than its own value.  "" is a *)
(* key that is not set, or an option that is not on the command line.      *)
(***************************************************************************)
EXTENDS Naturals, Sequences, FiniteSets, TLC

CONSTANTS Os,          \* "linux" or "darwin"
          SettingValues,     \* a record: the keys, and the values a save may give each
          ShippedEnv,     \* a record: the values the installation starts with
          Hybrid,      \* the task model has recurrent layers
          MaxSettings  \* a bound: how often the configuration is written

ASSUME LaunchAssumption ==
  /\ Os \in {"linux", "darwin"} /\ Hybrid \in BOOLEAN /\ MaxSettings \in Nat
  /\ DOMAIN SettingValues = DOMAIN ShippedEnv

VARIABLES settings,  \* llm-stack.env
          running,   \* what each unit was started with: {} nothing, or one record
          toldOf,      \* the units the answers since named, each until it restarts
          writes     \* how often settings were written

launchVars == <<settings, running, toldOf, writes>>

LaunchUnits == {"llm-a", "llm-a-proxy", "task", "llama-router"}

(* Flag and Toggle: a key's value or its default; a flag given when a key    *)
(* says so, or its negation, or nothing.                                     *)
Or(value, default) == IF value = "" THEN default ELSE value

(* Options over others: what both name is taken from the first.            *)
Over(first, others) ==
  [option \in DOMAIN first \cup DOMAIN others |->
     IF option \in DOMAIN first THEN first[option] ELSE others[option]]

Toggled(value, when, otherwise) == IF Or(value, when) = when THEN when ELSE otherwise

(* lookup: the first of several keys that is set *)
FirstSet(s, keys, default) ==
  LET set == SelectSeq(keys, LAMBDA k : s[k] # "")
  IN IF set = <<>> THEN default ELSE s[set[1]]

-----------------------------------------------------------------------------
(***************************************************************************)
(* The task unit: llamacpp.build over the slot's flags, toggles and tail.  *)
(***************************************************************************)

(* Arguments an operator typed (TASK_CUSTOM_ARGS_JSON), by name: the argv   *)
(* tokens they become, as options, and the preset keys the same text        *)
(* becomes.  "seed" is `--seed -1`: the preset's reader takes the minus for *)
(* the start of a flag.  "broken" is text that is not JSON.                 *)
NoOptions == [option \in {} |-> ""]

ArgvOfCustom == [none |-> NoOptions, broken |-> NoOptions, ctx |-> [ctx_size |-> "4096"],
                 fit |-> [fit |-> "off"], lora |-> [lora |-> "theirs"],
                 seed |-> [seed |-> "-1"], template |-> [template_file |-> "theirs"]]

PresetOfCustom == [ArgvOfCustom EXCEPT !.seed = [seed |-> "true"]]

(* A GGUF whose layers are all attention may be split by tensor; a hybrid    *)
(* one falls back, as does a unit that has flash attention off (the preset   *)
(* does not look), and no CUDA build splits by row.                          *)
UnitSplit(s) ==
  CASE Os = "darwin" -> "none"
    [] s.TASK_SPLIT_MODE = "tensor" /\ s.TASK_FLASH_ATTN # "off" /\ ~Hybrid -> "tensor"
    [] s.TASK_SPLIT_MODE = "none" -> "none"
    [] OTHER -> "layer"

PresetSplit(s) ==
  CASE s.TASK_SPLIT_MODE = "row" -> "layer"
    [] s.TASK_SPLIT_MODE = "tensor" /\ Hybrid -> "layer"
    [] OTHER -> s.TASK_SPLIT_MODE

Devices == "1,1"

UnitTensorSplit(s) ==
  IF Os = "darwin" \/ UnitSplit(s) = "tensor" THEN ""
  ELSE IF s.TASK_TENSOR_SPLIT = "auto" THEN Devices ELSE s.TASK_TENSOR_SPLIT

LoadMode(s) ==
  IF s.TASK_MLOCK = "true" THEN "mlock" ELSE IF s.TASK_NO_MMAP = "true" THEN "none" ELSE ""

UnitFitCtx(s) ==
  IF s.TASK_FIT_CTX \in {"", "0"} \/ s.TASK_FIT = "off" THEN "" ELSE s.TASK_FIT_CTX

UnitCacheReuse(s) == IF s.TASK_CACHE_REUSE = "0" THEN "" ELSE s.TASK_CACHE_REUSE

(* The chat template's arguments: thinking on or off, and how hard. *)
UnitKwargs(s) == IF s.TASK_THINKING # "on" THEN "off" ELSE Or(s.TASK_REASONING_EFFORT, "on")

PresetKwargs(s) ==
  CASE s.TASK_THINKING = ""    -> ""
    [] s.TASK_THINKING = "off" -> "off"
    [] OTHER                   -> Or(s.TASK_REASONING_EFFORT, "on")

(* Speculative decoding: some kinds need a draft model and refuse without. *)
NeedsDraft(s) == s.TASK_SPEC_METHOD = "draft-dflash"

Spec_type(s) == IF s.TASK_SPEC_METHOD = "off" THEN "" ELSE s.TASK_SPEC_METHOD

(* The unit does not start: a template or a draft model that is not there. *)
UnitRefuses(s) ==
  \/ s.TASK_CHAT_TEMPLATE_ID = "missing" /\ s.TASK_CUSTOM # "template"
  \/ NeedsDraft(s) /\ s.TASK_SPEC_DRAFT_MODEL_PATH = ""

TaskFallbacks == [ctx_size |-> "32000", cache_type_k |-> "q8_0", fit |-> "on"]

UnitFlags(s) ==
  [ctx_size      |-> Or(s.TASK_CTX_SIZE, TaskFallbacks.ctx_size),
   cache_type_k  |-> Or(s.TASK_CACHE_TYPE_K, TaskFallbacks.cache_type_k),
   fit           |-> Or(s.TASK_FIT, TaskFallbacks.fit),
   metrics       |-> Toggled(s.TASK_METRICS, "on", ""),
   log_prefix    |-> Toggled(s.TASK_LOG_PREFIX, "true", ""),
   kv_offload    |-> Toggled(s.TASK_KV_OFFLOAD, "on", "off"),
   jinja         |-> IF s.TASK_JINJA = "on" THEN "on" ELSE "",
   swa_full      |-> IF s.TASK_SWA_FULL = "on" THEN "on" ELSE "",
   load_mode     |-> LoadMode(s),
   split_mode    |-> UnitSplit(s),
   tensor_split  |-> UnitTensorSplit(s),
   main_gpu      |-> IF Os = "darwin" \/ UnitSplit(s) = "tensor" THEN "" ELSE s.TASK_MAIN_GPU,
   fit_ctx       |-> UnitFitCtx(s),
   cache_reuse   |-> UnitCacheReuse(s),
   kwargs        |-> UnitKwargs(s),
   template_file |-> s.TASK_CHAT_TEMPLATE_ID,
   lora_scaled   |-> IF s.TASK_CUSTOM = "lora" THEN "" ELSE s.TASK_LORA_PATHS,
   spec_type     |-> Spec_type(s),
   sleep_idle    |-> s.TASK_SLEEP_IDLE_SECONDS]

(* The arguments typed by the operator come last, and what they name by     *)
(* themselves (an adapter, a template) is not given a second time.          *)
UnitOptions(s) == Over(ArgvOfCustom[s.TASK_CUSTOM], UnitFlags(s))

-----------------------------------------------------------------------------
(***************************************************************************)
(* The router's preset, from the same keys (render_member, render).        *)
(***************************************************************************)

PresetKeepsFitCtx(s) == s.TASK_FIT_CTX   \* mutant: a context floor without auto-fit

PresetFitCtx(s) == IF s.TASK_FIT_CTX = "0" \/ s.TASK_FIT = "off" THEN "" ELSE s.TASK_FIT_CTX

PresetRefuses(s) == s.TASK_CHAT_TEMPLATE_ID = "missing" \/ s.TASK_CUSTOM = "broken"

PresetLines(s) ==
  LET tensor == PresetSplit(s) = "tensor" IN
  [ctx_size      |-> s.TASK_CTX_SIZE,
   cache_type_k  |-> s.TASK_CACHE_TYPE_K,
   fit           |-> s.TASK_FIT,
   metrics       |-> s.TASK_METRICS,
   log_prefix    |-> s.TASK_LOG_PREFIX,
   kv_offload    |-> s.TASK_KV_OFFLOAD,
   jinja         |-> s.TASK_JINJA,
   swa_full      |-> s.TASK_SWA_FULL,
   load_mode     |-> LoadMode(s),
   split_mode    |-> PresetSplit(s),
   tensor_split  |-> IF tensor \/ s.TASK_TENSOR_SPLIT = "auto" THEN "" ELSE s.TASK_TENSOR_SPLIT,
   main_gpu      |-> IF tensor THEN "" ELSE s.TASK_MAIN_GPU,
   fit_ctx       |-> PresetFitCtx(s),
   cache_reuse   |-> UnitCacheReuse(s),
   kwargs        |-> PresetKwargs(s),
   template_file |-> s.TASK_CHAT_TEMPLATE_ID,
   lora_scaled   |-> s.TASK_LORA_PATHS,
   spec_type     |-> "",
   sleep_idle    |-> ""]

PresetOptions(s) == Over(PresetOfCustom[s.TASK_CUSTOM], PresetLines(s))

(* A toggle that only has a flag for "on" is "off" in a server that was not  *)
(* given it; `jinja` is the other way round.                                 *)
ServerDefault(option) ==
  CASE option = "jinja" -> "on"
    [] option \in {"metrics", "swa_full"} -> "off"
    [] option = "log_prefix" -> "false"
    [] OTHER -> ""

(* Which models are pooled: a switch of their own, or the default four. *)
PoolOwns(s) == {"EMBED"} \cup (IF s.TASK_POOLED = "off" THEN {} ELSE {"TASK"})

MemberName(s, m) == IF m = "EMBED" THEN "embed" ELSE Or(s.TASK_MODEL_NAME, "task")

WantsEager(s, m) ==
  "on" = (IF m = "EMBED" THEN s.EMBED_LOAD_ON_STARTUP ELSE s.TASK_LOAD_ON_STARTUP)

Rendered(s) == {m \in PoolOwns(s) : m = "TASK" => ~PresetRefuses(s)}

(* Of two members with one name the first is kept. *)
Members(s) == {m \in Rendered(s) : m = "TASK" => MemberName(s, "TASK") # "embed"}

RouterMax(s) == IF s.MODEL_ROUTER_MAX = "1" THEN 1 ELSE 2

EagerUncapped(s) == {m \in Members(s) : WantsEager(s, m)}   \* mutant: no cap

(* Loaded with the router: the first RouterMax of those that ask for it. *)
Eager(s) ==
  LET asking == {m \in Members(s) : WantsEager(s, m)}
  IN IF Cardinality(asking) <= RouterMax(s) THEN asking ELSE asking \ {"TASK"}

-----------------------------------------------------------------------------
(***************************************************************************)
(* The chat slot: which engine serves it, what that engine refuses, and    *)
(* what the proxy in front of it is told about it.                         *)
(***************************************************************************)

Engine(s) ==
  CASE s.LLM_A_ENGINE # "auto"           -> s.LLM_A_ENGINE
    [] s.LLM_A_MODEL_PATH = "a pack"     -> "mtplx"
    [] s.LLM_A_MODEL_PATH = "x.ninfer"   -> "ninfer"
    [] OTHER                             -> "llamacpp"

Alias(s) == FirstSet(s, <<"LLM_A_MODEL_NAME", "CHAT_PRIMARY_MODEL_NAME">>, "chat-dense")

Loopback(s) == s.CHAT_BACKEND_HOST \in {"", "127.0.0.1"}

MtplxTakes(s)  == Os = "darwin" /\ s.LLM_A_MODEL_PATH = "a pack" /\ Loopback(s)
NinferTakes(s) == Os = "linux" /\ s.LLM_A_MODEL_PATH = "x.ninfer"
SplashTakes(s) == Os = "darwin" /\ s.LLM_A_MODEL_PATH = "org/repo" /\ Loopback(s)

ChatStarts(s) ==
  CASE Engine(s) = "llamacpp" -> TRUE
    [] Engine(s) = "mtplx"    -> MtplxTakes(s)
    [] Engine(s) = "ninfer"   -> NinferTakes(s)
    [] Engine(s) = "splash"   -> SplashTakes(s)

(* Each engine's own reading of the slot's context, effort and memory keys. *)
Heard(s, efforts) ==
  IF s.LLM_A_REASONING_EFFORT \in efforts THEN s.LLM_A_REASONING_EFFORT ELSE ""

Memory(s) == IF s.LLM_A_MEMORY_MODE = "ssd-offload" THEN "ssd-offload" ELSE "resident"

LlamacppOptions(s) ==
  [ctx |-> Or(s.LLM_A_CTX_SIZE, "32768"), effort |-> Heard(s, {"xhigh", "medium", "low"}),
   load |-> IF Memory(s) = "ssd-offload" THEN "mmap" ELSE ""]
MtplxOptions(s) ==
  [ctx |-> s.LLM_A_CTX_SIZE, effort |-> Heard(s, {"xhigh", "medium", "low"}),
   load |-> IF Memory(s) = "ssd-offload" THEN "limit" ELSE ""]
NinferOptions(s) ==
  [ctx |-> s.LLM_A_CTX_SIZE,
   effort |-> Heard(s, {"minimal", "low", "medium", "high", "xhigh", "max"}), load |-> ""]
SplashOptions(s) ==
  [ctx |-> IF s.LLM_A_CTX_SIZE = "512K" THEN "256K" ELSE s.LLM_A_CTX_SIZE,
   effort |-> Heard(s, {"none", "minimal", "low", "medium", "high", "xhigh", "max"}),
   load |-> IF Memory(s) = "ssd-offload" THEN "limit" ELSE "half"]

ChatOptions(s) ==
  CASE Engine(s) = "llamacpp" -> LlamacppOptions(s)
    [] Engine(s) = "mtplx"    -> MtplxOptions(s)
    [] Engine(s) = "ninfer"   -> NinferOptions(s)
    [] Engine(s) = "splash"   -> SplashOptions(s)

(* A persona's setting: the slot's own, or the one both slots share. *)
PersonaTemp(s) == FirstSet(s, <<"LLM_A_THINK_TEMP", "THINK_TEMP">>, "")

ProxyFacts(s) == [engine |-> Engine(s), model |-> Alias(s),
                  host |-> Or(s.CHAT_BACKEND_HOST, "127.0.0.1"),
                  temp |-> PersonaTemp(s)]

(* What a unit is started with when it is started now; {} when it is not. *)
Started(unit, s) ==
  CASE unit = "llm-a" ->
         IF ChatStarts(s)
         THEN {[engine |-> Engine(s), model |-> Alias(s), host |-> Or(s.CHAT_BACKEND_HOST, "127.0.0.1"),
                options |-> ChatOptions(s)]}
         ELSE {}
    [] unit = "llm-a-proxy" -> {ProxyFacts(s)}
    [] unit = "task" ->
         IF "TASK" \in PoolOwns(s) \/ UnitRefuses(s) THEN {} ELSE {UnitOptions(s)}
    [] unit = "llama-router" ->
         IF Members(s) = {} THEN {}
         ELSE {[names |-> [m \in Members(s) |-> MemberName(s, m)], eager |-> Eager(s),
                max |-> RouterMax(s), task |-> IF "TASK" \in Members(s) THEN {PresetOptions(s)} ELSE {}]}

-----------------------------------------------------------------------------
(* The units RESTART_HINTS names for a key, before and after the models the *)
(* router owns are replaced by the router.                                  *)
ByPrefix(key) ==
  IF key \in {"LLM_A_MODEL_PATH", "LLM_A_ENGINE", "LLM_A_MODEL_NAME", "LLM_A_THINK_TEMP",
              "LLM_A_CTX_SIZE", "LLM_A_REASONING_EFFORT", "LLM_A_MEMORY_MODE"} THEN {"llm-a"}
  ELSE IF key = "MODEL_ROUTER_MAX" THEN {"llama-router"} ELSE {}

Hinted(key) ==
  CASE ByPrefix(key) # {} -> ByPrefix(key)
    [] key \in {"CHAT_BACKEND_HOST", "THINK_TEMP"} -> {"llm-a-proxy"}
    [] key \in {"TASK_FIT_CTX", "TASK_CACHE_REUSE", "TASK_POOLED", "CHAT_PRIMARY_MODEL_NAME",
                "TASK_LOG_PREFIX"} -> {}
    [] key = "EMBED_LOAD_ON_STARTUP" -> {"embed"}
    [] OTHER -> {"task"}

UnitOf(member) == IF member = "EMBED" THEN "embed" ELSE "task"

RestartHints(key, s) ==
  LET owned == {UnitOf(m) : m \in PoolOwns(s)}
  IN IF Hinted(key) \cap owned = {} THEN Hinted(key)
     ELSE (Hinted(key) \ owned) \cup {"llama-router"}

(* A save in the settings page: the file is written and the answer names    *)
(* the units to restart.  A switch to a catalogue entry writes the chat     *)
(* slot's keys and restarts the slot and its proxy itself.                  *)
SaveSetting(key) ==
  \E value \in SettingValues[key] \ {settings[key]} :
    /\ writes < MaxSettings /\ writes' = writes + 1
    /\ settings' = [settings EXCEPT ![key] = value]
    /\ toldOf' = toldOf \cup (RestartHints(key, settings') \cap LaunchUnits)
    /\ UNCHANGED running

SwitchChatModel ==
  \E path \in SettingValues.LLM_A_MODEL_PATH, name \in SettingValues.LLM_A_MODEL_NAME :
    /\ writes < MaxSettings /\ writes' = writes + 1
    /\ settings' = [settings EXCEPT !.LLM_A_MODEL_PATH = path, !.LLM_A_ENGINE = "auto",
                                    !.LLM_A_MODEL_NAME = Or(name, "chat-custom")]
    /\ running' = [u \in LaunchUnits |->
                     IF u \in {"llm-a", "llm-a-proxy"} THEN Started(u, settings') ELSE running[u]]
    /\ toldOf' = toldOf \ {"llm-a", "llm-a-proxy"}

(* A restart, by hand or by the service manager after the unit died. *)
RestartUnit(unit) ==
  /\ running' = [running EXCEPT ![unit] = Started(unit, settings)]
  /\ toldOf' = toldOf \ {unit}
  /\ UNCHANGED <<settings, writes>>

LaunchInit ==
  /\ settings = ShippedEnv
  /\ running = [u \in LaunchUnits |-> Started(u, ShippedEnv)]
  /\ toldOf = {} /\ writes = 0

LaunchNext ==
  \/ \E key \in DOMAIN SettingValues : SaveSetting(key)
  \/ SwitchChatModel
  \/ \E unit \in LaunchUnits : RestartUnit(unit)

LaunchSpec == LaunchInit /\ [][LaunchNext]_launchVars

-----------------------------------------------------------------------------
LaunchTypeOK ==
  /\ \A key \in DOMAIN SettingValues : settings[key] \in SettingValues[key] \cup {ShippedEnv[key], "chat-custom"}
  /\ \A unit \in LaunchUnits : Cardinality(running[unit]) <= 1
  /\ toldOf \subseteq LaunchUnits

(* Moving the task model between its own unit and the router does not        *)
(* change how it is run: each option the preset gives is the option the      *)
(* unit's command would have had, or what the server does without it.        *)
PresetAgrees ==
  LET preset == PresetOptions(settings)  unit == UnitOptions(settings)
  IN ~UnitRefuses(settings) /\ ~PresetRefuses(settings) =>
       \A option \in DOMAIN preset :
         preset[option] # "" =>
           IF unit[option] = "" THEN preset[option] = ServerDefault(option)
           ELSE unit[option] = preset[option]

(* The router starts with what it was given: its models have names of their  *)
(* own, and no more of them ask to be loaded at the start than it may hold.  *)
RouterStarts ==
  \A r \in running["llama-router"] :
    /\ Cardinality(r.eager) <= r.max
    /\ r.eager \subseteq DOMAIN r.names
    /\ \A m, n \in DOMAIN r.names : r.names[m] = r.names[n] => m = n

(* (Does not hold.)  Every option a unit would be started with is carried    *)
(* by the preset (the docstring of render-models-ini.py).                    *)
PresetCarriesAll ==
  LET preset == PresetOptions(settings)  unit == UnitOptions(settings)
  IN ~UnitRefuses(settings) /\ ~PresetRefuses(settings) =>
       \A option \in DOMAIN unit : unit[option] # "" => preset[option] # ""

(* (Does not hold.)  While the proxy adapts requests to another engine than  *)
(* the one behind it, or asks it for a model by another name, an answer has  *)
(* named the proxy as needing its restart.                                   *)
ProxyKnows ==
  \A backend \in running["llm-a"], proxy \in running["llm-a-proxy"] :
    <<backend.engine, backend.model>> # <<proxy.engine, proxy.model>>
      => "llm-a-proxy" \in toldOf \/ "llm-a" \in toldOf

(* (Does not hold.)  A unit that would be started differently now has been   *)
(* named by an answer since it was started.                                  *)
ReadersAreNamed ==
  \A unit \in LaunchUnits : running[unit] # Started(unit, settings) => unit \in toldOf
=============================================================================
