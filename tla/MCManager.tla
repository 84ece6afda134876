------------------------------ MODULE MCManager ------------------------------
(***************************************************************************)
(* The manager's components, each checked on its own small instance: a     *)
(* behaviour runs one of them, "part", and leaves the others as they start. *)
(***************************************************************************)
EXTENDS Control, Catalogue, Telemetry, SlotLeases, Launch, Deploy, Budget, Settings

VARIABLE part

vars == <<part, controlVars, catalogueVars, telemetryVars, slotLeasesVars, launchVars,
          deployVars, budgetVars, settingsVars>>

Parts == {"control", "catalogue", "telemetry", "contract", "reap", "launch", "deploy",
          "budget", "settings"}

\* A part that does not run starts in one of its initial states.
Idles(p, initial) == part # p => initial
Init ==
  /\ part \in Parts
  /\ ControlInit /\ Idles("control", ~RouterOn(conf))
  /\ CatalogueInit /\ Idles("catalogue", slot.path = "pack")
  /\ TelemetryInit /\ SlotLeasesInit /\ LaunchInit
  /\ DeployInit /\ Idles("deploy", origin = 0)
  /\ BudgetInit /\ Idles("budget", /\ host = CHOOSE h \in Hosts : TRUE
                                   /\ tuning["llm-a"] = FirstSettings("plain"))
  /\ SettingsInit /\ Idles("settings", env = CHOOSE f \in OldFiles : TRUE)

ControlPart == /\ part = "control" /\ ControlNext
               /\ UNCHANGED <<part, catalogueVars, telemetryVars, slotLeasesVars, launchVars,
                              deployVars, budgetVars, settingsVars>>
CataloguePart == /\ part = "catalogue" /\ CatalogueNext
                 /\ UNCHANGED <<part, controlVars, telemetryVars, slotLeasesVars, launchVars,
                                deployVars, budgetVars, settingsVars>>
TelemetryPart == /\ part = "telemetry" /\ TelemetryNext
                 /\ UNCHANGED <<part, controlVars, catalogueVars, slotLeasesVars, launchVars,
                                deployVars, budgetVars, settingsVars>>
SlotLeasesPart == /\ \/ part = "contract" /\ ContractNext
                     \/ part = "reap" /\ ReapNext
                  /\ UNCHANGED <<part, controlVars, catalogueVars, telemetryVars, launchVars,
                                 deployVars, budgetVars, settingsVars>>
LaunchPart == /\ part = "launch" /\ LaunchNext
              /\ UNCHANGED <<part, controlVars, catalogueVars, telemetryVars, slotLeasesVars,
                             deployVars, budgetVars, settingsVars>>
DeployPart == /\ part = "deploy" /\ DeployNext
              /\ UNCHANGED <<part, controlVars, catalogueVars, telemetryVars, slotLeasesVars,
                             launchVars, budgetVars, settingsVars>>
BudgetPart == /\ part = "budget" /\ BudgetNext
              /\ UNCHANGED <<part, controlVars, catalogueVars, telemetryVars, slotLeasesVars,
                             launchVars, deployVars, settingsVars>>
SettingsPart == /\ part = "settings" /\ SettingsNext
                /\ UNCHANGED <<part, controlVars, catalogueVars, telemetryVars, slotLeasesVars,
                               launchVars, deployVars, budgetVars>>
Next == \/ ControlPart \/ CataloguePart \/ TelemetryPart \/ SlotLeasesPart
        \/ LaunchPart \/ DeployPart \/ BudgetPart \/ SettingsPart
Spec == Init /\ [][Next]_vars
-----------------------------------------------------------------------------
LChoices == [TASK_CTX_SIZE |-> {"32000","8192"}, TASK_CACHE_TYPE_K |-> {"q8_0","f16"},
 TASK_FIT |-> {"on","off"}, TASK_FIT_CTX |-> {"","0","4096"}, TASK_METRICS |-> {"on","off"},
 TASK_LOG_PREFIX |-> {"","true"}, TASK_KV_OFFLOAD |-> {"on","off"}, TASK_JINJA |-> {"on"}, TASK_SWA_FULL |-> {"on","off"},
 TASK_MLOCK |-> {"true","false"}, TASK_NO_MMAP |-> {"true","false"}, TASK_SPLIT_MODE |-> {"none","layer","row","tensor"},
 TASK_TENSOR_SPLIT |-> {"","auto","3,1"}, TASK_MAIN_GPU |-> {"", "1"}, TASK_FLASH_ATTN |-> {"on"},
 TASK_CACHE_REUSE |-> {"0","256"}, TASK_THINKING |-> {"on","off"}, TASK_REASONING_EFFORT |-> {"","low"},
 TASK_CHAT_TEMPLATE_ID |-> {"", "known", "missing"}, TASK_LORA_PATHS |-> {"", "a.gguf"},
 TASK_SPEC_METHOD |-> {"off","draft-dflash","ngram-mod"}, TASK_SPEC_DRAFT_MODEL_PATH |-> {"", "draft.gguf"},
 TASK_SLEEP_IDLE_SECONDS |-> {"", "60"}, TASK_CUSTOM |-> {"none","ctx","fit","broken"},
 TASK_POOLED |-> {"inherit","off"}, TASK_MODEL_NAME |-> {"task","embed"}, TASK_LOAD_ON_STARTUP |-> {"on","off"},
 EMBED_LOAD_ON_STARTUP |-> {"on","off"}, MODEL_ROUTER_MAX |-> {"1","2"},
 LLM_A_MODEL_PATH |-> {"x.gguf","x.ninfer"}, LLM_A_ENGINE |-> {"auto","llamacpp","ninfer"},
 LLM_A_MODEL_NAME |-> {"", "mine"}, CHAT_PRIMARY_MODEL_NAME |-> {""}, CHAT_BACKEND_HOST |-> {"127.0.0.1","lan"},
 LLM_A_CTX_SIZE |-> {"32768","512K"}, LLM_A_REASONING_EFFORT |-> {"","high"}, LLM_A_MEMORY_MODE |-> {"resident","ssd-offload"},
 THINK_TEMP |-> {"1.0","0.6"}, LLM_A_THINK_TEMP |-> {"", "0.3"}]
LShipped == [k \in DOMAIN LChoices |-> CASE k = "TASK_CTX_SIZE" -> "32000" [] k = "TASK_CACHE_TYPE_K" -> "q8_0"
  [] k = "TASK_FIT_CTX" -> "4096" [] k \in {"TASK_FIT","TASK_LOAD_ON_STARTUP","TASK_SPEC_METHOD"} -> "off" [] k \in {"TASK_MLOCK","TASK_NO_MMAP"} -> "false"
  [] k = "TASK_SPLIT_MODE" -> "layer" [] k = "TASK_CACHE_REUSE" -> "256" [] k = "TASK_REASONING_EFFORT" -> "low"
  [] k = "TASK_CUSTOM" -> "none" [] k = "TASK_POOLED" -> "inherit" [] k = "TASK_MODEL_NAME" -> "task" [] k = "MODEL_ROUTER_MAX" -> "2"
  [] k = "LLM_A_MODEL_PATH" -> "x.gguf" [] k = "LLM_A_ENGINE" -> "auto" [] k = "LLM_A_MODEL_NAME" -> "mine" [] k = "CHAT_BACKEND_HOST" -> "127.0.0.1"
  [] k = "LLM_A_CTX_SIZE" -> "32768" [] k = "LLM_A_MEMORY_MODE" -> "resident" [] k = "THINK_TEMP" -> "1.0" [] k = "TASK_SWA_FULL" -> "off" 
  [] k \in {"EMBED_LOAD_ON_STARTUP","TASK_METRICS","TASK_JINJA","TASK_KV_OFFLOAD","TASK_FLASH_ATTN","TASK_THINKING"} -> "on" [] OTHER -> ""]
RestartedD == <<"embed", "llm-manager", "ocr">>
Device(t) == [total |-> t, free |-> t]
BHosts == {[devices |-> <<Device(60), Device(60)>>, ram |-> 200, unified |-> FALSE, wired |-> 0],
           [devices |-> <<Device(150), Device(60)>>, ram |-> 40, unified |-> FALSE, wired |-> 0],
           [devices |-> <<Device(160)>>, ram |-> 200, unified |-> TRUE, wired |-> 120]}
Plain == [kind |-> "gguf", blocks |-> 4, nextn |-> 0, recurrent |-> <<>>, interval |-> 0, window_layers |-> <<>>,
          heads |-> <<1>>, width |-> 1, swa_width |-> 1, window |-> 0, state |-> 0, hidden |-> 2, vocab |-> 3,
          size |-> 50, trained |-> 16]
File(how) == [kind |-> how] @@ Plain
BMetadata == ("plain" :> Plain)
  @@ ("hybrid" :> ([blocks |-> 5, nextn |-> 1, recurrent |-> <<1, 1, 0, 1>>, state |-> 3] @@ Plain))
  @@ ("window" :> ([window_layers |-> <<1, 0, 1, 0>>, heads |-> <<2, 1, 2, 1>>, window |-> 2, trained |-> 8] @@ Plain))
  @@ ("pack" :> File("pack"))
BProjectors == "vision" :> 4
BLadder == <<16, 12, 8, 4, 2>>
BTunable == ("visible" :> {<<0, 1>>, <<1>>}) @@ ("projector" :> {"vision"}) @@ ("draft" :> {TRUE})
            @@ ("ctx" :> {16}) @@ ("mode" :> {"ssd-offload"}) @@ ("ram_budget" :> {40})
Some(keys) == UNION {[k -> {1, 2}] : k \in SUBSET keys}
SFiles == Some({<<"LLM_A", "gpu">>, <<"CHAT_PRIMARY", "gpu">>, <<"CHAT", "gpu">>, <<"OCR", "gpu">>, <<"TASK", "gpu">>})
  \union Some({<<"LLM_A", "temp">>, <<"CHAT_PRIMARY", "temp">>, <<"CHAT", "temp">>, <<"THINK", "temp">>, <<"CHAT2", "temp">>})
  \union Some({<<"LLM_A", "ctx">>, <<"CHAT_DENSE", "ctx">>, <<"CHAT_PRIMARY", "ctx">>, <<"CHAT", "ctx">>, <<"CODE", "ctx">>})
  \union Some({<<"PARAKEET", "model">>, <<"TRANSCRIPT", "model">>, <<"FASTER_WHISPER", "size">>, <<"CHAT2", "port">>})
Pair(x, y) == <<[key |-> x, value |-> 1], [key |-> y, value |-> 2]>>
SPayloads == {<<[key |-> k, value |-> 2]>> : k \in {<<"LLM_A", "gpu">>, <<"CHAT_PRIMARY", "temp">>, <<"CHAT", "gpu">>, <<"CODE", "ctx">>, <<"CHAT2", "temp">>}}
  \union {Pair(<<"LLM_A", "ctx">>, <<"CHAT_PRIMARY", "ctx">>), Pair(<<"CHAT_PRIMARY", "ctx">>, <<"LLM_A", "ctx">>),
          Pair(<<"CODE", "ctx">>, <<"CHAT_DENSE", "ctx">>), Pair(<<"CHAT", "gpu">>, <<"LLM_A", "gpu">>),
          Pair(<<"LLM_A", "gpu">>, <<"CHAT", "gpu">>), Pair(<<"CHAT_DENSE", "ctx">>, <<"CHAT_PRIMARY", "ctx">>)}
\* Bounds on how much of what goes wrong meets in one behaviour.
Small == /\ asked + deaths + reboots <= 4
         /\ exits > 0 => probe = Idle /\ served = {}
         /\ faults + probes + origin <= 4
=============================================================================
