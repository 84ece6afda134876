------------------------------ MODULE Settings ------------------------------
(***************************************************************************)
(* The names a setting has had, and llm-stack.env under them: how a file   *)
(* written over the life of the stack is read, how a save and the opt-in   *)
(* migration rewrite it. A key is a prefix and a suffix (LLM_A_TEMP has    *)
(* the prefix "LLM_A"); ShippedValue stands for whatever default the code  *)
(* ships for a key. A file has one line a key.                             *)
(***************************************************************************)
EXTENDS Integers, Sequences, FiniteSets, SequencesExt, Functions

CONSTANTS
  OldFiles,  \* what the file may hold when this version starts: functions from keys to values
  Payloads,  \* what a save, or a saved profile, may carry: sequences of [key, value]
  MaxSaves

\* A key is a prefix and a suffix; a file has finitely many lines.
IsKey(k) == k = <<k[1], k[2]>>
IsFile(f) == IsFiniteSet(DOMAIN f) /\ \A k \in DOMAIN f : IsKey(k)

ASSUME SettingsAssumption ==
  /\ MaxSaves \in Nat
  /\ \A f \in OldFiles : IsFile(f)
  /\ \A p \in Payloads : Len(p) \in Nat /\ \A i \in 1..Len(p) : IsKey(p[i].key)

ShippedValue == 0  \* the default the code ships
Whisper == 1  \* as a model: a Whisper size, which only one engine can load

VARIABLES
  env,   \* llm-stack.env: key -> value
  answered,  \* the last save or migration answered: {[op, payload, before]}
  saves

settingsVars == <<env, answered, saves>>

-----------------------------------------------------------------------------
RenamedSlot == [CHAT_PRIMARY |-> "LLM_A", CHAT2 |-> "LLM_B"]
ShadowedSlot == [CHAT |-> "LLM_A"]
\* The suffixes of the keys some form field declares: the others live on in files only.
DeclaredSuffixes == {"gpu", "ctx", "port"}
Exempt == {<<"CHAT", "port">>, <<"CHAT_PRIMARY", "port">>, <<"CHAT2", "port">>}
\* LEGACY_ENV_KEY_MAP, in its order: the names of models first, then the renamed slots.
LegacyOrder ==
  <<[old |-> <<"CHAT_DENSE", "ctx">>, new |-> <<"LLM_A", "ctx">>],
    [old |-> <<"CHAT_PRIMARY", "gpu">>, new |-> <<"LLM_A", "gpu">>],
    [old |-> <<"CHAT_PRIMARY", "ctx">>, new |-> <<"LLM_A", "ctx">>]>>
LegacyMap == {LegacyOrder[i] : i \in DOMAIN LegacyOrder}
Canonical(key) ==
  CASE \E e \in LegacyMap : e.old = key -> (CHOOSE e \in LegacyMap : e.old = key).new
    [] (\A e \in LegacyMap : e.old # key) /\ key \notin Exempt /\ key[1] \in DOMAIN RenamedSlot ->
         <<RenamedSlot[key[1]], key[2]>>
    [] OTHER -> key
\* legacy_names_for: every older spelling of a key, the merely implied ones too.
DeclaredSpellings(key) == {e.old : e \in {e \in LegacyMap : e.new = key}}
OldPrefixes(slot) == {p \in DOMAIN RenamedSlot : RenamedSlot[p] = slot}
                     \union {p \in DOMAIN ShadowedSlot : ShadowedSlot[p] = slot}
Spellings(key) == DeclaredSpellings(key) \union ({<<p, key[2]>> : p \in OldPrefixes(key[1])} \ Exempt)

-----------------------------------------------------------------------------
\* normalize_env_keys, in its order.
With(read, more) == [k \in DOMAIN read \union DOMAIN more |-> IF k \in DOMAIN read THEN read[k] ELSE more[k]]
Default(read, key, value) == With(read, [k \in {key} |-> value])
First(read, keys) ==
  LET there == {i \in DOMAIN keys : keys[i] \in DOMAIN read}
  IN IF there = {} THEN ShippedValue ELSE read[keys[CHOOSE i \in there : \A j \in there : i <= j]]
\* Of several older names the first in the map's order counts.
Renamed(read) ==
  With(read, [new \in {e.new : e \in {e \in LegacyMap : e.old \in DOMAIN read}} |->
                LET names == {i \in DOMAIN LegacyOrder : LegacyOrder[i].new = new /\ LegacyOrder[i].old \in DOMAIN read}
                IN read[LegacyOrder[CHOOSE i \in names : \A j \in names : i <= j].old]])
\* No two keys left to it have one canonical name.
Implied(read) ==
  With(read, [key \in {Canonical(k) : k \in DOMAIN read} |-> read[CHOOSE k \in DOMAIN read : Canonical(k) = key]])
\* The slot's identity has defaults before its fields fall back to the shared backend's.
SlotA(read) ==
  LET named == Default(read, <<"LLM_A", "ctx">>, First(read, <<<<"CHAT", "ctx">>>>))
      shared == {s \in DeclaredSuffixes \ {"port"} : <<"CHAT", s>> \in DOMAIN read}
  IN With(named, [k \in {"LLM_A"} \X shared |-> read[<<"CHAT", k[2]>>]])
SharedDefaults(read) == Default(read, <<"CHAT", "cache">>, ShippedValue)
\* The personas seed off slot A under either spelling.
Personas(read) ==
  Default(Default(read, <<"THINK", "temp">>, First(read, <<<<"LLM_A", "temp">>, <<"CHAT", "temp">>>>)),
          <<"NOTHINK", "temp">>, First(read, <<<<"LLM_A", "temp">>, <<"CHAT", "temp">>>>))
TaskCache(read) == Default(read, <<"TASK", "cache">>, ShippedValue)
Ocr(read) == Default(read, <<"OCR", "gpu">>, First(read, <<<<"CHAT", "gpu">>, <<"TASK", "gpu">>>>))
ServiceDefaults(read) == Default(read, <<"GLMOCR", "workers">>, ShippedValue)
ApiDefaults(read) == Default(read, <<"LLM_API", "port">>, ShippedValue)
\* Each transcription engine takes the model the engines once shared, unless that is one
\* its runtime cannot load.
Repaired(engine, model) == IF model = Whisper /\ engine # "FASTER_WHISPER" THEN ShippedValue ELSE model
EngineModels == {<<"FASTER_WHISPER", "model">>, <<"PARAKEET", "model">>}
EngineNames(read) ==
  LET model(e) == Repaired(e, First(read, <<<<e, "model">>, <<"TRANSCRIPT", "model">>, <<e, "size">>>>
                                   \o (IF e = "FASTER_WHISPER" THEN <<<<"TRANSCRIPT", "size">>>> ELSE <<>>)))
  IN [k \in DOMAIN read \union EngineModels |-> IF k \in EngineModels THEN model(k[1]) ELSE read[k]]
Asr(read) == Default(read, <<"ASR", "gpu">>, First(read, <<<<"OCR", "gpu">>, <<"TASK", "gpu">>>>))
Read(file) ==
  Asr(EngineNames(ApiDefaults(ServiceDefaults(Ocr(TaskCache(Personas(SharedDefaults(
    SlotA(Implied(Renamed(file)))))))))))

\* normalize_config_updates: the current spelling of a key wins over an older one, of two
\* older ones the first.
Set(updates, key, value) == With([k \in {key} |-> value], updates)
Normalized(payload) ==
  LET after[i \in 0..Len(payload)] ==
        IF i = 0 THEN <<>>
        ELSE LET key == payload[i].key
             IN IF Canonical(key) \in DOMAIN after[i - 1] /\ Canonical(key) # key THEN after[i - 1]
                ELSE Set(after[i - 1], Canonical(key), payload[i].value)
  IN after[Len(payload)]
Allowed(file) ==
  DOMAIN Read(file) \union {e.old : e \in LegacyMap} \union {e.new : e \in LegacyMap}
    \union {<<p, s>> : p \in {"LLM_A", "LLM_B"}, s \in DeclaredSuffixes}
    \union {<<"CODE", "ctx">>, <<"CHAT", "gpu">>, <<"OCR", "gpu">>, <<"TASK", "gpu">>}
Filtered(file, payload) == Restrict(Normalized(payload), DOMAIN Normalized(payload) \intersect Allowed(file))
\* apply_code_chat_mirrors: the coding endpoint is served by slot A.
WithCodeMirror(updates) ==
  IF <<"CODE", "ctx">> \in DOMAIN updates THEN Default(updates, <<"LLM_A", "ctx">>, updates[<<"CODE", "ctx">>])
  ELSE updates
\* update_env_values: the first line of any spelling takes the key's name and value, the
\* others go, one key after the other as the request lists them.
Put(file, key, value) == Set(Restrict(file, DOMAIN file \ Spellings(key)), key, value)
\* The keys in the order the request first lists them, then those a mirror adds.
Listed(payload) == [i \in 1..Len(payload) |-> Canonical(payload[i].key)]
InOrder(updates, keys) == keys \o SetToSeq(DOMAIN updates \ {keys[i] : i \in DOMAIN keys})
\* A key is written once, however often it is listed.
IsDue(order, updates, i) == order[i] \in DOMAIN updates \ {order[j] : j \in 1..(i - 1)}
WriteEnv(file, updates, keys) ==
  LET order == InOrder(updates, keys)
      after[i \in 0..Len(order)] ==
        IF i = 0 THEN file
        ELSE IF IsDue(order, updates, i) THEN Put(after[i - 1], order[i], updates[order[i]])
        ELSE after[i - 1]
  IN after[Len(order)]

-----------------------------------------------------------------------------
SettingsInit == env \in OldFiles /\ answered = {} /\ saves = 0
\* perform_config_save and apply_saved_config, past the preflight.
Save(payload) ==
  LET updates == WithCodeMirror(Filtered(env, payload))
  IN /\ saves < MaxSaves
     /\ env' = WriteEnv(env, updates, Listed(payload))
     /\ answered' = {[op |-> "save", payload |-> payload, before |-> env]}
     /\ saves' = saves + 1
Deprecated(file) == {k \in DOMAIN file : Canonical(k) # k}
Migrate ==
  LET updates == [k \in {Canonical(old) : old \in Deprecated(env)} |-> Read(env)[k]]
  IN /\ saves < MaxSaves
     /\ Deprecated(env) # {}
     /\ env' = WriteEnv(env, updates, <<>>)
     /\ answered' = {[op |-> "migrate", payload |-> <<>>, before |-> env]}
     /\ saves' = saves + 1
SettingsNext == Migrate \/ \E payload \in Payloads : Save(payload)
SettingsSpec == SettingsInit /\ [][SettingsNext]_settingsVars

-----------------------------------------------------------------------------
SettingsTypeOK == \A k \in DOMAIN Read(env) : Canonical(k) = k \/ k \in DOMAIN env

Current(key) == Canonical(key) = key /\ key[1] \notin DOMAIN ShadowedSlot
\* What was saved under a current name reads back under it, whatever older spellings, and
\* whatever mirror, the request and the file carry; what was saved under an older one reads
\* back too when the request holds no other spelling of it.
SavedIsRead ==
  \A t \in answered : t.op = "save" =>
    \A i \in DOMAIN t.payload :
      LET key == t.payload[i].key
          others == {t.payload[j].key : j \in DOMAIN t.payload \ {i}}
      IN Canonical(key) \in Allowed(t.before) /\ key[1] \notin DOMAIN ShadowedSlot
           /\ (Current(key) \/ \A o \in others : Canonical(o) # Canonical(key))
         => Read(env)[Canonical(key)] = t.payload[i].value
\* A migration leaves no older spelling in the file, and no slot and no persona reads another
\* value after it.
RenameIsInvisible ==
  \A t \in answered : t.op = "migrate" =>
    /\ Deprecated(env) = {}
    /\ \A k \in DOMAIN Read(t.before) :
         k[1] \in {"LLM_A", "LLM_B", "THINK", "NOTHINK"} => k \in DOMAIN Read(env) /\ Read(env)[k] = Read(t.before)[k]

\* Violated: nothing else reads another value either.
MigrationIsARename ==
  \A t \in answered : t.op = "migrate" =>
    \A k \in DOMAIN Read(t.before) : Current(k) => k \in DOMAIN Read(env) /\ Read(env)[k] = Read(t.before)[k]
\* Violated: a name read behind another is never rewritten.
ShadowedStays == \A t \in answered : \A k \in DOMAIN t.before : k[1] \in DOMAIN ShadowedSlot => k \in DOMAIN env
=============================================================================
