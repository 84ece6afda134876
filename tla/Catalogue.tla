----------------------------- MODULE Catalogue ------------------------------
(***************************************************************************)
(* The catalogue of custom models and the primary slot they are switched   *)
(* into.  A model names an engine or leaves the choice to its path; the    *)
(* slot's model can be saved as an entry, to be switched back to.  Every   *)
(* route reads the whole file, without a lock, and rewrites it in place.   *)
(***************************************************************************)
EXTENDS Naturals, FiniteSets

CONSTANTS
  Editors,        \* the clients of the catalogue
  Paths,          \* model paths: "gguf", "famous", "pack", "hf"
  MaxEdits,       \* bound: requests and config saves
  NoEntry         \* no request, no entry, nothing read

ASSUME CatalogueAssumption == MaxEdits \in Nat /\ NoEntry \notin Editors

VARIABLES
  slot,           \* the LLM_A_* keys that say which model this is
  file,           \* custom-models.json: the set of its entries
  torn,           \* a client is between truncating and writing it
  edit,           \* client -> its request
  edits, ids,     \* bound; the ids given so far
  from,           \* history: entry id -> the slot it was saved from
  back,           \* history: the last switch back, the slot before and after
  promised        \* history: the ids a client was told are in the file

catalogueVars == <<slot, file, torn, edit, edits, ids, from, back, promised>>

EntryEngines == {"llamacpp", "mtplx", "splash"}
\* The one path whose family has argument presets.
InFamily(p) == p = "famous"
ByPath(p) == IF p = "pack" THEN "mtplx" ELSE "llamacpp"
\* Slot.engine: `auto` is decided by the model.
Runs(s) == IF s.engine = "auto" THEN ByPath(s.path) ELSE s.engine

\* Mutant: a model that names no engine leaves the slot's alone.
SwitchKeepsEngine(e, current) ==
  LET chosen == IF e.engine = "auto" /\ e.path = "hf" THEN "splash" ELSE e.engine
  IN  IF chosen # "auto" THEN [runs |-> chosen, write |-> chosen]
      ELSE [runs |-> ByPath(e.path), write |-> current]
\* model_switch_engine: what the model will run on, and the setting written.
ModelSwitchEngine(e, current) ==
  LET chosen == IF e.engine = "auto" /\ e.path = "hf" THEN "splash" ELSE e.engine
      inferred == ByPath(e.path)
  IN  IF chosen # "auto" THEN [runs |-> chosen, write |-> chosen]
      ELSE [runs |-> inferred, write |-> IF current \in {"auto", inferred} THEN current ELSE "auto"]

\* custom_model_from_slot: the arguments and the revision of its engine.
FromSlot(s) ==
  LET runs == ModelSwitchEngine([path |-> s.path, engine |-> s.engine], s.engine).runs
  IN  [path |-> s.path, engine |-> s.engine, ctx |-> s.ctx,
       rev |-> IF runs = "splash" THEN s.rev ELSE "", args |-> s.args[runs]]
Matches(e, s) == /\ e.path = s.path
                 /\ ModelSwitchEngine(e, s.engine).runs = "splash" => e.rev = s.rev
\* api_switch, without the restart: a blank context keeps the slot's, and the
\* presets of a known family come before the entry's own arguments.
Switched(s, e) ==
  LET to == ModelSwitchEngine(e, s.engine) IN
  [path |-> e.path, engine |-> to.write,
   ctx  |-> IF e.ctx = "" THEN s.ctx ELSE e.ctx,
   rev  |-> IF to.runs = "splash" THEN e.rev ELSE s.rev,
   args |-> [s.args EXCEPT ![to.runs] =
              IF to.runs = "llamacpp" /\ InFamily(e.path) THEN "preset" ELSE e.args]]

CatalogueInit ==
  /\ slot \in {[path |-> p, engine |-> "auto", ctx |-> "", rev |-> "",
                args |-> [n \in EntryEngines |-> ""]] : p \in Paths \ {"hf"}}
  /\ file = {} /\ torn = FALSE
  /\ edit = [c \in Editors |-> NoEntry] /\ edits = 0 /\ ids = 0
  /\ from = << >> /\ back = NoEntry /\ promised = {}

Edits == edits < MaxEdits /\ edits' = edits + 1
Loaded == IF torn THEN {} ELSE file      \* a read that fails is an empty list
Numbered(e, i) == [id |-> i, path |-> e.path, engine |-> e.engine, ctx |-> e.ctx,
                   rev |-> e.rev, args |-> e.args]
Asked(c, op, i, e) ==
  /\ edit[c] = NoEntry /\ Edits
  /\ edit' = [edit EXCEPT ![c] = [op |-> op, id |-> i, new |-> e, had |-> Loaded]]

\* The routes that add an entry, by hand or from the slot unless one matches.
AskAdd(c) ==
  /\ \E p \in Paths, n \in EntryEngines \cup {"auto"}, a \in {"", "own"} :
       Asked(c, "put", ids + 1, [path |-> p, engine |-> n, ctx |-> "32k", rev |-> "", args |-> a])
  /\ ids' = ids + 1
  /\ UNCHANGED <<slot, file, torn, from, back, promised>>
AskFromSlot(c) ==
  /\ ~\E e \in Loaded : Matches(e, slot)
  /\ Asked(c, "put", ids + 1, FromSlot(slot))
  /\ ids' = ids + 1 /\ from' = [i \in DOMAIN from \cup {ids'} |-> IF i = ids' THEN slot ELSE from[i]]
  /\ UNCHANGED <<slot, file, torn, back, promised>>
\* An entry is given another model; it is no longer what the slot was.
AskUpdate(c) ==
  /\ \E e \in Loaded, p \in Paths :
       /\ Asked(c, "put", e.id, [path |-> p, engine |-> e.engine, ctx |-> e.ctx, rev |-> e.rev,
                                 args |-> IF InFamily(p) /\ e.args = "" THEN "preset" ELSE e.args])
       /\ from' = [i \in DOMAIN from \ {e.id} |-> from[i]]
  /\ UNCHANGED <<slot, file, torn, ids, back, promised>>
AskDelete(c) ==
  /\ \E i \in 1..ids : Asked(c, "drop", i, NoEntry) /\ promised' = promised \ {i}
  /\ UNCHANGED <<slot, file, torn, ids, from, back>>

\* save_custom_models_file: the file is emptied, then written.
Truncates(c) ==
  /\ edit[c] # NoEntry /\ edit[c].op \in {"put", "drop"} /\ ~torn
  /\ torn' = TRUE
  /\ edit' = [edit EXCEPT ![c] = [op |-> "write", id |-> edit[c].id, new |-> edit[c].new, had |-> edit[c].had]]
  /\ UNCHANGED <<slot, file, edits, ids, from, back, promised>>
WritesFile(c) ==
  /\ edit[c] # NoEntry /\ edit[c].op = "write"
  /\ LET e == edit[c].new
         rest == {x \in edit[c].had : x.id # edit[c].id} IN
     /\ file' = IF e = NoEntry THEN rest ELSE rest \cup {Numbered(e, edit[c].id)}
     /\ promised' = IF e = NoEntry THEN promised ELSE promised \cup {edit[c].id}
  /\ torn' = FALSE /\ edit' = [edit EXCEPT ![c] = NoEntry]
  /\ UNCHANGED <<slot, edits, ids, from, back>>

\* The form saves another engine, revision, context or argument list.
SlotEdited ==
  /\ Edits
  /\ \/ \E p \in Paths : slot' = [slot EXCEPT !.path = p]
     \/ \E n \in EntryEngines \cup {"auto"} : slot' = [slot EXCEPT !.engine = n]
     \/ \E n \in EntryEngines : slot' = [slot EXCEPT !.args[n] = "own"]
     \/ slot' = [slot EXCEPT !.rev = "pin"]
     \/ slot' = [slot EXCEPT !.ctx = "32k"]
  /\ UNCHANGED <<file, torn, edit, ids, from, back, promised>>
SwitchTo ==
  /\ Edits
  /\ \E e \in Loaded :
       /\ slot' = Switched(slot, e)
       /\ back' = IF e.id \in DOMAIN from THEN [was |-> from[e.id], now |-> slot'] ELSE NoEntry
  /\ UNCHANGED <<file, torn, edit, ids, from, promised>>

CatalogueNext ==
  \/ \E c \in Editors : \/ AskAdd(c) \/ AskFromSlot(c) \/ AskUpdate(c) \/ AskDelete(c)
                        \/ Truncates(c) \/ WritesFile(c)
  \/ SlotEdited \/ SwitchTo
CatalogueSpec == CatalogueInit /\ [][CatalogueNext]_catalogueVars
-----------------------------------------------------------------------------
(* routes/models.py: the slot's model is saved "to switch back to later".  *)
(* Whatever the slot was made to serve in between, switching back gives    *)
(* the same model on the same engine, at the same revision, with the same  *)
(* arguments; a path only Splash can fetch must have been served by it,    *)
(* and a family's presets come before the entry's arguments.               *)
SwitchBack ==
  back # NoEntry =>
    LET was == back.was now == back.now runs == Runs(was) IN
    (was.path = "hf" => was.engine # "auto") =>
       /\ now.path = was.path /\ Runs(now) = runs
       /\ runs = "splash" => now.rev = was.rev
       /\ InFamily(was.path) \/ now.args[runs] = was.args[runs]
(* (Does not hold.)                                                      *)
(* The same of a model whose family has presets.                           *)
SwitchBackArguments ==
  back # NoEntry => back.now.args[Runs(back.was)] = back.was.args[Runs(back.was)]
(* (Does not hold.)                                                      *)
(* An entry a client was told is saved is in the file until it is deleted. *)
EntriesStay == torn \/ \A i \in promised : \E e \in file : e.id = i
=============================================================================
