---------------------------- MODULE ManagerProofs ----------------------------
(***************************************************************************)
(* The safety of the manager's parts, each proved of its own specification *)
(* for any number of clients, of the operations they make and of what goes *)
(* wrong meanwhile: the update check, the reaping of pi-forge's leases,    *)
(* the catalogue of models, the downloads, the configuration and services, *)
(* the commands made of them, and the configuration that is recommended.   *)
(***************************************************************************)
EXTENDS Deploy, SlotLeases, Catalogue, Downloads, Control, Launch, Budget, SequenceTheorems,
        FiniteSetTheorems, WellFoundedInduction, TLAPS

------------------------------------------------------------------------------
(* The update check *)

\* An answer, or one that is being made, of a check that could fetch is of no later time
\* than the last fetch.
Covered(answer) == answer.error = TRUE \/ (answer.at \in Nat /\ answer.at <= tracking)

DeployInv ==
  /\ origin \in Nat /\ head \in Nat /\ tracking \in Nat /\ head <= origin /\ tracking <= origin
  /\ DOMAIN checking = Probers
  /\ \A p \in Probers : /\ checking[p].step = "fetching" => checking[p].at \in Nat /\ checking[p].at <= origin
                        /\ checking[p].step \in {"fetched", "local"} => Covered(checking[p])
  /\ snap # None => Covered(snap)
  /\ CurrentIsHonest

LEMMA DeployStarts == DeployInit => DeployInv
  BY DEF DeployInit, DeployInv, Covered, CurrentIsHonest, Resting

\* The remote, the checkout and its record of the remote move forwards: what was covered stays so.
LEMMA DeployForwards ==
  ASSUME DeployInv, origin' \in Nat, head' \in Nat, tracking' \in Nat,
         origin <= origin', head <= head', tracking <= tracking', head' <= origin', tracking' <= origin',
         checking' = checking \/ checking' = [p \in Probers |-> Resting],
         snap' = snap \/ snap' = None
  PROVE  DeployInv'
<1>1. DOMAIN checking' = Probers BY DEF DeployInv
<1>2. ASSUME NEW p \in Probers
      PROVE  /\ checking'[p].step = "fetching" => checking'[p].at \in Nat /\ checking'[p].at <= origin'
             /\ checking'[p].step \in {"fetched", "local"} => Covered(checking[p])' 
  BY DEF DeployInv, Covered, Resting
<1>3. snap' # None => Covered(snap)' /\ CurrentIsHonest' 
  BY DEF DeployInv, Covered, CurrentIsHonest, Summary
<1> QED BY <1>1, <1>2, <1>3 DEF DeployInv, CurrentIsHonest

\* A step of a check that moves nothing but itself.
LEMMA DeployChecks ==
  ASSUME DeployInv, NEW p \in Probers,
         CheckBegins(p) \/ FetchEnds(p) \/ RecheckBegins(p) \/ LocalState(p)
  PROVE  DeployInv'
<1>1. UNCHANGED <<origin, head, snap>>
  BY DEF CheckBegins, FetchEnds, RecheckBegins, LocalState
<1>2. tracking' \in {tracking, origin} /\ tracking' \in Nat /\ tracking <= tracking' /\ tracking' <= origin
  BY DEF CheckBegins, FetchEnds, RecheckBegins, LocalState, DeployInv
<1>3. /\ DOMAIN checking' = Probers /\ \A q \in Probers \ {p} : checking'[q] = checking[q]
      /\ checking'[p].step = "fetching" => checking'[p].at = origin
      /\ checking'[p].step \in {"fetched", "local"} =>
           checking'[p].error = TRUE \/ (checking'[p].at \in Nat /\ checking'[p].at <= tracking')
  <2>1. CASE CheckBegins(p) BY <2>1 DEF CheckBegins, DeployInv
  <2>2. CASE FetchEnds(p) BY <2>2, <1>2 DEF FetchEnds, DeployInv
  <2>3. CASE RecheckBegins(p) BY <2>3 DEF RecheckBegins, DeployInv, Covered
  <2>4. CASE LocalState(p) BY <2>4 DEF LocalState, DeployInv, Covered
  <2> QED BY <2>1, <2>2, <2>3, <2>4
<1>4. CurrentIsHonest' BY <1>1 DEF CurrentIsHonest, DeployInv, Summary
<1> QED BY <1>1, <1>2, <1>3, <1>4 DEF DeployInv, Covered

\* The comparison, when git can count: what is fetched and is not behind is in the checkout.
LEMMA DeployCompares ==
  ASSUME DeployInv, ~GitFails, NEW p \in Probers, Compare(p)
  PROVE  DeployInv'
<1>1. /\ checking[p].step = "local" /\ UNCHANGED <<origin, head, tracking>>
      /\ DOMAIN checking' = Probers /\ checking'[p].step = "idle"
      /\ \A q \in Probers \ {p} : checking'[q] = checking[q]
      /\ snap' = [behind |-> IF tracking > head THEN tracking - head ELSE 0, dirty |-> checking[p].dirty,
                  error |-> checking[p].error, at |-> checking[p].at]
  BY DEF Compare, DeployInv, Resting
<1>2. Covered(checking[p]) BY <1>1 DEF DeployInv
<1>3. Covered(snap)' BY <1>1, <1>2 DEF Covered
<1>4. Summary(snap') = "current" => head' >= snap'.at
  BY <1>1, <1>2 DEF Covered, Summary, DeployInv
<1> QED BY <1>1, <1>3, <1>4 DEF DeployInv, CurrentIsHonest, Covered, Summary

LEMMA DeployUpdates ==
  ASSUME DeployInv, NEW u \in Updaters,
         UpdateBegins(u) \/ Pull(u) \/ Install(u) \/ RestartOne(u) \/ UpdateEnds(u)
  PROVE  DeployInv'
<1>1. /\ origin' = origin /\ head' \in {head, origin} /\ tracking' \in {tracking, origin}
  BY DEF UpdateBegins, Pull, Install, RestartOne, UpdateEnds
<1>2. /\ checking' = checking \/ checking' = [p \in Probers |-> Resting]
      /\ snap' = snap \/ snap' = None
  BY DEF UpdateBegins, Pull, Install, RestartOne, UpdateEnds, ManagerRestarts
<1> QED BY <1>1, <1>2, DeployForwards DEF DeployInv

LEMMA DeploySteps ==
  ASSUME ~GitFails, DeployInv, [DeployNext]_deployVars
  PROVE  DeployInv'
<1>1. CASE Push \/ EditTree \/ UNCHANGED deployVars
  <2>1. /\ origin' \in {origin, origin + 1}
        /\ UNCHANGED <<head, tracking, snap, checking>>
    BY <1>1 DEF Push, EditTree, deployVars
  <2> QED BY <2>1, DeployForwards DEF DeployInv
<1> QED BY <1>1, DeployChecks, DeployCompares, DeployUpdates DEF DeployNext

\* When git can count the commits between two it has, an answer "current" is true of the time
\* its check began, for any number of checks, rechecks and updates in any order.
THEOREM CurrentIsTrue ==
  ASSUME ~GitFails
  PROVE  DeploySpec => []CurrentIsHonest
<1>1. DeployInv => CurrentIsHonest BY DEF DeployInv
<1>2. DeployInv /\ [DeployNext]_deployVars => DeployInv' BY DeploySteps
<1> QED BY <1>1, <1>2, DeployStarts, PTL DEF DeploySpec

------------------------------------------------------------------------------
(* The reaping of leases *)

\* What a reaper took for an orphan has no process, and will have none.
ReapInv ==
  /\ cut = {} /\ DOMAIN scan = Reapers
  /\ \A r \in Reapers : scan[r] # NoScan => scan[r].orphans \cap lives = {}

LEMMA ReapSteps == ReapInv /\ [ContractNext \/ ReapNext]_slotLeasesVars => ReapInv'
<1> SUFFICES ASSUME ReapInv, [ContractNext \/ ReapNext]_slotLeasesVars PROVE ReapInv' OBVIOUS
<1>1. CASE ContractNext \/ UNCHANGED slotLeasesVars
  BY <1>1 DEF ContractNext, SaveContract, Launches, BackendGoes, Verifies, LeasesSame, slotLeasesVars, ReapInv
<1>2. ASSUME NEW w \in Workers, WritesLease(w) \/ DropsLease(w) \/ WorkerDies(w) \/ Ages(w)
      PROVE  ReapInv'
  BY <1>2 DEF WritesLease, DropsLease, WorkerDies, Ages, ReapInv
<1>3. ASSUME NEW r \in Reapers, ReapBegins(r) PROVE ReapInv'
  BY <1>3 DEF ReapBegins, Scans, ReapInv
<1>4. ASSUME NEW r \in Reapers, ReadsLease(r) PROVE ReapInv'
  BY <1>4 DEF ReadsLease, Scans, ReapInv
<1>5. ASSUME NEW r \in Reapers, LooksForWriter(r) PROVE ReapInv'
  BY <1>5 DEF LooksForWriter, Scans, Orphan, ReapInv
<1>6. ASSUME NEW r \in Reapers, Unlinks(r) PROVE ReapInv'
  BY <1>6 DEF Unlinks, Scans, ReapInv
<1> QED BY <1>1, <1>2, <1>3, <1>4, <1>5, <1>6 DEF ReapNext

\* A lease is never unlinked under a process that lives, however many reapers read the files
\* and however much later they unlink them.
THEOREM LiveLeasesAreSpared == SlotLeasesSpec => []LiveLeaseStays
<1>1. SlotLeasesInit => ReapInv BY DEF SlotLeasesInit, ReapInv
<1>2. ReapInv => LiveLeaseStays BY DEF ReapInv, LiveLeaseStays
<1> QED BY <1>1, <1>2, ReapSteps, PTL DEF SlotLeasesSpec

------------------------------------------------------------------------------
(* The catalogue *)

Slots == [path : Paths, engine : EntryEngines \cup {"auto"}, ctx : {"", "32k"}, rev : {"", "pin"},
          args : [EntryEngines -> {"", "own", "preset"}]]

\* An entry, and one saved from a slot and given no other model since: it says what the slot said.
Entry(e) ==
  /\ e.path \in Paths /\ e.engine \in EntryEngines \cup {"auto"}
  /\ e.ctx \in {"", "32k"} /\ e.rev \in {"", "pin"} /\ e.args \in {"", "own", "preset"}
Says(e, s) == e.path = s.path /\ e.engine = s.engine /\ e.rev = FromSlot(s).rev /\ e.args = FromSlot(s).args
Faithful(e) == e.id \in 1..ids /\ Entry(e) /\ (e.id \in DOMAIN from => Says(e, from[e.id]))
\* What a client's request is to write.
FaithfulEdit(x) ==
  /\ \A e \in x.had : Faithful(e)
  /\ x.op \in {"put", "drop", "write"} /\ x.new # NoEntry => Faithful(Numbered(x.new, x.id))

CatalogueInv ==
  /\ ids \in Nat /\ slot \in Slots
  /\ DOMAIN from \subseteq 1..ids /\ \A i \in DOMAIN from : from[i] \in Slots
  /\ \A e \in file : Faithful(e)
  /\ DOMAIN edit = Editors /\ \A c \in Editors : edit[c] # NoEntry => FaithfulEdit(edit[c])
  /\ SwitchBack

\* Of what a slot was saved as, a switch makes the same model on the same engine again.
LEMMA SwitchedBack ==
  ASSUME NEW was \in Slots, NEW s \in Slots, NEW e, was.path = "hf" => was.engine # "auto",
         e.path = was.path, e.engine = was.engine,
         e.rev = FromSlot(was).rev, e.args = FromSlot(was).args
  PROVE  LET now == Switched(s, e) IN
         /\ now.path = was.path /\ Runs(now) = Runs(was)
         /\ Runs(was) = "splash" => now.rev = was.rev
         /\ InFamily(was.path) \/ now.args[Runs(was)] = was.args[Runs(was)]
<1> DEFINE to == ModelSwitchEngine(e, s.engine)
           own == ModelSwitchEngine([path |-> was.path, engine |-> was.engine], was.engine)
<1>1. to.runs = Runs(was) /\ own.runs = Runs(was) /\ to.write \in EntryEngines \cup {"auto"}
      /\ (to.write = "auto" => ByPath(e.path) = Runs(was)) /\ (to.write # "auto" => to.write = Runs(was))
      /\ Runs(was) \in EntryEngines
  BY DEF ModelSwitchEngine, Runs, ByPath, Slots, EntryEngines
<1>2. e.rev = (IF own.runs = "splash" THEN was.rev ELSE "") /\ e.args = was.args[own.runs]
  BY DEF FromSlot
<1> HIDE DEF to, own
<1>3. /\ Switched(s, e).path = e.path /\ Switched(s, e).engine = to.write
      /\ to.runs = "splash" => Switched(s, e).rev = e.rev
      /\ ~InFamily(e.path) => Switched(s, e).args = [s.args EXCEPT ![to.runs] = e.args]
  BY DEF Switched, to
<1>4. ~InFamily(e.path) => Switched(s, e).args[to.runs] = e.args BY <1>1, <1>3 DEF Slots
<1>5. Runs(Switched(s, e)) = Runs(was) BY <1>1, <1>3 DEF Runs
<1> QED BY <1>1, <1>2, <1>3, <1>4, <1>5

\* The ids grow and what is saved or updated leaves the others' record alone: an entry that
\* was true of its slot still is.
LEMMA StaysFaithful ==
  ASSUME ids \in Nat, ids' \in Nat, ids <= ids', NEW e, Faithful(e),
         \A i \in DOMAIN from' \cap 1..ids : i \in DOMAIN from /\ from'[i] = from[i]
  PROVE  Faithful(e)'
<1>1. e.id \in 1..ids /\ Entry(e) /\ (e.id \in DOMAIN from => Says(e, from[e.id])) BY DEF Faithful
<1>2. e.id \in 1..ids' BY <1>1
<1>3. e.id \in DOMAIN from' => Says(e, from[e.id])' BY <1>1 DEF Says, FromSlot, ModelSwitchEngine, ByPath
<1>4. Entry(e)' BY <1>1 DEF Entry
<1> QED BY <1>2, <1>3, <1>4 DEF Faithful

\* The same of a step that leaves them alone.
LEMMA SavedSame ==
  ASSUME CatalogueInv, UNCHANGED <<ids, from>>
  PROVE  \A e : Faithful(e) => Faithful(e)'
<1> SUFFICES ASSUME NEW e, Faithful(e) PROVE Faithful(e)' OBVIOUS
<1> QED BY StaysFaithful DEF CatalogueInv

LEMMA EditsSame ==
  ASSUME CatalogueInv, UNCHANGED <<ids, from>>
  PROVE  \A x : FaithfulEdit(x) => FaithfulEdit(x)'
BY SavedSame DEF FaithfulEdit

\* What is read of the catalogue is entries of it.
LEMMA LoadedIsFaithful == CatalogueInv => \A e \in Loaded : Faithful(e)
BY DEF CatalogueInv, Loaded

\* A request is made of what it read and of an entry that says what its slot said.
LEMMA AskedKeeps ==
  ASSUME CatalogueInv, NEW c \in Editors, NEW op \in {"put", "drop"}, NEW i, NEW e, Asked(c, op, i, e),
         ids' \in Nat, ids <= ids', UNCHANGED <<slot, file, back>>,
         DOMAIN from' \subseteq 1..ids', \A k \in DOMAIN from' : from'[k] \in Slots,
         \A k \in DOMAIN from' \cap 1..ids : k \in DOMAIN from /\ from'[k] = from[k],
         \A x : e # NoEntry /\ x = Numbered(e, i) => Faithful(x)'
  PROVE  CatalogueInv'
<1>1. \A x : Faithful(x) => Faithful(x)' BY StaysFaithful DEF CatalogueInv
<1>2. /\ DOMAIN edit' = Editors /\ \A d \in Editors \ {c} : edit'[d] = edit[d]
      /\ edit'[c] = [op |-> op, id |-> i, new |-> e, had |-> Loaded]
  BY DEF Asked, CatalogueInv
<1>3. FaithfulEdit(edit[c])'
  <2>1. \A x \in edit'[c].had : Faithful(x)' BY <1>1, <1>2, LoadedIsFaithful
  <2>2. edit'[c].new = e /\ edit'[c].id = i BY <1>2
  <2> QED BY <2>1, <2>2 DEF FaithfulEdit
<1>4. \A d \in Editors \ {c} : FaithfulEdit(edit[d]) => FaithfulEdit(edit[d])'
  BY <1>1, <1>2 DEF FaithfulEdit
<1> QED BY <1>1, <1>2, <1>3, <1>4 DEF CatalogueInv, SwitchBack

LEMMA CatalogueAsks ==
  ASSUME CatalogueInv, NEW c \in Editors,
         AskAdd(c) \/ AskFromSlot(c) \/ AskUpdate(c) \/ AskDelete(c)
  PROVE  CatalogueInv'
<1>1. CASE AskAdd(c)
  <2>1. ids' = ids + 1 /\ from' = from /\ UNCHANGED <<slot, file, back>> BY <1>1 DEF AskAdd
  <2>2. /\ ids' \in Nat /\ ids <= ids' /\ ids + 1 \in 1..ids'
        /\ ids + 1 \notin DOMAIN from' /\ DOMAIN from' \subseteq 1..ids'
        /\ \A k \in DOMAIN from' : from'[k] \in Slots
    <3>1. ids \in Nat /\ DOMAIN from \subseteq 1..ids /\ \A k \in DOMAIN from : from[k] \in Slots
      BY DEF CatalogueInv
    <3> QED BY <2>1, <3>1
  <2>3. PICK p \in Paths, n \in EntryEngines \cup {"auto"}, a \in {"", "own"} :
          Asked(c, "put", ids + 1, [path |-> p, engine |-> n, ctx |-> "32k", rev |-> "", args |-> a])
    BY <1>1 DEF AskAdd
  <2>4. ASSUME NEW x, x = Numbered([path |-> p, engine |-> n, ctx |-> "32k", rev |-> "", args |-> a], ids + 1)
        PROVE  Faithful(x)'
    <3>1. x.id = ids + 1 /\ Entry(x)' BY <2>4 DEF Numbered, Entry
    <3> QED BY <2>2, <3>1 DEF Faithful
  <2> QED BY <2>1, <2>2, <2>3, <2>4, AskedKeeps
<1>2. CASE AskFromSlot(c)
  <2>1. /\ Asked(c, "put", ids + 1, FromSlot(slot)) /\ ids' = ids + 1 /\ UNCHANGED <<slot, file, back>>
        /\ DOMAIN from' = DOMAIN from \cup {ids'} /\ from'[ids'] = slot
        /\ \A k \in DOMAIN from : from'[k] = from[k]
    BY <1>2 DEF AskFromSlot, CatalogueInv
  <2>2. /\ FromSlot(slot).path \in Paths /\ FromSlot(slot).engine \in EntryEngines \cup {"auto"}
        /\ FromSlot(slot).ctx \in {"", "32k"} /\ FromSlot(slot).rev \in {"", "pin"}
        /\ FromSlot(slot).args \in {"", "own", "preset"}
    BY DEF FromSlot, ModelSwitchEngine, ByPath, CatalogueInv, Slots, EntryEngines
  <2>3. ASSUME NEW x, x = Numbered(FromSlot(slot), ids + 1)
        PROVE  Faithful(x)'
    <3>1. x.id = ids + 1 /\ x.path = FromSlot(slot).path /\ x.engine = FromSlot(slot).engine
          /\ x.ctx = FromSlot(slot).ctx /\ x.rev = FromSlot(slot).rev /\ x.args = FromSlot(slot).args
      BY <2>3 DEF Numbered
    <3>2. Entry(x)' BY <2>2, <3>1 DEF Entry
    <3>3. from'[x.id] = slot /\ FromSlot(slot).path = slot.path /\ FromSlot(slot).engine = slot.engine
      BY <2>1, <3>1 DEF FromSlot
    <3>4. Says(x, from[x.id])'
      BY <3>1, <3>3 DEF Says, FromSlot, ModelSwitchEngine, ByPath
    <3>5. x.id \in 1..ids' BY <2>1, <3>1 DEF CatalogueInv
    <3> QED BY <3>2, <3>4, <3>5 DEF Faithful
  <2> QED BY <2>1, <2>3, AskedKeeps DEF CatalogueInv
<1>3. CASE AskUpdate(c)
  <2>1. PICK e \in Loaded, p \in Paths :
          /\ Asked(c, "put", e.id, [path |-> p, engine |-> e.engine, ctx |-> e.ctx, rev |-> e.rev,
                                    args |-> IF InFamily(p) /\ e.args = "" THEN "preset" ELSE e.args])
          /\ from' = [i \in DOMAIN from \ {e.id} |-> from[i]]
    BY <1>3 DEF AskUpdate
  <2>2. ids' = ids /\ UNCHANGED <<slot, file, back>> BY <1>3 DEF AskUpdate
  <2>3. Faithful(e) BY LoadedIsFaithful
  <2>4. ASSUME NEW x,
               x = Numbered([path |-> p, engine |-> e.engine, ctx |-> e.ctx, rev |-> e.rev,
                             args |-> IF InFamily(p) /\ e.args = "" THEN "preset" ELSE e.args], e.id)
        PROVE  Faithful(x)'
    <3>1. x.id = e.id /\ x.path = p /\ x.engine = e.engine /\ x.ctx = e.ctx /\ x.rev = e.rev
          /\ x.args \in {e.args, "preset"}
      BY <2>4 DEF Numbered
    <3>2. Entry(e) /\ e.id \in 1..ids BY <2>3 DEF Faithful
    <3>3. Entry(x)' BY <3>1, <3>2 DEF Entry
    <3>4. x.id \in 1..ids' /\ x.id \notin DOMAIN from' BY <2>1, <2>2, <3>1, <3>2
    <3> QED BY <3>3, <3>4 DEF Faithful
  <2>5. ids' \in Nat /\ ids <= ids' /\ DOMAIN from' \subseteq 1..ids'
        /\ \A k \in DOMAIN from' : from'[k] \in Slots /\ k \in DOMAIN from /\ from'[k] = from[k]
    <3>1. ids \in Nat /\ DOMAIN from \subseteq 1..ids /\ \A k \in DOMAIN from : from[k] \in Slots
      BY DEF CatalogueInv
    <3>2. from' = [i \in DOMAIN from \ {e.id} |-> from[i]] BY <2>1
    <3> QED BY <2>2, <3>1, <3>2
  <2> QED BY <2>1, <2>2, <2>4, <2>5, AskedKeeps
<1>4. CASE AskDelete(c)
  <2>1. PICK i \in 1..ids : Asked(c, "drop", i, NoEntry) BY <1>4 DEF AskDelete
  <2>2. ids' = ids /\ from' = from /\ UNCHANGED <<slot, file, back>> BY <1>4 DEF AskDelete
  <2> QED BY <2>1, <2>2, AskedKeeps DEF CatalogueInv
<1> QED BY <1>1, <1>2, <1>3, <1>4

LEMMA CatalogueWrites ==
  ASSUME CatalogueInv, NEW c \in Editors, Truncates(c) \/ WritesFile(c)
  PROVE  CatalogueInv'
<1>1. /\ UNCHANGED <<slot, ids, from, back>> /\ edit[c] # NoEntry
      /\ DOMAIN edit' = Editors /\ \A d \in Editors \ {c} : edit'[d] = edit[d]
  BY DEF Truncates, WritesFile, CatalogueInv
<1>2. /\ \A x : Faithful(x) => Faithful(x)'
      /\ \A x : FaithfulEdit(x) => FaithfulEdit(x)' 
  BY <1>1, SavedSame, EditsSame
<1>3. FaithfulEdit(edit[c]) BY <1>1 DEF CatalogueInv
<1>4. CASE Truncates(c)
  <2>1. /\ file' = file /\ edit[c].op \in {"put", "drop"}
        /\ edit'[c] = [op |-> "write", id |-> edit[c].id, new |-> edit[c].new, had |-> edit[c].had]
    BY <1>4 DEF Truncates, CatalogueInv
  <2>2. edit[c].new # NoEntry => Faithful(Numbered(edit[c].new, edit[c].id)) BY <1>3, <2>1 DEF FaithfulEdit
  <2>3. FaithfulEdit(edit[c])' BY <1>2, <1>3, <2>1, <2>2 DEF FaithfulEdit
  <2> QED BY <1>1, <1>2, <2>1, <2>3 DEF CatalogueInv, FaithfulEdit, SwitchBack
<1>5. CASE WritesFile(c)
  <2>1. edit'[c] = NoEntry /\ edit[c].op = "write" BY <1>5 DEF WritesFile, CatalogueInv
  <2>2. \A x \in file' : x \in edit[c].had \/ (edit[c].new # NoEntry /\ x = Numbered(edit[c].new, edit[c].id))
    BY <1>5 DEF WritesFile
  <2>3. \A x \in file' : Faithful(x)' BY <1>2, <1>3, <2>1, <2>2 DEF FaithfulEdit
  <2> QED BY <1>1, <1>2, <2>1, <2>3 DEF CatalogueInv, FaithfulEdit, SwitchBack
<1> QED BY <1>4, <1>5

LEMMA SlotEditedKeeps == CatalogueInv /\ SlotEdited => CatalogueInv'
<1> SUFFICES ASSUME CatalogueInv, SlotEdited PROVE CatalogueInv' OBVIOUS
<1>1. UNCHANGED <<file, edit, ids, from, back>> BY DEF SlotEdited
<1>2. slot' \in Slots
  <2>1. CASE \E p \in Paths : slot' = [slot EXCEPT !.path = p] BY <2>1 DEF CatalogueInv, Slots
  <2>2. CASE \E n \in EntryEngines \cup {"auto"} : slot' = [slot EXCEPT !.engine = n]
    BY <2>2 DEF CatalogueInv, Slots
  <2>3. CASE \E n \in EntryEngines : slot' = [slot EXCEPT !.args[n] = "own"] 
    <3>1. PICK n \in EntryEngines : slot' = [slot EXCEPT !.args[n] = "own"] BY <2>3
    <3>2. [slot.args EXCEPT ![n] = "own"] \in [EntryEngines -> {"", "own", "preset"}]
      BY DEF CatalogueInv, Slots
    <3>3. slot' = [slot EXCEPT !.args = [slot.args EXCEPT ![n] = "own"]] BY <3>1 DEF CatalogueInv, Slots
    <3> QED BY <3>2, <3>3 DEF CatalogueInv, Slots
  <2>4. CASE slot' = [slot EXCEPT !.rev = "pin"] BY <2>4 DEF CatalogueInv, Slots
  <2>5. CASE slot' = [slot EXCEPT !.ctx = "32k"] BY <2>5 DEF CatalogueInv, Slots
  <2> QED BY <2>1, <2>2, <2>3, <2>4, <2>5 DEF SlotEdited
<1> QED BY <1>1, <1>2, SavedSame, EditsSame DEF CatalogueInv, SwitchBack

LEMMA SwitchToKeeps == CatalogueInv /\ SwitchTo => CatalogueInv'
<1> SUFFICES ASSUME CatalogueInv, SwitchTo PROVE CatalogueInv' OBVIOUS
<1>1. UNCHANGED <<file, edit, ids, from>> BY DEF SwitchTo
<1>2. PICK e \in Loaded : /\ slot' = Switched(slot, e)
                          /\ back' = IF e.id \in DOMAIN from THEN [was |-> from[e.id], now |-> slot'] ELSE NoEntry
  BY DEF SwitchTo
<1>3. Faithful(e) BY LoadedIsFaithful
<1>4. ModelSwitchEngine(e, slot.engine).runs \in EntryEngines
      /\ ModelSwitchEngine(e, slot.engine).write \in EntryEngines \cup {"auto"}
  BY <1>3 DEF ModelSwitchEngine, ByPath, Faithful, Entry, CatalogueInv, Slots, EntryEngines
<1>5. slot' \in Slots
  BY <1>2, <1>3, <1>4 DEF Switched, Faithful, Entry, CatalogueInv, Slots
<1>6. SwitchBack'
  <2>1. CASE e.id \in DOMAIN from
    <3>1. from[e.id] \in Slots /\ slot \in Slots BY <2>1 DEF CatalogueInv
    <3>2. e.path = from[e.id].path /\ e.engine = from[e.id].engine
          /\ e.rev = FromSlot(from[e.id]).rev /\ e.args = FromSlot(from[e.id]).args
      BY <1>3, <2>1 DEF Faithful, Says
    <3>3. back' = [was |-> from[e.id], now |-> slot'] BY <1>2, <2>1
    <3> QED BY <1>2, <3>1, <3>2, <3>3, SwitchedBack DEF SwitchBack
  <2>2. CASE e.id \notin DOMAIN from BY <1>2, <2>2 DEF SwitchBack
  <2> QED BY <2>1, <2>2
<1> QED BY <1>1, <1>5, <1>6, SavedSame, EditsSame DEF CatalogueInv

\* Whatever the slot is made to serve in between, and whatever happens to the catalogue, an
\* entry that was saved from the slot brings its model back on the same engine.
THEOREM SwitchingBackIsTrue == CatalogueSpec => []SwitchBack
<1>1. CatalogueInit => CatalogueInv
  <2> SUFFICES ASSUME CatalogueInit PROVE CatalogueInv OBVIOUS
  <2>1. PICK p \in Paths : slot = [path |-> p, engine |-> "auto", ctx |-> "", rev |-> "",
                                   args |-> [n \in EntryEngines |-> ""]]
    BY DEF CatalogueInit
  <2>2. [n \in EntryEngines |-> ""] \in [EntryEngines -> {"", "own", "preset"}] OBVIOUS
  <2>3. slot \in Slots BY <2>1, <2>2 DEF Slots
  <2>4. ids \in Nat /\ file = {} /\ back = NoEntry
        /\ DOMAIN edit = Editors /\ \A c \in Editors : edit[c] = NoEntry
    BY DEF CatalogueInit
  <2>5. DOMAIN from = {}
    <3>1. from = << >> BY DEF CatalogueInit
    <3> QED BY <3>1
  <2> QED BY <2>3, <2>4, <2>5 DEF CatalogueInv, SwitchBack
<1>2. CatalogueInv /\ [CatalogueNext]_catalogueVars => CatalogueInv'
  <2> SUFFICES ASSUME CatalogueInv, [CatalogueNext]_catalogueVars PROVE CatalogueInv' OBVIOUS
  <2>1. CASE UNCHANGED catalogueVars
    BY <2>1, SavedSame, EditsSame DEF catalogueVars, CatalogueInv, SwitchBack
  <2> QED BY <2>1, CatalogueAsks, CatalogueWrites, SlotEditedKeeps, SwitchToKeeps DEF CatalogueNext
<1>3. CatalogueInv => SwitchBack BY DEF CatalogueInv
<1> QED BY <1>1, <1>2, <1>3, PTL DEF CatalogueSpec

------------------------------------------------------------------------------
(* The downloads *)

\* What a file that is there may hold.
LEMMA FileContents ==
  ASSUME NEW c \in Contents, c # NoFile
  PROVE  Len(c) \in 0..2 /\ c \in [1..Len(c) -> 0..Revisions]
<1>1. c \in UNION {[1..n -> 0..Revisions] : n \in 0..2} BY Zenon DEF Contents
<1>2. PICK n \in 0..2 : c \in [1..n -> 0..Revisions] BY <1>1, Zenon
<1>3. n \in Nat OBVIOUS
<1>4. c \in Seq(0..Revisions) BY <1>2, <1>3, SeqDef, Zenon
<1>5. Len(c) = n BY <1>2, <1>4, LenProperties
<1> QED BY <1>2, <1>5

LEMMA ContentsOf ==
  ASSUME NEW n \in 0..2, NEW c \in [1..n -> 0..Revisions]
  PROVE  c \in Contents /\ c # NoFile
<1>1. c \in Contents BY DEF Contents
<1>2. -1 \notin 0..Revisions BY DownloadsAssumption
<1>3. ASSUME c = NoFile PROVE FALSE
  <2>1. DOMAIN c = {1} /\ c[1] = -1 BY <1>3 DEF NoFile
  <2>2. 1 \in 1..n BY <2>1
  <2> QED BY <2>1, <2>2, <1>2
<1> QED BY <1>1, <1>3

\* A chunk more is a file still.
LEMMA WrittenIsAFile ==
  ASSUME NEW c \in Contents, c # NoFile, NEW pos \in 0..1, NEW mode, NEW rev \in Revs
  PROVE  Written(c, pos, mode, rev) \in Contents /\ Written(c, pos, mode, rev) # NoFile
<1>1. Len(c) \in 0..2 /\ c \in [1..Len(c) -> 0..Revisions] BY FileContents
<1>2. rev \in 0..Revisions BY DownloadsAssumption DEF Revs
<1>3. CASE mode = "ab" /\ Len(c) < 2
  <2>1. Len(c) \in Nat /\ Len(c) + 1 \in 0..2 BY <1>1, <1>3
  <2>2. c \in Seq(0..Revisions) BY <1>1, <2>1, SeqDef, Zenon
  <2>3. Append(c, rev) \in Seq(0..Revisions) /\ Len(Append(c, rev)) = Len(c) + 1
    BY <2>2, <1>2, AppendProperties
  <2>4. Append(c, rev) \in [1..Len(c) + 1 -> 0..Revisions] BY <2>3, LenProperties
  <2> QED BY <2>1, <2>4, <1>3, ContentsOf DEF Written
<1>4. CASE mode = "ab" /\ ~(Len(c) < 2) BY <1>4 DEF Written
<1>5. CASE mode # "ab"
  <2> DEFINE n == IF Len(c) > pos THEN Len(c) ELSE pos + 1
             w == [i \in 1..n |-> IF i = pos + 1 THEN rev ELSE IF i <= Len(c) THEN c[i] ELSE 0]
  <2>1. n \in 0..2 BY <1>1
  <2>2. w \in [1..n -> 0..Revisions] BY <1>1, <1>2, <2>1, DownloadsAssumption
  <2>3. Written(c, pos, mode, rev) = w BY <1>5 DEF Written
  <2> HIDE DEF n, w
  <2> QED BY <2>1, <2>2, <2>3, ContentsOf
<1> QED BY <1>3, <1>4, <1>5

LEMMA EmptyIsAFile == <<>> \in Contents /\ <<>> # NoFile
<1>1. <<>> \in [1..0 -> 0..Revisions] OBVIOUS
<1>2. 0 \in 0..2 OBVIOUS
<1> QED BY <1>1, <1>2, ContentsOf, Zenon

\* A file whose chunks are of one revision, if it is there.
OnlyOf(content, rev) == content # NoFile => \A n \in DOMAIN content : content[n] = rev
FileOf(x) == Order(kind)[x.file]

\* What is true of a job, whatever others do: the file it has open is there, and a pack is
\* past the files it has staged.
Sits(x) ==
  /\ x.step = "write" <=> x.at # "closed"
  /\ x.step \in {"open", "write"} => x.of \in Revs
  /\ x.at = "part" => part[FileOf(x)] # NoFile
  /\ x.at = "dest" => dest[FileOf(x)] # NoFile
  /\ x.at = "target" => kind = "pack" /\ target[FileOf(x)] # NoFile
  /\ kind = "gguf" => x.file = 1 /\ x.step \notin {"file", "rename"}
  /\ kind = "pack" => x.step # "check"
  /\ target = NoPack /\ kind = "pack" =>
       /\ x.file = 2 => dest["marker"] # NoFile
       /\ x.step = "rename" => x.file = 2 /\ dest["weights"] # NoFile

\* What is true of a job that no other has disturbed: the part it places is the one it has
\* checked, and what it has staged from nothing is of its revision, without a hole.
Pure(x) ==
  ~raced =>
    /\ x.at \in {"closed", "part"}
    /\ kind = "gguf" /\ x.step = "place" /\ x.expect # 0 => part["gguf"] = Whole("gguf", x.expect)
    /\ x.fresh =>
         /\ kind = "pack" /\ x.rev \in Revs /\ x.step # "idle"
         /\ \A f \in PackFiles : OnlyOf(part[f], x.rev) /\ OnlyOf(dest[f], x.rev)
         /\ x.step \in {"open", "write"} => x.of = x.rev
         /\ x.step = "open" /\ x.mode = "wb" => x.pos = 0
         /\ x.step = "write" /\ x.mode = "wb" => x.pos <= Len(part[FileOf(x)])

DownloadsInv ==
  /\ TypeOK
  /\ \A k \in Jobs : Sits(job[k]) /\ Pure(job[k])
  /\ target # NoPack => \A f \in PackFiles : target[f] # NoFile
  /\ ~raced => \A j, k \in Jobs : job[j].step # "idle" /\ job[k].step # "idle" => j = k
  /\ kind = "pack" => wanted = 0
  /\ ~raced /\ wanted # 0 => dest["gguf"] = Whole("gguf", wanted)
  /\ ~raced /\ fresh => \E r \in Revs : \A f \in PackFiles : OnlyOf(target[f], r)

LEMMA IdleFits == Idle \in Job /\ Sits(Idle) /\ Pure(Idle) /\ Idle.step = "idle" /\ Idle.at = "closed"
BY DownloadsAssumption DEF Idle, Job, Steps, Sits, Pure

LEMMA DownloadsStart == Init => DownloadsInv
<1> SUFFICES ASSUME Init PROVE DownloadsInv OBVIOUS
<1>1. NoFile \in Contents BY DEF Contents
<1>2. TypeOK
  <2>1. job \in [Jobs -> Job] BY IdleFits DEF Init
  <2>2. \A j \in Jobs : job[j].step # "write" /\ job[j].at = "closed" BY DEF Init, Idle
  <2>3. /\ part \in [Files -> Contents] /\ dest \in [Files -> Contents]
        /\ target \in [PackFiles -> Contents]
    BY <1>1 DEF Init, NoPack
  <2>4. 1 \in Revs /\ 0 \in 0..Revisions BY DownloadsAssumption DEF Revs
  <2>5. /\ kind \in {"gguf", "pack"} /\ remote \in Revs
        /\ raced \in BOOLEAN /\ wanted \in 0..Revisions /\ fresh \in BOOLEAN
    BY <2>4, Zenon DEF Init
  <2> QED BY <2>1, <2>2, <2>3, <2>5 DEF TypeOK
<1>3. \A k \in Jobs : job[k] = Idle /\ Sits(job[k]) /\ Pure(job[k]) BY IdleFits DEF Init
<1> QED BY <1>2, <1>3, IdleFits DEF DownloadsInv, Init

\* While no two have met, the others are at rest.
LEMMA OthersRest ==
  ASSUME DownloadsInv, ~raced, NEW j \in Jobs, job[j].step # "idle", NEW k \in Jobs \ {j}
  PROVE  job[k].step = "idle" /\ job[k].at = "closed" /\ job[k].fresh = FALSE
<1>1. job[k].step = "idle" BY DEF DownloadsInv
<1>2. job[k] \in Job BY DEF DownloadsInv, TypeOK
<1> QED BY <1>1, <1>2 DEF DownloadsInv, Sits, Pure, Job

\* A step that writes no file.
LEMMA JobMoves ==
  ASSUME DownloadsInv, NEW j \in Jobs, NEW new \in Job, Put(j, new),
         UNCHANGED <<kind, files, wanted, fresh>>, remote' \in Revs, raced' \in BOOLEAN, raced => raced',
         new.step # "idle" /\ ~raced' => \A k \in Jobs \ {j} : job[k].step = "idle",
         new.at = "closed", new.step # "write", Sits(new), Pure(new)
  PROVE  DownloadsInv'
<1>1. job' \in [Jobs -> Job] /\ job'[j] = new /\ \A k \in Jobs \ {j} : job'[k] = job[k]
  BY DEF Put, DownloadsInv, TypeOK
<1>2. TypeOK' BY <1>1 DEF DownloadsInv, TypeOK, files
<1>3. ASSUME NEW k \in Jobs PROVE Sits(job[k])' /\ Pure(job[k])'
  <2>1. PICK x \in Job : x = job'[k] /\ Sits(x) /\ Pure(x) BY <1>1 DEF DownloadsInv, TypeOK
  <2>2. Sits(job[k])' BY <2>1 DEF Sits, FileOf, files
  <2>3. Pure(job[k])' BY <2>1 DEF Pure, FileOf, files
  <2> QED BY <2>2, <2>3
<1>4. (~raced => \A i, k \in Jobs : job[i].step # "idle" /\ job[k].step # "idle" => i = k)'
  BY <1>1 DEF DownloadsInv
<1> QED BY <1>2, <1>3, <1>4 DEF DownloadsInv, files

LEMMA FileOfAJob ==
  ASSUME DownloadsInv, NEW j \in Jobs
  PROVE  /\ File(j) = FileOf(job[j]) /\ File(j) \in Files /\ Size(File(j)) \in 1..2
         /\ kind = "pack" => File(j) = IF job[j].file = 1 THEN "marker" ELSE "weights"
         /\ kind = "gguf" => File(j) = "gguf"
         /\ part[File(j)] \in Contents /\ dest[File(j)] \in Contents
<1>1. job[j].file \in 1..2 /\ kind \in {"gguf", "pack"} BY DEF DownloadsInv, TypeOK, Job
<1>2. kind = "gguf" => job[j].file = 1 BY DEF DownloadsInv, Sits
<1>3. CASE kind = "gguf"
  BY <1>1, <1>2, <1>3 DEF File, FileOf, Order, Files, PackFiles, Size, DownloadsInv, TypeOK
<1>4. CASE kind = "pack"
  BY <1>1, <1>4 DEF File, FileOf, Order, Files, PackFiles, Size, DownloadsInv, TypeOK
<1> QED BY <1>1, <1>3, <1>4

LEMMA Beginnings ==
  ASSUME DownloadsInv, NEW j \in Jobs, BeginGguf(j) \/ BeginPack(j)
  PROVE  DownloadsInv'
<1>1. CASE BeginGguf(j)
  <2>1. PICK total \in {0, remote} : Put(j, [Idle EXCEPT !.step = "ask", !.expect = total])
    BY <1>1 DEF BeginGguf
  <2> DEFINE new == [Idle EXCEPT !.step = "ask", !.expect = total]
  <2>2. total \in 0..Revisions /\ raced \in BOOLEAN BY DownloadsAssumption DEF DownloadsInv, TypeOK, Revs
  <2>3. new \in Job BY <2>2, IdleFits DEF Idle, Job, Steps
  <2>4. Sits(new) /\ Pure(new) /\ new.at = "closed" /\ new.step # "write"
    BY <1>1 DEF BeginGguf, Idle, Sits, Pure
  <2>5. raced' \in BOOLEAN /\ (raced => raced') /\ (~raced' => \A k \in Jobs \ {j} : job[k].step = "idle")
    BY <1>1, <2>2 DEF BeginGguf, Racing
  <2>6. UNCHANGED <<kind, remote, files, wanted, fresh>> BY <1>1 DEF BeginGguf
  <2> QED BY <2>1, <2>3, <2>4, <2>5, <2>6, JobMoves DEF DownloadsInv, TypeOK
<1>2. CASE BeginPack(j)
  <2> DEFINE new == [Idle EXCEPT !.step = "file", !.rev = remote,
                                 !.fresh = \A f \in PackFiles : part[f] = NoFile /\ dest[f] = NoFile]
  <2>1. Put(j, new) BY <1>2 DEF BeginPack
  <2>2. remote \in Revs /\ remote \in 0..Revisions /\ raced \in BOOLEAN
    BY DownloadsAssumption DEF DownloadsInv, TypeOK, Revs
  <2>3. new \in Job BY <2>2, IdleFits DEF Idle, Job, Steps
  <2>4. new.at = "closed" /\ new.step = "file" /\ new.file = 1 /\ new.rev = remote
    /\ (new.fresh <=> \A f \in PackFiles : part[f] = NoFile /\ dest[f] = NoFile)
    BY DEF Idle
  <2>5. Sits(new) /\ Pure(new)
    <3> HIDE DEF new
    <3> QED BY <1>2, <2>2, <2>4 DEF BeginPack, Sits, Pure, OnlyOf
  <2>6. raced' \in BOOLEAN /\ (raced => raced') /\ (~raced' => \A k \in Jobs \ {j} : job[k].step = "idle")
    BY <1>2, <2>2 DEF BeginPack, Racing
  <2>7. UNCHANGED <<kind, remote, files, wanted, fresh>> BY <1>2 DEF BeginPack
  <2> HIDE DEF new
  <2> QED BY <2>1, <2>2, <2>3, <2>4, <2>5, <2>6, <2>7, JobMoves
<1> QED BY <1>1, <1>2

\* A job that is over leaves the files as they are.
LEMMA Endings ==
  ASSUME DownloadsInv, NEW j \in Jobs, AskRefused(j) \/ NetworkFails(j) \/ PlaceFails(j) \/ RenameFails(j)
  PROVE  DownloadsInv'
<1>1. Put(j, Idle) /\ UNCHANGED <<kind, remote, files, history>>
  BY DEF AskRefused, NetworkFails, PlaceFails, RenameFails, Ended
<1>2. remote' \in Revs /\ raced' \in BOOLEAN /\ raced' = raced
      /\ UNCHANGED <<kind, files, wanted, fresh>>
  BY <1>1 DEF history, DownloadsInv, TypeOK
<1> QED BY <1>1, <1>2, IdleFits, JobMoves

\* Steps of a job at work that touch only itself.
LEMMA OwnSteps ==
  ASSUME DownloadsInv, NEW j \in Jobs, job[j].step # "idle", NEW new \in Job, Put(j, new),
         UNCHANGED <<kind, remote, files, history>>,
         new.at = "closed", new.step # "write", Sits(new), Pure(new)
  PROVE  DownloadsInv'
<1>1. remote' \in Revs /\ raced' \in BOOLEAN /\ raced' = raced
      /\ UNCHANGED <<kind, files, wanted, fresh>>
  BY DEF history, DownloadsInv, TypeOK
<1>2. ~raced' => \A k \in Jobs \ {j} : job[k].step = "idle" BY <1>1, OthersRest
<1> QED BY <1>1, <1>2, JobMoves

\* On to the next file of the pack: the one before is there.
LEMMA OnwardsFits ==
  ASSUME DownloadsInv, NEW j \in Jobs, kind = "pack", job[j].step \in {"file", "place"}
  PROVE  /\ Onwards(j) \in Job /\ Onwards(j).at = "closed" /\ Onwards(j).step \in {"file", "rename"}
         /\ Onwards(j).file = 2 /\ Onwards(j).fresh = job[j].fresh /\ Onwards(j).rev = job[j].rev
         /\ Onwards(j).step = "rename" => job[j].file = 2
<1> DEFINE here == job[j].file
           last == Len(Order(kind))
<1>1. job[j] \in Job /\ here \in 1..2 /\ last = 2 BY DEF DownloadsInv, TypeOK, Order, Job
<1>2. /\ (IF here < last THEN "file" ELSE "rename") = (IF here = 1 THEN "file" ELSE "rename")
      /\ (IF here < last THEN here + 1 ELSE here) = 2
  <2> HIDE DEF here, last
  <2> QED BY <1>1
<1>3. Onwards(j) = [job[j] EXCEPT !.step = IF here = 1 THEN "file" ELSE "rename", !.file = 2,
                                  !.of = 0, !.pos = 0, !.mode = "wb", !.at = "closed"]
  BY <1>2, Zenon DEF Onwards
<1>4. Onwards(j) \in Job
  <2> HIDE DEF here, last
  <2>1. 0 \in 0..Revisions /\ 0 \in 0..2 /\ 2 \in 1..2 BY DownloadsAssumption
  <2> QED BY <1>1, <1>3, <2>1 DEF Job, Steps
<1> QED BY <1>1, <1>3, <1>4 DEF Job

LEMMA FileSteps ==
  ASSUME DownloadsInv, NEW j \in Jobs, FileSkip(j) \/ FileNeeded(j)
  PROVE  DownloadsInv'
<1>1. job[j].step = "file" /\ kind = "pack" /\ job[j] \in Job
  BY DEF FileSkip, FileNeeded, DownloadsInv, TypeOK, Sits
<1>2. Sits(job[j]) /\ Pure(job[j]) /\ job[j].at = "closed" BY <1>1 DEF DownloadsInv, Sits
<1>3. CASE FileSkip(j)
  <2>1. dest[File(j)] # NoFile BY <1>3 DEF FileSkip, Present
  <2>2. Sits(Onwards(j)) /\ Pure(Onwards(j))
    BY <1>1, <1>2, <2>1, OnwardsFits, FileOfAJob DEF Sits, Pure, Job
  <2> QED BY <1>1, <1>3, <2>2, OnwardsFits, OwnSteps DEF FileSkip
<1>4. CASE FileNeeded(j)
  <2> DEFINE new == [job[j] EXCEPT !.step = "ask"]
  <2>1. new \in Job BY <1>1 DEF Job, Steps
  <2>2. Sits(new) /\ Pure(new) /\ new.at = "closed" /\ new.step # "write"
    BY <1>1, <1>2 DEF Sits, Pure, Job, FileOf
  <2> QED BY <1>1, <1>4, <2>1, <2>2, OwnSteps DEF FileNeeded
<1> QED BY <1>3, <1>4

LEMMA DownloadedIsThere ==
  ASSUME DownloadsInv, NEW j \in Jobs
  PROVE  /\ Downloaded(File(j)) \in 0..2
         /\ Downloaded(File(j)) > 0 => part[File(j)] # NoFile
BY FileOfAJob, FileContents DEF Downloaded

LEMMA JobAsks ==
  ASSUME DownloadsInv, NEW j \in Jobs, Ask(j)
  PROVE  DownloadsInv'
<1> DEFINE of == IF job[j].rev = 0 THEN remote ELSE job[j].rev
           pos == Downloaded(File(j))
           mode == IF Downloaded(File(j)) > 0 THEN "ab" ELSE "wb"
           new == [job[j] EXCEPT !.step = "open", !.of = of, !.pos = pos, !.mode = mode]
<1>1. job[j].step = "ask" /\ Put(j, new) /\ UNCHANGED <<kind, remote, files, history>> BY DEF Ask
<1>2. job[j] \in Job /\ Sits(job[j]) /\ Pure(job[j]) BY DEF DownloadsInv, TypeOK
<1>3. remote \in Revs /\ remote \in 0..Revisions BY DownloadsAssumption DEF DownloadsInv, TypeOK, Revs
<1>4. of \in Revs /\ of \in 0..Revisions /\ (job[j].rev \in Revs => of = job[j].rev)
  BY <1>2, <1>3, DownloadsAssumption DEF Job, Revs
<1>5. pos \in 0..2 /\ mode \in {"wb", "ab"} /\ (mode = "wb" => pos = 0) BY DownloadedIsThere
<1> HIDE DEF of, pos, mode
<1>6. /\ new \in Job /\ new.step = "open" /\ new.at = "closed" /\ new.of = of /\ new.pos = pos /\ new.mode = mode
      /\ new.file = job[j].file /\ new.rev = job[j].rev /\ new.fresh = job[j].fresh
  BY <1>1, <1>2, <1>4, <1>5 DEF Job, Steps, Sits
<1>7. Sits(new) /\ Pure(new)
  <2> HIDE DEF new
  <2> QED BY <1>1, <1>2, <1>4, <1>5, <1>6 DEF Sits, Pure, Job
<1> HIDE DEF new
<1> QED BY <1>1, <1>6, <1>7, OwnSteps

LEMMA AnswerEnds ==
  ASSUME DownloadsInv, NEW j \in Jobs, EndOfAnswer(j)
  PROVE  DownloadsInv'
<1> DEFINE new == [job[j] EXCEPT !.step = IF kind = "gguf" THEN "check" ELSE "place", !.at = "closed"]
<1>1. job[j].step = "write" /\ Put(j, new) /\ UNCHANGED <<kind, remote, files, history>> BY DEF EndOfAnswer
<1>2. job[j] \in Job /\ Sits(job[j]) /\ Pure(job[j]) /\ kind \in {"gguf", "pack"} BY DEF DownloadsInv, TypeOK
<1>3. new \in Job BY <1>2 DEF Job, Steps
<1>4. Sits(new) /\ Pure(new) /\ new.at = "closed" /\ new.step # "write"
  BY <1>1, <1>2 DEF Sits, Pure, Job
<1> HIDE DEF new
<1> QED BY <1>1, <1>3, <1>4, OwnSteps

LEMMA Passes ==
  ASSUME DownloadsInv, NEW j \in Jobs, CheckOk(j)
  PROVE  DownloadsInv'
<1> DEFINE new == [job[j] EXCEPT !.step = "place"]
<1>1. /\ job[j].step = "check" /\ Put(j, new) /\ UNCHANGED <<kind, remote, files, history>>
      /\ job[j].expect # 0 => part["gguf"] = Whole("gguf", job[j].expect)
  BY DEF CheckOk, Valid
<1>2. job[j] \in Job /\ Sits(job[j]) /\ Pure(job[j]) BY DEF DownloadsInv, TypeOK
<1>3. new \in Job BY <1>2 DEF Job, Steps
<1>4. Sits(new) /\ Pure(new) /\ new.at = "closed" /\ new.step # "write"
  BY <1>1, <1>2 DEF Sits, Pure, Job, FileOf
<1> HIDE DEF new
<1> QED BY <1>1, <1>3, <1>4, OwnSteps

\* Opening cuts the part off, or leaves it; it is there, and empty or as it was.
LEMMA Opens ==
  ASSUME DownloadsInv, NEW j \in Jobs, Open(j)
  PROVE  DownloadsInv'
<1> DEFINE f == File(j)
           opened == IF job[j].mode = "wb" \/ part[f] = NoFile THEN <<>> ELSE part[f]
           new == [job[j] EXCEPT !.step = "write", !.at = "part"]
<1>1. /\ job[j].step = "open" /\ Put(j, new) /\ part' = [part EXCEPT ![f] = opened]
      /\ UNCHANGED <<kind, remote, dest, target, raced, wanted, fresh>>
  BY DEF Open, history
<1>2. job[j] \in Job /\ Sits(job[j]) /\ Pure(job[j]) /\ part \in [Files -> Contents] /\ f \in Files
  BY FileOfAJob DEF DownloadsInv, TypeOK
<1>3. opened \in Contents /\ opened # NoFile BY <1>2, EmptyIsAFile
<1>4. /\ part' \in [Files -> Contents] /\ part'[f] = opened /\ \A g \in Files \ {f} : part'[g] = part[g]
  BY <1>1, <1>2, <1>3
<1>5. /\ new \in Job /\ new.step = "write" /\ new.at = "part" /\ new.of = job[j].of /\ new.pos = job[j].pos
      /\ new.mode = job[j].mode /\ new.expect = job[j].expect
      /\ new.file = job[j].file /\ new.rev = job[j].rev /\ new.fresh = job[j].fresh
  BY <1>2 DEF Job, Steps
<1>6. ASSUME NEW r PROVE OnlyOf(part[f], r) => OnlyOf(opened, r)
  BY <1>6 DEF OnlyOf
<1>7. Len(<<>>) = 0 OBVIOUS
<1>8. ~raced /\ new.fresh /\ new.mode = "wb" => new.pos <= Len(opened)
  <2> SUFFICES ASSUME ~raced, new.fresh, new.mode = "wb" PROVE new.pos <= Len(opened) OBVIOUS
  <2>1. new.pos = 0 BY <1>1, <1>2, <1>5 DEF Pure
  <2>2. opened = <<>> BY <1>5
  <2> HIDE DEF new, opened
  <2> QED BY <1>7, <2>1, <2>2
<1> HIDE DEF new, opened
<1>9. job' \in [Jobs -> Job] /\ job'[j] = new /\ \A k \in Jobs \ {j} : job'[k] = job[k]
  BY <1>1, <1>5 DEF Put, DownloadsInv, TypeOK
<1>10. \A k \in Jobs : part[FileOf(job[k])] # NoFile => part'[FileOf(job[k])] # NoFile
  <2> SUFFICES ASSUME NEW k \in Jobs, part[FileOf(job[k])] # NoFile PROVE part'[FileOf(job[k])] # NoFile OBVIOUS
  <2>1. FileOf(job[k]) \in Files BY FileOfAJob
  <2> QED BY <1>3, <1>4, <2>1
<1>11. f = FileOf(new) BY <1>5, FileOfAJob DEF FileOf
<1>12. Sits(job[j])' BY <1>1, <1>2, <1>3, <1>4, <1>5, <1>9, <1>11 DEF Sits, FileOf
<1>13. Pure(job[j])'
  <2> SUFFICES ASSUME ~raced PROVE Pure(job[j])' BY <1>1 DEF Pure
  <2>1. new.fresh => \A g \in PackFiles : OnlyOf(part'[g], new.rev)
    BY <1>2, <1>4, <1>5, <1>6 DEF Pure, Files
  <2>2. new.fresh => kind = "pack" /\ new.rev \in Revs /\ new.of = new.rev
                     /\ \A g \in PackFiles : OnlyOf(dest[g], new.rev)
    BY <1>1, <1>2, <1>5 DEF Pure
  <2>3. new.fresh /\ new.mode = "wb" => new.pos <= Len(part'[FileOf(new)]) BY <1>4, <1>8, <1>11
  <2> QED BY <1>1, <1>5, <1>9, <2>1, <2>2, <2>3 DEF Pure, FileOf, OnlyOf
<1>14. ASSUME NEW k \in Jobs \ {j} PROVE Sits(job[k])' /\ Pure(job[k])'
  <2>1. Sits(job[k])' BY <1>1, <1>9, <1>10 DEF Sits, FileOf, DownloadsInv
  <2>2. Pure(job[k])' BY <1>1, <1>9, OthersRest DEF Pure
  <2> QED BY <2>1, <2>2
<1>15. TypeOK' BY <1>1, <1>4, <1>9, <1>12, <1>14 DEF DownloadsInv, TypeOK, Sits
<1>16. (~raced => \A i, k \in Jobs : job[i].step # "idle" /\ job[k].step # "idle" => i = k)'
  BY <1>1, <1>9, OthersRest DEF DownloadsInv
<1> QED BY <1>1, <1>12, <1>13, <1>14, <1>15, <1>16 DEF DownloadsInv

\* Chunks of one revision, written without a hole, leave a file of that revision.
LEMMA WrittenIsPure ==
  ASSUME NEW c \in Contents, c # NoFile, NEW pos \in 0..1, NEW mode, NEW rev \in Revs,
         OnlyOf(c, rev), mode = "wb" => pos <= Len(c), mode \in {"wb", "ab"}
  PROVE  /\ OnlyOf(Written(c, pos, mode, rev), rev)
         /\ mode = "wb" => pos + 1 <= Len(Written(c, pos, mode, rev))
<1>1. Len(c) \in 0..2 /\ c \in [1..Len(c) -> 0..Revisions] BY FileContents
<1>2. rev \in 0..Revisions BY DownloadsAssumption DEF Revs
<1>3. CASE mode = "ab" /\ Len(c) < 2
  <2>1. Len(c) \in Nat BY <1>1
  <2>2. c \in Seq(0..Revisions) BY <1>1, <2>1, SeqDef, Zenon
  <2>3. /\ Append(c, rev) \in Seq(0..Revisions) /\ Len(Append(c, rev)) = Len(c) + 1
        /\ \A i \in 1..Len(c) : Append(c, rev)[i] = c[i] /\ Append(c, rev)[Len(c) + 1] = rev
    BY <2>2, <1>2, AppendProperties
  <2>4. DOMAIN Append(c, rev) = 1..(Len(c) + 1) BY <2>3, LenProperties
  <2>5. Append(c, rev)[Len(c) + 1] = rev BY <2>2, <1>2, AppendProperties
  <2> QED BY <1>1, <1>3, <2>3, <2>4, <2>5 DEF Written, OnlyOf
<1>4. CASE mode = "ab" /\ ~(Len(c) < 2) BY <1>4 DEF Written
<1>5. CASE mode = "wb"
  <2> DEFINE n == IF Len(c) > pos THEN Len(c) ELSE pos + 1
             w == [i \in 1..n |-> IF i = pos + 1 THEN rev ELSE IF i <= Len(c) THEN c[i] ELSE 0]
  <2>1. n \in 0..2 /\ pos + 1 <= n BY <1>1
  <2>2. w \in [1..n -> 0..Revisions] BY <1>1, <1>2, <2>1, DownloadsAssumption
  <2>3. Written(c, pos, mode, rev) = w BY <1>5 DEF Written
  <2>4. \A i \in 1..n : w[i] = rev BY <1>1, <1>5 DEF OnlyOf
  <2> HIDE DEF n, w
  <2>5. n \in Nat BY <2>1
  <2>6. w \in Seq(0..Revisions) BY <2>2, <2>5, SeqDef, Zenon
  <2>7. Len(w) = n /\ DOMAIN w = 1..n BY <2>2, <2>5, <2>6, LenProperties
  <2> QED BY <2>1, <2>3, <2>4, <2>7 DEF OnlyOf
<1> QED BY <1>3, <1>4, <1>5

LEMMA Writes ==
  ASSUME DownloadsInv, NEW j \in Jobs, Write(j)
  PROVE  DownloadsInv'
<1> DEFINE f == File(j)
           After(content) == Written(content, job[j].pos, job[j].mode, job[j].of)
           new == [job[j] EXCEPT !.pos = @ + 1]
<1>1. /\ job[j].step = "write" /\ job[j].pos < Size(f) /\ Put(j, new)
      /\ UNCHANGED <<kind, remote, raced, wanted, fresh>>
      /\ part' = IF job[j].at = "part" THEN [part EXCEPT ![f] = After(part[f])] ELSE part
      /\ dest' = IF job[j].at = "dest" THEN [dest EXCEPT ![f] = After(dest[f])] ELSE dest
      /\ target' = IF job[j].at = "target" THEN [target EXCEPT ![f] = After(target[f])] ELSE target
  BY DEF Write, history
<1>2. /\ job[j] \in Job /\ Sits(job[j]) /\ Pure(job[j]) /\ f \in Files /\ f = FileOf(job[j]) /\ Size(f) \in 1..2
      /\ kind = "pack" => f \in PackFiles
      /\ part \in [Files -> Contents] /\ dest \in [Files -> Contents] /\ target \in [PackFiles -> Contents]
  BY FileOfAJob DEF DownloadsInv, TypeOK, PackFiles
<1>3. job[j].pos \in 0..1 /\ job[j].of \in Revs /\ job[j].mode \in {"wb", "ab"}
  BY <1>1, <1>2 DEF Job, Sits
<1>4. ASSUME NEW c \in Contents, c # NoFile PROVE After(c) \in Contents /\ After(c) # NoFile
  BY <1>3, <1>4, WrittenIsAFile
<1>5. ASSUME NEW c \in Contents, c # NoFile, OnlyOf(c, job[j].of), job[j].mode = "wb" => job[j].pos <= Len(c)
      PROVE  /\ OnlyOf(After(c), job[j].of)
             /\ job[j].mode = "wb" => job[j].pos + 1 <= Len(After(c))
  BY <1>3, <1>5, WrittenIsPure
<1> HIDE DEF After
<1>6. /\ new \in Job /\ new.step = "write" /\ new.at = job[j].at /\ new.of = job[j].of /\ new.pos = job[j].pos + 1
      /\ new.mode = job[j].mode /\ new.expect = job[j].expect
      /\ new.file = job[j].file /\ new.rev = job[j].rev /\ new.fresh = job[j].fresh
  BY <1>1, <1>2, <1>3 DEF Job, Steps
<1>7. f = FileOf(new) BY <1>2, <1>6 DEF FileOf
<1> HIDE DEF new
<1>8. job' \in [Jobs -> Job] /\ job'[j] = new /\ \A k \in Jobs \ {j} : job'[k] = job[k]
  BY <1>1, <1>6 DEF Put, DownloadsInv, TypeOK
<1>9. /\ job[j].at = "part" => part[f] # NoFile
      /\ job[j].at = "dest" => dest[f] # NoFile
      /\ job[j].at = "target" => f \in PackFiles /\ target[f] # NoFile
  BY <1>2 DEF Sits
<1>10. /\ part' \in [Files -> Contents] /\ dest' \in [Files -> Contents] /\ target' \in [PackFiles -> Contents]
       /\ \A g \in Files : (part[g] # NoFile => part'[g] # NoFile) /\ (dest[g] # NoFile => dest'[g] # NoFile)
       /\ \A g \in PackFiles : target[g] # NoFile => target'[g] # NoFile
  BY <1>1, <1>2, <1>4, <1>9
<1>11. target' = NoPack => target = NoPack
  <2> SUFFICES ASSUME target # NoPack PROVE target' # NoPack OBVIOUS
  <2>1. target["marker"] # NoFile /\ "marker" \in PackFiles BY DEF DownloadsInv, PackFiles
  <2> QED BY <1>10, <2>1 DEF NoPack
<1>12. target' # NoPack => \A g \in PackFiles : target'[g] # NoFile
  <2> SUFFICES ASSUME target' # NoPack PROVE \A g \in PackFiles : target'[g] # NoFile OBVIOUS
  <2>1. CASE target # NoPack BY <1>10, <2>1 DEF DownloadsInv
  <2>2. CASE target = NoPack
    <3>1. job[j].at # "target" BY <1>9, <2>2 DEF NoPack
    <3> QED BY <1>1, <2>2, <3>1
  <2> QED BY <2>1, <2>2
<1>13. ASSUME NEW k \in Jobs PROVE Sits(job[k])'
  <2>1. PICK x \in Job : x = job'[k] /\ Sits(x)
    <3>1. CASE k = j BY <1>1, <1>2, <1>6, <1>7, <1>8, <3>1 DEF Sits, FileOf
    <3>2. CASE k # j BY <1>8, <3>2 DEF DownloadsInv, TypeOK
    <3> QED BY <3>1, <3>2
  <2>2. FileOf(x) \in Files /\ (x.at = "target" => FileOf(x) \in PackFiles)
    <3>1. FileOf(job[k]) \in Files /\ (kind = "pack" => FileOf(job[k]) \in PackFiles)
      BY FileOfAJob DEF PackFiles
    <3>2. x.file = job[k].file BY <1>6, <1>8, <2>1
    <3> QED BY <2>1, <3>1, <3>2 DEF FileOf, Sits
  <2>3. "marker" \in Files /\ "weights" \in Files BY DEF Files, PackFiles
  <2> QED BY <1>1, <1>10, <1>11, <2>1, <2>2, <2>3 DEF Sits, FileOf
<1>14. ~raced => UNCHANGED <<dest, target>> /\ job[j].at = "part" BY <1>1, <1>2 DEF Pure, Sits
<1>15. Pure(job[j])'
  <2> SUFFICES ASSUME ~raced, new.fresh PROVE Pure(job[j])'
    BY <1>1, <1>6, <1>8, <1>14 DEF Pure
  <2>1. /\ kind = "pack" /\ new.rev \in Revs /\ job[j].of = new.rev
        /\ \A g \in PackFiles : OnlyOf(part[g], new.rev) /\ OnlyOf(dest[g], new.rev)
        /\ job[j].mode = "wb" => job[j].pos <= Len(part[f])
    BY <1>1, <1>2, <1>6 DEF Pure
  <2>2. part[f] \in Contents /\ part[f] # NoFile /\ OnlyOf(part[f], job[j].of) BY <1>2, <1>9, <1>14, <2>1
  <2>3. OnlyOf(After(part[f]), job[j].of) /\ (job[j].mode = "wb" => job[j].pos + 1 <= Len(After(part[f])))
    BY <1>5, <2>1, <2>2
  <2>4. part'[f] = After(part[f]) /\ \A g \in Files \ {f} : part'[g] = part[g] BY <1>1, <1>2, <1>14
  <2>5. \A g \in PackFiles : OnlyOf(part'[g], new.rev) BY <2>1, <2>3, <2>4 DEF Files
  <2> QED BY <1>1, <1>6, <1>7, <1>8, <1>14, <2>1, <2>3, <2>4, <2>5 DEF Pure, FileOf, OnlyOf
<1>16. ASSUME NEW k \in Jobs \ {j} PROVE Pure(job[k])'
  BY <1>1, <1>8, OthersRest DEF Pure
<1>17. TypeOK' BY <1>1, <1>8, <1>10, <1>13 DEF DownloadsInv, TypeOK, Sits
<1>18. (~raced => \A i, k \in Jobs : job[i].step # "idle" /\ job[k].step # "idle" => i = k)'
  BY <1>1, <1>8, OthersRest DEF DownloadsInv
<1> QED BY <1>1, <1>12, <1>13, <1>14, <1>15, <1>16, <1>17, <1>18 DEF DownloadsInv

\* A part that is rejected is gone, and who has it open writes on to no name.
LEMMA Rejects ==
  ASSUME DownloadsInv, NEW j \in Jobs, CheckFails(j)
  PROVE  DownloadsInv'
<1>1. /\ job[j].step = "check" /\ part' = [part EXCEPT !["gguf"] = NoFile]
      /\ job' = [Unlinked("gguf") EXCEPT ![j] = Idle]
      /\ UNCHANGED <<kind, remote, dest, target, raced, wanted, fresh>>
  BY DEF CheckFails, history
<1>2. kind = "gguf" /\ NoFile \in Contents /\ "gguf" \in Files
  BY <1>1 DEF DownloadsInv, TypeOK, Sits, Contents, Files
<1>3. part' \in [Files -> Contents] BY <1>1, <1>2 DEF DownloadsInv, TypeOK
<1>4. job'[j] = Idle /\ Sits(job[j])'
  <2>1. job'[j] = Idle BY <1>1 DEF Unlinked
  <2> QED BY <2>1, <1>1, <1>2, IdleFits DEF Sits
<1>5. ASSUME NEW k \in Jobs \ {j}
      PROVE  /\ job'[k] \in Job /\ Sits(job[k])'
             /\ job'[k].step = job[k].step /\ job'[k].fresh = job[k].fresh
             /\ job[k].at = "closed" => job'[k].at = "closed"
  <2>1. job[k] \in Job /\ Sits(job[k]) BY DEF DownloadsInv, TypeOK
  <2>2. CASE job[k].at = "part"
    <3>1. job'[k] = [job[k] EXCEPT !.at = "gone"] BY <1>1, <1>2, <2>2, FileOfAJob DEF Unlinked
    <3>2. job'[k] \in Job BY <2>1, <3>1 DEF Job
    <3>3. Sits(job[k])' BY <1>1, <1>2, <2>1, <2>2, <3>1 DEF Sits, Job
    <3> QED BY <2>1, <2>2, <3>1, <3>2, <3>3 DEF Job
  <2>3. CASE job[k].at # "part"
    <3>1. job'[k] = job[k] BY <1>1, <2>3 DEF Unlinked
    <3>2. Sits(job[k])' BY <1>1, <1>2, <2>1, <2>3, <3>1 DEF Sits, FileOf
    <3> QED BY <2>1, <3>1, <3>2
  <2> QED BY <2>2, <2>3
<1>6. job' \in [Jobs -> Job] BY <1>1, <1>4, <1>5, IdleFits DEF Unlinked
<1>7. TypeOK' BY <1>1, <1>3, <1>4, <1>5, <1>6 DEF DownloadsInv, TypeOK, Sits
<1>8. ASSUME NEW k \in Jobs PROVE Pure(job[k])'
  <2> SUFFICES ASSUME ~raced PROVE Pure(job[k])' BY <1>1 DEF Pure
  <2>1. job'[k].at = "closed" /\ job'[k].step = "idle" /\ job'[k].fresh = FALSE
    <3>1. CASE k = j BY <1>4, <3>1 DEF Idle
    <3>2. CASE k # j
      <4>1. job[k].step = "idle" /\ job[k].at = "closed" /\ job[k].fresh = FALSE
        BY <1>1, <3>2, OthersRest
      <4> QED BY <1>5, <3>2, <4>1
    <3> QED BY <3>1, <3>2
  <2> QED BY <1>1, <2>1 DEF Pure
<1>9. (~raced => \A i, k \in Jobs : job[i].step # "idle" /\ job[k].step # "idle" => i = k)'
  BY <1>1, <1>4, <1>5, IdleFits DEF DownloadsInv
<1> QED BY <1>1, <1>4, <1>5, <1>7, <1>8, <1>9 DEF DownloadsInv

\* The part takes its place: what is open under either name stays open.
LEMMA Places ==
  ASSUME DownloadsInv, NEW j \in Jobs, Place(j)
  PROVE  DownloadsInv'
<1> DEFINE f == File(j)
           moved == [k \in Jobs |->
             IF File(k) # f THEN job[k]
             ELSE IF job[k].at = "part" THEN [job[k] EXCEPT !.at = "dest"]
             ELSE IF job[k].at = "dest" THEN [job[k] EXCEPT !.at = "gone"]
             ELSE job[k]]
           new == IF kind = "gguf" THEN Idle ELSE Onwards(j)
<1>1. /\ job[j].step = "place" /\ part[f] # NoFile
      /\ dest' = [dest EXCEPT ![f] = part[f]] /\ part' = [part EXCEPT ![f] = NoFile]
      /\ job' = [moved EXCEPT ![j] = new] /\ wanted' = IF kind = "gguf" THEN job[j].expect ELSE wanted
      /\ UNCHANGED <<kind, remote, target, raced, fresh>>
  BY DEF Place
<1>2. /\ job[j] \in Job /\ Sits(job[j]) /\ Pure(job[j]) /\ f \in Files /\ kind \in {"gguf", "pack"}
      /\ part \in [Files -> Contents] /\ dest \in [Files -> Contents]
      /\ NoFile \in Contents /\ job[j].expect \in 0..Revisions
  BY FileOfAJob DEF DownloadsInv, TypeOK, Contents, Job
<1>3. part' \in [Files -> Contents] /\ dest' \in [Files -> Contents] BY <1>1, <1>2
<1>4. /\ dest'[f] = part[f] /\ part'[f] = NoFile
      /\ \A g \in Files \ {f} : part'[g] = part[g] /\ dest'[g] = dest[g]
  BY <1>1, <1>2
<1>5. \A g \in Files : dest[g] # NoFile => dest'[g] # NoFile BY <1>1, <1>2, <1>4
<1>6. "marker" \in Files /\ "weights" \in Files BY DEF Files, PackFiles
<1>7. /\ new \in Job /\ new.at = "closed" /\ new.step \in {"idle", "file", "rename"}
      /\ new.step \in {"file", "rename"} <=> kind = "pack"
      /\ new.fresh => job[j].fresh = TRUE /\ new.rev = job[j].rev
      /\ kind = "gguf" => new = Idle
  <2>1. CASE kind = "gguf" BY <2>1, IdleFits DEF Idle
  <2>2. CASE kind = "pack" BY <1>1, <1>2, <2>2, OnwardsFits DEF Job
  <2> QED BY <1>2, <2>1, <2>2
<1>8. job'[j] = new BY <1>1
<1> HIDE DEF new
<1>9. Sits(job[j])'
  <2>1. CASE kind = "gguf" BY <1>1, <1>7, <1>8, <2>1 DEF Sits, Idle
  <2>2. CASE kind = "pack"
    <3>1. /\ new.file = 2 /\ (new.step = "rename" => job[j].file = 2)
      BY <1>1, <2>2, OnwardsFits DEF new
    <3>2. IF job[j].file = 1 THEN f = "marker" ELSE f = "weights" BY <2>2, FileOfAJob
    <3>3. job[j].file \in 1..2 BY <1>2 DEF Job
    <3>4. target = NoPack => dest'["marker"] # NoFile /\ (job[j].file = 2 => dest'["weights"] # NoFile)
      BY <1>1, <1>2, <1>4, <1>5, <1>6, <2>2, <3>2, <3>3 DEF Sits
    <3> QED BY <1>1, <1>7, <1>8, <2>2, <3>1, <3>4 DEF Sits
  <2> QED BY <1>2, <2>1, <2>2
<1>10. ASSUME NEW k \in Jobs \ {j}
       PROVE  /\ job'[k] \in Job /\ Sits(job[k])'
              /\ job'[k].step = job[k].step /\ job'[k].fresh = job[k].fresh
              /\ job[k].at = "closed" => job'[k].at = "closed"
  <2>1. /\ job[k] \in Job /\ Sits(job[k]) /\ FileOf(job[k]) \in Files /\ File(k) = FileOf(job[k])
        /\ kind = "pack" => FileOf(job[k]) \in PackFiles
    BY FileOfAJob DEF DownloadsInv, TypeOK, PackFiles
  <2>2. PICK at : /\ job'[k] = [job[k] EXCEPT !.at = at]
                  /\ File(k) # f => at = job[k].at
                  /\ File(k) = f => at = IF job[k].at = "part" THEN "dest"
                                         ELSE IF job[k].at = "dest" THEN "gone" ELSE job[k].at
    <3>1. job[k] = [job[k] EXCEPT !.at = job[k].at] BY <2>1 DEF Job
    <3> QED BY <1>1, <3>1
  <2>3. /\ at \in {"closed", "part", "dest", "target", "gone"} /\ (at = "closed" <=> job[k].at = "closed")
    BY <2>1, <2>2 DEF Job
  <2>4. /\ job'[k] \in Job /\ job'[k].step = job[k].step /\ job'[k].fresh = job[k].fresh
        /\ job'[k].at = at /\ job'[k].file = job[k].file /\ job'[k].of = job[k].of
    BY <2>1, <2>2, <2>3 DEF Job
  <2>5. /\ at = "part" => part'[FileOf(job[k])] # NoFile
        /\ at = "dest" => dest'[FileOf(job[k])] # NoFile
        /\ at = "target" => job[k].at = "target"
    BY <1>1, <1>4, <2>1, <2>2 DEF Sits
  <2>6. Sits(job[k])' BY <1>1, <1>5, <1>6, <2>1, <2>3, <2>4, <2>5 DEF Sits, FileOf
  <2> QED BY <2>3, <2>4, <2>6
<1>11. job' \in [Jobs -> Job] BY <1>1, <1>7, <1>8, <1>10
<1>12. TypeOK' BY <1>1, <1>2, <1>3, <1>9, <1>10, <1>11 DEF DownloadsInv, TypeOK, Sits
<1>13. ASSUME NEW k \in Jobs \ {j} PROVE Pure(job[k])'
  <2> SUFFICES ASSUME ~raced PROVE Pure(job[k])' BY <1>1 DEF Pure
  <2>1. job'[k].step = "idle" /\ job'[k].at = "closed" /\ job'[k].fresh = FALSE BY <1>1, <1>10, OthersRest
  <2> QED BY <2>1 DEF Pure
<1>14. Pure(job[j])'
  <2> SUFFICES ASSUME ~raced, new.fresh PROVE Pure(job[j])'
    BY <1>1, <1>7, <1>8, <1>2 DEF Pure
  <2>1. /\ kind = "pack" /\ new.rev \in Revs
        /\ \A g \in PackFiles : OnlyOf(part[g], new.rev) /\ OnlyOf(dest[g], new.rev)
    BY <1>2, <1>7 DEF Pure
  <2>2. \A g \in PackFiles : OnlyOf(part'[g], new.rev) /\ OnlyOf(dest'[g], new.rev)
    <3> SUFFICES ASSUME NEW g \in PackFiles PROVE OnlyOf(part'[g], new.rev) /\ OnlyOf(dest'[g], new.rev)
      OBVIOUS
    <3>1. g \in Files BY DEF Files
    <3> QED BY <1>4, <2>1, <3>1 DEF OnlyOf
  <2> QED BY <1>1, <1>7, <1>8, <2>1, <2>2 DEF Pure, OnlyOf
<1>15. (~raced => \A i, k \in Jobs : job[i].step # "idle" /\ job[k].step # "idle" => i = k)'
  BY <1>1, <1>10 DEF DownloadsInv
<1>16. (~raced /\ wanted # 0 => dest["gguf"] = Whole("gguf", wanted))'
  <2>1. CASE kind = "gguf"
    <3>1. f = "gguf" BY <2>1, FileOfAJob
    <3> QED BY <1>1, <1>2, <1>4, <2>1, <3>1 DEF Pure, Whole
  <2>2. CASE kind = "pack" BY <1>1, <2>2 DEF DownloadsInv
  <2> QED BY <1>2, <2>1, <2>2
<1> QED BY <1>1, <1>9, <1>10, <1>12, <1>13, <1>14, <1>15, <1>16 DEF DownloadsInv

\* The directory is renamed with what it holds.
LEMMA Renames ==
  ASSUME DownloadsInv, NEW j \in Jobs, RenamePack(j)
  PROVE  DownloadsInv'
<1>1. /\ job[j].step = "rename" /\ target = NoPack /\ target' = [f \in PackFiles |-> dest[f]]
      /\ part' = [f \in Files |-> NoFile] /\ dest' = [f \in Files |-> NoFile]
      /\ fresh' = job[j].fresh /\ UNCHANGED <<kind, remote, raced, wanted>>
  BY DEF RenamePack
<1>2. /\ job[j] \in Job /\ Sits(job[j]) /\ Pure(job[j]) /\ kind = "pack" /\ NoFile \in Contents
      /\ part \in [Files -> Contents] /\ dest \in [Files -> Contents] /\ PackFiles \subseteq Files
  BY <1>1 DEF DownloadsInv, TypeOK, Contents, Sits, Files
<1>3. dest["marker"] # NoFile /\ dest["weights"] # NoFile BY <1>1, <1>2 DEF Sits
<1>4. \A f \in PackFiles : target'[f] # NoFile BY <1>1, <1>3 DEF PackFiles
<1>5. target' # NoPack BY <1>4 DEF NoPack, PackFiles
<1>6. part' \in [Files -> Contents] /\ dest' \in [Files -> Contents] /\ target' \in [PackFiles -> Contents]
  BY <1>1, <1>2
<1>7. job'[j] = Idle BY DEF RenamePack, DownloadsInv, TypeOK
<1>8. ASSUME NEW k \in Jobs \ {j}
      PROVE  /\ job'[k] \in Job /\ Sits(job[k])'
             /\ job'[k].step = job[k].step /\ job'[k].fresh = job[k].fresh
             /\ job[k].at = "closed" => job'[k].at = "closed"
  <2>1. job[k] \in Job /\ Sits(job[k]) /\ File(k) = FileOf(job[k]) /\ FileOf(job[k]) \in PackFiles
    BY <1>2, FileOfAJob DEF DownloadsInv, TypeOK, PackFiles
  <2>2. PICK at : /\ job'[k] = [job[k] EXCEPT !.at = at]
                  /\ at = IF job[k].at = "part" THEN "gone"
                          ELSE IF job[k].at = "dest" THEN "target" ELSE job[k].at
    <3>1. job[k] = [job[k] EXCEPT !.at = job[k].at] BY <2>1 DEF Job
    <3> QED BY <3>1 DEF RenamePack
  <2>3. /\ at \in {"closed", "target", "gone"} /\ (at = "closed" <=> job[k].at = "closed")
    BY <2>1, <2>2 DEF Job
  <2>4. /\ job'[k] \in Job /\ job'[k].step = job[k].step /\ job'[k].fresh = job[k].fresh
        /\ job'[k].at = at /\ job'[k].file = job[k].file /\ job'[k].of = job[k].of
    BY <2>1, <2>2, <2>3 DEF Job
  <2>5. target'[FileOf(job[k])] # NoFile BY <1>4, <2>1
  <2>6. Sits(job[k])' BY <1>1, <1>2, <1>5, <2>1, <2>3, <2>4, <2>5 DEF Sits, FileOf
  <2> QED BY <2>3, <2>4, <2>6
<1>9. Sits(job[j])' BY <1>1, <1>2, <1>5, <1>7 DEF Sits, Idle
<1>10. job' \in [Jobs -> Job] BY <1>7, <1>8, IdleFits DEF RenamePack
<1>11. fresh' \in BOOLEAN BY <1>1, <1>2 DEF Job
<1>12. TypeOK' BY <1>1, <1>6, <1>8, <1>9, <1>10, <1>11 DEF DownloadsInv, TypeOK, Sits
<1>13. ASSUME NEW k \in Jobs PROVE Pure(job[k])'
  <2> SUFFICES ASSUME ~raced PROVE Pure(job[k])' BY <1>1 DEF Pure
  <2>1. job'[k].step = "idle" /\ job'[k].at = "closed" /\ job'[k].fresh = FALSE
    <3>1. CASE k = j BY <1>7, <3>1 DEF Idle
    <3>2. CASE k # j BY <1>1, <1>8, <3>2, OthersRest
    <3> QED BY <3>1, <3>2
  <2> QED BY <2>1 DEF Pure
<1>14. (~raced => \A i, k \in Jobs : job[i].step # "idle" /\ job[k].step # "idle" => i = k)'
  BY <1>1, <1>7, <1>8, IdleFits DEF DownloadsInv
<1>15. (~raced /\ fresh => \E r \in Revs : \A f \in PackFiles : OnlyOf(target[f], r))'
  <2> SUFFICES ASSUME ~raced, job[j].fresh
               PROVE  \E r \in Revs : \A f \in PackFiles : OnlyOf(target'[f], r)
    BY <1>1 DEF OnlyOf, Revs
  <2>1. job[j].rev \in Revs /\ \A f \in PackFiles : OnlyOf(dest[f], job[j].rev) BY <1>2 DEF Pure
  <2>2. \A f \in PackFiles : OnlyOf(target'[f], job[j].rev) BY <1>1, <2>1
  <2> QED BY <2>1, <2>2
<1>16. wanted' = 0 BY <1>1, <1>2 DEF DownloadsInv
<1> QED BY <1>1, <1>4, <1>8, <1>9, <1>12, <1>13, <1>14, <1>15, <1>16 DEF DownloadsInv

\* A restart leaves the files; the repository is no concern of a job that is pinned.
LEMMA WorldMoves ==
  ASSUME DownloadsInv, RepoMoves \/ Restart \/ UNCHANGED vars
  PROVE  DownloadsInv'
<1>1. CASE RepoMoves \/ UNCHANGED vars
  <2>1. UNCHANGED <<kind, part, dest, target, job, raced, wanted, fresh>>
    BY <1>1 DEF RepoMoves, vars, files, history
  <2>2. remote' \in Revs BY <1>1, DownloadsAssumption DEF RepoMoves, vars, DownloadsInv, TypeOK, Revs
  <2>3. TypeOK' BY <2>1, <2>2 DEF DownloadsInv, TypeOK
  <2>4. \A k \in Jobs : Sits(job[k])' /\ Pure(job[k])'
    BY <2>1 DEF DownloadsInv, Sits, Pure, FileOf, OnlyOf
  <2> QED BY <2>1, <2>3, <2>4 DEF DownloadsInv, OnlyOf
<1>2. CASE Restart
  <2>1. UNCHANGED <<kind, remote, part, dest, target, raced, wanted, fresh>> /\ job' = [k \in Jobs |-> Idle]
    BY <1>2 DEF Restart, files, history
  <2>2. TypeOK'
    <3>1. job' \in [Jobs -> Job] BY <2>1, IdleFits
    <3>2. \A k \in Jobs : job'[k].step # "write" /\ job'[k].at = "closed" BY <2>1 DEF Idle
    <3> QED BY <2>1, <3>1, <3>2 DEF DownloadsInv, TypeOK
  <2>3. \A k \in Jobs : Sits(job[k])' /\ Pure(job[k])' BY <2>1 DEF Sits, Pure, Idle
  <2>4. \A k \in Jobs : job'[k].step = "idle" BY <2>1 DEF Idle
  <2> QED BY <2>1, <2>2, <2>3, <2>4 DEF DownloadsInv, OnlyOf
<1> QED BY <1>1, <1>2

LEMMA DownloadsSteps == DownloadsInv /\ [Next]_vars => DownloadsInv'
<1> SUFFICES ASSUME DownloadsInv, [Next]_vars PROVE DownloadsInv' OBVIOUS
<1>1. CASE RepoMoves \/ Restart \/ UNCHANGED vars BY <1>1, WorldMoves
<1>2. ASSUME NEW j \in Jobs, AlreadyPresent(j) PROVE DownloadsInv' BY <1>2, WorldMoves DEF AlreadyPresent
<1>3. ASSUME NEW j \in Jobs, BeginGguf(j) \/ BeginPack(j) PROVE DownloadsInv' BY <1>3, Beginnings
<1>4. ASSUME NEW j \in Jobs, Work(j) PROVE DownloadsInv'
  BY <1>4, FileSteps, JobAsks, Opens, Writes, AnswerEnds, Passes, Rejects, Places, Renames, Endings DEF Work
<1> QED BY <1>1, <1>2, <1>3, <1>4 DEF Next

\* Jobs, files and history keep their types, and a job has a file open exactly while it writes.
THEOREM DownloadsAreTyped == Spec => []TypeOK
<1>1. DownloadsInv => TypeOK BY DEF DownloadsInv
<1> QED BY <1>1, DownloadsStart, DownloadsSteps, PTL DEF Spec

\* However many jobs stage a pack at once, and whatever fails or restarts, the directory the
\* pickers see has every file of the pack.
THEOREM NoFileIsMissing == Spec => []NothingMissing
<1>1. DownloadsInv => NothingMissing BY DEF DownloadsInv, NothingMissing
<1> QED BY <1>1, DownloadsStart, DownloadsSteps, PTL DEF Spec

\* Jobs that do not overlap put the published GGUF in place, or none: in spite of restarts, cut
\* answers, resumed parts and a repository that moves.
THEOREM PlacedIsPublished == Spec => []Published
<1>1. DownloadsInv => Published BY DEF DownloadsInv, Published
<1> QED BY <1>1, DownloadsStart, DownloadsSteps, PTL DEF Spec

\* A pack that one job staged from nothing is of the one revision the job was pinned to.
THEOREM OneJobOneRevision == Spec => []Pinned
<1>1. DownloadsInv => Pinned
  <2> SUFFICES ASSUME DownloadsInv, ~raced, fresh PROVE Cardinality(RevisionsInPlace) <= 1 BY DEF Pinned
  <2>1. PICK r \in Revs : \A f \in PackFiles : OnlyOf(target[f], r) BY DEF DownloadsInv
  <2>2. PICK v : RevisionsInPlace \subseteq {v}
    <3>1. CASE target = NoPack
      <4>1. \A f \in PackFiles : target[f] = NoFile BY <3>1 DEF NoPack
      <4>2. DOMAIN NoFile = {1} BY DEF NoFile
      <4>3. \A f \in PackFiles : \A n \in DOMAIN target[f] : target[f][n] = NoFile[1] BY <4>1, <4>2
      <4>4. RevisionsInPlace \subseteq {NoFile[1]} BY <4>3, Zenon DEF RevisionsInPlace
      <4> QED BY <4>4
    <3>2. CASE target # NoPack
      <4>1. \A f \in PackFiles : \A n \in DOMAIN target[f] : target[f][n] = r
        BY <2>1, <3>2 DEF DownloadsInv, OnlyOf
      <4>2. RevisionsInPlace \subseteq {r} BY <4>1, Zenon DEF RevisionsInPlace
      <4> QED BY <4>2
    <3> QED BY <3>1, <3>2
  <2>3. IsFiniteSet({v}) /\ Cardinality({v}) = 1 BY FS_Singleton
  <2>4. Cardinality(RevisionsInPlace) <= Cardinality({v}) /\ Cardinality(RevisionsInPlace) \in Nat
        /\ IsFiniteSet(RevisionsInPlace)
    BY <2>2, <2>3, FS_Subset, FS_CardinalityType
  <2> QED BY <2>3, <2>4
<1> QED BY <1>1, DownloadsStart, DownloadsSteps, PTL DEF Spec

------------------------------------------------------------------------------
(* Saves, services and the boot script, with one client at a time *)

\* What one client's request relies on: the file it read is still the file, and so are the
\* expectations.
OneClientInv ==
  /\ DOMAIN req = Clients /\ DOMAIN conf = Settings /\ DOMAIN kept = Settings
  /\ DOMAIN expect = Units /\ expect = said
  /\ \A r \in Clients : /\ At(r, "write") => req[r].had = conf
                        /\ At(r, "recorded") => req[r].had = expect
  /\ MatchedSaveStays

LEMMA OneClientStarts == ControlInit => OneClientInv
  BY DEF ControlInit, OneClientInv, At, MatchedSaveStays, Settings

\* A step that leaves the file, the expectations and the requests alone.
LEMMA OneClientRests ==
  ASSUME OneClientInv, UNCHANGED <<conf, kept, expect, said, req>>
  PROVE  OneClientInv'
BY DEF OneClientInv, At, Is, MatchedSaveStays

\* A step of a request that changes only the request, and reads what it has read.
LEMMA OneClientReads ==
  ASSUME OneClientInv, NEW r \in Clients, NEW q, Goes(r, q), Clients = {r},
         UNCHANGED <<conf, kept, expect, said>>,
         q # Nothing /\ q.at = "write" => q.had = conf,
         q # Nothing /\ q.at = "recorded" => q.had = expect
  PROVE  OneClientInv'
BY DEF OneClientInv, At, Is, MatchedSaveStays, Goes

LEMMA OneClientRequests ==
  ASSUME OneClientInv, NEW r \in Clients, Clients = {r}, Request(r)
  PROVE  OneClientInv'
<1>1. CASE AskSave(r) \/ AskMatched(r) \/ AskSwitch(r) \/ AskApply(r)
  <2>1. PICK q : AskedFor(r, q) /\ q.at \in {"read", "page"}
    <3>1. CASE AskSave(r) BY <3>1 DEF AskSave, Rewrite, WriteReq
    <3>2. CASE AskMatched(r) BY <3>2 DEF AskMatched, WriteReq
    <3>3. CASE AskSwitch(r) BY <3>3 DEF AskSwitch, Rewrite, WriteReq
    <3>4. CASE AskApply(r) BY <3>4 DEF AskApply, Rewrite, WriteReq
    <3> QED BY <1>1, <3>1, <3>2, <3>3, <3>4
  <2> QED BY <2>1, OneClientReads DEF AskedFor
<1>2. CASE AskAction(r)
  <2>1. PICK q : AskedFor(r, q) /\ q.at = "act"
    BY <1>2 DEF AskAction, Act
  <2> QED BY <2>1, OneClientReads DEF AskedFor
<1>3. CASE IfMatch(r)
  <2>1. PICK q : Goes(r, q) /\ (q = Nothing \/ q.at = "read")
    BY <1>3 DEF IfMatch, Answered, WriteAt, WriteReq
  <2> QED BY <1>3, <2>1, OneClientReads DEF IfMatch
<1>4. CASE EnvRead(r)
  BY <1>4, OneClientReads DEF EnvRead, WriteAt, WriteReq
<1>5. CASE EnvWrite(r)
  <2>1. At(r, "write") /\ req[r].had = conf BY <1>5 DEF EnvWrite, OneClientInv
  <2>2. \A k \in Settings : kept'[k] # Nothing => conf'[k] = kept'[k]
    BY <1>5, <2>1 DEF EnvWrite, OneClientInv, MatchedSaveStays
  <2>3. req'[r].at = "after" /\ DOMAIN req' = Clients
    BY <1>5 DEF EnvWrite, Goes, WriteAt, WriteReq, OneClientInv
  <2>4. DOMAIN conf' = Settings /\ DOMAIN kept' = Settings /\ UNCHANGED <<expect, said>>
    BY <1>5 DEF EnvWrite
  <2> QED BY <2>2, <2>3, <2>4 DEF OneClientInv, At, MatchedSaveStays
<1>6. CASE SaveAnswers(r) \/ SwitchRestarts(r) \/ SaveProfile(r) \/ UpdateLlama(r)
  <2>1. Answered(r) /\ UNCHANGED <<conf, kept, expect, said>>
    BY <1>6 DEF SaveAnswers, SwitchRestarts, SaveProfile, UpdateLlama
  <2> QED BY <2>1, OneClientReads DEF Answered
<1>7. CASE ApplyLaunches(r)
  <2>1. Answered(r) /\ UNCHANGED <<conf, kept>> BY <1>7 DEF ApplyLaunches
  <2>2. expect' = said' /\ DOMAIN expect' = Units
    <3>1. CASE SlotStaysDown(r, req[r].act) BY <3>1 DEF SlotStaysDown, OneClientInv
    <3>2. CASE AllAreLaunched(r, req[r].act) BY <3>2 DEF AllAreLaunched, OneClientInv
    <3> QED BY <1>7, <3>1, <3>2 DEF ApplyLaunches
  <2> QED BY <2>1, <2>2 DEF OneClientInv, At, Is, MatchedSaveStays, Answered, Goes
<1>8. CASE ActionRuns(r)
  <2>1. PICK q : Goes(r, q) /\ (q = Nothing \/ q.at = "recording")
    BY <1>8 DEF ActionRuns, Answered, Act
  <2>2. UNCHANGED <<conf, kept, expect, said>> BY <1>8 DEF ActionRuns
  <2> QED BY <2>1, <2>2, OneClientReads
<1>9. CASE RecordReads(r)
  BY <1>9, OneClientReads DEF RecordReads, Act
<1>10. CASE RecordWrites(r)
  <2>1. req[r].had = expect BY <1>10 DEF RecordWrites, OneClientInv
  <2>2. /\ expect' = [expect EXCEPT ![req[r].unit] = Word(req[r].kind)]
        /\ said' = [said EXCEPT ![req[r].unit] = Word(req[r].kind)]
    BY <1>10, <2>1 DEF RecordWrites, Word
  <2>3. Answered(r) /\ UNCHANGED <<conf, kept>> BY <1>10 DEF RecordWrites
  <2>4. expect' = said' /\ DOMAIN expect' = Units BY <2>2 DEF OneClientInv
  <2> QED BY <2>3, <2>4 DEF OneClientInv, At, Is, MatchedSaveStays, Answered, Goes
<1>11. CASE Expect(r)
  <2>1. Answered(r) /\ UNCHANGED <<conf, kept>> BY <1>11 DEF Expect
  <2>2. expect' = said' /\ DOMAIN expect' = Units BY <1>11 DEF Expect, OneClientInv
  <2> QED BY <2>1, <2>2 DEF OneClientInv, At, Is, MatchedSaveStays, Answered, Goes
<1> QED BY <1>1, <1>2, <1>3, <1>4, <1>5, <1>6, <1>7, <1>8, <1>9, <1>10, <1>11 DEF Request

LEMMA OneClientSteps ==
  ASSUME NEW c, Clients = {c}, OneClientInv, [ControlNext]_controlVars
  PROVE  OneClientInv'
<1>1. CASE \E r \in Clients : Request(r)
  BY <1>1, OneClientRequests
<1>2. ASSUME NEW u \in Units, UnitDies(u) PROVE OneClientInv'
  BY <1>2, OneClientRests DEF UnitDies
<1>3. CASE Poll BY <1>3, OneClientRests DEF Poll
<1>4. CASE Reboot
  <2>1. DOMAIN conf' = Settings BY <1>4 DEF Reboot, OneClientInv
  <2>2. kept' = [k \in Settings |-> Nothing] /\ UNCHANGED <<expect, said, req>> BY <1>4 DEF Reboot
  <2>3. \A r \in Clients : req'[r] = Nothing BY <1>4 DEF Reboot
  <2> QED BY <2>1, <2>2, <2>3 DEF OneClientInv, At, MatchedSaveStays
<1>5. CASE UNCHANGED controlVars BY <1>5, OneClientRests DEF controlVars
<1> QED BY <1>1, <1>2, <1>3, <1>4, <1>5 DEF ControlNext

LEMMA OneClientHolds ==
  ASSUME NEW c, Clients = {c}
  PROVE  ControlSpec => []OneClientInv
BY OneClientStarts, OneClientSteps, PTL DEF ControlSpec

(* With one client at a time, whatever it saves, starts or stops: what a     *)
(* save under If-Match was told is written stays until somebody sets it.     *)
THEOREM MatchedSavesStay ==
  ASSUME NEW c, Clients = {c}
  PROVE  ControlSpec => []MatchedSaveStays
<1>1. OneClientInv => MatchedSaveStays BY DEF OneClientInv
<1> QED BY <1>1, OneClientHolds, PTL

(* With one client: a unit that was switched on and went down is never shown *)
(* as stopped on purpose, unless the router or a feature switch holds it.    *)
THEOREM DownIsShown ==
  ASSUME NEW c, Clients = {c}
  PROVE  ControlSpec => []DownIsNotStopped
<1>1. OneClientInv => DownIsNotStopped
  BY Zenon DEF OneClientInv, DownIsNotStopped, Verdict, Expectation
<1> QED BY <1>1, OneClientHolds, PTL

(* With one client: a start of the host leaves down what was switched off    *)
(* last, and gives no pooled model two owners.                               *)
THEOREM TheBootObeys ==
  ASSUME NEW c, Clients = {c}
  PROVE  ControlSpec => BootObeys
<1>1. OneClientInv /\ [ControlNext]_controlVars =>
        [reboots' # reboots => \A u \in Units : unit'[u] \notin Down =>
                                 said[u] # "off" /\ u \notin Pooled(conf')]_controlVars
  <2> SUFFICES ASSUME OneClientInv, ControlNext, reboots' # reboots,
                      NEW u \in Units, unit'[u] \notin Down
               PROVE  said[u] # "off" /\ u \notin Pooled(conf')
    OBVIOUS
  <2>1. Reboot
    <3>1. \A r \in Clients : ~Request(r)
      BY DEF Request, AskSave, AskMatched, IfMatch, AskSwitch, AskApply, AskAction, AskedFor, EnvRead, EnvWrite,
             SaveAnswers, SwitchRestarts, ApplyLaunches, ActionRuns, RecordReads, RecordWrites, Expect, SaveProfile,
             UpdateLlama
    <3> QED BY <3>1 DEF ControlNext, UnitDies, Poll
  <2>2. u \in BootUnits(conf')
    BY <2>1 DEF Reboot, Down
  <2> QED BY <2>2 DEF BootUnits, OneClientInv
<1> QED BY <1>1, OneClientHolds, PTL DEF ControlSpec, BootObeys

------------------------------------------------------------------------------
\* One client, the pool's switch is not among the settings it saves, and the router's unit
\* is not among those it starts and stops; and no request is the value that stands for none.
OneHand ==
  /\ \E c : Clients = {c}
  /\ Editable \subseteq Settings \ {"ROUTER"}
  /\ "llama-router" \notin ActedOn
  /\ \A where, what, ups, had, act : WriteReq(where, what, ups, had, act) # Nothing

\* Settings that leave the pool as it is.
PoolStays(values) ==
  /\ DOMAIN values \subseteq Settings
  /\ "ROUTER" \in DOMAIN values => values["ROUTER"] = conf["ROUTER"]

\* Units that a profile starts: the router only when there is a pool.
Startable(services) == ~RouterOn(conf) => "llama-router" \notin services

RequestFits(q) ==
  /\ q.at \in {"page", "read", "write", "after"} =>
       /\ PoolStays(q.ups)
       /\ q.kind = "switch" => DOMAIN q.ups = {"LLM_A"}
       /\ q.kind = "launch" => Startable(q.act.services)
  /\ q.at = "act" => q.unit \in ActedOn

Named(u) == u \in told \cup dropped \/ \E r \in Clients : Writing(r) /\ u \in RestartNeeded(DOMAIN req[r].ups, conf)

NamedInv ==
  /\ OneClientInv
  /\ DOMAIN unit = Units
  /\ profile # Nothing => DOMAIN profile.values = Settings /\ PoolStays(profile.values) /\ Startable(profile.services)
  /\ ~RouterOn(conf) => ~Running("llama-router")
  /\ \A r \in Clients : req[r] # Nothing => RequestFits(req[r])
  /\ \A u \in Units \ Pooled(conf) : Stale(u) => Named(u)

LEMMA ReadersAreHinted ==
  ASSUME NEW u \in Units \ Pooled(conf), NEW ks \in SUBSET Settings, NEW k \in Reads[u] \cap ks,
         u = "llama-router" => RouterOn(conf)
  PROVE  u \in RestartNeeded(ks, conf)
<1> DEFINE named == UNION {Hints(x) : x \in ks}
<1>1. Hints(k) \subseteq named OBVIOUS
<1>2. CASE u = "llama-router"
  <2>1. k \in {"ROUTER", "EMBED"} /\ Pooled(conf) = {"embed"}
    BY <1>2 DEF Reads, Units, Pooled
  <2>2. \/ k = "ROUTER" /\ "llama-router" \in named
        \/ k = "EMBED" /\ named \cap Pooled(conf) # {}
    BY <1>1, <2>1 DEF Hints
  <2> HIDE DEF named
  <2>3. u \notin Pooled(conf) OBVIOUS
  <2> QED BY <1>2, <2>2, <2>3 DEF RestartNeeded, named
<1>3. CASE u # "llama-router"
  <2>1. u \in Hints(k)
    <3>1. CASE u = "llm-a" BY <3>1 DEF Reads, Hints, Units
    <3>2. CASE u = "llm-b" BY <3>2 DEF Reads, Hints, Units
    <3>3. CASE u = "llm-a-proxy" BY <3>3 DEF Reads, Hints, Units
    <3>4. CASE u = "embed" BY <3>4 DEF Reads, Hints, Units
    <3> QED BY <1>3, <3>1, <3>2, <3>3, <3>4 DEF Units, Chat
  <2>2. u \in named BY <1>1, <2>1
  <2> HIDE DEF named
  <2> QED BY <2>2 DEF RestartNeeded, named
<1> QED BY <1>2, <1>3

\* A step that leaves the file alone: a unit is down or launched from the file, or it is as
\* it was and has been named if it had.
LEMMA NamedKept ==
  ASSUME NamedInv, OneClientInv', conf' = conf, DOMAIN unit' = Units,
         \A u \in Units : \/ unit'[u] \in Down \cup {Launched(u, conf)}
                          \/ unit'[u] = unit[u] /\ (Stale(u) /\ Named(u) => Named(u)'),
         ~RouterOn(conf) => unit'["llama-router"] \in Down \cup {unit["llama-router"]},
         \A r \in Clients : req'[r] # Nothing => RequestFits(req'[r]),
         profile' = profile
  PROVE  NamedInv'
<1>1. \A u \in Units \ Pooled(conf') : Stale(u)' => Named(u)'
  BY DEF NamedInv, Stale, Running, Launched, Down, Named
<1>2. ~RouterOn(conf') => ~Running("llama-router")'
  BY DEF NamedInv, Running
<1>3. \A r \in Clients : req'[r] # Nothing => RequestFits(req[r])'
  BY DEF RequestFits, PoolStays, Startable
<1>4. profile' # Nothing => DOMAIN profile'.values = Settings /\ PoolStays(profile.values)' /\ Startable(profile.services)'
  BY DEF NamedInv, PoolStays, Startable
<1> QED BY <1>1, <1>2, <1>3, <1>4 DEF NamedInv

\* A request that moves on with the units as they are, and has written nothing yet.
LEMMA NamedAsks ==
  ASSUME NamedInv, OneClientInv', NEW r \in Clients, Clients = {r}, NEW q, Goes(r, q),
         ~At(r, "after"), q # Nothing => RequestFits(q),
         UNCHANGED <<conf, unit, told, dropped, profile>>
  PROVE  NamedInv'
<1>1. req'[r] = q BY DEF Goes, NamedInv, OneClientInv
<1>2. \A u \in Units : Named(u) => Named(u)' BY DEF Named, Writing
<1> QED BY <1>1, <1>2, NamedKept DEF NamedInv

\* What a client asks for leaves the pool as it is.
LEMMA AskedFits ==
  ASSUME NamedInv, OneHand, NEW r \in Clients, NEW q, AskedFor(r, q),
         AskSave(r) \/ AskMatched(r) \/ AskSwitch(r) \/ AskApply(r) \/ AskAction(r)
  PROVE  RequestFits(q)
<1>1. req'[r] = q BY DEF AskedFor, Goes, NamedInv, OneClientInv
<1>2. CASE AskSave(r)
  <2>1. PICK k \in Editable : AskedFor(r, Rewrite("save", [x \in {k} |-> 1 - conf[k]], Nothing))
    BY <1>2 DEF AskSave
  <2>2. q = Rewrite("save", [x \in {k} |-> 1 - conf[k]], Nothing)
    BY <2>1, <1>1 DEF AskedFor, Goes, NamedInv, OneClientInv
  <2> QED BY <2>2 DEF Rewrite, WriteReq, Mirrored, RequestFits, PoolStays, OneHand, Settings
<1>3. CASE AskMatched(r)
  <2>1. PICK k \in Editable : AskedFor(r, WriteReq("page", "matched", [x \in {k} |-> 1 - conf[k]], conf, Nothing))
    BY <1>3 DEF AskMatched
  <2>2. q = WriteReq("page", "matched", [x \in {k} |-> 1 - conf[k]], conf, Nothing)
    BY <2>1, <1>1 DEF AskedFor, Goes, NamedInv, OneClientInv
  <2> QED BY <2>2 DEF WriteReq, RequestFits, PoolStays, OneHand, Settings
<1>4. CASE AskSwitch(r)
  <2>1. q = Rewrite("switch", [x \in {"LLM_A"} |-> 1 - conf["LLM_A"]], Nothing)
    BY <1>4, <1>1 DEF AskSwitch, AskedFor, Goes, NamedInv, OneClientInv
  <2> QED BY <2>1 DEF Rewrite, WriteReq, Mirrored, RequestFits, PoolStays, Settings
<1>5. CASE AskApply(r)
  <2>1. PICK launch \in BOOLEAN :
          AskedFor(r, Rewrite(IF launch THEN "launch" ELSE "save", profile.values, profile))
    BY <1>5 DEF AskApply
  <2>2. q = Rewrite(IF launch THEN "launch" ELSE "save", profile.values, profile)
    BY <2>1, <1>1 DEF AskedFor, Goes, NamedInv, OneClientInv
  <2>3. profile # Nothing BY <1>5 DEF AskApply
  <2>4. Mirrored(profile.values) = profile.values BY <2>3 DEF NamedInv, Mirrored, Settings
  <2> QED BY <2>2, <2>3, <2>4 DEF Rewrite, WriteReq, RequestFits, NamedInv
<1>6. CASE AskAction(r)
  <2>1. PICK u \in ActedOn, act \in {"start", "stop", "restart"} : AskedFor(r, Act("act", act, u, Nothing))
    BY <1>6 DEF AskAction
  <2>2. q = Act("act", act, u, Nothing)
    BY <2>1, <1>1 DEF AskedFor, Goes, NamedInv, OneClientInv
  <2> QED BY <2>2 DEF Act, RequestFits
<1> QED BY <1>2, <1>3, <1>4, <1>5, <1>6

\* The write: whoever reads what it changed is named by the answer to come.
LEMMA NamedWrites ==
  ASSUME NamedInv, OneHand, OneClientInv', NEW r \in Clients, Clients = {r}, EnvWrite(r)
  PROVE  NamedInv'
<1> DEFINE ups == req[r].ups
<1>1. req[r] # Nothing /\ req[r].at = "write" /\ PoolStays(ups) /\ req[r].had = conf /\ RequestFits(req[r])
  BY DEF EnvWrite, At, NamedInv, RequestFits, OneClientInv
<1>2. /\ conf' = [k \in Settings |-> IF k \in DOMAIN ups THEN ups[k] ELSE conf[k]]
      /\ UNCHANGED <<unit, told, dropped, profile>>
  BY <1>1 DEF EnvWrite
<1>3. conf'["ROUTER"] = conf["ROUTER"] /\ Pooled(conf') = Pooled(conf) /\ RouterOn(conf') = RouterOn(conf)
  BY <1>1, <1>2 DEF PoolStays, Settings, Pooled, RouterOn
<1>4. req'[r] = WriteReq("after", req[r].kind, ups, Nothing, req[r].act)
  BY DEF EnvWrite, Goes, WriteAt, NamedInv, OneClientInv
<1>5. RequestFits(req[r])'
  BY <1>1, <1>3, <1>4 DEF RequestFits, PoolStays, Startable, WriteReq
<1>6. ASSUME NEW u \in Units \ Pooled(conf), Stale(u)' PROVE Named(u)'
  <2>1. unit[u] \notin Down /\ unit[u] # Launched(u, conf') BY <1>2, <1>6 DEF Stale, Running, Launched
  <2>2. CASE Launched(u, conf') = Launched(u, conf)
    <3>1. Stale(u) BY <2>1, <2>2 DEF Stale, Running
    <3>2. u \in told \cup dropped BY <3>1, <1>1 DEF NamedInv, Named, Writing, At
    <3> QED BY <3>2, <1>2 DEF Named
  <2>3. CASE Launched(u, conf') # Launched(u, conf)
    <3>1. PICK k \in Reads[u] : conf'[k] # conf[k] BY <2>3 DEF Launched
    <3>2. Reads[u] \subseteq Settings BY DEF Reads, Units, Chat, Settings
    <3>3. k \in DOMAIN ups BY <3>1, <3>2, <1>2
    <3>4. u = "llama-router" => RouterOn(conf) BY <2>1 DEF NamedInv, Running
    <3>5. u \in RestartNeeded(DOMAIN ups, conf)
      BY <3>1, <3>3, <3>4, <1>1, ReadersAreHinted DEF PoolStays
    <3>6. RestartNeeded(DOMAIN ups, conf') = RestartNeeded(DOMAIN ups, conf)
      BY <1>3 DEF RestartNeeded
    <3>7. At(r, "after")' /\ req'[r].ups = ups
      <4>1. req'[r] # Nothing BY <1>4 DEF OneHand
      <4> QED BY <4>1, <1>4 DEF At, WriteReq
    <3> QED BY <3>5, <3>6, <3>7 DEF Named, Writing
  <2> QED BY <2>2, <2>3
<1>7. ~RouterOn(conf') => ~Running("llama-router")' BY <1>2, <1>3 DEF NamedInv, Running
<1>8. profile' # Nothing => DOMAIN profile'.values = Settings /\ PoolStays(profile.values)' /\ Startable(profile.services)'
  BY <1>2, <1>3 DEF NamedInv, PoolStays, Startable
<1> QED BY <1>2, <1>3, <1>5, <1>6, <1>7, <1>8 DEF NamedInv

\* The end of a write: what is left stale is named by the answer, or left out of it by an
\* apply that launches.
LEMMA NamedAnswers ==
  ASSUME NamedInv, OneHand, OneClientInv', NEW r \in Clients, Clients = {r},
         SaveAnswers(r) \/ SwitchRestarts(r) \/ ApplyLaunches(r)
  PROVE  NamedInv'
<1> DEFINE named == NeedingRestart(r)
<1>1. Answered(r) /\ conf' = conf /\ profile' = profile /\ req[r] # Nothing /\ req[r].at = "after" /\ RequestFits(req[r])
  BY DEF SaveAnswers, SwitchRestarts, ApplyLaunches, At, NamedInv
<1>2. req'[r] = Nothing BY <1>1 DEF Answered, Goes, NamedInv, OneClientInv
<1>3. \A q \in Clients : req'[q] # Nothing => RequestFits(req'[q]) BY <1>2
<1>4. \A u \in Units : Stale(u) /\ Named(u) => u \in told \cup dropped \cup named
  BY DEF Named, Stale, NeedingRestart
<1>5. ASSUME NEW u \in Units
      PROVE  \/ unit'[u] \in Down \cup {Launched(u, conf)}
             \/ unit'[u] = unit[u] /\ (Stale(u) /\ Named(u) => u \in told' \cup dropped')
  <2> HIDE DEF named
  <2>1. CASE SaveAnswers(r)
    BY <2>1, <1>4 DEF SaveAnswers, named
  <2>2. CASE SwitchRestarts(r)
    <3>1. DOMAIN req[r].ups = {"LLM_A"} BY <2>2, <1>1 DEF SwitchRestarts, Is, RequestFits
    <3>2. UNION {Hints(k) : k \in {"LLM_A"}} = {"llm-a"} BY DEF Hints
    <3>3. named \subseteq {"llm-a"} BY <3>1, <3>2 DEF named, NeedingRestart, RestartNeeded, Pooled
    <3>4. CASE u \in {"llm-a", "llm-a-proxy"} BY <2>2, <3>4 DEF SwitchRestarts, Down
    <3>5. CASE u \notin {"llm-a", "llm-a-proxy"} BY <2>2, <3>3, <3>5, <1>4 DEF SwitchRestarts, Fresh
    <3> QED BY <3>4, <3>5
  <2>3. CASE ApplyLaunches(r)
    <3>1. CASE SlotStaysDown(r, req[r].act) BY <3>1, <1>4 DEF SlotStaysDown, Down, named
    <3>2. CASE AllAreLaunched(r, req[r].act)
      <4>1. CASE u \in Starts(req[r].act) \cup Stops(req[r].act) BY <3>2, <4>1 DEF AllAreLaunched, Down
      <4>2. CASE u \notin Starts(req[r].act) \cup Stops(req[r].act) BY <3>2, <4>2, <1>4 DEF AllAreLaunched, named
      <4> QED BY <4>1, <4>2
    <3> QED BY <2>3, <3>1, <3>2 DEF ApplyLaunches
  <2> QED BY <2>1, <2>2, <2>3
<1>6. ASSUME ~RouterOn(conf) PROVE unit'["llama-router"] \in Down \cup {unit["llama-router"]}
  <2>1. CASE ~ApplyLaunches(r) BY <2>1 DEF SaveAnswers, SwitchRestarts, Units
  <2>2. CASE ApplyLaunches(r)
    <3>1. "llama-router" \notin req[r].act.services
      BY <2>2, <1>1, <1>6 DEF ApplyLaunches, Is, RequestFits, Startable
    <3>2. CASE SlotStaysDown(r, req[r].act) BY <3>2 DEF SlotStaysDown, Units
    <3>3. CASE AllAreLaunched(r, req[r].act)
      <4>1. "llama-router" \notin Starts(req[r].act) BY <3>1 DEF Starts
      <4> QED BY <3>3, <4>1 DEF AllAreLaunched, Units, Down
    <3> QED BY <2>2, <3>2, <3>3 DEF ApplyLaunches
  <2> QED BY <2>1, <2>2
<1>7. DOMAIN unit' = Units
  BY DEF SaveAnswers, SwitchRestarts, ApplyLaunches, SlotStaysDown, AllAreLaunched, NamedInv
<1> QED BY <1>1, <1>3, <1>5, <1>6, <1>7, NamedKept DEF Named

\* What the operator, an update and the service manager do to units.
LEMMA NamedActs ==
  ASSUME NamedInv, OneHand, OneClientInv', NEW r \in Clients, Clients = {r},
         ActionRuns(r) \/ UpdateLlama(r)
  PROVE  NamedInv'
<1>1. conf' = conf /\ profile' = profile /\ DOMAIN unit' = Units /\ ~At(r, "after")
  BY DEF ActionRuns, UpdateLlama, NamedInv, Asks, At
<1>2. req'[r] # Nothing => RequestFits(req'[r])
  BY DEF ActionRuns, UpdateLlama, Asks, Answered, Goes, Act, RequestFits, NamedInv, OneClientInv
<1>3. \A u \in Units : Named(u) => u \in told \cup dropped BY <1>1 DEF Named, Writing
<1>4. ASSUME NEW u \in Units
      PROVE  unit'[u] \in Down \cup {Launched(u, conf)} \/ (unit'[u] = unit[u] /\ (Named(u) => Named(u)'))
  <2>1. CASE ActionRuns(r)
    BY <2>1, <1>3 DEF ActionRuns, Fresh, Down, Named, NamedInv
  <2>2. CASE UpdateLlama(r)
    BY <2>2, <1>3 DEF UpdateLlama, Fresh, Down, Named
  <2> QED BY <2>1, <2>2
<1>5. unit'["llama-router"] = unit["llama-router"]
  <2>1. CASE ActionRuns(r)
    <3>1. req[r].unit # "llama-router" BY <2>1 DEF ActionRuns, At, NamedInv, RequestFits, OneHand
    <3> QED BY <2>1, <3>1 DEF ActionRuns, Units, NamedInv
  <2>2. CASE UpdateLlama(r) BY <2>2 DEF UpdateLlama, Units, Chat
  <2> QED BY <2>1, <2>2
<1> QED BY <1>1, <1>2, <1>4, <1>5, NamedKept

LEMMA NamedRequests ==
  ASSUME NamedInv, OneHand, OneClientInv', NEW r \in Clients, Clients = {r}, Request(r)
  PROVE  NamedInv'
<1>1. CASE AskSave(r) \/ AskMatched(r) \/ AskSwitch(r) \/ AskApply(r) \/ AskAction(r)
  <2>1. PICK q : AskedFor(r, q)
    <3>1. CASE AskSave(r) BY <3>1 DEF AskSave
    <3>2. CASE AskMatched(r) BY <3>2 DEF AskMatched
    <3>3. CASE AskSwitch(r) BY <3>3 DEF AskSwitch
    <3>4. CASE AskApply(r) BY <3>4 DEF AskApply
    <3>5. CASE AskAction(r) BY <3>5 DEF AskAction
    <3> QED BY <1>1, <3>1, <3>2, <3>3, <3>4, <3>5
  <2>2. RequestFits(q) BY <2>1, <1>1, AskedFits
  <2> QED BY <2>1, <2>2, NamedAsks DEF AskedFor, Asks, At
<1>2. CASE IfMatch(r) \/ EnvRead(r)
  <2>1. PICK q : Goes(r, q) /\ (q # Nothing => RequestFits(q))
    BY <1>2 DEF IfMatch, EnvRead, Answered, WriteAt, WriteReq, At, NamedInv, RequestFits
  <2>2. ~At(r, "after") /\ UNCHANGED <<conf, unit, told, dropped, profile>> BY <1>2 DEF IfMatch, EnvRead, At
  <2> QED BY <2>1, <2>2, NamedAsks
<1>3. CASE EnvWrite(r) BY <1>3, NamedWrites
<1>4. CASE SaveAnswers(r) \/ SwitchRestarts(r) \/ ApplyLaunches(r) BY <1>4, NamedAnswers
<1>5. CASE ActionRuns(r) \/ UpdateLlama(r) BY <1>5, NamedActs
<1>6. CASE RecordReads(r) \/ RecordWrites(r) \/ Expect(r)
  <2>1. PICK q : Goes(r, q) /\ (q # Nothing => RequestFits(q))
    BY <1>6 DEF RecordReads, RecordWrites, Expect, Answered, Act, RequestFits
  <2>2. ~At(r, "after") /\ UNCHANGED <<conf, unit, told, dropped, profile>>
    BY <1>6 DEF RecordReads, RecordWrites, Expect, Asks, At
  <2> QED BY <2>1, <2>2, NamedAsks
<1>7. CASE SaveProfile(r)
  <2>1. profile' = [values |-> conf, chat |-> Running("llm-a"),
                    services |-> {u \in Units \ {"llm-a", "llm-a-proxy"} : Running(u)}]
    BY <1>7 DEF SaveProfile
  <2>2. UNCHANGED <<conf, unit, told, dropped>> /\ req[r] = Nothing /\ req'[r] = Nothing
    BY <1>7 DEF SaveProfile, Asks, Answered, Goes, NamedInv, OneClientInv
  <2>3. DOMAIN profile'.values = Settings /\ PoolStays(profile.values)' /\ Startable(profile.services)'
    BY <2>1, <2>2 DEF PoolStays, Startable, NamedInv, OneClientInv
  <2>4. \A u \in Units \ Pooled(conf') : Stale(u)' => Named(u)'
    BY <2>2 DEF NamedInv, Named, Stale, Running, Writing, At
  <2> QED BY <2>2, <2>3, <2>4 DEF NamedInv, Running
<1> QED BY <1>1, <1>2, <1>3, <1>4, <1>5, <1>6, <1>7 DEF Request

LEMMA NamedSteps ==
  ASSUME NamedInv, OneHand, OneClientInv', [ControlNext]_controlVars
  PROVE  NamedInv'
<1>1. CASE \E r \in Clients : Request(r)
  BY <1>1, NamedRequests DEF OneHand
<1>2. ASSUME NEW d \in Units, UnitDies(d) PROVE NamedInv'
  <2>1. UNCHANGED <<conf, profile, req>> /\ DOMAIN unit' = Units /\ Running(d)
    BY <1>2 DEF UnitDies, NamedInv
  <2>2. ASSUME NEW u \in Units
        PROVE  unit'[u] \in Down \cup {Launched(u, conf)} \/ (unit'[u] = unit[u] /\ (Named(u) => Named(u)'))
    BY <1>2 DEF UnitDies, Down, Named, Writing, At, NamedInv
  <2>3. ~RouterOn(conf) => unit'["llama-router"] = unit["llama-router"]
    BY <1>2, <2>1 DEF UnitDies, NamedInv, Units
  <2>4. \A r \in Clients : req'[r] # Nothing => RequestFits(req'[r]) BY <2>1 DEF NamedInv
  <2> QED BY <2>1, <2>2, <2>3, <2>4, NamedKept
<1>3. CASE Poll \/ UNCHANGED controlVars
  <2>1. UNCHANGED <<conf, profile, req, unit, told, dropped>> BY <1>3 DEF Poll, controlVars
  <2>2. \A u \in Units : Named(u) => Named(u)' BY <2>1 DEF Named, Writing, At
  <2> QED BY <2>1, <2>2, NamedKept DEF NamedInv
<1>4. CASE Reboot
  <2>1. conf'["ROUTER"] = conf["ROUTER"] /\ Pooled(conf') = Pooled(conf) /\ RouterOn(conf') = RouterOn(conf)
    <3>1. profile # Nothing => Mirrored(profile.values) = profile.values BY DEF NamedInv, Mirrored, Settings
    <3>2. conf'["ROUTER"] = conf["ROUTER"] BY <1>4, <3>1 DEF Reboot, NamedInv, PoolStays, Settings
    <3> QED BY <3>2 DEF Pooled, RouterOn
  <2>2. DOMAIN unit' = Units /\ \A u \in Units : unit'[u] \in Down \cup {Launched(u, conf')}
    BY <1>4 DEF Reboot, Down
  <2>3. ~RouterOn(conf') => unit'["llama-router"] \in Down
    BY <1>4 DEF Reboot, BootUnits, Down, Units
  <2>4. UNCHANGED <<profile, req>> /\ \A r \in Clients : req'[r] = Nothing BY <1>4 DEF Reboot
  <2>5. profile' # Nothing => DOMAIN profile'.values = Settings /\ PoolStays(profile.values)' /\ Startable(profile.services)'
    BY <2>1, <2>4 DEF NamedInv, PoolStays, Startable
  <2>6. \A u \in Units : ~Stale(u)' BY <2>2 DEF Stale, Running, Launched, Down
  <2> QED BY <2>2, <2>3, <2>4, <2>5, <2>6 DEF NamedInv, Running
<1> QED BY <1>1, <1>2, <1>3, <1>4 DEF ControlNext

LEMMA NamedStarts == OneHand /\ ControlInit => NamedInv
<1> SUFFICES ASSUME ControlInit PROVE NamedInv OBVIOUS
<1>1. OneClientInv BY OneClientStarts
<1>2. ~RouterOn(conf) => ~Running("llama-router") BY DEF ControlInit, BootUnits, Running, Down, Units
<1>3. \A u \in Units : ~Stale(u) BY DEF ControlInit, Stale, Running, Down
<1> QED BY <1>1, <1>2, <1>3 DEF ControlInit, NamedInv

(* With one hand on the stack: a unit that runs with settings the file no    *)
(* longer holds has been named since its launch, or was left out of the      *)
(* answer of an apply that launches, or the answer is still to come.         *)
THEOREM StaleIsNamedOrDropped ==
  ASSUME OneHand
  PROVE  ControlSpec => []NamedOrDropped
<1>1. NamedInv => NamedOrDropped BY DEF NamedInv, NamedOrDropped, Named
<1>2. ControlSpec => []OneClientInv BY OneClientHolds DEF OneHand
<1>3. OneClientInv' /\ NamedInv /\ [ControlNext]_controlVars => NamedInv' BY NamedSteps
<1> QED BY <1>1, <1>2, <1>3, NamedStarts, PTL DEF ControlSpec

------------------------------------------------------------------------------
(* The two commands that are made of one configuration *)

\* The choices among which the preset and the unit can be compared: no build splits by
\* tensor without flash attention, `jinja` has no flag that turns it off, a number below
\* zero does not survive the preset's reader, and adapters are named in one place.
Comparable(key) ==
  CASE key = "TASK_METRICS" -> {"", "on", "off"}
    [] key = "TASK_SWA_FULL" -> {"", "on", "off"}
    [] key = "TASK_KV_OFFLOAD" -> {"", "on", "off"}
    [] key = "TASK_THINKING" -> {"", "on", "off"}
    [] key = "TASK_LOG_PREFIX" -> {"", "true", "false"}
    [] key = "TASK_JINJA" -> {"", "on"}
    [] key = "TASK_FLASH_ATTN" -> {"", "on", "auto"}
    [] key = "TASK_SPLIT_MODE" -> {"", "none", "layer", "row", "tensor"}
    [] key = "TASK_CUSTOM" -> {"none", "broken", "ctx", "fit", "template"}
    [] OTHER -> {}

Compared == {"TASK_METRICS", "TASK_SWA_FULL", "TASK_KV_OFFLOAD", "TASK_THINKING", "TASK_LOG_PREFIX",
             "TASK_JINJA", "TASK_FLASH_ATTN", "TASK_SPLIT_MODE", "TASK_CUSTOM"}

OnlyComparable ==
  \A key \in Compared : /\ key \in DOMAIN SettingValues
                        /\ SettingValues[key] \cup {ShippedEnv[key]} \subseteq Comparable(key)

\* Each of these settings has a value that was chosen for it or shipped.
SettingsInv ==
  /\ DOMAIN settings = DOMAIN ShippedEnv
  /\ \A key \in Compared : settings[key] \in Comparable(key)

\* No save and no switch writes anything else.
LEMMA SettingsSteps ==
  ASSUME OnlyComparable, SettingsInv, [LaunchNext]_launchVars
  PROVE  SettingsInv'
<1>1. ASSUME NEW key \in DOMAIN SettingValues, SaveSetting(key) PROVE SettingsInv'
  BY <1>1, LaunchAssumption DEF SaveSetting, SettingsInv, OnlyComparable
<1>2. CASE SwitchChatModel
  BY <1>2 DEF SwitchChatModel, SettingsInv, Compared
<1>3. ASSUME NEW u \in LaunchUnits, RestartUnit(u) PROVE SettingsInv'
  BY <1>3 DEF RestartUnit, SettingsInv
<1>4. CASE UNCHANGED launchVars
  BY <1>4 DEF launchVars, SettingsInv
<1> QED BY <1>1, <1>2, <1>3, <1>4 DEF LaunchNext

\* Option by option: one the operator's own arguments name, or one both make of the setting.
LEMMA OptionsAgree ==
  ASSUME NEW s, Os = "linux",
         s.TASK_METRICS \in {"", "on", "off"}, s.TASK_SWA_FULL \in {"", "on", "off"},
         s.TASK_KV_OFFLOAD \in {"", "on", "off"}, s.TASK_THINKING \in {"", "on", "off"},
         s.TASK_LOG_PREFIX \in {"", "true", "false"}, s.TASK_JINJA \in {"", "on"},
         s.TASK_FLASH_ATTN \in {"", "on", "auto"},
         s.TASK_SPLIT_MODE \in {"", "none", "layer", "row", "tensor"},
         s.TASK_CUSTOM \in {"none", "ctx", "fit", "template"},
         NEW option \in DOMAIN PresetOptions(s), PresetOptions(s)[option] # ""
  PROVE  IF UnitOptions(s)[option] = "" THEN PresetOptions(s)[option] = ServerDefault(option)
         ELSE UnitOptions(s)[option] = PresetOptions(s)[option]
<1> DEFINE pooled == PresetOptions(s)[option]  asUnit == UnitOptions(s)[option]
           custom == s.TASK_CUSTOM
<1> HIDE DEF pooled, asUnit
<1> SUFFICES ASSUME pooled # "" PROVE IF asUnit = "" THEN pooled = ServerDefault(option) ELSE asUnit = pooled
  BY DEF pooled, asUnit
<1>1. PresetOfCustom[custom] = ArgvOfCustom[custom]
  BY DEF PresetOfCustom, ArgvOfCustom
<1>2. DOMAIN ArgvOfCustom[custom] \subseteq {"ctx_size", "fit", "template_file"}
  <2>1. /\ ArgvOfCustom["none"] = NoOptions /\ ArgvOfCustom["ctx"] = [ctx_size |-> "4096"]
        /\ ArgvOfCustom["fit"] = [fit |-> "off"]
        /\ ArgvOfCustom["template"] = [template_file |-> "theirs"]
    BY DEF ArgvOfCustom
  <2>2. /\ DOMAIN NoOptions = {} /\ DOMAIN [ctx_size |-> "4096"] = {"ctx_size"}
        /\ DOMAIN [fit |-> "off"] = {"fit"} /\ DOMAIN [template_file |-> "theirs"] = {"template_file"}
    BY DEF NoOptions
  <2>3. ASSUME NEW c \in {"none", "ctx", "fit", "template"}
        PROVE  DOMAIN ArgvOfCustom[c] \subseteq {"ctx_size", "fit", "template_file"}
    BY <2>1, <2>2
  <2> QED BY <2>3
<1>3. CASE option \in DOMAIN ArgvOfCustom[custom]
  BY <1>1, <1>3 DEF PresetOptions, UnitOptions, Over, pooled, asUnit
<1>4. CASE option \notin DOMAIN ArgvOfCustom[custom]
  <2>1. DOMAIN PresetLines(s) = DOMAIN UnitFlags(s)
    BY DEF PresetLines, UnitFlags
  <2>2. option \in DOMAIN PresetLines(s) /\ pooled = PresetLines(s)[option]
    BY <1>1, <1>4 DEF PresetOptions, Over, pooled
  <2>3. asUnit = UnitFlags(s)[option]
    BY <1>1, <1>4, <2>1, <2>2 DEF UnitOptions, Over, asUnit
  <2>4. option \in {"ctx_size", "cache_type_k", "fit", "metrics", "log_prefix", "kv_offload", "jinja",
                    "swa_full", "load_mode", "split_mode", "tensor_split", "main_gpu", "fit_ctx",
                    "cache_reuse", "kwargs", "template_file", "lora_scaled", "spec_type", "sleep_idle"}
    BY <2>2 DEF PresetLines
  <2>5. /\ PresetLines(s).ctx_size = s.TASK_CTX_SIZE
        /\ PresetLines(s).cache_type_k = s.TASK_CACHE_TYPE_K
        /\ PresetLines(s).fit = s.TASK_FIT
        /\ PresetLines(s).metrics = s.TASK_METRICS
        /\ PresetLines(s).log_prefix = s.TASK_LOG_PREFIX
        /\ PresetLines(s).kv_offload = s.TASK_KV_OFFLOAD
        /\ PresetLines(s).jinja = s.TASK_JINJA
        /\ PresetLines(s).swa_full = s.TASK_SWA_FULL
        /\ PresetLines(s).load_mode = LoadMode(s)
        /\ PresetLines(s).split_mode = PresetSplit(s)
        /\ PresetLines(s).tensor_split = (IF PresetSplit(s) = "tensor" \/ s.TASK_TENSOR_SPLIT = "auto" THEN "" ELSE s.TASK_TENSOR_SPLIT)
        /\ PresetLines(s).main_gpu = (IF PresetSplit(s) = "tensor" THEN "" ELSE s.TASK_MAIN_GPU)
        /\ PresetLines(s).fit_ctx = PresetFitCtx(s)
        /\ PresetLines(s).cache_reuse = UnitCacheReuse(s)
        /\ PresetLines(s).kwargs = PresetKwargs(s)
        /\ PresetLines(s).template_file = s.TASK_CHAT_TEMPLATE_ID
        /\ PresetLines(s).lora_scaled = s.TASK_LORA_PATHS
        /\ PresetLines(s).spec_type = ""
        /\ PresetLines(s).sleep_idle = ""
    BY DEF PresetLines
  <2>6. /\ UnitFlags(s).ctx_size = Or(s.TASK_CTX_SIZE, TaskFallbacks.ctx_size)
        /\ UnitFlags(s).cache_type_k = Or(s.TASK_CACHE_TYPE_K, TaskFallbacks.cache_type_k)
        /\ UnitFlags(s).fit = Or(s.TASK_FIT, TaskFallbacks.fit)
        /\ UnitFlags(s).metrics = Toggled(s.TASK_METRICS, "on", "")
        /\ UnitFlags(s).log_prefix = Toggled(s.TASK_LOG_PREFIX, "true", "")
        /\ UnitFlags(s).kv_offload = Toggled(s.TASK_KV_OFFLOAD, "on", "off")
        /\ UnitFlags(s).jinja = (IF s.TASK_JINJA = "on" THEN "on" ELSE "")
        /\ UnitFlags(s).swa_full = (IF s.TASK_SWA_FULL = "on" THEN "on" ELSE "")
        /\ UnitFlags(s).load_mode = LoadMode(s)
        /\ UnitFlags(s).split_mode = UnitSplit(s)
        /\ UnitFlags(s).tensor_split = UnitTensorSplit(s)
        /\ UnitFlags(s).main_gpu = (IF Os = "darwin" \/ UnitSplit(s) = "tensor" THEN "" ELSE s.TASK_MAIN_GPU)
        /\ UnitFlags(s).fit_ctx = UnitFitCtx(s)
        /\ UnitFlags(s).cache_reuse = UnitCacheReuse(s)
        /\ UnitFlags(s).kwargs = UnitKwargs(s)
        /\ UnitFlags(s).template_file = s.TASK_CHAT_TEMPLATE_ID
        /\ UnitFlags(s).lora_scaled = (IF s.TASK_CUSTOM = "lora" THEN "" ELSE s.TASK_LORA_PATHS)
        /\ UnitFlags(s).spec_type = Spec_type(s)
        /\ UnitFlags(s).sleep_idle = s.TASK_SLEEP_IDLE_SECONDS
    BY DEF UnitFlags
  <2>7. CASE option = "ctx_size"
    BY <2>2, <2>3, <2>5, <2>6, <2>7 DEF ServerDefault, Or
  <2>8. CASE option = "cache_type_k"
    BY <2>2, <2>3, <2>5, <2>6, <2>8 DEF ServerDefault, Or
  <2>9. CASE option = "fit"
    BY <2>2, <2>3, <2>5, <2>6, <2>9 DEF ServerDefault, Or
  <2>10. CASE option = "metrics"
    BY <2>2, <2>3, <2>5, <2>6, <2>10 DEF ServerDefault, Toggled, Or
  <2>11. CASE option = "log_prefix"
    BY <2>2, <2>3, <2>5, <2>6, <2>11 DEF ServerDefault, Toggled, Or
  <2>12. CASE option = "kv_offload"
    BY <2>2, <2>3, <2>5, <2>6, <2>12 DEF ServerDefault, Toggled, Or
  <2>13. CASE option = "jinja"
    BY <2>2, <2>3, <2>5, <2>6, <2>13 DEF ServerDefault
  <2>14. CASE option = "swa_full"
    BY <2>2, <2>3, <2>5, <2>6, <2>14 DEF ServerDefault
  <2>15. CASE option = "load_mode"
    BY <2>2, <2>3, <2>5, <2>6, <2>15 DEF ServerDefault
  <2>16. CASE option = "split_mode"
    BY <2>2, <2>3, <2>5, <2>6, <2>16 DEF ServerDefault, PresetSplit, UnitSplit
  <2>17. CASE option = "tensor_split"
    BY <2>2, <2>3, <2>5, <2>6, <2>17 DEF ServerDefault, PresetSplit, UnitSplit, UnitTensorSplit
  <2>18. CASE option = "main_gpu"
    BY <2>2, <2>3, <2>5, <2>6, <2>18 DEF ServerDefault, PresetSplit, UnitSplit
  <2>19. CASE option = "fit_ctx"
    BY <2>2, <2>3, <2>5, <2>6, <2>19 DEF ServerDefault, PresetFitCtx, UnitFitCtx
  <2>20. CASE option = "cache_reuse"
    BY <2>2, <2>3, <2>5, <2>6, <2>20 DEF ServerDefault
  <2>21. CASE option = "kwargs"
    BY <2>2, <2>3, <2>5, <2>6, <2>21 DEF ServerDefault, PresetKwargs, UnitKwargs, Or
  <2>22. CASE option = "template_file"
    BY <2>2, <2>3, <2>5, <2>6, <2>22 DEF ServerDefault
  <2>23. CASE option = "lora_scaled"
    BY <2>2, <2>3, <2>5, <2>6, <2>23 DEF ServerDefault
  <2>24. CASE option = "spec_type"
    BY <2>2, <2>3, <2>5, <2>6, <2>24 DEF ServerDefault
  <2>25. CASE option = "sleep_idle"
    BY <2>2, <2>3, <2>5, <2>6, <2>25 DEF ServerDefault
  <2> QED BY <2>4, <2>7, <2>8, <2>9, <2>10, <2>11, <2>12, <2>13, <2>14, <2>15,
            <2>16, <2>17, <2>18, <2>19, <2>20, <2>21, <2>22, <2>23, <2>24, <2>25
<1> QED BY <1>3, <1>4

(* Moving the task model between its unit and the router does not change how *)
(* it is run, on Linux and for any values of the settings among those that   *)
(* can be compared.                                                          *)
THEOREM ThePresetAgrees ==
  ASSUME OnlyComparable, Os = "linux"
  PROVE  LaunchSpec => []PresetAgrees
<1>1. LaunchInit => SettingsInv
  BY DEF LaunchInit, SettingsInv, OnlyComparable
<1>2. SettingsInv => PresetAgrees
  <2> SUFFICES ASSUME SettingsInv, ~PresetRefuses(settings) PROVE PresetAgrees
    BY DEF PresetAgrees
  <2>1. settings.TASK_CUSTOM # "broken" BY DEF PresetRefuses
  <2>2. /\ settings.TASK_METRICS \in {"", "on", "off"} /\ settings.TASK_SWA_FULL \in {"", "on", "off"}
        /\ settings.TASK_KV_OFFLOAD \in {"", "on", "off"} /\ settings.TASK_THINKING \in {"", "on", "off"}
        /\ settings.TASK_LOG_PREFIX \in {"", "true", "false"} /\ settings.TASK_JINJA \in {"", "on"}
        /\ settings.TASK_FLASH_ATTN \in {"", "on", "auto"}
        /\ settings.TASK_SPLIT_MODE \in {"", "none", "layer", "row", "tensor"}
        /\ settings.TASK_CUSTOM \in {"none", "ctx", "fit", "template"}
    BY <2>1 DEF SettingsInv, Compared, Comparable
  <2> QED BY <2>2, OptionsAgree DEF PresetAgrees
<1> QED BY <1>1, <1>2, SettingsSteps, PTL DEF LaunchSpec

------------------------------------------------------------------------------
(* The recommended configuration *)

\* Every set of numbers has a least one.
LEMMA LeastOfSome ==
  ASSUME NEW T \in SUBSET Nat, T # {} PROVE \E m \in T : \A k \in T : m <= k
<1>1. PICK m \in T : \A k \in T : ~(<<k, m>> \in OpToRel(<, Nat))
  BY WFMin, NatLessThanWellFounded
<1>2. \A k, h \in Nat : k < h => <<k, h>> \in OpToRel(<, Nat) BY DEF OpToRel
<1>3. \A k \in T : ~(k < m)
  <2> SUFFICES ASSUME NEW k \in T PROVE ~(k < m) OBVIOUS
  <2>1. k \in Nat /\ m \in Nat BY <1>1
  <2> QED BY <2>1, <1>1, <1>2, Zenon
<1> QED BY <1>3

\* A finite set of numbers has a greatest one: the one with the fewest above it.
LEMMA GreatestOfSome ==
  ASSUME NEW S \in SUBSET Nat, IsFiniteSet(S), S # {} PROVE Max(S) \in S
<1> DEFINE Above(x) == {y \in S : y > x}
           T == {Cardinality(Above(x)) : x \in S}
<1>1. \A x \in S : IsFiniteSet(Above(x)) /\ Cardinality(Above(x)) \in Nat BY FS_Subset, FS_CardinalityType
<1>2. T \in SUBSET Nat /\ T # {} BY <1>1
<1>3. PICK x \in S : \A k \in T : Cardinality(Above(x)) <= k BY <1>2, LeastOfSome
<1>4. Above(x) = {}
  <2> SUFFICES ASSUME NEW y \in Above(x) PROVE FALSE OBVIOUS
  <2>1. y \in S /\ y > x /\ x \in S BY <1>3
  <2>a. \A z \in S : z \in Nat OBVIOUS
  <2>b. \A z \in S : z > y => z > x BY <2>1, <2>a
  <2>c. \A z \in Above(y) : z \in Above(x) BY <2>b
  <2>d. y \notin Above(y) BY <2>1, <2>a
  <2>2. Above(y) \subseteq Above(x) /\ y \notin Above(y) BY <2>c, <2>d
  <2>3. Above(y) # Above(x) BY <2>2
  <2>4. Cardinality(Above(y)) <= Cardinality(Above(x)) BY <2>2, <1>1, <1>3, FS_Subset
  <2>5. Cardinality(Above(y)) # Cardinality(Above(x)) BY <2>2, <2>3, <1>1, <1>3, FS_Subset
  <2>6. Cardinality(Above(y)) \in T BY <2>1
  <2>7. Cardinality(Above(x)) <= Cardinality(Above(y)) BY <2>6, <1>3
  <2>8. Cardinality(Above(x)) \in Nat /\ Cardinality(Above(y)) \in Nat BY <2>1, <1>1
  <2> HIDE DEF Above
  <2> QED BY <2>4, <2>5, <2>7, <2>8
<1>5. \A y \in S : x >= y BY <1>3, <1>4
<1> QED BY <1>3, <1>5 DEF Max

\* What a sum of equal parts is.
Sums(s, n, g) == g = [i \in 0..n |-> IF i = 0 THEN 0 ELSE g[i - 1] + s[i]]

LEMMA SumsExist == ASSUME NEW s, NEW n \in Nat PROVE \E g : Sums(s, n, g)
<1> DEFINE T == {k \in Nat : ~\E g : Sums(s, k, g)}
<1>1. SUFFICES ASSUME T # {} PROVE FALSE OBVIOUS
<1>2. PICK m \in T : \A k \in T : m <= k BY <1>1, LeastOfSome
<1>3. CASE m = 0
  <2>1. Sums(s, 0, [i \in 0..0 |-> 0]) BY DEF Sums
  <2> QED BY <2>1, <1>2, <1>3
<1>4. CASE m # 0
  <2>1. m - 1 \in Nat /\ m - 1 \notin T BY <1>2, <1>4
  <2>2. PICK h : Sums(s, m - 1, h) BY <2>1
  <2> DEFINE g == [i \in 0..m |-> IF i = m THEN h[m - 1] + s[m] ELSE h[i]]
  <2>3. \A i \in 0..(m - 1) : h[i] = IF i = 0 THEN 0 ELSE h[i - 1] + s[i] BY <2>2 DEF Sums
  <2>4. \A i \in 0..m : g[i] = IF i = 0 THEN 0 ELSE g[i - 1] + s[i] BY <2>3, <1>4
  <2>5. Sums(s, m, g) BY <2>4 DEF Sums
  <2> QED BY <2>5, <1>2
<1> QED BY <1>3, <1>4

LEMMA EqualParts ==
  ASSUME NEW s, Len(s) \in Nat, NEW x \in Nat, \A i \in 1..Len(s) : s[i] = x
  PROVE  Total(s) = Len(s) * x
<1> DEFINE n == Len(s)
           g == CHOOSE g : Sums(s, n, g)
           T == {k \in 0..n : g[k] # k * x}
<1>1. Sums(s, n, g) BY SumsExist
<1>2. Total(s) = g[n] BY DEF Total, Sums
<1> HIDE DEF n, g
<1>3. n \in Nat /\ \A i \in 1..n : s[i] = x BY DEF n
<1>4. \A i \in 0..n : g[i] = IF i = 0 THEN 0 ELSE g[i - 1] + s[i] BY <1>1 DEF Sums
<1>5. T = {}
  <2> SUFFICES ASSUME T # {} PROVE FALSE OBVIOUS
  <2>1. T \in SUBSET Nat BY <1>3
  <2>2. PICK m \in T : \A k \in T : m <= k BY <2>1, LeastOfSome
  <2>3. m # 0
    <3>1. g[0] = 0 BY <1>3, <1>4
    <3> QED BY <3>1, <2>2
  <2>4. m \in 1..n /\ m - 1 \in 0..n /\ m - 1 \notin T BY <1>3, <2>2, <2>3
  <2>5. g[m - 1] = (m - 1) * x BY <2>4
  <2>6. g[m] = (m - 1) * x + x
    <3>1. m \in 0..n /\ s[m] = x BY <2>4, <1>3
    <3>2. g[m] = g[m - 1] + s[m] BY <3>1, <2>3, <1>4
    <3> QED BY <3>1, <3>2, <2>5
  <2>7. (m - 1) * x + x = m * x BY <2>4, <1>3
  <2> QED BY <2>2, <2>6, <2>7
<1>6. g[n] = n * x BY <1>3, <1>5
<1> QED BY <1>2, <1>6 DEF n

\* Equal cards hold their share of what all of them hold at 92 percent.
LEMMA ShareFits ==
  ASSUME NEW n \in Nat \ {0}, NEW t \in Nat, NEW u \in Int, u <= 92 * (n * t)
  PROVE  /\ ~(100 * (n * u) > 100 * (100 * n * n) * t)
         /\ ~(100 * (n * u) > 95 * (100 * n * n) * t)
<1> DEFINE v == n * t
           w == n * v
<1>1. v \in Nat /\ w \in Nat OBVIOUS
<1>2. n * u <= n * (92 * v) BY <1>1
<1>3. n * (92 * v) = 92 * w OBVIOUS
<1>4. (100 * n * n) * t = 100 * w OBVIOUS
<1>5. n * u \in Int OBVIOUS
<1>6. 100 * (100 * n * n) * t = 100 * (100 * w) /\ 95 * (100 * n * n) * t = 95 * (100 * w) BY <1>4
<1> HIDE DEF w, v
<1> QED BY <1>1, <1>2, <1>3, <1>5, <1>6

\* The cache that is recommended holds the checkpoints that are, and the host holds the cache.
LEMMA CacheHolds ==
  ASSUME NEW each \in Int, NEW slots \in 1..2, NEW floor \in Nat, NEW ram \in Nat, ram >= 4 * floor,
         each * 2 * slots <= floor,
         NEW quarter, quarter = Most(floor, ram \div 4),
         NEW number, number = IF each > 0 THEN Most(2, Least(32, quarter \div (each * slots))) ELSE 8
  PROVE  /\ ~(each * number * slots > Least(quarter, Most(floor, each * number * slots + floor \div 8)))
         /\ ~(each * number * slots > ram)
<1>1. quarter \in Nat /\ quarter >= floor /\ quarter <= ram BY DEF Most
<1>2. CASE ~(each > 0)
  <2>1. number = 8 BY <1>2
  <2>2. each * number * slots <= 0 /\ each * number * slots \in Int BY <1>2, <2>1
  <2> QED BY <2>2, <1>1 DEF Most, Least
<1>3. CASE each > 0
  <2> DEFINE per == each * slots
  <2>1. per \in Nat /\ per > 0 BY <1>3
  <2>2. each * 2 * slots = 2 * per OBVIOUS
  <2> HIDE DEF per
  <2>3. quarter \div per \in Nat /\ per * (quarter \div per) <= quarter BY <2>1, <1>1
  <2>4. number \in Nat /\ (number = 2 \/ number <= quarter \div per) BY <2>3, <1>3 DEF Most, Least, per
  <2>5. per * number <= quarter
    <3>1. CASE number = 2 BY <3>1, <2>1, <2>2, <1>1
    <3>2. CASE number <= quarter \div per
      <4>1. per * number <= per * (quarter \div per) BY <3>2, <2>1, <2>3, <2>4
      <4> QED BY <4>1, <2>1, <2>3, <2>4, <1>1
    <3> QED BY <2>4, <3>1, <3>2
  <2>6. each * number * slots = per * number BY <2>4 DEF per
  <2>7. per * number \in Nat BY <2>1, <2>4
  <2> HIDE DEF per
  <2> QED BY <2>5, <2>6, <2>7, <1>1 DEF Most, Least
<1> QED BY <1>2, <1>3

\* Of a file that can be read, every figure of the geometry is a number.
IsGeometry(g) ==
  /\ g.full \in Int /\ g.swa \in Int /\ g.rec \in Int /\ g.nextn \in Int /\ g.heads \in Int
  /\ g.swa_heads \in Int /\ g.width \in Int /\ g.swa_width \in Int /\ g.window \in Int
  /\ g.state \in Int /\ g.hidden \in Int /\ g.vocab \in Int /\ g.size \in Int /\ g.trained \in Int

LEMMA CountIsANumber ==
  ASSUME NEW s, NEW T \in SUBSET DOMAIN s, s \in Seq(Nat)
  PROVE  Cardinality(T) \in Nat
<1>1. DOMAIN s = 1..Len(s) /\ Len(s) \in Nat OBVIOUS
<1>2. IsFiniteSet(1..Len(s)) BY <1>1, FS_Interval
<1> QED BY <1>1, <1>2, FS_Subset, FS_CardinalityType

LEMMA GreatestIsANumber ==
  ASSUME NEW s \in Seq(Nat), NEW T \in SUBSET DOMAIN s
  PROVE  /\ Max({s[i] : i \in DOMAIN s} \cup {0}) \in Nat
         /\ {s[i] : i \in T} \ {0} # {} => Max({s[i] : i \in T} \ {0}) \in Nat
<1>1. DOMAIN s = 1..Len(s) /\ Len(s) \in Nat OBVIOUS
<1>2. IsFiniteSet(DOMAIN s) BY <1>1, FS_Interval
<1>3. IsFiniteSet(T) BY <1>2, FS_Subset
<1>4. \A D \in SUBSET DOMAIN s : IsFiniteSet(D) => IsFiniteSet({s[i] : i \in D})
  <2> TAKE D \in SUBSET DOMAIN s
  <2> DEFINE V == {s[i] : i \in D}
             f == [i \in D |-> s[i]]
  <2>1. f \in Surjection(D, V) BY DEF Surjection
  <2>2. IsFiniteSet(D) => IsFiniteSet(V) BY <2>1, FS_Surjection
  <2> QED BY <2>2
<1>5. IsFiniteSet({s[i] : i \in DOMAIN s} \cup {0})
  <2>1. IsFiniteSet({s[i] : i \in DOMAIN s}) BY <1>2, <1>4
  <2> QED BY <2>1, FS_AddElement
<1>6. IsFiniteSet({s[i] : i \in T} \ {0})
  <2>1. IsFiniteSet({s[i] : i \in T}) BY <1>3, <1>4
  <2> QED BY <2>1, FS_Subset
<1>7. {s[i] : i \in DOMAIN s} \cup {0} \subseteq Nat /\ {s[i] : i \in T} \ {0} \subseteq Nat BY <1>1
<1> QED BY <1>5, <1>6, <1>7, GreatestOfSome

LEMMA GeometryIsTyped ==
  ASSUME NEW m, {m.blocks, m.nextn, m.interval, m.width, m.swa_width, m.window, m.state, m.hidden, m.vocab,
                 m.size, m.trained} \subseteq Nat,
         {m.recurrent, m.window_layers, m.heads} \subseteq Seq(Nat)
  PROVE  IsGeometry(Geometry(m))
<1> DEFINE g == Geometry(m)
<1>1. \A s \in Seq(Nat) : Count(s, LAMBDA x : x = 0) \in Nat /\ Count(s, LAMBDA x : x = 1) \in Nat /\ Len(s) \in Nat
  <2> TAKE s \in Seq(Nat)
  <2>1. {i \in DOMAIN s : s[i] = 0} \in SUBSET DOMAIN s /\ {i \in DOMAIN s : s[i] = 1} \in SUBSET DOMAIN s OBVIOUS
  <2>2. Cardinality({i \in DOMAIN s : s[i] = 0}) \in Nat /\ Cardinality({i \in DOMAIN s : s[i] = 1}) \in Nat
    BY <2>1, CountIsANumber
  <2>3. Count(s, LAMBDA x : x = 0) = Cardinality({i \in DOMAIN s : s[i] = 0}) BY DEF Count
  <2>4. Count(s, LAMBDA x : x = 1) = Cardinality({i \in DOMAIN s : s[i] = 1}) BY DEF Count
  <2> QED BY <2>2, <2>3, <2>4
<1>2. Most(0, m.blocks - m.nextn) \in Nat BY DEF Most
<1>3. g.full \in Int
  <2>1. m.interval > 1 => Most(0, m.blocks - m.nextn) \div m.interval \in Int
    <3>1. \A a, b \in Nat : b > 1 => a \div b \in Int OBVIOUS
    <3>2. m.interval \in Nat OBVIOUS
    <3> QED BY <3>1, <3>2, <1>2
  <2>2. g.full = IF m.recurrent # <<>> THEN Count(m.recurrent, LAMBDA x : x = 0)
                 ELSE IF m.interval > 1 THEN Most(0, m.blocks - m.nextn) \div m.interval
                 ELSE IF m.window_layers # <<>> THEN Count(m.window_layers, LAMBDA x : x = 0)
                 ELSE Most(0, m.blocks - m.nextn) BY DEF Geometry
  <2>3. Count(m.recurrent, LAMBDA x : x = 0) \in Nat /\ Count(m.window_layers, LAMBDA x : x = 0) \in Nat BY <1>1
  <2> HIDE DEF g
  <2> QED BY <1>2, <2>1, <2>2, <2>3
<1>4. g.swa \in Nat BY <1>1 DEF Geometry
<1>5. g.rec = (IF m.recurrent # <<>> THEN Len(m.recurrent) - g.full
               ELSE IF m.interval > 1 THEN Most(0, m.blocks - m.nextn) - g.full ELSE 0)
  BY DEF Geometry
<1>6. g.rec \in Int BY <1>1, <1>2, <1>3, <1>5
<1>7. g.heads \in Nat /\ g.swa_heads \in Nat
  <2>1. \A flag \in {0, 1} : {i \in DOMAIN m.heads \cap DOMAIN m.window_layers : m.window_layers[i] = flag}
                               \in SUBSET DOMAIN m.heads OBVIOUS
  <2> QED BY <2>1, GreatestIsANumber DEF Geometry
<1>8. g.nextn = m.nextn /\ g.width = m.width /\ g.swa_width = m.swa_width /\ g.window = m.window
      /\ g.state = m.state /\ g.hidden = m.hidden /\ g.vocab = m.vocab /\ g.size = m.size /\ g.trained = m.trained
  BY DEF Geometry
<1> HIDE DEF g
<1>9. \A x \in {m.nextn, m.width, m.swa_width, m.window, m.state, m.hidden, m.vocab, m.size, m.trained} : x \in Int
  OBVIOUS
<1>10. \A x \in {g.nextn, g.width, g.swa_width, g.window, g.state, g.hidden, g.vocab, g.size, g.trained} : x \in Int
  BY <1>8, <1>9
<1>12. g.full \in Int /\ g.swa \in Int /\ g.rec \in Int /\ g.heads \in Int /\ g.swa_heads \in Int
  <2>1. Nat \subseteq Int OBVIOUS
  <2> QED BY <1>3, <1>4, <1>6, <1>7, <2>1, Zenon
<1>13. g.nextn \in Int /\ g.width \in Int /\ g.swa_width \in Int /\ g.window \in Int /\ g.state \in Int
       /\ g.hidden \in Int /\ g.vocab \in Int /\ g.size \in Int /\ g.trained \in Int BY <1>10
<1>11. IsGeometry(g) BY <1>12, <1>13 DEF IsGeometry
<1> QED BY <1>11 DEF g
\* What is predicted of a candidate is predicted of the settings saved from it.
Figures(s) == s.ctx \in Nat /\ s.parallel \in 1..2 /\ s.ubatch \in Nat
              /\ s.projector \in {"none"} \cup DOMAIN Projectors

LEMMA PredictionIsTyped ==
  ASSUME NEW g, IsGeometry(g), NEW s, Figures(s), Len(s.visible) \in Nat
  PROVE  LET p == Predicted(g, s, g.size)
         IN  /\ p.exact \in Int /\ p.estimated \in Int /\ p.held \in Int /\ p.kv \in Int /\ p.devices \in Nat \ {0}
             /\ p.exact = p.held + p.kv
<1> DEFINE p == Predicted(g, s, g.size)
           swa == SwaKv(g, s.ctx \div s.parallel, s.swa_full) * s.parallel
           draft == IF s.draft /\ g.nextn > 0 THEN g.heads * g.width * g.nextn * s.ctx ELSE 0
           proj == IF s.projector = "none" THEN 0 ELSE Projectors[s.projector]
           n == Most(1, Len(s.visible))
<1>1. \A x, y \in Int : x * y \in Int /\ x + y \in Int OBVIOUS
<1>2. s.ctx \in Int /\ s.parallel \in Int /\ s.ubatch \in Int /\ s.ctx \div s.parallel \in Int BY DEF Figures
<1>3. proj \in Int BY BudgetAssumption DEF Figures
<1>4. n \in Nat \ {0} BY DEF Most
<1>5. \A c \in Int : SwaKv(g, c, s.swa_full) \in Int
  <2> TAKE c \in Int
  <2> DEFINE least == IF s.swa_full \/ g.window = 0 THEN c ELSE Least(c, g.window)
  <2>1. least \in Int BY DEF Least, IsGeometry
  <2>2. g.swa * g.swa_heads * g.swa_width \in Int BY <1>1 DEF IsGeometry
  <2>3. SwaKv(g, c, s.swa_full) = g.swa * g.swa_heads * g.swa_width * least BY DEF SwaKv
  <2> HIDE DEF least
  <2> QED BY <1>1, <2>1, <2>2, <2>3
<1>6. swa \in Int BY <1>1, <1>2, <1>5
<1>7. g.heads * g.width * g.nextn * s.ctx \in Int BY <1>1, <1>2 DEF IsGeometry
<1>8. draft \in Int BY <1>7
<1>9. KvPerToken(g) \in Int BY <1>1 DEF KvPerToken, IsGeometry
<1>10. KvPerToken(g) * s.ctx \in Int BY <1>1, <1>2, <1>9
<1>11. RecurrentState(g) \in Int BY <1>1 DEF RecurrentState, IsGeometry
<1>12. RecurrentState(g) * s.parallel \in Int BY <1>1, <1>2, <1>11
<1>13. s.ubatch * (g.hidden * n + g.vocab) \in Int
  <2>1. g.hidden * n + g.vocab \in Int BY <1>1, <1>4 DEF IsGeometry
  <2> QED BY <1>1, <1>2, <2>1
<1>14. p.exact = g.size + proj + (KvPerToken(g) * s.ctx + swa + RecurrentState(g) * s.parallel + draft)
       /\ p.estimated = s.ubatch * (g.hidden * n + g.vocab) + 5 * proj + Context * n
       /\ p.held = g.size + proj
       /\ p.kv = KvPerToken(g) * s.ctx + swa + RecurrentState(g) * s.parallel + draft /\ p.devices = n
  BY DEF Predicted
<1>15. Context * n \in Int /\ g.size \in Int BY <1>1, <1>4, BudgetAssumption DEF IsGeometry
<1> HIDE DEF p, swa, draft, proj, n
<1>16. p.exact \in Int /\ p.held \in Int /\ p.kv \in Int /\ p.exact = p.held + p.kv
  <2> DEFINE a == KvPerToken(g) * s.ctx
             c == RecurrentState(g) * s.parallel
  <2>1. a \in Int /\ c \in Int BY <1>10, <1>12
  <2>2. p.exact = g.size + proj + (a + swa + c + draft) /\ p.kv = a + swa + c + draft BY <1>14
  <2> HIDE DEF a, c
  <2>3. p.kv \in Int BY <2>1, <2>2, <1>6, <1>8
  <2>4. p.held \in Int BY <1>3, <1>14, <1>15
  <2>5. p.exact = p.held + p.kv BY <1>14, <2>2
  <2> QED BY <2>3, <2>4, <2>5
<1>17. p.estimated \in Int BY <1>3, <1>13, <1>14, <1>15
<1> QED BY <1>4, <1>14, <1>16, <1>17 DEF p

LEMMA EachIsTyped ==
  ASSUME NEW g, IsGeometry(g), NEW ctx \in Nat, NEW slots \in 1..2
  PROVE  CheckpointEach(g, ctx, slots) \in Int
<1>1. \A x, y \in Int : x * y \in Int /\ x + y \in Int OBVIOUS
<1>2. ctx \div slots \in Int OBVIOUS
<1>3. KvPerToken(g) \in Int BY <1>1 DEF KvPerToken, IsGeometry
<1>4. RecurrentState(g) \in Int BY <1>1 DEF RecurrentState, IsGeometry
<1>5. SwaKv(g, ctx, FALSE) \in Int
  <2> DEFINE least == IF FALSE \/ g.window = 0 THEN ctx ELSE Least(ctx, g.window)
  <2>1. least \in Int BY DEF Least, IsGeometry
  <2>2. g.swa * g.swa_heads * g.swa_width \in Int BY <1>1 DEF IsGeometry
  <2>3. SwaKv(g, ctx, FALSE) = g.swa * g.swa_heads * g.swa_width * least BY DEF SwaKv
  <2> HIDE DEF least
  <2> QED BY <1>1, <2>1, <2>2, <2>3
<1>6. CheckpointFixed(g, ctx) \in Int BY <1>1, <1>4, <1>5 DEF CheckpointFixed
<1>7. Most(1, g.full) \in Nat \ {0} BY DEF Most, IsGeometry
<1>8. KvPerToken(g) \div Most(1, g.full) \in Int
  <2>1. \A a \in Int : \A b \in Nat \ {0} : a \div b \in Int OBVIOUS
  <2> QED BY <2>1, <1>3, <1>7
<1>9. (KvPerToken(g) \div Most(1, g.full)) * (ctx \div slots) \in Int BY <1>1, <1>2, <1>8
<1> QED BY <1>6, <1>9 DEF CheckpointEach
SettingNames ==
  {"model", "ctx", "parallel", "ubatch", "checkpoints", "cache_ram", "cache_reuse", "split", "visible",
   "projector", "draft", "swa_full", "fit", "fit_ctx", "mode", "ram_budget"}
IsSettings(s) ==
  /\ DOMAIN s = SettingNames
  /\ s.model \in DOMAIN Metadata /\ s.ubatch \in Nat /\ s.projector \in {"none"} \cup DOMAIN Projectors

\* What a recommendation changes and what it leaves alone, and the same of a candidate.
LEMMA AdviceFields ==
  ASSUME NEW m, IsSettings(m), NEW slots, NEW a, a = Recommended(m, slots), NEW s, s = Apply(m, a)
  PROVE      /\ s.ctx = a.ctx /\ s.parallel = slots /\ s.checkpoints = a.checkpoints /\ s.cache_ram = a.cache_ram
             /\ s.cache_reuse = a.cache_reuse /\ ~s.swa_full /\ ~s.fit /\ s.fit_ctx = 0
             /\ s.model = m.model /\ s.ubatch = m.ubatch /\ s.split = m.split /\ s.visible = m.visible
             /\ s.projector = m.projector /\ s.draft = m.draft /\ s.mode = m.mode
             /\ DOMAIN s = SettingNames /\ IsSettings(s)
<1>1. DOMAIN a = {"ctx", "parallel", "checkpoints", "cache_ram", "cache_reuse", "swa_full", "fit", "fit_ctx"}
      /\ a.parallel = slots /\ ~a.swa_full /\ ~a.fit /\ a.fit_ctx = 0
  BY DEF Recommended
<1>2. DOMAIN s = SettingNames BY DEF Apply, IsSettings
<1>3. \A k \in SettingNames : s[k] = IF k \in DOMAIN a THEN a[k] ELSE m[k] BY DEF Apply, IsSettings
<1>4. /\ s.ctx = a.ctx /\ s.parallel = slots /\ s.checkpoints = a.checkpoints /\ s.cache_ram = a.cache_ram
      /\ s.cache_reuse = a.cache_reuse /\ ~s.swa_full /\ ~s.fit /\ s.fit_ctx = 0
  BY <1>1, <1>3 DEF SettingNames
<1>5. /\ s.model = m.model /\ s.ubatch = m.ubatch /\ s.split = m.split /\ s.visible = m.visible
      /\ s.projector = m.projector /\ s.draft = m.draft /\ s.mode = m.mode
  BY <1>1, <1>3 DEF SettingNames
<1>6. IsSettings(s) BY <1>2, <1>5 DEF IsSettings
<1> QED BY <1>2, <1>4, <1>5, <1>6

LEMMA CandidateFields ==
  ASSUME NEW m, IsSettings(m), NEW ctx, NEW slots, NEW k, k = Most(1, Len(host.devices)), k \in Nat,
         NEW c, c = Candidate(m, ctx, slots)
  PROVE      /\ c.ctx = ctx /\ c.parallel = slots /\ c.mode = "resident" /\ Len(c.visible) = k
             /\ ~c.swa_full /\ c.ubatch = m.ubatch /\ c.split = m.split /\ c.projector = m.projector
             /\ c.draft = m.draft
<1> DEFINE to == [ctx |-> ctx, parallel |-> slots, mode |-> "resident",
                  visible |-> [i \in 1..Most(1, Len(host.devices)) |-> i - 1], swa_full |-> FALSE]
<1>1. c = Apply(m, to) BY DEF Candidate
<1>2. DOMAIN to = {"ctx", "parallel", "mode", "visible", "swa_full"} /\ to.ctx = ctx /\ to.parallel = slots
      /\ to.mode = "resident" /\ to.swa_full = FALSE /\ to.visible = [i \in 1..k |-> i - 1]
  OBVIOUS
<1>3. \A n \in SettingNames : c[n] = IF n \in DOMAIN to THEN to[n] ELSE m[n] BY <1>1 DEF Apply, IsSettings
<1> HIDE DEF to
<1>4. c.ctx = ctx /\ c.parallel = slots /\ c.mode = "resident" /\ ~c.swa_full /\ c.visible = to.visible
  BY <1>2, <1>3 DEF SettingNames
<1>5. c.ubatch = m.ubatch /\ c.split = m.split /\ c.projector = m.projector /\ c.draft = m.draft
  BY <1>2, <1>3 DEF SettingNames
<1>6. Len([i \in 1..k |-> i - 1]) = k OBVIOUS
<1> QED BY <1>1, <1>2, <1>4, <1>5, <1>6
LEMMA SamePrediction ==
  ASSUME NEW g, NEW s, NEW c, NEW w,
         s.ctx = c.ctx, s.parallel = c.parallel, ~s.swa_full, ~c.swa_full, s.draft = c.draft,
         s.projector = c.projector, s.ubatch = c.ubatch, s.split = c.split,
         Most(1, Len(s.visible)) = Most(1, Len(c.visible)),
         NEW p, p = Predicted(g, s, w), NEW q, q = Predicted(g, c, w)
  PROVE      /\ p.exact = q.exact /\ p.estimated = q.estimated /\ p.held = q.held /\ p.kv = q.kv
             /\ p.devices = q.devices /\ p.split = q.split
<1>1. \A x : SwaKv(g, x, s.swa_full) = SwaKv(g, x, c.swa_full) BY DEF SwaKv
<1>2. SwaKv(g, s.ctx \div s.parallel, s.swa_full) = SwaKv(g, c.ctx \div c.parallel, c.swa_full) BY <1>1
<1> QED BY <1>2 DEF Predicted

LEMMA EvenSplit == ASSUME NEW n \in Nat PROVE Split(<<>>, n) = [i \in 1..n |-> 1]
<1> DEFINE w == [i \in 1..n |-> IF i <= Len(<<>>) THEN <<>>[i] ELSE 0]
<1>1. Len(w) = n /\ \A i \in 1..Len(w) : w[i] = 0 OBVIOUS
<1>2. Total(w) = n * 0 BY <1>1, EqualParts, Zenon
<1>3. Total(w) = 0 BY <1>2
<1> QED BY <1>3 DEF Split

\* A prediction whose upper bound is within 92 percent of equal cards is over 95 on none of them.
LEMMA CardsHold ==
  ASSUME NEW p, NEW n \in Nat \ {0}, NEW t \in Nat,
         p.exact \in Int, p.estimated \in Int, p.held \in Int, p.kv \in Int, p.exact = p.held + p.kv,
         p.devices = n, p.split = [i \in 1..n |-> 1],
         Upper100(p) <= 92 * (n * t),
         Len(host.devices) = n, \A i \in 1..n : host.devices[i].total = t
  PROVE  DeviceIssues(p) = {}
<1> DEFINE one == [i \in 1..n |-> 1]
           u == Upper100(p)
<1>1. Len(one) = n /\ \A i \in 1..Len(one) : one[i] = 1 OBVIOUS
<1>2. Total(one) = n * 1 BY <1>1, EqualParts, Zenon
<1>3. Total(p.split) = n BY <1>2
<1>4. u \in Int /\ u = 100 * p.held + (100 * p.kv + 135 * p.estimated)
  <2>1. \A h, k, e \in Int : 100 * (h + k) + 135 * e \in Int
          /\ 100 * (h + k) + 135 * e = 100 * h + (100 * k + 135 * e) OBVIOUS
  <2>2. u = 100 * (p.held + p.kv) + 135 * p.estimated BY DEF Upper100
  <2> DEFINE h == p.held
             k == p.kv
             e == p.estimated
  <2>3. h \in Int /\ k \in Int /\ e \in Int OBVIOUS
  <2> HIDE DEF u, h, k, e
  <2>4. 100 * (h + k) + 135 * e \in Int /\ 100 * (h + k) + 135 * e = 100 * h + (100 * k + 135 * e) BY <2>3
  <2>5. u = 100 * (h + k) + 135 * e BY <2>2 DEF h, k, e
  <2>6. u \in Int /\ u = 100 * h + (100 * k + 135 * e) BY <2>4, <2>5
  <2> QED BY <2>6 DEF h, k, e
<1>5. \A i \in 1..n : DeviceUpper(p, i) = n * u
  <2> TAKE i \in 1..n
  <2> DEFINE rest == 100 * p.kv + 135 * p.estimated
             held == p.held
  <2>1. DeviceUpper(p, i) = 100 * held * 1 * n + n * rest BY <1>3 DEF DeviceUpper
  <2>2. rest \in Int /\ held \in Int /\ u = 100 * held + rest BY <1>4
  <2> HIDE DEF rest, held, u
  <2>3. 100 * held * 1 * n + n * rest = n * (100 * held + rest) BY <2>2
  <2> QED BY <2>1, <2>2, <2>3
<1>6. DeviceUnit(p) = 100 * n * n BY <1>3 DEF DeviceUnit
<1>7. u <= 92 * (n * t) OBVIOUS
<1> HIDE DEF u
<1>8. ~(100 * (n * u) > 100 * (100 * n * n) * t) /\ ~(100 * (n * u) > 95 * (100 * n * n) * t)
  <2>1. \A v \in Int : v <= 92 * (n * t) => /\ ~(100 * (n * v) > 100 * (100 * n * n) * t)
                                           /\ ~(100 * (n * v) > 95 * (100 * n * n) * t)
    BY ShareFits
  <2>2. u \in Int BY <1>4
  <2> QED BY <1>7, <2>1, <2>2, Zenon
<1>9. \A i \in 1..n : /\ ~(100 * DeviceUpper(p, i) > 100 * DeviceUnit(p) * host.devices[i].total)
                      /\ ~(100 * DeviceUpper(p, i) > 95 * DeviceUnit(p) * host.devices[i].total)
  BY <1>5, <1>6, <1>8
<1>10. 1..Least(p.devices, Len(host.devices)) = 1..n BY DEF Least
<1> QED BY <1>9, <1>10 DEF DeviceIssues, Issue
Totals == [i \in DOMAIN host.devices |-> host.devices[i].total]

\* The context that is recommended is one that fits.
LEMMA ContextFits ==
  ASSUME NEW g, NEW m, NEW slots
  PROVE  LET ctx == RecommendedCtx(g, m, slots)
         IN  /\ ctx \in Nat
             /\ ctx > 0 => /\ g.trained = 0 \/ ctx <= g.trained
                           /\ Upper100(Predicted(g, Candidate(m, ctx, slots), g.size)) <= 92 * Total(Totals)
<1> DEFINE ctx == RecommendedCtx(g, m, slots)
           fits(c) == /\ g.trained = 0 \/ c <= g.trained
                      /\ Upper100(Predicted(g, Candidate(m, c, slots), g.size)) <= 92 * Total(Totals)
           fitting == {i \in DOMAIN Ladder : fits(Ladder[i])}
           first == CHOOSE i \in fitting : \A j \in fitting : i <= j
<1>1. ctx = IF fitting = {} THEN 0 ELSE Ladder[first] BY DEF RecommendedCtx, Totals
<1>2. DOMAIN Ladder \subseteq Nat /\ \A i \in DOMAIN Ladder : Ladder[i] \in Nat BY BudgetAssumption
<1>3. fitting \subseteq Nat /\ \A i \in fitting : Ladder[i] \in Nat BY <1>2
<1>4. fitting # {} => first \in fitting
  <2>1. fitting # {} => \E i \in fitting : \A j \in fitting : i <= j BY <1>3, LeastOfSome, Zenon
  <2> HIDE DEF fitting
  <2> QED BY <2>1
<1>5. fitting # {} => fits(Ladder[first])
  <2> HIDE DEF first
  <2> QED BY <1>4
<1> HIDE DEF fitting, first, ctx
<1> QED
  <2>1. CASE fitting = {} BY <1>1, <2>1 DEF ctx
  <2>2. CASE fitting # {}
    <3>1. ctx = Ladder[first] /\ first \in fitting BY <1>1, <1>4, <2>2
    <3>2. ctx \in Nat BY <3>1, <1>3
    <3>3. fits(ctx) BY <3>1, <1>5, <2>2
    <3> QED BY <3>2, <3>3 DEF ctx
  <2> QED BY <2>1, <2>2

\* A recommendation saved over what it was made for, as AdviceIsClean has it, has remarks only.
LEMMA CleanAdvice ==
  ASSUME host \in Hosts, NEW m, IsSettings(m), Readable(m), NEW slots \in 1..2,
         NEW a, a = Recommended(m, slots), NEW s, s = Apply(m, a),
         s.ctx > 0, ~host.unified, Even, OnAll(s), s.split = <<>>, s.mode = "resident",
         host.ram >= 4 * CacheFloor,
         CheckpointEach(Geometry(Metadata[s.model]), s.ctx, s.parallel) * 2 * s.parallel <= CacheFloor
  PROVE  Levels(s) \subseteq {"info"}
<1> DEFINE g == Geometry(Metadata[m.model])
           p == Predicted(g, s, g.size)
           c == Candidate(m, s.ctx, slots)
           q == Predicted(g, c, g.size)
           each == CheckpointEach(g, s.ctx, slots)
           quarter == Most(CacheFloor, host.ram \div 4)
<1>1. /\ s.ctx = a.ctx /\ s.parallel = slots /\ s.checkpoints = a.checkpoints /\ s.cache_ram = a.cache_ram
      /\ s.cache_reuse = a.cache_reuse /\ ~s.swa_full /\ ~s.fit /\ s.fit_ctx = 0
      /\ s.model = m.model /\ s.ubatch = m.ubatch /\ s.split = m.split /\ s.visible = m.visible
      /\ s.projector = m.projector /\ s.draft = m.draft /\ s.mode = m.mode /\ IsSettings(s)
  BY AdviceFields
<1>2. IsGeometry(g)
  <2>1. m.model \in DOMAIN Metadata /\ Metadata[m.model].kind = "gguf" BY DEF IsSettings, Readable
  <2> QED BY <2>1, MetadataAssumption, GeometryIsTyped
<1>3. a.ctx = RecommendedCtx(g, m, slots) BY DEF Recommended
<1>4. s.ctx \in Nat /\ (g.trained = 0 \/ s.ctx <= g.trained) /\ Upper100(q) <= 92 * Total(Totals)
  BY <1>1, <1>3, ContextFits
<1>5. host.ram \in Nat /\ CacheFloor \in Nat /\ host.devices \in Seq([total : Nat, free : Nat]) BY BudgetAssumption
<1>6. a.checkpoints = (IF each > 0 THEN Most(2, Least(32, quarter \div (each * slots))) ELSE 8)
      /\ a.cache_ram = Least(quarter, Most(CacheFloor, each * a.checkpoints * slots + CacheFloor \div 8))
      /\ a.cache_reuse = (IF m.projector = "none" THEN 256 ELSE 0)
  <2> DEFINE per == CheckpointEach(g, RecommendedCtx(g, m, slots), slots)
  <2>1. a.checkpoints = (IF per > 0 THEN Most(2, Least(32, quarter \div (per * slots))) ELSE 8)
        /\ a.cache_ram = Least(quarter, Most(CacheFloor, per * a.checkpoints * slots + CacheFloor \div 8))
        /\ a.cache_reuse = (IF m.projector = "none" THEN 256 ELSE 0)
    BY DEF Recommended
  <2>2. each = per BY <1>1, <1>3
  <2> HIDE DEF per, each, quarter
  <2> QED BY <2>1, <2>2
<1>7. Prediction(s) = p
  <2>1. Resident(g, s) = g.size BY DEF Resident
  <2> QED BY <1>1, <2>1 DEF Prediction
<1>8. p.checkpoints = each * s.checkpoints * slots BY <1>1 DEF Predicted
<1>9. ~(p.checkpoints > s.cache_ram) /\ ~(p.checkpoints > host.ram)
  <2>1. each \in Int BY <1>2, <1>4, EachIsTyped
  <2>2. each * 2 * slots <= CacheFloor BY <1>1
  <2>3. s.checkpoints = IF each > 0 THEN Most(2, Least(32, quarter \div (each * slots))) ELSE 8 BY <1>1, <1>6
  <2> HIDE DEF each
  <2>4. /\ ~(each * s.checkpoints * slots
               > Least(quarter, Most(CacheFloor, each * s.checkpoints * slots + CacheFloor \div 8)))
        /\ ~(each * s.checkpoints * slots > host.ram)
    BY <1>5, <2>1, <2>2, <2>3, CacheHolds
  <2> QED BY <1>1, <1>6, <1>8, <2>4 DEF each
<1>10. DeviceIssues(p) = {}
  <2> DEFINE n == Len(host.devices)
  <2>1. n \in Nat /\ DOMAIN host.devices = 1..n BY <1>5
  <2>2. CASE n = 0
    <3>1. 1..Least(p.devices, 0) = {} \/ ~(p.devices \in Int) BY DEF Least
    <3>2. Most(1, Len(s.visible)) = 1 BY <2>2 DEF OnAll, Most
    <3>3. p.devices = 1 BY <3>2 DEF Predicted
    <3> QED BY <2>2, <3>1, <3>3 DEF DeviceIssues
  <2>3. CASE n # 0
    <3> DEFINE t == host.devices[1].total
    <3>1. t \in Nat /\ \A i \in 1..n : host.devices[i].total = t 
      <4>a. \A D : \A q0 \in Seq(D) : \A i \in 1..Len(q0) : q0[i] \in D OBVIOUS
      <4>1. \A i \in 1..n : host.devices[i] \in [total : Nat, free : Nat] BY <1>5, <4>a, Zenon
      <4>2. 1 \in 1..n BY <2>1, <2>3
      <4> QED BY <4>1, <4>2, <2>1 DEF Even
    <3>2. Len(s.visible) = n /\ Most(1, Len(s.visible)) = n /\ Most(1, Len(host.devices)) = n
      BY <2>1, <2>3 DEF OnAll, Most
    <3>3. /\ c.ctx = s.ctx /\ c.parallel = slots /\ Len(c.visible) = n /\ ~c.swa_full
          /\ c.ubatch = m.ubatch /\ c.split = m.split /\ c.projector = m.projector /\ c.draft = m.draft
      <4>1. c = Candidate(m, s.ctx, slots) OBVIOUS
      <4> HIDE DEF c, n
      <4> QED BY <2>1, <3>2, <4>1, CandidateFields DEF n
    <3>4. /\ p.exact = q.exact /\ p.estimated = q.estimated /\ p.devices = q.devices
      <4>1. Most(1, Len(c.visible)) = n BY <3>2, <3>3
      <4>2. s.parallel = c.parallel /\ s.ctx = c.ctx /\ ~s.swa_full /\ ~c.swa_full /\ s.draft = c.draft
            /\ s.projector = c.projector /\ s.ubatch = c.ubatch /\ s.split = c.split BY <1>1, <3>3
      <4>3. p = Predicted(g, s, g.size) /\ q = Predicted(g, c, g.size) OBVIOUS
      <4> HIDE DEF p, q, c, g, n
      <4> QED BY <3>2, <4>1, <4>2, <4>3, SamePrediction
    <3>5. Figures(s) BY <1>1, <1>4 DEF Figures, IsSettings
    <3>6. /\ p.exact \in Int /\ p.estimated \in Int /\ p.held \in Int /\ p.kv \in Int
          /\ p.exact = p.held + p.kv
      BY <1>2, <2>1, <3>2, <3>5, PredictionIsTyped
    <3>7. p.devices = n /\ p.split = [i \in 1..n |-> 1]
      <4>1. Split(<<>>, n) = [i \in 1..n |-> 1] BY <2>1, EvenSplit
      <4> QED BY <3>2, <4>1 DEF Predicted
    <3>8. Total(Totals) = n * t
      <4>1. Len(Totals) = n /\ \A i \in 1..Len(Totals) : Totals[i] = t BY <2>1, <3>1 DEF Totals
      <4> QED BY <2>1, <3>1, <4>1, EqualParts
    <3>9. Upper100(p) <= 92 * (n * t) BY <1>4, <3>4, <3>8 DEF Upper100
    <3> HIDE DEF p, t, n
    <3> QED BY <2>1, <2>3, <3>1, <3>6, <3>7, <3>9, CardsHold DEF n
  <2> QED BY <2>2, <2>3
<1>11. BudgetIssues(s) \subseteq {<<"info", "hybrid_checkpoints">>, <<"info", "per_slot_context">>}
  <2>1. s.cache_reuse > 0 => s.projector = "none"
    <3>1. s.cache_reuse = IF s.projector = "none" THEN 256 ELSE 0 BY <1>1, <1>6
    <3> QED BY <3>1
  <2>2. ~(g.trained > 0 /\ s.ctx > g.trained)
    <3>1. g.trained \in Int BY <1>2 DEF IsGeometry
    <3> HIDE DEF g
    <3> QED BY <1>4, <3>1
  <2>3. ~(s.fit_ctx > 0) /\ ~s.swa_full BY <1>1
  <2>4. Geometry(Metadata[s.model]) = g BY <1>1
  <2> HIDE DEF p, g
  <2> QED BY <1>7, <1>9, <1>10, <2>1, <2>2, <2>3, <2>4 DEF BudgetIssues, Issue
<1> QED BY <1>11 DEF Levels
\* What the page holds is a recommendation made on this host for settings that could be read.
BudgetInv ==
  /\ host \in Hosts
  /\ DOMAIN tuning = PricedSlots /\ DOMAIN advice = PricedSlots
  /\ \A sl \in PricedSlots : IsSettings(tuning[sl])
  /\ \A sl \in PricedSlots : \A a \in advice[sl] :
       /\ IsSettings(a.made_for) /\ Readable(a.made_for)
       /\ \E slots \in 1..2 : a.says = Recommended(a.made_for, slots)

LEMMA BudgetStarts == BudgetInit => BudgetInv
<1> SUFFICES ASSUME BudgetInit PROVE BudgetInv OBVIOUS
<1>1. PICK model \in DOMAIN Metadata : tuning = [s \in PricedSlots |-> FirstSettings(model)] BY DEF BudgetInit
<1>2. IsSettings(FirstSettings(model)) BY DEF IsSettings, FirstSettings, SettingNames
<1> QED BY <1>1, <1>2 DEF BudgetInit, BudgetInv

\* No edit takes a setting away or gives it a value it cannot have.
LEMMA EditsAreSettings ==
  ASSUME NEW s, IsSettings(s), NEW k \in DOMAIN Tunable, NEW v \in Tunable[k]
  PROVE  IsSettings(Apply(s, [x \in {k} |-> v]))
<1> DEFINE to == Apply(s, [x \in {k} |-> v])
<1>1. DOMAIN to = SettingNames BY DEF Apply, IsSettings
<1>2. \A n \in SettingNames : to[n] = IF n = k THEN v ELSE s[n] BY DEF Apply, IsSettings
<1>3. {"model", "ubatch", "projector"} \subseteq SettingNames BY DEF SettingNames
<1> HIDE DEF to
<1>4. to.model = (IF k = "model" THEN v ELSE s.model) /\ to.ubatch = (IF k = "ubatch" THEN v ELSE s.ubatch)
      /\ to.projector = (IF k = "projector" THEN v ELSE s.projector)
  BY <1>2, <1>3
<1>5. to.model \in DOMAIN Metadata BY <1>4, TunableAssumption DEF IsSettings
<1>6. to.ubatch \in Nat BY <1>4, TunableAssumption DEF IsSettings
<1>7. to.projector \in {"none"} \cup DOMAIN Projectors BY <1>4, TunableAssumption DEF IsSettings
<1>8. IsSettings(to) BY <1>1, <1>5, <1>6, <1>7 DEF IsSettings
<1> QED BY <1>8 DEF to

LEMMA PlacementsAreSettings ==
  ASSUME NEW s, IsSettings(s), NEW v, NEW w
  PROVE  IsSettings(Apply(s, [visible |-> v, split |-> w]))
<1> DEFINE to == Apply(s, [visible |-> v, split |-> w])
<1>1. DOMAIN to = SettingNames BY DEF Apply, IsSettings
<1>2. to.model = s.model /\ to.ubatch = s.ubatch /\ to.projector = s.projector
  BY DEF Apply, IsSettings, SettingNames
<1>3. IsSettings(to) BY <1>1, <1>2 DEF IsSettings
<1> QED BY <1>3 DEF to

LEMMA BudgetSteps == BudgetInv /\ [BudgetNext]_budgetVars => BudgetInv'
<1> SUFFICES ASSUME BudgetInv, [BudgetNext]_budgetVars PROVE BudgetInv' OBVIOUS
<1>1. ASSUME host' = host PROVE \A m, k : Recommended(m, k)' = Recommended(m, k)
  BY <1>1 DEF Recommended, RecommendedCtx, Candidate
<1>2. ASSUME NEW sl \in PricedSlots, Tune(sl) PROVE BudgetInv'
  <2>1. PICK k \in DOMAIN Tunable, forced \in BOOLEAN : \E v \in Tunable[k] :
          Tuned(sl, Apply(tuning[sl], [x \in {k} |-> v]), forced) /\ UNCHANGED advice
    BY <1>2 DEF Tune
  <2>a. PICK v \in Tunable[k] : Tuned(sl, Apply(tuning[sl], [x \in {k} |-> v]), forced) /\ UNCHANGED advice
    BY <2>1
  <2> DEFINE to == Apply(tuning[sl], [x \in {k} |-> v])
  <2>2. IsSettings(to) BY EditsAreSettings DEF BudgetInv
  <2>3. host' = host /\ tuning' = [tuning EXCEPT ![sl] = to] /\ advice' = advice BY <2>a DEF Tuned
  <2> HIDE DEF to
  <2> QED BY <1>1, <2>2, <2>3 DEF BudgetInv
<1>3. ASSUME NEW sl \in PricedSlots, Recommend(sl) PROVE BudgetInv'
  <2>1. PICK slots \in 1..2 : advice' = [advice EXCEPT ![sl] =
          {[made_for |-> tuning[sl], says |-> Recommended(tuning[sl], slots)]}]
    BY <1>3 DEF Recommend
  <2>2. host' = host /\ tuning' = tuning /\ Readable(tuning[sl]) BY <1>3 DEF Recommend
  <2> DEFINE new == [made_for |-> tuning[sl], says |-> Recommended(tuning[sl], slots)]
  <2>3. new.made_for = tuning[sl] /\ new.says = Recommended(new.made_for, slots) OBVIOUS
  <2>4. IsSettings(new.made_for) /\ Readable(new.made_for) BY <2>2, <2>3 DEF BudgetInv
  <2>5. advice' = [advice EXCEPT ![sl] = {new}] BY <2>1
  <2> HIDE DEF new
  <2>6. \A other \in PricedSlots : advice'[other] = IF other = sl THEN {new} ELSE advice[other]
    BY <2>5 DEF BudgetInv
  <2> QED BY <1>1, <2>2, <2>3, <2>4, <2>5, <2>6 DEF BudgetInv
<1>4. ASSUME NEW sl \in PricedSlots, SaveAdvice(sl) PROVE BudgetInv'
  <2>1. PICK a \in advice[sl] : Tuned(sl, Apply(tuning[sl], a.says), FALSE)
                                  /\ advice' = [advice EXCEPT ![sl] = {}]
    BY <1>4 DEF SaveAdvice
  <2>2. PICK slots \in 1..2 : a.says = Recommended(a.made_for, slots) BY <2>1 DEF BudgetInv
  <2> DEFINE to == Apply(tuning[sl], a.says)
  <2>3. IsSettings(to)
    <3>1. DOMAIN a.says = {"ctx", "parallel", "checkpoints", "cache_ram", "cache_reuse", "swa_full", "fit", "fit_ctx"}
      BY <2>2 DEF Recommended
    <3>2. IsSettings(tuning[sl]) BY DEF BudgetInv
    <3>3. DOMAIN to = SettingNames BY <3>2 DEF Apply, IsSettings
    <3>4. to.model = tuning[sl].model /\ to.ubatch = tuning[sl].ubatch /\ to.projector = tuning[sl].projector
      BY <3>1, <3>2 DEF Apply, IsSettings, SettingNames
    <3> HIDE DEF to
    <3> QED BY <3>2, <3>3, <3>4 DEF IsSettings
  <2>4. host' = host /\ tuning' = [tuning EXCEPT ![sl] = to] BY <2>1 DEF Tuned
  <2> HIDE DEF to
  <2> QED BY <1>1, <2>1, <2>3, <2>4 DEF BudgetInv
<1>5. CASE PlaceModels
  <2>1. host' = host /\ advice' = advice BY <1>5 DEF PlaceModels
  <2>2. DOMAIN tuning' = PricedSlots /\ \A sl \in PricedSlots : \E v, w :
          tuning'[sl] = Apply(tuning[sl], [visible |-> v, split |-> w])
    BY <1>5 DEF PlaceModels
  <2>3. \A sl \in PricedSlots : IsSettings(tuning'[sl]) BY <2>2, PlacementsAreSettings DEF BudgetInv
  <2> QED BY <1>1, <2>1, <2>2, <2>3 DEF BudgetInv
<1>6. CASE UNCHANGED budgetVars BY <1>1, <1>6 DEF BudgetInv, budgetVars
<1> QED BY <1>2, <1>3, <1>4, <1>5, <1>6 DEF BudgetNext

LEMMA BudgetHolds == BudgetInv => AdviceIsClean
<1> SUFFICES ASSUME BudgetInv, NEW sl \in PricedSlots, NEW a \in advice[sl],
                    LET s == Apply(a.made_for, a.says)
                    IN  /\ a.says.ctx > 0 /\ ~host.unified /\ Even /\ OnAll(s) /\ s.split = <<>>
                        /\ s.mode = "resident" /\ host.ram >= 4 * CacheFloor
                        /\ CheckpointEach(Geometry(Metadata[s.model]), s.ctx, s.parallel) * 2 * s.parallel <= CacheFloor
             PROVE  Levels(Apply(a.made_for, a.says)) \subseteq {"info"}
  BY DEF AdviceIsClean
<1>1. host \in Hosts /\ IsSettings(a.made_for) /\ Readable(a.made_for) BY DEF BudgetInv
<1>2. PICK slots \in 1..2 : a.says = Recommended(a.made_for, slots) BY DEF BudgetInv
<1>3. Apply(a.made_for, a.says).ctx = a.says.ctx BY <1>1, <1>2, AdviceFields
<1> QED BY <1>1, <1>2, <1>3, CleanAdvice

\* A recommendation saved over the settings it was made for meets no error and no warning of the
\* pre-flight, whatever was edited and placed in between, as AdviceIsClean says it.
THEOREM AdviceMeetsNoWarning == BudgetSpec => []AdviceIsClean
<1>1. BudgetSpec => []BudgetInv BY BudgetStarts, BudgetSteps, PTL DEF BudgetSpec
<1> QED BY <1>1, BudgetHolds, PTL
==============================================================================
