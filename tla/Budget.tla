------------------------------- MODULE Budget -------------------------------
(***************************************************************************)
(* What a backend will hold: the geometry a GGUF's metadata says, the      *)
(* prediction made of it, the verdict against the host's devices, and the  *)
(* three things done with them: the gate every save of a slot's settings   *)
(* passes, the recommendation derived from the host, and the plan that     *)
(* setup places the models by.  Amounts are whole numbers of one unit:     *)
(* the code's rounding to a mebibyte, and the factors that turn elements   *)
(* into it, the cache's type among them, are left out; fractions are       *)
(* compared multiplied out.                                                *)
(***************************************************************************)
EXTENDS Integers, Sequences, FiniteSetsExt

CONSTANTS
  Hosts,          \* [devices: sequence of [total, free], ram, unified, wired (0: unset)]
  Metadata,       \* model -> what its file says (see Geometry), or how it is none
  Projectors,     \* projector -> its weights
  Ladder,         \* candidate contexts, largest first
  PlannedCtx,     \* the context setup plans for (32768)
  CacheFloor,     \* the least prompt cache recommended (2048 MiB)
  Context,        \* what a device holds before a tensor is placed
  Tunable,        \* the settings a client edits: name -> its values
  MaxTunings      \* bound: saves and plans

ASSUME BudgetAssumption ==
  /\ MaxTunings \in Nat /\ CacheFloor \in Nat /\ Context \in Nat /\ Ladder \in Seq(Nat)
  /\ \A h \in Hosts : /\ h.ram \in Nat /\ h.unified \in BOOLEAN
                      /\ h.devices \in Seq([total : Nat, free : Nat])
  /\ \A p \in DOMAIN Projectors : Projectors[p] \in Nat
\* A file that can be read says numbers.
ASSUME MetadataAssumption ==
  \A model \in DOMAIN Metadata : LET m == Metadata[model] IN m.kind = "gguf" =>
    /\ {m.blocks, m.nextn, m.interval, m.width, m.swa_width, m.window, m.state, m.hidden, m.vocab, m.size,
        m.trained} \subseteq Nat
    /\ {m.recurrent, m.window_layers, m.heads} \subseteq Seq(Nat)
\* A client edits a setting to a value it can have.
ASSUME TunableAssumption ==
  \A k \in DOMAIN Tunable : \A v \in Tunable[k] :
    /\ k = "model" => v \in DOMAIN Metadata
    /\ k = "projector" => v \in {"none"} \cup DOMAIN Projectors
    /\ k = "ubatch" => v \in Nat

VARIABLES
  host,           \* this machine
  tuning,         \* slot -> its settings in the env file
  advice,         \* slot -> the recommendations its client holds
  passed,         \* history: slots whose settings were saved unforced, and last
  tunings         \* bound

budgetVars == <<host, tuning, advice, passed, tunings>>

Placed == <<"llm-a", "embed">>      \* MODEL_COMPONENTS
Splittable == {"llm-a"}
PricedSlots == {Placed[i] : i \in 1..Len(Placed)}
Most(a, b) == IF a > b THEN a ELSE b
Least(a, b) == IF a < b THEN a ELSE b
Total(s) == LET sum[i \in 0..Len(s)] == IF i = 0 THEN 0 ELSE sum[i - 1] + s[i] IN sum[Len(s)]
Count(s, Test(_)) == Cardinality({i \in DOMAIN s : Test(s[i])})
-----------------------------------------------------------------------------
(* model_geometry: recurrent flags win over an interval, which wins over a *)
(* sliding-window pattern; a flag is 1 for a recurrent or a window layer.  *)
Geometry(m) ==
  LET layers == Most(0, m.blocks - m.nextn)
      full == IF m.recurrent # <<>> THEN Count(m.recurrent, LAMBDA x : x = 0)
              ELSE IF m.interval > 1 THEN layers \div m.interval
              ELSE IF m.window_layers # <<>> THEN Count(m.window_layers, LAMBDA x : x = 0)
              ELSE layers
      swa == IF m.recurrent = <<>> /\ m.interval <= 1
             THEN Count(m.window_layers, LAMBDA x : x = 1) ELSE 0
      rec == IF m.recurrent # <<>> THEN Len(m.recurrent) - full
             ELSE IF m.interval > 1 THEN layers - full ELSE 0
      most == Max({m.heads[i] : i \in DOMAIN m.heads} \cup {0})
      \* Per layer class where both lists are there, the maximum otherwise.
      heads(flag) ==
        LET picked == {m.heads[i] : i \in {i \in DOMAIN m.heads \cap DOMAIN m.window_layers :
                                             m.window_layers[i] = flag}} \ {0}
        IN  IF Len(m.heads) > 1 /\ picked # {} THEN Max(picked) ELSE most
  IN [full |-> full, swa |-> swa, rec |-> rec, nextn |-> m.nextn,
      heads |-> heads(0), swa_heads |-> heads(1), width |-> m.width, swa_width |-> m.swa_width,
      window |-> m.window, state |-> m.state, hidden |-> m.hidden, vocab |-> m.vocab,
      size |-> m.size, trained |-> m.trained]

KvPerToken(g) == g.heads * g.width * g.full
SwaKv(g, ctx, whole) ==
  g.swa * g.swa_heads * g.swa_width * (IF whole \/ g.window = 0 THEN ctx ELSE Least(ctx, g.window))
RecurrentState(g) == g.rec * g.state
\* A checkpoint holds what cannot be recomputed, never the full-attention cache.
CheckpointFixed(g, ctx) == RecurrentState(g) + SwaKv(g, ctx, FALSE)
CheckpointEach(g, ctx, slots) ==
  CheckpointFixed(g, ctx) + (IF g.rec > 0 THEN (KvPerToken(g) \div Most(1, g.full)) * (ctx \div slots) ELSE 0)

\* _split_weights: the share of device i, as numerator over Total; too few
\* parts leave the rest empty, none at all is even.
Split(split, n) ==
  LET w == [i \in 1..n |-> IF i <= Len(split) THEN split[i] ELSE 0]
  IN  IF Total(w) = 0 THEN [i \in 1..n |-> 1] ELSE w

\* predict, of settings with the weights they hold.
Predicted(g, s, weights) ==
  LET n == Most(1, Len(s.visible))
      swa == SwaKv(g, s.ctx \div s.parallel, s.swa_full) * s.parallel
      draft == IF s.draft /\ g.nextn > 0 THEN g.heads * g.width * g.nextn * s.ctx ELSE 0
      kv == KvPerToken(g) * s.ctx + swa + RecurrentState(g) * s.parallel + draft
      proj == IF s.projector = "none" THEN 0 ELSE Projectors[s.projector]
      compute == s.ubatch * (g.hidden * n + g.vocab) + 5 * proj
  IN [exact |-> weights + proj + kv, estimated |-> compute + Context * n,
      held |-> weights + proj, kv |-> kv, devices |-> n, split |-> Split(s.split, n),
      checkpoints |-> CheckpointEach(g, s.ctx, s.parallel) * s.checkpoints * s.parallel]
\* The upper bound of the whole, and of device i, in hundredths of their shares.
Upper100(p) == 100 * p.exact + 135 * p.estimated
DeviceUpper(p, i) == 100 * p.held * p.split[i] * p.devices
                     + Total(p.split) * (100 * p.kv + 135 * p.estimated)
DeviceUnit(p) == 100 * p.devices * Total(p.split)

\* offload_weights: what a memory budget leaves of the weights.
Resident(g, s) ==
  LET p == Predicted(g, s, g.size)
      around == p.exact + p.estimated - g.size
  IN  IF s.mode # "ssd-offload" \/ s.ram_budget <= 0 THEN g.size
      ELSE Most(0, Least(g.size, s.ram_budget - around))
\* A budget that leaves nothing is a zero, which predict takes for no figure.
Prediction(s) == LET g == Geometry(Metadata[s.model])
                     held == Resident(g, s)
                 IN  Predicted(g, s, IF held = 0 THEN g.size ELSE held)

Issue(when, level, code) == IF when THEN {<<level, code>>} ELSE {}
\* _unified_memory_issues: one pool, the prompt cache in it.
PoolIssues(p) ==
  LET d == host.devices[1]
      capacity == IF host.wired > 0 THEN Least(d.total, host.wired) ELSE d.total
      needed == Upper100(p) + 100 * p.checkpoints
  IN  IF host.devices = <<>> \/ d.total = 0 THEN {}
      ELSE Issue(needed > 100 * capacity, "error", "memory_overcommit_swaps")
           \cup Issue(needed <= 100 * capacity /\ d.free > 0 /\ needed > 100 * d.free, "warn", "memory_tight")
\* The prediction's device i against the i-th of the machine's.
DeviceIssues(p) ==
  UNION {LET over(percent) == 100 * DeviceUpper(p, i) > percent * DeviceUnit(p) * host.devices[i].total
         IN  Issue(over(100), "error", "vram_overcommit")
             \cup Issue(over(95) /\ ~over(100), "warn", "vram_tight")
           : i \in 1..Least(p.devices, Len(host.devices))}

\* evaluate.
BudgetIssues(s) ==
  LET g == Geometry(Metadata[s.model])
      p == Prediction(s)
  IN  (IF host.unified THEN PoolIssues(p) ELSE DeviceIssues(p))
      \cup Issue(s.checkpoints > 0 /\ p.checkpoints > s.cache_ram, "warn", "cache_ram_shortfall")
      \cup Issue(g.rec > 0 /\ CheckpointFixed(g, s.ctx) >= 1, "info", "hybrid_checkpoints")
      \cup Issue(host.ram > 0 /\ p.checkpoints > host.ram, "warn", "host_ram_overcommit")
      \cup Issue(s.swa_full /\ g.window = 0, "warn", "swa_full_unsupported")
      \cup Issue(s.swa_full /\ g.window > 0 /\ g.swa > 0, "warn", "swa_full_expensive")
      \cup Issue(~s.fit /\ s.fit_ctx > 0, "warn", "fit_ctx_without_fit")
      \cup Issue(s.cache_reuse > 0 /\ s.projector # "none", "warn", "cache_reuse_with_multimodal")
      \cup Issue(g.trained > 0 /\ s.ctx > g.trained, "warn", "context_above_trained")
      \cup Issue(s.parallel > 1, "info", "per_slot_context")
Levels(s) == {i[1] : i \in BudgetIssues(s)}

\* budget_for: a pack, an artifact or a file not there is an error and no verdict.
Readable(s) == Metadata[s.model].kind = "gguf"
BudgetFor(s) == IF Readable(s) THEN BudgetIssues(s) ELSE {}
\* preflight_config, of the slot an update touches.
PreflightOk(s) == \A i \in BudgetFor(s) : i[1] # "error"
-----------------------------------------------------------------------------
Apply(s, to) == [k \in DOMAIN s |-> IF k \in DOMAIN to THEN to[k] ELSE s[k]]

\* Mutant: candidates are priced without what the launch carries.
BareCandidate(s, ctx, slots) ==
  Apply(s, [ctx |-> ctx, parallel |-> slots, projector |-> "none", draft |-> FALSE, mode |-> "resident",
            visible |-> [i \in 1..Most(1, Len(host.devices)) |-> i - 1], swa_full |-> FALSE])
\* What recommend prices: the projector, the draft head, the micro-batch and
\* the split of the launch, on every device of the host.
Candidate(s, ctx, slots) ==
  Apply(s, [ctx |-> ctx, parallel |-> slots, mode |-> "resident",
            visible |-> [i \in 1..Most(1, Len(host.devices)) |-> i - 1], swa_full |-> FALSE])
RecommendedCtx(g, s, slots) ==
  LET room == 92 * Total([i \in DOMAIN host.devices |-> host.devices[i].total])
      fits(ctx) == /\ g.trained = 0 \/ ctx <= g.trained
                   /\ Upper100(Predicted(g, Candidate(s, ctx, slots), g.size)) <= room
      fitting == {i \in DOMAIN Ladder : fits(Ladder[i])}
  IN  IF fitting = {} THEN 0 ELSE Ladder[CHOOSE i \in fitting : \A j \in fitting : i <= j]
\* recommend, with the settings it was made for.
Recommended(s, slots) ==
  LET g == Geometry(Metadata[s.model])
      ctx == RecommendedCtx(g, s, slots)
      each == CheckpointEach(g, ctx, slots)
      quarter == Most(CacheFloor, host.ram \div 4)
      count == IF each > 0 THEN Most(2, Least(32, quarter \div (each * slots))) ELSE 8
  IN [ctx |-> ctx, parallel |-> slots, checkpoints |-> count,
      cache_ram |-> Least(quarter, Most(CacheFloor, each * count * slots + CacheFloor \div 8)),
      cache_reuse |-> IF s.projector = "none" THEN 256 ELSE 0,
      swa_full |-> FALSE, fit |-> FALSE, fit_ctx |-> 0]

\* estimate_model_mib: on one device, at the planner's context; a file that
\* is not read by its size.
Estimate(model) ==
  LET m == Metadata[model]
      g == Geometry(m)
      p == Predicted(g, [ctx |-> PlannedCtx, parallel |-> 1, visible |-> <<>>, split |-> <<>>,
                         swa_full |-> FALSE, draft |-> FALSE, projector |-> "none", ubatch |-> 1,
                         checkpoints |-> 0], g.size)
  IN  IF m.kind = "gguf" THEN Upper100(p) \div 100 ELSE (m.size * 110) \div 100 + CacheFloor \div 2

\* plan_gpu_placement without the exclusive groups, which no caller passes:
\* the largest remainder takes a model; one that fits on no card is spread
\* over all that have something left, if it is one that can be.
Widest(left) == CHOOSE d \in DOMAIN left : \A e \in DOMAIN left :
                  left[d] > left[e] \/ (left[d] = left[e] /\ d <= e)
PlaceOne(left, slot, need) ==
  LET spread == slot \in Splittable /\ left[Widest(left)] < need
      on == IF spread THEN {d \in DOMAIN left : left[d] > 0} ELSE {Widest(left)}
      room == [d \in on |-> Most(1, left[d])]
      whole == MapThenSumSet(LAMBDA d : room[d], on)
      \* Largest first; the lower index first among equals.
      order == CHOOSE q \in [1..Cardinality(on) -> on] : \A i, j \in DOMAIN q : i < j =>
                 left[q[i]] > left[q[j]] \/ (left[q[i]] = left[q[j]] /\ q[i] < q[j])
  IN [on |-> order, weights |-> [i \in DOMAIN order |-> room[order[i]]],
      left |-> [d \in DOMAIN left |-> IF d \in on THEN left[d] - (need * room[d]) \div whole ELSE left[d]]]
Remaining == [d \in DOMAIN host.devices |-> (host.devices[d].free * 90) \div 100]
PlanOk == LET needs == [i \in DOMAIN Placed |-> Estimate(tuning[Placed[i]].model)]
          IN  host.devices # <<>> /\ Total(needs) <= Total(Remaining)
Plan ==
  LET after[i \in 0..Len(Placed)] ==
        IF i = 0 THEN [on |-> <<>>, weights |-> <<>>, left |-> Remaining]
        ELSE PlaceOne(after[i - 1].left, Placed[i], Estimate(tuning[Placed[i]].model))
  IN  [i \in DOMAIN Placed |-> after[i]]
-----------------------------------------------------------------------------
FirstSettings(model) ==
  [model |-> model, ctx |-> Ladder[Len(Ladder)], parallel |-> 1, ubatch |-> 1, checkpoints |-> 0,
   cache_ram |-> 0, cache_reuse |-> 0, split |-> <<>>, visible |-> <<>>, projector |-> "none",
   draft |-> FALSE, swa_full |-> FALSE, fit |-> TRUE, fit_ctx |-> 0, mode |-> "resident",
   ram_budget |-> 0]
BudgetInit ==
  /\ host \in Hosts
  /\ \E model \in DOMAIN Metadata : tuning = [s \in PricedSlots |-> FirstSettings(model)]
  /\ advice = [s \in PricedSlots |-> {}]
  /\ passed = {} /\ tunings = 0

Tuned(slot, to, forced) ==
  /\ tunings < MaxTunings /\ tunings' = tunings + 1
  /\ PreflightOk(to) \/ forced
  /\ tuning' = [tuning EXCEPT ![slot] = to]
  /\ passed' = IF PreflightOk(to) THEN passed \cup {slot} ELSE passed \ {slot}
  /\ UNCHANGED host

\* perform_config_save of one setting, forced or not; a refused one is nothing.
Tune(slot) == \E k \in DOMAIN Tunable, forced \in BOOLEAN : \E v \in Tunable[k] :
  /\ tuning[slot][k] # v
  /\ Tuned(slot, Apply(tuning[slot], [x \in {k} |-> v]), forced)
  /\ UNCHANGED advice
\* api_backend_budget_recommend.
Recommend(slot) == \E slots \in 1..2 :
  /\ Readable(tuning[slot])
  /\ advice' = [advice EXCEPT ![slot] = {[made_for |-> tuning[slot], says |-> Recommended(tuning[slot], slots)]}]
  /\ UNCHANGED <<host, tuning, passed, tunings>>
\* The page saves all of it, whatever was saved since it was made.
SaveAdvice(slot) == \E a \in advice[slot] :
  /\ Tuned(slot, Apply(tuning[slot], a.says), FALSE)
  /\ advice' = [advice EXCEPT ![slot] = {}]
\* Setup's job: placement_env, written past the gate.
PlaceModels ==
  /\ tunings < MaxTunings /\ tunings' = tunings + 1 /\ PlanOk /\ ~host.unified
  /\ LET plan == Plan
     IN  tuning' = [s \in PricedSlots |->
           LET i == CHOOSE i \in DOMAIN Placed : Placed[i] = s
           IN  Apply(tuning[s], [visible |-> [j \in DOMAIN plan[i].on |-> plan[i].on[j] - 1],
                                 split |-> plan[i].weights])]
  /\ passed' = {} /\ UNCHANGED <<host, advice>>

BudgetNext == \/ \E slot \in PricedSlots : Tune(slot) \/ Recommend(slot) \/ SaveAdvice(slot)
              \/ PlaceModels
BudgetSpec == BudgetInit /\ [][BudgetNext]_budgetVars
-----------------------------------------------------------------------------
BudgetTypeOK ==
  /\ host \in Hosts /\ passed \subseteq PricedSlots /\ tunings \in 0..MaxTunings
  /\ \A s \in PricedSlots : /\ tuning[s].model \in DOMAIN Metadata
                            /\ tuning[s].ctx \in {0} \cup {Ladder[i] : i \in DOMAIN Ladder}
                            /\ tuning[s].parallel \in 1..2

OnAll(s) == Len(s.visible) = Len(host.devices)
Even == \A i \in DOMAIN host.devices : host.devices[i].total = host.devices[1].total
\* A recommendation that found a context, on a host of equal cards that the
\* slot is given all of and whose memory holds two checkpoints, is one the
\* pre-flight only has remarks about: evaluate judges each card, the
\* recommendation the sum, and neither knows the other's arithmetic.
AdviceIsClean ==
  \A slot \in PricedSlots : \A a \in advice[slot] :
    LET s == Apply(a.made_for, a.says)
    IN  (/\ a.says.ctx > 0 /\ ~host.unified /\ Even /\ OnAll(s) /\ s.split = <<>>
         /\ s.mode = "resident" /\ host.ram >= 4 * CacheFloor
         /\ CheckpointEach(Geometry(Metadata[s.model]), s.ctx, s.parallel) * 2 * s.parallel <= CacheFloor)
        => Levels(s) \subseteq {"info"}

\* (Does not hold.)  recommend: a recommendation that trips the pre-flight on the way in is not
\* a recommendation.
AdvicePasses == \A slot \in PricedSlots : \A a \in advice[slot] :
                  a.says.ctx > 0 => PreflightOk(Apply(a.made_for, a.says))

\* (Does not hold.)  evaluate: compared against the upper bound so that fits means fits; here on
\* the card the launch gives device i.
FitsMeansFits ==
  \A slot \in passed : LET s == tuning[slot]
                           p == Prediction(s)
    IN  Readable(s) /\ ~host.unified /\ s.visible # <<>> =>
          \A i \in DOMAIN s.visible : s.visible[i] + 1 \in DOMAIN host.devices =>
            DeviceUpper(p, i) <= DeviceUnit(p) * host.devices[s.visible[i] + 1].total

\* (Does not hold.)  plan_gpu_placement: plans that cannot fit are refused.
PlanFits == PlanOk => \A i \in DOMAIN Placed : \A d \in DOMAIN host.devices : Plan[i].left[d] >= 0
=============================================================================
