----------------------------- MODULE ProxyProofs -----------------------------
(***************************************************************************)
(* The safety of what keeps a request answered: the heal timer, the        *)
(* routing between machines and the transcription sidecar, each proved of  *)
(* its own specification.                                                  *)
(*                                                                         *)
(* heal's promises are about its file and its clock; what they are for is  *)
(* about restarts.  The invariant that joins the two: a restart of the     *)
(* last hour is written in the file, or is the one heal is waiting on, or  *)
(* was made by a heal that died; and the first failing check the file      *)
(* holds is no older than the last good one.                               *)
(*                                                                         *)
(* The routing's promise is about the client of the first leg, and is kept *)
(* by what holds of both legs at each step: why a leg was sent on, and     *)
(* what the second can still answer once the first has passed its head on. *)
(*                                                                         *)
(* The sidecar's sweeper reads a counter, `_inflight == 0`; what it is for *)
(* is about threads.  The counter counts the threads between acquire() and *)
(* release(), on every path through a load that fails, a decode that fails *)
(* and a swap of engines.                                                  *)
(***************************************************************************)
EXTENDS BackendHeal, ChatRoute, Transcribe, FiniteSetTheorems, TLAPS

UnderWay == IF healing = "ready" THEN {taken} ELSE {}

Accounted == \E lost \in SUBSET Ages :
  Cardinality(lost) <= kills /\ log \subseteq budget.restarts \cup lost \cup UnderWay

Budgeted == Cardinality(budget.restarts) + (IF healing = "idle" THEN 0 ELSE 1) <= MaxRestarts

Doubted ==
  /\ budget.unhealthy # Never => good >= budget.unhealthy
  /\ healing = "restart" => ~lease /\ taken = 0 /\ good >= Confirm

HealInv == HealTypeOK /\ Accounted /\ Budgeted /\ Doubted

------------------------------------------------------------------------------
(* Ages *)

\* The ages of an hour are finitely many.
LEMMA AgesFinite ==
  ASSUME NEW S \in SUBSET Ages
  PROVE  IsFiniteSet(S) /\ Cardinality(S) \in Nat
<1>1. Hour - 1 \in Int BY TimesAssumption
<1>2. IsFiniteSet(Ages) BY <1>1, FS_Interval DEF Ages
<1> QED BY <1>2, FS_Subset, FS_CardinalityType

\* A set of ages never grows by getting older: what is an hour old is dropped.
LEMMA OlderIsNoMore ==
  ASSUME NEW S \in SUBSET Ages
  PROVE  Older(S) \in SUBSET Ages /\ Cardinality(Older(S)) <= Cardinality(S)
<1> DEFINE T == {a + 1 : a \in S}
           f == [a \in S |-> a + 1]
<1>1. f \in Surjection(S, T) BY DEF Surjection
<1>2. IsFiniteSet(S) /\ Cardinality(S) \in Nat BY AgesFinite
<1>3. IsFiniteSet(T) /\ Cardinality(T) <= Cardinality(S) BY <1>1, <1>2, FS_Surjection
<1>4. Older(S) \in SUBSET T BY DEF Older
<1>5. Cardinality(Older(S)) <= Cardinality(T) BY <1>3, <1>4, FS_Subset
<1>6. Older(S) \in SUBSET Ages BY DEF Older
<1>7. Cardinality(Older(S)) \in Nat /\ Cardinality(T) \in Nat BY <1>3, <1>6, AgesFinite, FS_CardinalityType
<1> QED BY <1>2, <1>3, <1>5, <1>6, <1>7

\* One more age counts at most one more.
LEMMA OneAgeMore ==
  ASSUME NEW S \in SUBSET Ages, NEW a
  PROVE  Cardinality(S \cup {a}) <= Cardinality(S) + 1
<1>1. IsFiniteSet(S) /\ Cardinality(S) \in Nat BY AgesFinite
<1>2. \/ Cardinality(S \cup {a}) = Cardinality(S)
      \/ Cardinality(S \cup {a}) = Cardinality(S) + 1 BY <1>1, FS_AddElement
<1> QED BY <1>1, <1>2

------------------------------------------------------------------------------
(* Types *)

\* The types hold at the start.
LEMMA HealTypeInit == HealInit => HealTypeOK
<1> SUFFICES ASSUME HealInit PROVE HealTypeOK OBVIOUS
<1>1. budget \in File BY DEF HealInit, File
<1>2. age \in 0..Grace /\ taken \in 0..Ready /\ good \in 0..Confirm /\ log \subseteq Ages
  BY TimesAssumption DEF HealInit
<1>3. commands \in 0..MaxCommands /\ kills \in 0..MaxKills BY TimesAssumption DEF HealInit
<1> QED BY <1>1, <1>2, <1>3 DEF HealInit, HealTypeOK

\* A step of heal keeps the types, and leaves the lock with heal while it acts.
LEMMA HealTypeHeal ==
  ASSUME HealTypeOK, Heal \/ HealRestart \/ HealRecord \/ HealKilled \/ HealRefused
  PROVE  HealTypeOK'
<1> USE TimesAssumption DEF HealTypeOK, File, bounds, Forget
<1>1. CASE HealNone
  <2>1. budget' \in File BY <1>1 DEF HealNone
  <2>2. good' \in 0..Confirm BY <1>1 DEF HealNone, Seen
  <2> QED BY <1>1, <2>1, <2>2 DEF HealNone, Check
<1>2. CASE HealWatch
  <2>1. budget' \in File BY <1>2 DEF HealWatch
  <2> QED BY <1>2, <2>1 DEF HealWatch, Check
<1>3. CASE HealGiveUp BY <1>3 DEF HealGiveUp, Check
<1>4. CASE HealDecide
  <2>1. taken' \in 0..Ready BY <1>4 DEF HealDecide
  <2>2. ~HandsOff /\ due' \in BOOLEAN BY <1>4 DEF HealDecide, Check
  <2> QED BY <1>4, <2>1, <2>2 DEF HealDecide, Check
<1>5. CASE HealRestart BY <1>5 DEF HealRestart, Start, Ages
<1>6. CASE HealRecord BY <1>6 DEF HealRecord, Ages
<1>7. CASE HealKilled BY <1>7 DEF HealKilled
<1>8. CASE HealRefused BY <1>8 DEF HealRefused
<1> QED BY <1>1, <1>2, <1>3, <1>4, <1>5, <1>6, <1>7, <1>8 DEF Heal

\* So does a step of a lease command, the operator, the backend or the clock.
LEMMA HealTypeWorld ==
  ASSUME HealTypeOK,
         \/ CommandBegin \/ Command \/ OperatorStops \/ OperatorStarts
         \/ BackendLoads \/ BackendLatches \/ Tick
  PROVE  HealTypeOK'
<1>1. CASE Tick
  <2> USE <1>1, TimesAssumption DEF Tick, HealTypeOK, bounds
  <2>1. age' \in 0..Grace /\ good' \in 0..Confirm /\ taken' \in 0..Ready BY DEF Capped
  <2>2. Older(budget.restarts) \in SUBSET Ages BY DEF Older
  <2>3. budget.unhealthy \in {Never} \cup 0..Confirm /\ budget.unhealthy # Never =>
          Capped(budget.unhealthy, Confirm) \in {Never} \cup 0..Confirm BY DEF File, Capped
  <2>4. budget' \in File BY <2>2, <2>3 DEF OlderFile, File
  <2>5. log' \subseteq Ages BY DEF Older
  <2>6. due' \in BOOLEAN OBVIOUS
  <2> QED BY <2>1, <2>4, <2>5, <2>6
<1>2. CASE ~Tick
  BY <1>2, TimesAssumption DEF HealTypeOK, Command, CommandBegin, CommandEnd, CommandWrites,
     CommandStops, CommandStarts, OperatorStops, OperatorStarts, BackendLoads, BackendLatches,
     Others, backendVars, Start, Stop
<1> QED BY <1>1, <1>2

LEMMA HealTypeNext == HealTypeOK /\ [HealNext]_healVars => HealTypeOK'
<1>1. ASSUME HealTypeOK, UNCHANGED healVars PROVE HealTypeOK'
  BY <1>1 DEF HealTypeOK, healVars
<1> QED BY <1>1, HealTypeHeal, HealTypeWorld DEF HealNext

\* Every value of heal's file, of the lock and of the clocks is one of its type, and heal
\* has the lock exactly while it acts on a check.
THEOREM HealIsTyped == HealSpec => []HealTypeOK
  BY HealTypeInit, HealTypeNext, PTL DEF HealSpec

------------------------------------------------------------------------------
(* The restarts of an hour *)

\* At the start there is no restart to account for.
LEMMA AccountedInit == HealInit => Accounted /\ Budgeted /\ Doubted
<1> SUFFICES ASSUME HealInit PROVE Accounted /\ Budgeted /\ Doubted OBVIOUS
<1>1. Cardinality({}) = 0 BY FS_EmptySet
<1>2. Accounted BY <1>1 DEF HealInit, Accounted
<1>3. Budgeted BY <1>1, TimesAssumption DEF HealInit, Budgeted
<1>4. Doubted BY DEF HealInit, Doubted
<1> QED BY <1>2, <1>3, <1>4

\* A step that changes neither the log, nor the restarts of the file, nor what heal is
\* doing leaves the account as it is.
LEMMA AccountKept ==
  ASSUME Accounted, budget'.restarts = budget.restarts, UNCHANGED <<log, healing, taken, kills>>
  PROVE  Accounted'
<1>1. PICK lost \in SUBSET Ages :
        Cardinality(lost) <= kills /\ log \subseteq budget.restarts \cup lost \cup UnderWay
  BY DEF Accounted
<1>2. UnderWay' = UnderWay BY DEF UnderWay
<1> QED BY <1>1, <1>2 DEF Accounted

\* heal's restart, and what becomes of it: it is under way, then it is written down,
\* unless the process died before.
LEMMA AccountHeal ==
  ASSUME HealTypeOK, Accounted, Doubted,
         HealDecide \/ HealRestart \/ HealRecord \/ HealKilled
  PROVE  Accounted'
<1>1. PICK lost \in SUBSET Ages :
        Cardinality(lost) <= kills /\ log \subseteq budget.restarts \cup lost \cup UnderWay
  BY DEF Accounted
<1>2. CASE HealDecide
  <2>1. healing = "idle" /\ UNCHANGED <<log, budget, kills>> /\ healing' = "restart"
    BY <1>2 DEF HealDecide, HealTypeOK, Check, bounds
  <2>2. log' \subseteq budget'.restarts \cup lost \cup UnderWay' BY <1>1, <2>1 DEF UnderWay
  <2> QED BY <1>1, <2>1, <2>2 DEF Accounted
<1>3. CASE HealRestart
  <2>1. /\ healing = "restart" /\ healing' = "ready" /\ log' = log \cup {0}
        /\ taken = 0 /\ UNCHANGED <<taken, budget, kills>>
    BY <1>3 DEF HealRestart, Doubted, bounds
  <2>2. log' \subseteq budget'.restarts \cup lost \cup UnderWay' BY <1>1, <2>1 DEF UnderWay
  <2> QED BY <1>1, <2>1, <2>2 DEF Accounted
<1>4. CASE HealRecord
  <2>1. /\ healing = "ready" /\ healing' = "idle" /\ UNCHANGED <<log, kills>>
        /\ budget'.restarts = budget.restarts \cup {taken}
    BY <1>4 DEF HealRecord, bounds
  <2>2. log' \subseteq budget'.restarts \cup lost \cup UnderWay' BY <1>1, <2>1 DEF UnderWay
  <2> QED BY <1>1, <2>1, <2>2 DEF Accounted
<1>5. CASE HealKilled
  <2> DEFINE now == lost \cup {taken}
  <2>1. /\ healing' = "idle" /\ UNCHANGED <<log, budget>> /\ kills' = kills + 1
        /\ healing \in {"restart", "ready"}
    BY <1>5 DEF HealKilled
  <2>2. now \in SUBSET Ages BY TimesAssumption DEF HealTypeOK, Ages
  <2>3. Cardinality(now) <= Cardinality(lost) + 1 BY OneAgeMore
  <2>4. Cardinality(now) \in Nat /\ Cardinality(lost) \in Nat BY <2>2, AgesFinite
  <2>5. Cardinality(now) <= kills' BY <1>1, <2>1, <2>3, <2>4 DEF HealTypeOK
  <2>6. log' \subseteq budget'.restarts \cup now \cup UnderWay' BY <1>1, <2>1 DEF UnderWay
  <2> QED BY <2>2, <2>5, <2>6 DEF Accounted
<1> QED BY <1>2, <1>3, <1>4, <1>5

\* A tick ages the log, the file and the restart under way alike.
LEMMA AccountTick ==
  ASSUME HealTypeOK, Accounted, Tick
  PROVE  Accounted'
<1>1. PICK lost \in SUBSET Ages :
        Cardinality(lost) <= kills /\ log \subseteq budget.restarts \cup lost \cup UnderWay
  BY DEF Accounted
<1>2. Older(lost) \in SUBSET Ages /\ Cardinality(Older(lost)) <= Cardinality(lost)
  BY OlderIsNoMore
<1>3. Cardinality(lost) \in Nat /\ Cardinality(Older(lost)) \in Nat BY <1>2, AgesFinite
<1>4. Older(log) \subseteq Older(budget.restarts) \cup Older(lost) \cup Older(UnderWay)
  BY <1>1 DEF Older
<1>5. Older(UnderWay) \subseteq UnderWay' BY DEF Older, UnderWay, Tick
<1>6. budget'.restarts = Older(budget.restarts) /\ log' = Older(log) /\ kills' = kills
  BY DEF Tick, OlderFile, HealTypeOK, File, bounds
<1>7. log' \subseteq budget'.restarts \cup Older(lost) \cup UnderWay' BY <1>4, <1>5, <1>6
<1>8. Cardinality(Older(lost)) <= kills' BY <1>1, <1>2, <1>3, <1>6 DEF HealTypeOK
<1> QED BY <1>2, <1>7, <1>8 DEF Accounted

LEMMA AccountNext == HealInv /\ [HealNext]_healVars => Accounted'
<1> SUFFICES ASSUME HealInv, [HealNext]_healVars PROVE Accounted' OBVIOUS
<1> USE DEF HealInv
<1>1. CASE HealDecide \/ HealRestart \/ HealRecord \/ HealKilled BY <1>1, AccountHeal
<1>2. CASE Tick BY <1>2, AccountTick
<1>3. CASE HealNone \/ HealWatch \/ HealGiveUp \/ HealRefused
  BY <1>3, AccountKept
  DEF HealNone, HealWatch, HealGiveUp, HealRefused, Forget, HealTypeOK, File, bounds
<1>4. CASE CommandBegin \/ Command \/ OperatorStops \/ OperatorStarts
           \/ BackendLoads \/ BackendLatches
  BY <1>4, AccountKept
  DEF CommandBegin, Command, CommandEnd, CommandWrites, CommandStops, CommandStarts,
      OperatorStops, OperatorStarts, BackendLoads, BackendLatches, Others
<1>5. CASE UNCHANGED healVars BY <1>5, AccountKept DEF healVars
<1> QED BY <1>1, <1>2, <1>3, <1>4, <1>5 DEF HealNext, Heal

\* heal starts a restart only when the file has room for it, and writes at most that one.
LEMMA BudgetedNext == HealInv /\ [HealNext]_healVars => Budgeted'
<1> SUFFICES ASSUME HealInv, [HealNext]_healVars PROVE Budgeted' OBVIOUS
<1> USE TimesAssumption DEF HealInv, Budgeted
<1>1. budget.restarts \in SUBSET Ages /\ Cardinality(budget.restarts) \in Nat
  BY AgesFinite DEF HealTypeOK, File
<1>2. CASE HealDecide BY <1>1, <1>2 DEF HealDecide
<1>3. CASE HealRecord
  <2>1. budget'.restarts = budget.restarts \cup {taken} /\ healing' = "idle" /\ healing = "ready"
    BY <1>3 DEF HealRecord
  <2>2. budget'.restarts \in SUBSET Ages /\ Cardinality(budget'.restarts) \in Nat
    BY HealTypeNext, AgesFinite DEF HealTypeOK, File
  <2>3. Cardinality(budget'.restarts) <= Cardinality(budget.restarts) + 1
    BY <1>1, <2>1, OneAgeMore
  <2> QED BY <1>1, <2>1, <2>2, <2>3
<1>4. CASE Tick
  <2>1. budget'.restarts = Older(budget.restarts) /\ healing' = healing
    BY <1>4 DEF Tick, OlderFile, HealTypeOK, File
  <2>2. Cardinality(Older(budget.restarts)) \in Nat
        /\ Cardinality(Older(budget.restarts)) <= Cardinality(budget.restarts)
    BY <1>1, OlderIsNoMore, AgesFinite
  <2> QED BY <1>1, <2>1, <2>2
<1>5. ASSUME budget'.restarts = budget.restarts, healing' = "idle" \/ healing # "idle" PROVE Budgeted'
  BY <1>1, <1>5
<1>6. ASSUME budget'.restarts = budget.restarts, healing' = healing PROVE Budgeted'
  BY <1>6
<1>7. CASE HealRestart \/ HealKilled BY <1>5, <1>7 DEF HealRestart, HealKilled
<1>8. CASE HealNone \/ HealWatch \/ HealGiveUp \/ HealRefused
  BY <1>6, <1>8 DEF HealNone, HealWatch, HealGiveUp, HealRefused, Forget, HealTypeOK, File
<1>9. CASE \/ CommandBegin \/ Command \/ OperatorStops \/ OperatorStarts
           \/ BackendLoads \/ BackendLatches \/ UNCHANGED healVars
  BY <1>6, <1>9
  DEF CommandBegin, Command, CommandEnd, CommandWrites, CommandStops, CommandStarts,
      OperatorStops, OperatorStarts, BackendLoads, BackendLatches, Others, healVars
<1> QED BY <1>2, <1>3, <1>4, <1>7, <1>8, <1>9 DEF HealNext, Heal

------------------------------------------------------------------------------
(* What a restart is made on *)

\* heal acts on a card no lease has taken and a backend that has failed for Confirm: the
\* lease cannot change under heal's lock, nor the backend answer a check.
LEMMA DoubtedNext == HealInv /\ [HealNext]_healVars => Doubted'
<1> SUFFICES ASSUME HealInv, [HealNext]_healVars PROVE Doubted' OBVIOUS
<1> USE TimesAssumption DEF HealInv, HealTypeOK, Doubted, bounds
<1>1. budget.unhealthy \in {Never} \cup 0..Confirm /\ Never \notin 0..Confirm BY DEF File, Never
<1>2. CASE HealNone
  <2>1. budget'.unhealthy = Never BY <1>2 DEF HealNone, Forget, File
  <2> QED BY <1>2, <2>1 DEF HealNone, Check
<1>3. CASE HealWatch
  <2>1. budget'.unhealthy = IF budget.unhealthy = Never THEN 0 ELSE budget.unhealthy
    BY <1>3 DEF HealWatch, File
  <2> QED BY <1>1, <1>3, <2>1 DEF HealWatch, Check
<1>4. CASE HealGiveUp
  <2>1. budget'.unhealthy = Never BY <1>4 DEF HealGiveUp, Forget, File
  <2> QED BY <1>4, <2>1 DEF HealGiveUp, Check
<1>5. CASE HealDecide
  <2>1. ~lease /\ budget.unhealthy # Never /\ budget.unhealthy >= Confirm
    BY <1>5 DEF HealDecide, HandsOff, Confirmed
  <2> QED BY <1>1, <1>5, <2>1 DEF HealDecide
<1>6. CASE HealRestart \/ HealRefused BY <1>6 DEF HealRestart, HealRefused
<1>7. CASE HealRecord BY <1>7 DEF HealRecord
<1>8. CASE HealKilled BY <1>8 DEF HealKilled
<1>9. CASE Tick
  <2>1. /\ budget'.unhealthy = IF budget.unhealthy = Never THEN Never
                               ELSE Capped(budget.unhealthy, Confirm)
        /\ good' = Capped(good, Confirm) /\ healing # "restart" /\ healing' = healing
    BY <1>9 DEF Tick, OlderFile, File
  <2> QED BY <1>1, <2>1 DEF Capped
<1>10. CASE CommandBegin \/ Command
  BY <1>10 DEF CommandBegin, Command, CommandEnd, CommandWrites, CommandStops, CommandStarts, Others
<1>11. CASE OperatorStops \/ OperatorStarts \/ BackendLoads \/ BackendLatches \/ UNCHANGED healVars
  BY <1>11 DEF OperatorStops, OperatorStarts, BackendLoads, BackendLatches, Others, healVars
<1> QED BY <1>2, <1>3, <1>4, <1>5, <1>6, <1>7, <1>8, <1>9, <1>10, <1>11 DEF HealNext, Heal

LEMMA HealKeeps == HealInv /\ [HealNext]_healVars => HealInv'
  BY HealTypeNext, AccountNext, BudgetedNext, DoubtedNext DEF HealInv

LEMMA HealHolds == HealSpec => []HealInv
<1>1. HealInit => HealInv BY HealTypeInit, AccountedInit DEF HealInv
<1> QED BY <1>1, HealKeeps, PTL DEF HealSpec

------------------------------------------------------------------------------
(* The theorems *)

\* What is accounted for is not many: the file holds at most MaxRestarts, the one under
\* way included, and every other restart is one of a heal that died.
LEMMA BudgetHolds == HealInv => RestartBudget
<1> SUFFICES ASSUME HealInv PROVE RestartBudget OBVIOUS
<1> USE TimesAssumption DEF HealInv, HealTypeOK
<1>1. PICK lost \in SUBSET Ages :
        Cardinality(lost) <= kills /\ log \subseteq budget.restarts \cup lost \cup UnderWay
  BY DEF Accounted
<1> DEFINE known == budget.restarts \cup UnderWay
           all == known \cup lost
<1>2. budget.restarts \in SUBSET Ages BY DEF File
<1>3. UnderWay \in SUBSET Ages BY DEF UnderWay, Ages
<1>4. Cardinality(known) <= MaxRestarts
  <2>1. Cardinality(known) \in Nat /\ Cardinality(budget.restarts) \in Nat BY <1>2, <1>3, AgesFinite
  <2>2. CASE healing = "ready"
    <3>1. Cardinality(known) <= Cardinality(budget.restarts) + 1
      BY <1>2, <2>2, OneAgeMore DEF UnderWay
    <3> QED BY <2>1, <2>2, <3>1 DEF Budgeted
  <2>3. CASE healing # "ready"
    <3>1. Cardinality(known) = Cardinality(budget.restarts) BY <2>3 DEF UnderWay
    <3> HIDE DEF known
    <3> QED BY <2>1, <3>1 DEF Budgeted
  <2> QED BY <2>2, <2>3
<1>5. IsFiniteSet(known) /\ IsFiniteSet(lost) BY <1>2, <1>3, AgesFinite
<1>6. Cardinality(all) = Cardinality(known) + Cardinality(lost) - Cardinality(known \cap lost)
  BY <1>5, FS_Union
<1>7. log \in SUBSET all /\ IsFiniteSet(all) BY <1>1, <1>5, FS_Union
<1>8. Cardinality(log) <= Cardinality(all) BY <1>7, FS_Subset
<1>9. /\ Cardinality(log) \in Nat /\ Cardinality(all) \in Nat /\ Cardinality(known) \in Nat
      /\ Cardinality(lost) \in Nat /\ Cardinality(known \cap lost) \in Nat
  BY <1>2, <1>3, AgesFinite
<1> QED BY <1>1, <1>4, <1>6, <1>8, <1>9 DEF RestartBudget

\* In any hour heal restarts the backend at most HEAL_MAX_PER_HOUR times, and once more for
\* each heal that died between its restart and the write of its file: for every length of
\* the hour, of the grace and of the waits.
THEOREM HealKeepsItsBudget == HealSpec => []RestartBudget
  BY HealHolds, BudgetHolds, PTL

\* Only a lease command starts a unit while there is a lease.
LEMMA StartsAreTheirs ==
  ASSUME HealInv, HealNext, lease, unit = "inactive", unit' = "active"
  PROVE  lock = "lease"
<1> USE DEF HealInv, HealTypeOK
<1>1. CASE HealRestart BY <1>1 DEF HealRestart, Doubted
<1>2. CASE Heal BY <1>2 DEF Heal, HealNone, HealWatch, HealGiveUp, HealDecide
<1>3. CASE HealRecord \/ HealKilled \/ HealRefused \/ Tick
  BY <1>3 DEF HealRecord, HealKilled, HealRefused, Tick
<1>4. CASE CommandBegin \/ Command
  BY <1>4 DEF CommandBegin, Command, CommandEnd, CommandWrites, CommandStops, CommandStarts,
              backendVars
<1>5. CASE OperatorStops \/ OperatorStarts \/ BackendLoads \/ BackendLatches
  BY <1>5 DEF OperatorStops, OperatorStarts, BackendLoads, BackendLatches
<1> QED BY <1>1, <1>2, <1>3, <1>4, <1>5 DEF HealNext

\* heal never starts the backend on a card a lease has emptied, and never restarts one
\* that answered a check in the last HEAL_CONFIRM_SECONDS.
THEOREM HealActsOnCause == HealSpec => HealIsJustified
<1>1. HealInv /\ [HealNext]_healVars =>
        [/\ lease /\ unit = "inactive" /\ unit' = "active" => lock = "lease"
         /\ log' # log /\ healing' = "ready" /\ healing = "restart" => good >= Confirm]_healVars
  BY StartsAreTheirs DEF HealInv, Doubted
<1> QED BY <1>1, HealHolds, PTL DEF HealSpec, HealIsJustified

------------------------------------------------------------------------------
(* Routing *)

\* What a leg has written, by its step; a leg that was sent on for want of its backend, or
\* ended in an error, has met that backend not serving, or has reached one that does.
LegAlone(r, i) ==
  LET l == leg[r][i] IN
  /\ l.step = "none" => l = NoLeg
  /\ l.step # "none" => l.at \in Proxies
  /\ l.step \in {"route", "connect", "read"} => l.out = "nothing"
  /\ l.step = "stream" => l.out = "head"
  /\ l.step \in {"soft", "hard"} => l.out \in {"nothing", "head"} /\ Fallback[l.at] # NoProxy
  /\ l.step \in {"read", "stream"} => reached[r]
  /\ l.step = "hard" \/ l.out = "error" => reached[r] \/ l.at \notin steady[r]

\* The second leg is the first's fallback's and is never sent on; once the first has relayed
\* its head, it can end in none of the ways that would be served again.
LegsTogether(r) ==
  LET l == leg[r][1] f == leg[r][2] IN
  /\ f.step \notin {"soft", "hard"} /\ leg[r][3] = NoLeg
  /\ f # NoLeg => l # NoLeg /\ f.at = Fallback[l.at]
  /\ f.out = "head" => f.step = "stream"
  /\ l.step \in {"soft", "hard"} /\ l.out = "head" => f.out \notin {"nothing", "error", "empty"}
  /\ l.out = "error" => reached[r] \/ Fallback[l.at] \notin steady[r]

RouteInv ==
  /\ RouteTypeOK
  /\ \A r \in Chats : /\ \A p \in steady[r] : Serves(p)
                      /\ LegAlone(r, 1) /\ LegAlone(r, 2) /\ LegsTogether(r)

------------------------------------------------------------------------------
(* How a leg changes *)

\* One leg of one request gets another step and another output.
Becomes(r, i, to, out) ==
  /\ leg' \in [Chats -> [Hops -> Leg]]
  /\ \A q \in Chats \ {r} : leg'[q] = leg[q]
  /\ \A j \in Hops \ {i} : leg'[r][j] = leg[r][j]
  /\ leg'[r][i].at = leg[r][i].at /\ leg'[r][i].step = to /\ leg'[r][i].out = out

LEMMA Ending ==
  ASSUME RouteTypeOK, NEW r \in Chats, NEW i \in Hops, NEW out \in Outs, LegEnds(r, i, out)
  PROVE  Becomes(r, i, "done", out)
<1>1. leg[r] \in [Hops -> Leg] /\ leg[r][i] \in Leg BY DEF RouteTypeOK
<1>2. [leg[r][i] EXCEPT !.step = "done", !.out = out] \in Leg BY <1>1 DEF Leg, LegSteps
<1>3. leg' = [leg EXCEPT ![r] = [leg[r] EXCEPT ![i] = [leg[r][i] EXCEPT !.step = "done", !.out = out]]]
  BY <1>1 DEF LegEnds, RouteTypeOK
<1>4. leg' \in [Chats -> [Hops -> Leg]] BY <1>1, <1>2, <1>3 DEF RouteTypeOK
<1> QED BY <1>1, <1>3, <1>4 DEF Becomes, RouteTypeOK, Leg

LEMMA Heading ==
  ASSUME RouteTypeOK, NEW r \in Chats, NEW i \in Hops,
         leg' = [leg EXCEPT ![r][i].step = "stream", ![r][i].out = "head"]
  PROVE  Becomes(r, i, "stream", "head")
<1>1. leg[r] \in [Hops -> Leg] /\ leg[r][i] \in Leg BY DEF RouteTypeOK
<1>2. [leg[r][i] EXCEPT !.step = "stream", !.out = "head"] \in Leg BY <1>1 DEF Leg, LegSteps, Outs
<1>3. leg' = [leg EXCEPT ![r] = [leg[r] EXCEPT ![i] = [leg[r][i] EXCEPT !.step = "stream", !.out = "head"]]]
  BY <1>1 DEF RouteTypeOK
<1>4. leg' \in [Chats -> [Hops -> Leg]] BY <1>1, <1>2, <1>3 DEF RouteTypeOK
<1> QED BY <1>1, <1>3, <1>4 DEF Becomes, RouteTypeOK, Leg

LEMMA Going ==
  ASSUME RouteTypeOK, NEW r \in Chats, NEW i \in Hops, NEW to \in LegSteps, Goes(r, i, to)
  PROVE  Becomes(r, i, to, leg[r][i].out)
<1>1. leg[r] \in [Hops -> Leg] /\ leg[r][i] \in Leg BY DEF RouteTypeOK
<1>2. [leg[r][i] EXCEPT !.step = to] \in Leg BY <1>1 DEF Leg
<1>3. leg' = [leg EXCEPT ![r] = [leg[r] EXCEPT ![i] = [leg[r][i] EXCEPT !.step = to]]]
  BY <1>1 DEF Goes, RouteTypeOK
<1>4. leg' \in [Chats -> [Hops -> Leg]] BY <1>1, <1>2, <1>3 DEF RouteTypeOK
<1> QED BY <1>1, <1>3, <1>4 DEF Becomes, RouteTypeOK, Leg

Sound(r) == LegAlone(r, 1) /\ LegAlone(r, 2) /\ LegsTogether(r)

\* A step of one request, on machines that stay as they are.
LEMMA OneRequest ==
  ASSUME RouteInv, NEW r \in Chats, UNCHANGED <<machines, arrival>>,
         reached' = reached \/ reached' = [reached EXCEPT ![r] = TRUE],
         leg' \in [Chats -> [Hops -> Leg]], \A q \in Chats \ {r} : leg'[q] = leg[q],
         Sound(r)'
  PROVE  RouteInv'
<1>1. UNCHANGED <<backend, lent, alive, crashes, guarded, steady>> BY DEF machines, arrival
<1>2. reached' \in [Chats -> BOOLEAN] /\ \A q \in Chats \ {r} : reached'[q] = reached[q]
  BY DEF RouteInv, RouteTypeOK
<1>3. ASSUME NEW q \in Chats \ {r} PROVE Sound(q)'
  BY <1>1, <1>2 DEF RouteInv, Sound, LegAlone, LegsTogether
<1>4. \A q \in Chats : Sound(q)' BY <1>3
<1>5. \A q \in Chats, i \in Hops : leg'[q][i].step = "none" => leg'[q][i] = NoLeg
  BY <1>4 DEF Sound, LegAlone, LegsTogether, Hops
<1>6. RouteTypeOK' BY <1>1, <1>2, <1>5 DEF RouteInv, RouteTypeOK
<1>7. \A q \in Chats : \A p \in steady'[q] : Serves(p)' BY <1>1 DEF RouteInv, Serves
<1> QED BY <1>4, <1>6, <1>7 DEF RouteInv, Sound

\* The leg that moves is sound and goes with the other.
LEMMA RouteSteps ==
  ASSUME RouteInv, NEW r \in Chats, NEW i \in {1, 2},
         RouteLent(r, i) \/ RouteRefuse(r, i) \/ RouteSoft(r, i) \/ RouteLocal(r, i)
  PROVE  RouteInv'
<1>1. /\ Same /\ leg[r][i].step = "route"
      /\ \/ CanFallBack(r, i) /\ lent[leg[r][i].at] /\ Goes(r, i, "hard")
         \/ i = 2 /\ lent[leg[r][i].at] /\ LegEnds(r, i, "error")
         \/ CanFallBack(r, i) /\ Goes(r, i, "soft")
         \/ Goes(r, i, "connect")
  BY DEF RouteLent, RouteRefuse, RouteSoft, RouteLocal
<1>2. LegAlone(r, 1) /\ LegAlone(r, 2) /\ LegsTogether(r) /\ RouteTypeOK
      /\ (lent[leg[r][i].at] => leg[r][i].at \notin steady[r]) /\ i \in Hops
  BY DEF RouteInv, Serves, Hops
<1>3. UNCHANGED <<machines, arrival, reached, steady>> BY <1>1 DEF Same, arrival
<1>4. PICK to \in LegSteps, out \in Outs :
        /\ Becomes(r, i, to, out)
        /\ \/ CanFallBack(r, i) /\ lent[leg[r][i].at] /\ to = "hard" /\ out = leg[r][i].out
           \/ i = 2 /\ lent[leg[r][i].at] /\ to = "done" /\ out = "error"
           \/ CanFallBack(r, i) /\ to = "soft" /\ out = leg[r][i].out
           \/ to = "connect" /\ out = leg[r][i].out
  <2>1. leg[r][i].out \in Outs BY <1>2 DEF RouteTypeOK, Leg
  <2> QED BY <1>1, <1>2, <2>1, Going, Ending DEF LegSteps, Outs
<1>5. Sound(r)'
  <2>1. CASE i = 1
    BY <1>1, <1>2, <1>3, <1>4, <2>1 DEF Sound, LegAlone, LegsTogether, Becomes, CanFallBack, Hops, NoLeg
  <2>2. CASE i = 2
    BY <1>1, <1>2, <1>3, <1>4, <2>2 DEF Sound, LegAlone, LegsTogether, Becomes, CanFallBack, Hops, NoLeg
  <2> QED BY <2>1, <2>2
<1> QED BY <1>3, <1>4, <1>5, OneRequest DEF Becomes

LEMMA LocalSteps ==
  ASSUME RouteInv, NEW r \in Chats, NEW i \in {1, 2}, Local(r, i)
  PROVE  RouteInv'
<1>1. LegAlone(r, 1) /\ LegAlone(r, 2) /\ LegsTogether(r) /\ RouteTypeOK /\ i \in Hops
      /\ (backend[leg[r][i].at] # "up" => leg[r][i].at \notin steady[r])
      /\ (Fallback[leg[r][i].at] = NoProxy => Fallback[leg[r][i].at] \notin steady[r])
  BY RoutesAssumption DEF RouteInv, RouteTypeOK, Serves, Hops
<1>2. leg[r][i].out \in Outs BY <1>1 DEF RouteTypeOK, Leg
<1>3. CASE LocalRefused(r, i) \/ LocalLoading(r, i)
  <2>1. /\ leg[r][i].step = "connect" /\ UNCHANGED <<machines, arrival, reached, steady>>
        /\ backend[leg[r][i].at] # "up"
        /\ \/ CanFallBack(r, i) /\ Goes(r, i, "hard")
           \/ ~CanFallBack(r, i) /\ LegEnds(r, i, "error")
    BY <1>3 DEF LocalRefused, LocalLoading, Same, arrival
  <2>2. \/ CanFallBack(r, i) /\ Becomes(r, i, "hard", leg[r][i].out)
        \/ ~CanFallBack(r, i) /\ Becomes(r, i, "done", "error")
    BY <1>1, <2>1, Going, Ending DEF LegSteps, Outs
  <2>3. Sound(r)'
    <3>1. CASE i = 1
      BY <1>1, <2>1, <2>2, <3>1 DEF Sound, LegAlone, LegsTogether, Becomes, CanFallBack, Hops, NoLeg
    <3>2. CASE i = 2
      BY <1>1, <2>1, <2>2, <3>2 DEF Sound, LegAlone, LegsTogether, Becomes, CanFallBack, Hops, NoLeg
    <3> QED BY <3>1, <3>2
  <2> QED BY <2>1, <2>2, <2>3, OneRequest DEF Becomes
<1>4. CASE LocalConnect(r, i)
  <2>1. /\ leg[r][i].step = "connect" /\ Goes(r, i, "read") /\ reached'[r] = TRUE
        /\ UNCHANGED <<machines, arrival, steady>> /\ reached' = [reached EXCEPT ![r] = TRUE]
    BY <1>1, <1>4 DEF LocalConnect, arrival, RouteTypeOK
  <2>2. Becomes(r, i, "read", leg[r][i].out) BY <1>1, <2>1, Going DEF LegSteps
  <2>3. Sound(r)'
    <3>1. CASE i = 1
      BY <1>1, <2>1, <2>2, <3>1 DEF Sound, LegAlone, LegsTogether, Becomes, Hops, NoLeg
    <3>2. CASE i = 2
      BY <1>1, <2>1, <2>2, <3>2 DEF Sound, LegAlone, LegsTogether, Becomes, Hops, NoLeg
    <3> QED BY <3>1, <3>2
  <2> QED BY <2>1, <2>2, <2>3, OneRequest DEF Becomes
<1>5. CASE LocalHead(r, i)
  <2>1. leg[r][i].step = "read" /\ UNCHANGED <<machines, arrival, reached, steady>>
    BY <1>5 DEF LocalHead, Same, arrival
  <2>2. Becomes(r, i, "stream", "head") BY <1>1, <1>5, Heading DEF LocalHead
  <2>3. Sound(r)'
    <3>1. CASE i = 1
      BY <1>1, <2>1, <2>2, <3>1 DEF Sound, LegAlone, LegsTogether, Becomes, Hops, NoLeg
    <3>2. CASE i = 2
      BY <1>1, <2>1, <2>2, <3>2 DEF Sound, LegAlone, LegsTogether, Becomes, Hops, NoLeg
    <3> QED BY <3>1, <3>2
  <2> QED BY <2>1, <2>2, <2>3, OneRequest DEF Becomes
<1>6. CASE LocalWhole(r, i) \/ LocalEnds(r, i) \/ LocalFails(r, i)
  <2>1. PICK out \in {"whole", "error", "blank", "ended", "cut", "twice"} :
          /\ LegEnds(r, i, out) /\ UNCHANGED <<machines, arrival, reached, steady>>
          /\ leg[r][i].step \in {"read", "stream"}
          /\ out = "error" => leg[r][i].step = "read"
    BY <1>6 DEF LocalWhole, LocalEnds, LocalFails, Same, arrival
  <2>2. Becomes(r, i, "done", out) BY <1>1, <2>1, Ending DEF Outs
  <2>3. Sound(r)'
    <3>1. CASE i = 1
      BY <1>1, <2>1, <2>2, <3>1 DEF Sound, LegAlone, LegsTogether, Becomes, Hops, NoLeg
    <3>2. CASE i = 2
      BY <1>1, <2>1, <2>2, <3>2 DEF Sound, LegAlone, LegsTogether, Becomes, Hops, NoLeg
    <3> QED BY <3>1, <3>2
  <2> QED BY <2>1, <2>2, <2>3, OneRequest DEF Becomes
<1> QED BY <1>3, <1>4, <1>5, <1>6 DEF Local

\* A forward that gives up has left its own backend aside for a reason, and so has its target.
LEMMA GivingUp ==
  ASSUME RouteInv, NEW r \in Chats, Same, Forwarding(r, 1), ForwardGivesUp(r, 1),
         reached[r] \/ Fallback[leg[r][1].at] \notin steady[r]
  PROVE  RouteInv'
<1>1. LegAlone(r, 1) /\ LegAlone(r, 2) /\ LegsTogether(r) /\ RouteTypeOK /\ 1 \in Hops
  BY DEF RouteInv, Hops
<1>2. leg[r][1].out \in Outs BY <1>1 DEF RouteTypeOK, Leg
<1>3. UNCHANGED <<machines, arrival, reached, steady>> BY DEF Same, arrival
<1>4. \/ leg[r][1].out # "nothing" /\ Becomes(r, 1, "done", "cut")
      \/ leg[r][1].out = "nothing" /\ Becomes(r, 1, "connect", leg[r][1].out)
      \/ leg[r][1].step # "soft" /\ Becomes(r, 1, "done", "error")
  BY <1>1, <1>2, Going, Ending DEF ForwardGivesUp, LegSteps, Outs
<1>5. Sound(r)'
  BY <1>1, <1>3, <1>4 DEF Forwarding, Sound, LegAlone, LegsTogether, Becomes, Hops, NoLeg
<1> QED BY <1>3, <1>4, <1>5, OneRequest DEF Becomes

LEMMA ForwardSteps ==
  ASSUME RouteInv, NEW r \in Chats, NEW i \in {1, 2}, Forward(r, i)
  PROVE  RouteInv'
<1>1. LegAlone(r, 1) /\ LegAlone(r, 2) /\ LegsTogether(r) /\ RouteTypeOK /\ 1 \in Hops /\ 2 \in Hops
  BY DEF RouteInv, Hops
<1>2. Same /\ Forwarding(r, i) BY DEF Forward, ForwardConnect, ForwardRefused, ForwardTimeout, ForwardHead, ForwardEnd
<1>3. i = 1 BY <1>1, <1>2 DEF Forwarding, LegsTogether
<1>4. UNCHANGED <<machines, arrival, reached, steady>> BY <1>2 DEF Same, arrival
<1>5. Fallback[leg[r][1].at] \in Proxies /\ leg[r][1].at \in Proxies
  BY <1>1, <1>2, <1>3, RoutesAssumption DEF Forwarding, LegAlone
<1>6. CASE ForwardConnect(r, i)
  <2>1. leg' = [leg EXCEPT ![r] = [leg[r] EXCEPT ![2] =
                  [at |-> Fallback[leg[r][1].at], step |-> "route", out |-> "nothing"]]]
        /\ leg[r][2] = NoLeg
    BY <1>1, <1>3, <1>6 DEF ForwardConnect, Target, Unsent, RouteTypeOK
  <2>2. [at |-> Fallback[leg[r][1].at], step |-> "route", out |-> "nothing"] \in Leg
    BY <1>5 DEF Leg, LegSteps, Outs
  <2>3. leg' \in [Chats -> [Hops -> Leg]] /\ \A q \in Chats \ {r} : leg'[q] = leg[q]
    BY <1>1, <2>1, <2>2 DEF RouteTypeOK
  <2>4. /\ leg'[r][2] = [at |-> Fallback[leg[r][1].at], step |-> "route", out |-> "nothing"]
        /\ leg'[r][1] = leg[r][1] /\ leg'[r][3] = leg[r][3]
    BY <1>1, <2>1 DEF RouteTypeOK, Hops
  <2>5. Sound(r)'
    BY <1>1, <1>2, <1>3, <1>4, <1>5, <2>1, <2>4 DEF Forwarding, Sound, LegAlone, LegsTogether, NoLeg
  <2> QED BY <1>4, <2>3, <2>5, OneRequest
<1>7. CASE ForwardRefused(r, i)
  <2>1. ForwardGivesUp(r, 1) /\ ~alive[Fallback[leg[r][1].at]] BY <1>3, <1>7 DEF ForwardRefused, Target
  <2>2. Fallback[leg[r][1].at] \notin steady[r] BY <2>1 DEF RouteInv, Serves
  <2> QED BY <1>2, <1>3, <2>1, <2>2, GivingUp
<1>8. CASE ForwardTimeout(r, i)
  <2>1. ForwardGivesUp(r, 1) /\ leg[r][2].step \in {"read", "stream"} BY <1>3, <1>8 DEF ForwardTimeout
  <2>2. reached[r] BY <1>1, <2>1 DEF LegAlone
  <2> QED BY <1>2, <1>3, <2>1, <2>2, GivingUp
<1>9. CASE ForwardHead(r, i)
  <2>1. leg[r][2].out = "head" BY <1>3, <1>9 DEF ForwardHead
  <2>2. leg' = [leg EXCEPT ![r] = [leg[r] EXCEPT ![1] = [leg[r][1] EXCEPT !.out = "head"]]]
    BY <1>1, <1>3, <1>9 DEF ForwardHead, RouteTypeOK
  <2>3. leg[r] \in [Hops -> Leg] /\ leg[r][1] \in Leg BY <1>1 DEF RouteTypeOK
  <2>4. [leg[r][1] EXCEPT !.out = "head"] \in Leg BY <2>3 DEF Leg, Outs
  <2>5. leg' \in [Chats -> [Hops -> Leg]] BY <1>1, <2>2, <2>3, <2>4 DEF RouteTypeOK
  <2>6. Becomes(r, 1, leg[r][1].step, "head") BY <1>1, <2>2, <2>3, <2>5 DEF Becomes, RouteTypeOK, Leg
  <2>7. Sound(r)'
    BY <1>1, <1>2, <1>3, <1>4, <1>5, <2>1, <2>6 DEF Forwarding, Sound, LegAlone, LegsTogether, Becomes, Hops, NoLeg
  <2> QED BY <1>4, <2>6, <2>7, OneRequest DEF Becomes
<1>10. CASE ForwardEnd(r, i)
  <2>1. /\ leg[r][2].step = "done"
        /\ \/ leg[r][1].out = "nothing" /\ Goes(r, 1, "connect")
           \/ /\ leg[r][1].step = "hard" \/ leg[r][1].out # "nothing" \/ leg[r][2].out \notin {"error", "empty"}
              /\ LegEnds(r, 1, leg[r][2].out)
    BY <1>2, <1>3, <1>10 DEF ForwardEnd, Forwarding
  <2>2. leg[r][1].out \in Outs /\ leg[r][2].out \in Outs BY <1>1 DEF RouteTypeOK, Leg
  <2>3. \/ leg[r][1].out = "nothing" /\ Becomes(r, 1, "connect", leg[r][1].out)
        \/ /\ leg[r][1].step = "hard" \/ leg[r][1].out # "nothing" \/ leg[r][2].out \notin {"error", "empty"}
           /\ Becomes(r, 1, "done", leg[r][2].out)
    BY <1>1, <2>1, <2>2, Going, Ending DEF LegSteps
  <2>4. Sound(r)'
    BY <1>1, <1>2, <1>3, <1>4, <1>5, <2>1, <2>3
    DEF Forwarding, Sound, LegAlone, LegsTogether, Becomes, Hops, NoLeg
  <2> QED BY <1>4, <2>3, <2>4, OneRequest DEF Becomes
<1> QED BY <1>6, <1>7, <1>8, <1>9, <1>10 DEF Forward

\* A leg nobody reads any more, and a client that leaves.
LEMMA LeavingSteps ==
  ASSUME RouteInv, NEW r \in Chats,
         ChatLeaves(r) \/ LegOrphaned(r, 1) \/ LegOrphaned(r, 2)
  PROVE  RouteInv'
<1>1. LegAlone(r, 1) /\ LegAlone(r, 2) /\ LegsTogether(r) /\ RouteTypeOK /\ 1 \in Hops /\ 2 \in Hops
  BY DEF RouteInv, Hops
<1>2. UNCHANGED <<machines, arrival, reached, steady>> BY DEF ChatLeaves, LegOrphaned, Same, arrival
<1>3. \/ Active(leg[r][1]) /\ LegEnds(r, 1, "gone")
      \/ Active(leg[r][2]) /\ leg[r][1].step \notin {"soft", "hard"} /\ LegEnds(r, 2, "gone")
  BY DEF ChatLeaves, LegOrphaned
<1>4. \/ Active(leg[r][1]) /\ Becomes(r, 1, "done", "gone")
      \/ Active(leg[r][2]) /\ leg[r][1].step \notin {"soft", "hard"} /\ Becomes(r, 2, "done", "gone")
  BY <1>1, <1>3, Ending DEF Outs
<1>5. Sound(r)'
  BY <1>1, <1>2, <1>4 DEF Active, Sound, LegAlone, LegsTogether, Becomes, Hops, NoLeg
<1> QED BY <1>2, <1>4, <1>5, OneRequest DEF Becomes

LEMMA Arriving ==
  ASSUME RouteInv, NEW r \in Chats, NEW p \in Proxies, ChatArrives(r, p)
  PROVE  RouteInv'
<1>1. LegAlone(r, 1) /\ LegAlone(r, 2) /\ LegsTogether(r) /\ RouteTypeOK /\ 1 \in Hops /\ 2 \in Hops
  BY DEF RouteInv, Hops
<1>2. UNCHANGED <<backend, lent, alive, crashes, reached>> /\ leg[r][1] = NoLeg
  BY DEF ChatArrives, machines
<1>3. leg' = [leg EXCEPT ![r] = [leg[r] EXCEPT ![1] = [at |-> p, step |-> "route", out |-> "nothing"]]]
  BY <1>1 DEF ChatArrives, RouteTypeOK
<1>4. [at |-> p, step |-> "route", out |-> "nothing"] \in Leg BY DEF Leg, LegSteps, Outs
<1>5. leg' \in [Chats -> [Hops -> Leg]] /\ \A q \in Chats \ {r} : leg'[q] = leg[q]
  BY <1>1, <1>3, <1>4 DEF RouteTypeOK
<1>6. /\ leg'[r][1] = [at |-> p, step |-> "route", out |-> "nothing"]
      /\ leg'[r][2] = leg[r][2] /\ leg'[r][3] = leg[r][3]
  BY <1>1, <1>3 DEF RouteTypeOK, Hops
<1>7. /\ steady' \in [Chats -> SUBSET Proxies] /\ steady'[r] = {q \in Proxies : Serves(q)}
      /\ \A q \in Chats \ {r} : steady'[q] = steady[q]
  BY <1>1 DEF ChatArrives, RouteTypeOK
<1>8. guarded' \in [Chats -> BOOLEAN] BY <1>1 DEF ChatArrives, RouteTypeOK
<1>9. ASSUME NEW q \in Chats PROVE Sound(q)'
  <2>1. CASE q = r
    BY <1>1, <1>2, <1>6, <2>1 DEF Sound, LegAlone, LegsTogether, NoLeg
  <2>2. CASE q # r
    BY <1>2, <1>5, <1>7, <2>2 DEF RouteInv, Sound, LegAlone, LegsTogether
  <2> QED BY <2>1, <2>2
<1>10. \A q \in Chats, i \in Hops : leg'[q][i].step = "none" => leg'[q][i] = NoLeg
  BY <1>9 DEF Sound, LegAlone, LegsTogether, Hops
<1>11. RouteTypeOK' BY <1>1, <1>2, <1>5, <1>7, <1>8, <1>10 DEF RouteTypeOK
<1>12. \A q \in Chats : \A s \in steady'[q] : Serves(s)' 
  BY <1>2, <1>7 DEF RouteInv, Serves
<1> QED BY <1>9, <1>11, <1>12 DEF RouteInv, Sound

\* A machine that changes only ever serves fewer of the requests that are under way.
LEMMA MachineSteps ==
  ASSUME RouteInv, NEW p \in Proxies,
         BackendChanges(p) \/ LeaseChanges(p) \/ ProxyDies(p) \/ ProxyStarts(p)
  PROVE  RouteInv'
<1>1. RouteTypeOK /\ \A r \in Chats : LegAlone(r, 1) /\ LegAlone(r, 2) /\ LegsTogether(r)
  BY DEF RouteInv
<1>2. UNCHANGED <<guarded, reached>>
  BY DEF BackendChanges, LeaseChanges, ProxyDies, ProxyStarts, arrival
<1>3. /\ backend' \in [Proxies -> {"off", "loading", "up"}] /\ lent' \in [Proxies -> BOOLEAN]
      /\ alive' \in [Proxies -> BOOLEAN] /\ crashes' \in 0..MaxCrashes
  <2>1. CASE BackendChanges(p) BY <1>1, <2>1 DEF BackendChanges, RouteTypeOK
  <2>2. CASE LeaseChanges(p) BY <1>1, <2>2 DEF LeaseChanges, RouteTypeOK
  <2>3. CASE ProxyDies(p) BY <1>1, <2>3, RoutesAssumption DEF ProxyDies, RouteTypeOK
  <2>4. CASE ProxyStarts(p) BY <1>1, <2>4 DEF ProxyStarts, RouteTypeOK
  <2> QED BY <2>1, <2>2, <2>3, <2>4
<1>4. /\ steady' \in [Chats -> SUBSET Proxies]
      /\ \A r \in Chats : steady'[r] \subseteq steady[r] /\ \A s \in steady'[r] : Serves(s)' 
  <2>1. CASE Steady BY <1>1, <2>1 DEF Steady, RouteTypeOK
  <2>2. CASE ProxyStarts(p) BY <1>1, <2>2 DEF ProxyStarts, arrival, RouteInv, RouteTypeOK, Serves
  <2> QED BY <2>1, <2>2 DEF BackendChanges, LeaseChanges, ProxyDies
<1>5. /\ leg' \in [Chats -> [Hops -> Leg]]
      /\ \A r \in Chats, i \in Hops :
           leg'[r][i] = leg[r][i] \/ (Active(leg[r][i]) /\ leg'[r][i] = Broken(leg[r][i]))
  <2>1. CASE leg' = leg BY <1>1, <2>1 DEF RouteTypeOK
  <2>2. CASE ProxyDies(p)
    <3>1. \A l \in Leg : Broken(l) \in Leg BY DEF Broken, Leg, LegSteps, Outs
    <3>2. \A r \in Chats, i \in Hops : leg[r][i] \in Leg BY <1>1 DEF RouteTypeOK
    <3> QED BY <2>2, <3>1, <3>2 DEF ProxyDies
  <2> QED BY <2>1, <2>2 DEF BackendChanges, LeaseChanges, ProxyStarts
<1>6. ASSUME NEW r \in Chats PROVE Sound(r)'
  <2>1. \A i \in Hops : leg[r][i] \in Leg BY <1>1 DEF RouteTypeOK
  <2>2. \A i \in Hops :
          \/ leg'[r][i] = leg[r][i]
          \/ /\ Active(leg[r][i]) /\ leg'[r][i].at = leg[r][i].at /\ leg'[r][i].step = "done"
             /\ leg'[r][i].out = IF leg[r][i].out = "nothing" THEN "empty" ELSE "cut"
    <3>1. \A l \in Leg : /\ Broken(l).at = l.at /\ Broken(l).step = "done"
                         /\ Broken(l).out = IF l.out = "nothing" THEN "empty" ELSE "cut"
      BY DEF Broken, Leg
    <3> QED BY <1>5, <2>1, <3>1
  <2>3. 1 \in Hops /\ 2 \in Hops /\ 3 \in Hops BY DEF Hops
  <2> QED BY <1>1, <1>2, <1>4, <2>2, <2>3 DEF Active, Sound, LegAlone, LegsTogether, NoLeg
<1>7. \A q \in Chats, i \in Hops : leg'[q][i].step = "none" => leg'[q][i] = NoLeg
  BY <1>6 DEF Sound, LegAlone, LegsTogether, Hops
<1>8. RouteTypeOK' BY <1>1, <1>2, <1>3, <1>4, <1>5, <1>7 DEF RouteTypeOK
<1> QED BY <1>4, <1>6, <1>8 DEF RouteInv, Sound

LEMMA RouteInvHolds == RouteSpec => []RouteInv
<1>1. RouteInit => RouteInv
  BY RoutesAssumption
  DEF RouteInit, RouteInv, RouteTypeOK, LegAlone, LegsTogether, NoLeg, Leg, LegSteps, Outs, Hops
<1>2. RouteInv /\ [RouteNext]_routeVars => RouteInv'
  <2> SUFFICES ASSUME RouteInv, [RouteNext]_routeVars PROVE RouteInv' OBVIOUS
  <2>1. CASE UNCHANGED routeVars
    BY <2>1 DEF routeVars, RouteInv, RouteTypeOK, LegAlone, LegsTogether, Serves
  <2>2. CASE \E r \in Chats, i \in {1, 2} : Serve(r, i)
    BY <2>2, RouteSteps, LocalSteps, ForwardSteps, LeavingSteps DEF Serve, Route
  <2> QED BY <2>1, <2>2, Arriving, MachineSteps, LeavingSteps DEF RouteNext
<1> QED BY <1>1, <1>2, PTL DEF RouteSpec

------------------------------------------------------------------------------
(* What the client sees *)

\* Every leg is a leg, and what was never sent stays empty.
THEOREM RouteIsTyped == RouteSpec => []RouteTypeOK
<1>1. RouteInv => RouteTypeOK BY DEF RouteInv
<1> QED BY <1>1, RouteInvHolds, PTL

\* Any number of machines that are each other's fallback, in a ring or in pairs: a request
\* passes at most two of them.
THEOREM OneHopIsAll == RouteSpec => []OneHop
<1>1. RouteInv => OneHop BY DEF RouteInv, LegsTogether, OneHop
<1> QED BY <1>1, RouteInvHolds, PTL

\* An error that no backend gave means that, at some time since the request came, its own
\* machine could not serve and, at some time, neither could the fallback.
THEOREM ErrorsAreTrue == RouteSpec => []ErrorMeansNobody
<1>1. RouteInv => ErrorMeansNobody
  <2> SUFFICES ASSUME RouteInv, NEW r \in Chats, leg[r][1].out = "error", ~reached[r]
               PROVE  steady[r] \cap {leg[r][1].at, Fallback[leg[r][1].at]} = {}
    BY DEF ErrorMeansNobody
  <2>1. LegAlone(r, 1) /\ LegsTogether(r) BY DEF RouteInv
  <2> QED BY <2>1 DEF LegAlone, LegsTogether
<1> QED BY <1>1, RouteInvHolds, PTL

\* The client's reply comes from one backend: a request is not served here once some of the
\* fallback's answer is out.
THEOREM OneBackendAnswers == RouteSpec => []OneAnswer
<1>1. RouteInv => OneAnswer BY DEF RouteInv, LegAlone, OneAnswer
<1> QED BY <1>1, RouteInvHolds, PTL

\* Softly, the fallback can only be an answer more: it never costs the client its reply
\* while the proxy it asked runs.
THEOREM SoftForwardIsFree == RouteSpec => SoftNeverFails
<1> DEFINE Free == \A r \in Chats :
       leg[r][1].step = "soft" /\ leg'[r][1].out \in {"error", "empty"} => ~alive'[leg[r][1].at]
<1>1. RouteInv /\ [RouteNext]_routeVars => Free
  <2> SUFFICES ASSUME RouteInv, [RouteNext]_routeVars, NEW r \in Chats,
                      leg[r][1].step = "soft", leg'[r][1].out \in {"error", "empty"}
               PROVE  ~alive'[leg[r][1].at]
    OBVIOUS
  <2>1. LegAlone(r, 1) /\ LegAlone(r, 2) /\ LegsTogether(r) /\ RouteTypeOK /\ 1 \in Hops /\ 2 \in Hops
    BY DEF RouteInv, Hops
  <2>2. leg'[r][1] # leg[r][1] BY <2>1 DEF LegAlone
  <2>3. CASE \E p \in Proxies : ProxyDies(p)
    BY <2>1, <2>2, <2>3 DEF ProxyDies, RouteTypeOK
  <2>4. ASSUME NEW q \in Chats, NEW i \in {1, 2}, Serve(q, i) PROVE FALSE
    <3>1. i \in Hops /\ leg[q] \in [Hops -> Leg] /\ leg[r] \in [Hops -> Leg] /\ leg[r][1] \in Leg
      BY <2>1 DEF RouteTypeOK, Hops
    <3>2. q = r /\ i = 1
      <4>1. CASE ForwardConnect(q, i)
        <5>1. leg'[q][1] = leg[q][1] /\ (q # r => leg'[r] = leg[r])
          BY <2>1, <3>1, <4>1 DEF ForwardConnect, RouteTypeOK
        <5> QED BY <2>2, <5>1
      <4>2. CASE \/ \E to \in LegSteps : Goes(q, i, to)
                 \/ \E out \in Outs : LegEnds(q, i, out)
        BY <2>1, <2>2, <3>1, <4>2, Going, Ending DEF Becomes
      <4>3. CASE LocalHead(q, i)
        <5>1. Becomes(q, i, "stream", "head") BY <2>1, <3>1, <4>3, Heading DEF LocalHead
        <5> QED BY <2>1, <2>2, <3>1, <5>1 DEF Becomes
      <4>4. CASE ForwardHead(q, i)
        <5>1. /\ \A j \in Hops \ {i} : leg'[q][j] = leg[q][j]
              /\ q # r => leg'[r] = leg[r]
          BY <2>1, <3>1, <4>4 DEF ForwardHead, RouteTypeOK
        <5> QED BY <2>1, <2>2, <5>1
      <4>5. leg[q][i].out \in Outs /\ (i = 1 => leg[q][2].out \in Outs) BY <2>1, <3>1 DEF Leg
      <4>6. i = 2 => leg[q][2].step \notin {"soft", "hard"} BY DEF RouteInv, LegsTogether
      <4>7. CASE ForwardRefused(q, i) \/ ForwardTimeout(q, i) \/ ForwardEnd(q, i)
        BY <4>2, <4>5, <4>6, <4>7
        DEF ForwardRefused, ForwardTimeout, ForwardEnd, ForwardGivesUp, Forwarding, LegSteps, Outs
      <4>8. CASE Route(q, i) \/ LegOrphaned(q, i)
        BY <4>2, <4>8 DEF Route, RouteLent, RouteRefuse, RouteSoft, RouteLocal, LegOrphaned, LegSteps, Outs
      <4>9. CASE Local(q, i)
        BY <4>2, <4>3, <4>9
        DEF Local, LocalRefused, LocalLoading, LocalConnect, LocalWhole, LocalEnds, LocalFails, LegSteps, Outs
      <4> QED BY <2>4, <4>1, <4>4, <4>7, <4>8, <4>9 DEF Serve, Forward
    <3>3. CASE ForwardRefused(r, 1) \/ ForwardTimeout(r, 1)
      <4>1. Becomes(r, 1, "done", "cut") \/ (leg[r][1].out = "nothing" /\ Becomes(r, 1, "connect", leg[r][1].out))
        BY <2>1, <3>1, <3>3, Going, Ending
        DEF ForwardRefused, ForwardTimeout, ForwardGivesUp, LegSteps, Outs, Leg
      <4> QED BY <4>1 DEF Becomes
    <3>4. CASE ForwardHead(r, 1)
      <4>1. leg'[r][1].out = "head" BY <2>1, <3>1, <3>4 DEF ForwardHead, RouteTypeOK, Leg
      <4> QED BY <4>1
    <3>5. CASE ForwardEnd(r, 1)
      <4>1. leg[r][1].out = "head" => leg[r][2].out \notin {"error", "empty"} BY <2>1 DEF LegsTogether
      <4>2. leg[r][2].out \in Outs /\ leg[r][1].out \in {"nothing", "head"}
        BY <2>1, <3>1 DEF LegAlone, Leg
      <4>3. \/ leg[r][1].out = "nothing" /\ Becomes(r, 1, "connect", leg[r][1].out)
            \/ leg[r][2].out \notin {"error", "empty"} /\ Becomes(r, 1, "done", leg[r][2].out)
        BY <2>1, <3>5, <4>1, <4>2, Going, Ending DEF ForwardEnd, LegSteps
      <4> QED BY <4>3 DEF Becomes
    <3>6. CASE ForwardConnect(r, 1)
      <4>1. leg'[r][1] = leg[r][1] BY <2>1, <3>1, <3>6 DEF ForwardConnect, RouteTypeOK
      <4> QED BY <2>2, <4>1
    <3> QED BY <2>4, <3>2, <3>3, <3>4, <3>5, <3>6
            DEF Serve, Forward, Route, RouteLent, RouteRefuse, RouteSoft, RouteLocal, LegOrphaned,
                Local, LocalRefused, LocalLoading, LocalConnect, LocalHead, LocalWhole, LocalEnds, LocalFails
  <2>5. CASE \E q \in Chats : ChatLeaves(q) \/ \E p \in Proxies : ChatArrives(q, p)
    <3>1. PICK q \in Chats : ChatLeaves(q) \/ \E p \in Proxies : ChatArrives(q, p) BY <2>5
    <3>2. CASE ChatLeaves(q)
      <4>1. Becomes(q, 1, "done", "gone") BY <2>1, <3>2, Ending DEF ChatLeaves, Outs
      <4>2. q = r BY <2>2, <4>1 DEF Becomes
      <4> QED BY <4>1, <4>2 DEF Becomes
    <3>3. CASE \E p \in Proxies : ChatArrives(q, p)
      <4>1. leg[q][1] = NoLeg /\ (q # r => leg'[r] = leg[r])
        BY <2>1, <3>3 DEF ChatArrives, RouteTypeOK
      <4> QED BY <2>2, <4>1 DEF NoLeg
    <3> QED BY <3>1, <3>2, <3>3
  <2> QED BY <2>2, <2>3, <2>4, <2>5 DEF RouteNext, BackendChanges, LeaseChanges, ProxyStarts, routeVars
<1> QED BY <1>1, RouteInvHolds, PTL DEF RouteSpec, SoftNeverFails

------------------------------------------------------------------------------
(* The threads of the transcription sidecar *)

Holders == {t \in Requests : Holding(t)}
Counted == step \in [Requests -> Steps] /\ inflight = Cardinality(Holders)

LEMMA HoldersFinite == IsFiniteSet(Holders) /\ Cardinality(Holders) \in Nat
  BY TranscribeAssumption, FS_Subset, FS_CardinalityType DEF Holders

\* A thread that gets its engine is one more holder.
LEMMA OneMore ==
  ASSUME NEW t \in Requests, Counted, step[t] = "in", Go(t, "ready"), inflight' = inflight + 1
  PROVE  Counted'
<1>1. step' \in [Requests -> Steps] BY DEF Counted, Go, Steps
<1>2. Holders' = Holders \cup {t} BY DEF Counted, Go, Holders, Holding
<1>3. t \notin Holders BY DEF Holders, Holding
<1>4. Cardinality(Holders \cup {t}) = Cardinality(Holders) + 1 BY <1>3, HoldersFinite, FS_AddElement
<1> QED BY <1>1, <1>2, <1>4 DEF Counted

\* One that leaves is one less, and the counter was not 0.
LEMMA OneLess ==
  ASSUME NEW t \in Requests, Counted, step[t] = "leaving", NEW s \in {"told", "failing"}, Go(t, s),
         inflight' = IF inflight > 0 THEN inflight - 1 ELSE 0
  PROVE  Counted'
<1>1. step' \in [Requests -> Steps] BY DEF Counted, Go, Steps
<1>2. Holders' = Holders \ {t} BY DEF Counted, Go, Holders, Holding
<1>3. t \in Holders BY DEF Holders, Holding
<1>4. Cardinality(Holders \ {t}) = Cardinality(Holders) - 1 BY <1>3, HoldersFinite, FS_RemoveElement
<1>5. Cardinality(Holders) # 0 BY <1>3, HoldersFinite, FS_EmptySet
<1>6. inflight > 0 BY <1>5, HoldersFinite DEF Counted
<1> QED BY <1>1, <1>2, <1>4, <1>6 DEF Counted

\* A thread that moves and neither gets nor gives back an engine.
LEMMA Moved ==
  ASSUME NEW t \in Requests, Counted, NEW s \in Steps, Go(t, s), UNCHANGED inflight,
         step[t] \in {"ready", "calling", "leaving"} <=> s \in {"ready", "calling", "leaving"}
  PROVE  Counted'
<1>1. step' \in [Requests -> Steps] BY DEF Counted, Go
<1>2. Holders' = Holders BY DEF Counted, Go, Holders, Holding
<1> QED BY <1>1, <1>2 DEF Counted

LEMMA Unmoved == Counted /\ UNCHANGED <<step, inflight>> => Counted'
  BY DEF Counted, Holders, Holding

LEMMA CountedInit == TranscribeInit => Counted
<1> SUFFICES ASSUME TranscribeInit PROVE Counted OBVIOUS
<1>1. Holders = {} BY DEF TranscribeInit, Holders, Holding
<1> QED BY <1>1, FS_EmptySet DEF TranscribeInit, Counted, Steps

LEMMA CountedWork ==
  ASSUME Counted, NEW t \in Requests, Arrive(t) \/ Work(t) \/ Delete(t)
  PROVE  Counted'
<1>1. CASE Arrive(t) BY <1>1, Moved DEF Arrive, Steps, manager
<1>2. CASE Begin(t) BY <1>2, Moved DEF Begin, Steps, manager
<1>3. CASE Enter(t) BY <1>3, Moved DEF Enter, Steps, manager
<1>4. CASE AcquireResident(t) BY <1>4, OneMore DEF AcquireResident
<1>5. CASE AcquireLoad(t) BY <1>5, OneMore DEF AcquireLoad
<1>6. CASE AcquireFails(t) BY <1>6, Moved DEF AcquireFails, Steps
<1>7. CASE Call(t) BY <1>7, Moved DEF Call, Steps, manager
<1>8. CASE CallFails(t) BY <1>8, Moved DEF CallFails, Steps, manager
<1>9. CASE Returns(t)
  <2>1. PICK s \in {"ready", "leaving"} : Go(t, s) BY <1>9 DEF Returns
  <2> QED BY <1>9, <2>1, Moved DEF Returns, Steps, manager
<1>10. CASE Release(t)
  <2>1. PICK s \in {"told", "failing"} : Go(t, s) BY <1>10 DEF Release
  <2> QED BY <1>10, <2>1, OneLess DEF Release
<1>11. CASE Report(t) BY <1>11, Moved DEF Report, Steps, manager
<1>12. CASE CleanUp(t) BY <1>12, Moved DEF CleanUp, Steps, manager
<1>13. CASE Delete(t) BY <1>13, Unmoved DEF Delete, manager
<1> QED
  BY <1>1, <1>2, <1>3, <1>4, <1>5, <1>6, <1>7, <1>8, <1>9, <1>10, <1>11, <1>12, <1>13 DEF Work

LEMMA CountedStep == Counted /\ [TranscribeNext]_transcribeVars => Counted'
<1> SUFFICES ASSUME Counted, [TranscribeNext]_transcribeVars PROVE Counted' OBVIOUS
<1>1. CASE \E t \in Requests : Arrive(t) \/ Work(t) \/ Delete(t) BY <1>1, CountedWork
<1>2. CASE Sweep \/ Unload BY <1>2, Unmoved DEF Sweep, Unload, Freed, request
<1>3. CASE TimePasses \/ RouterEvicts BY <1>3, Unmoved DEF TimePasses, RouterEvicts, request, manager
<1>4. CASE UNCHANGED transcribeVars BY <1>4, Unmoved DEF transcribeVars
<1> QED BY <1>1, <1>2, <1>3, <1>4 DEF TranscribeNext

\* ModelManager._inflight counts the threads between acquire() and release(), for
\* any number of requests, models and decodes at once.
THEOREM InflightCounts == TranscribeSpec => []Counted
  BY CountedInit, CountedStep, PTL DEF TranscribeSpec

\* The sweeper never unloads the engine of a request between acquire() and release().
THEOREM DecodesSpared == TranscribeSpec => SweepSparesDecodes
<1>1. Counted /\ Sweep => \A t \in Requests : ~Holding(t)
  <2> SUFFICES ASSUME Counted, Sweep PROVE Holders = {} BY DEF Holders
  <2>1. Cardinality(Holders) = 0 BY DEF Counted, Sweep
  <2> QED BY <2>1, HoldersFinite, FS_EmptySet
<1>2. Counted /\ [TranscribeNext]_transcribeVars => [Sweep => \A t \in Requests : ~Holding(t)]_transcribeVars BY <1>1
<1> QED BY <1>2, InflightCounts, PTL DEF TranscribeSpec, SweepSparesDecodes

------------------------------------------------------------------------------
(* What is on the GPU *)

Placed ==
  /\ step \in [Requests -> Steps] /\ ref \in [Requests -> Refs \cup {None}]
  /\ engine \in [Requests -> {"none", "loaded", "unloaded", "failed"}]
  /\ resident \in Refs \cup {None}
  /\ router \in {"empty", "holds"} /\ overlap \in BOOLEAN /\ unyielded \in BOOLEAN

\* Requests that were not let in together are inside one at a time.
Alone == ~overlap => \A t, u \in Requests : Inside(t) /\ Inside(u) => t = u

\* An engine whose model is there is the resident one, and somebody holds it.
EngineIsResident ==
  \A t \in Requests : engine[t] = "loaded" => Holding(t) /\ resident = ref[t]

\* A call whose engine was unloaded under it.
Orphan(t) == step[t] = "calling" /\ engine[t] = "unloaded" /\ ref[t] \in Models

\* llama-router's audio model stands beside no local model, and the weights of an orphaned
\* call beside neither, but for requests let in together and a router not made to yield.
OneModel ==
  /\ ~unyielded /\ router = "holds" => resident \notin Models
  /\ ~overlap => \A t \in Requests :
       Orphan(t) => resident \notin Models /\ (unyielded \/ router # "holds")

GpuInv == Placed /\ Alone /\ EngineIsResident /\ OneModel

LEMMA GpuInit == TranscribeInit => GpuInv
  BY TranscribeAssumption
  DEF TranscribeInit, GpuInv, Placed, Alone, EngineIsResident, OneModel, Steps, Inside, Orphan, Refs

\* A request outside the manager's guard moves on, or a record changes.
LEMMA GpuOutside ==
  ASSUME GpuInv, NEW t \in Requests,
         Arrive(t) \/ Begin(t) \/ Report(t) \/ CleanUp(t) \/ Delete(t)
  PROVE  GpuInv'
<1> USE DEF GpuInv
<1>1. /\ ~Inside(t) \/ UNCHANGED <<step, ref>>
      /\ UNCHANGED <<engine, resident, router, overlap, unyielded>>
      /\ \A u \in Requests \ {t} : step'[u] = step[u] /\ ref'[u] = ref[u]
      /\ ~Inside(t)' \/ UNCHANGED <<step, ref>>
      /\ step' \in [Requests -> Steps] /\ ref' \in [Requests -> Refs \cup {None}]
  BY DEF Placed, Arrive, Begin, Report, CleanUp, Delete, Go, Inside, manager, history, Steps
<1>2. Placed' BY <1>1 DEF Placed
<1>3. \A u \in Requests : Inside(u)' <=> Inside(u) BY <1>1 DEF Inside
<1>4. Alone' BY <1>1, <1>3 DEF Alone
<1>5. \A u \in Requests : Inside(u) => step'[u] = step[u] /\ ref'[u] = ref[u] BY <1>1
<1>6. EngineIsResident' BY <1>1, <1>5 DEF EngineIsResident, Holding, Inside
<1>7. \A u \in Requests : Orphan(u)' => Orphan(u) BY <1>1, <1>3, <1>5 DEF Orphan, Inside
<1>8. OneModel' BY <1>1, <1>7 DEF OneModel
<1> QED BY <1>2, <1>4, <1>6, <1>8

\* A request is let in.
LEMMA GpuEnter ==
  ASSUME GpuInv, NEW t \in Requests, Enter(t)
  PROVE  GpuInv'
<1> USE DEF GpuInv, Placed, manager
<1>1. Placed' BY DEF Enter, Go, Steps
<1>2. \A u \in Requests \ {t} : step'[u] = step[u] BY DEF Enter, Go
<1>3. step'[t] = "in" /\ step[t] = "waiting" BY DEF Enter, Go
<1>4. Alone' BY <1>2 DEF Alone, Enter, Inside
<1>5. EngineIsResident' BY <1>2, <1>3 DEF EngineIsResident, Holding, Enter
<1>6. \A u \in Requests : Orphan(u)' => Orphan(u) BY <1>2, <1>3 DEF Orphan, Enter
<1>7. OneModel' BY <1>6 DEF OneModel, Enter
<1> QED BY <1>1, <1>4, <1>5, <1>7

\* acquire(): the resident engine, another one, or a load that fails.
LEMMA GpuAcquire ==
  ASSUME GpuInv, NEW t \in Requests, AcquireResident(t) \/ AcquireLoad(t) \/ AcquireFails(t)
  PROVE  GpuInv'
<1> USE TranscribeAssumption DEF GpuInv
<1>1. \A u \in Requests \ {t} : step'[u] = step[u]
  BY DEF Placed, AcquireResident, AcquireLoad, AcquireFails, Go
<1>2. step[t] = "in" /\ UNCHANGED ref BY DEF AcquireResident, AcquireLoad, AcquireFails
<1>3. Inside(t) BY <1>2 DEF Inside
<1>4. CASE AcquireResident(t)
  <2>1. /\ step' \in [Requests -> Steps] /\ step'[t] = "ready" /\ resident = ref[t]
        /\ engine' = [engine EXCEPT ![t] = "loaded"]
        /\ UNCHANGED <<ref, resident, router, overlap, unyielded>>
    BY <1>4 DEF AcquireResident, Placed, Go, Steps, history
  <2>2. Placed' BY <2>1 DEF Placed
  <2>3. Alone' BY <1>1, <1>3, <2>1 DEF Alone, Inside
  <2>4. EngineIsResident' BY <1>1, <2>1 DEF EngineIsResident, Holding, Placed
  <2>5. \A u \in Requests : Orphan(u)' => Orphan(u) BY <1>1, <2>1 DEF Orphan, Placed
  <2>6. OneModel' BY <2>1, <2>5 DEF OneModel
  <2> QED BY <2>2, <2>3, <2>4, <2>6
<1>5. ASSUME NEW u \in Requests, Orphan(u)' PROVE overlap' /\ u # t
  <2>1. u # t /\ Inside(u)
    BY <1>1, <1>5 DEF Orphan, Inside, Placed, AcquireResident, AcquireLoad, AcquireFails, Go
  <2>2. overlap BY <1>3, <2>1 DEF Alone, Placed
  <2> QED BY <2>1, <2>2 DEF AcquireResident, AcquireLoad, AcquireFails, history
<1>6. Yield(t) => /\ router' \in {"empty", "holds"} /\ unyielded' \in BOOLEAN
                  /\ ref[t] # Router /\ ~unyielded' => router' = "empty"
  BY DEF Yield, Placed
<1>7. CASE AcquireLoad(t)
  <2>1. /\ step' \in [Requests -> Steps] /\ step'[t] = "ready" /\ resident' = ref[t]
        /\ UNCHANGED <<ref, overlap>> /\ Yield(t)
        /\ engine' = [Unloaded EXCEPT ![t] = "loaded"]
    BY <1>7 DEF AcquireLoad, Placed, Go, Steps
  <2>2. \A u \in Requests \ {t} : engine'[u] \in {"none", "unloaded", "failed"}
    BY <2>1 DEF Placed, Unloaded
  <2>3. Placed' BY <1>6, <2>1 DEF Placed, Unloaded
  <2>4. Alone' BY <1>1, <1>3, <2>1 DEF Alone, Inside
  <2>5. EngineIsResident' BY <2>1, <2>2 DEF EngineIsResident, Holding
  <2>6. OneModel' BY <1>5, <1>6, <2>1 DEF OneModel
  <2> QED BY <2>3, <2>4, <2>5, <2>6
<1>8. CASE AcquireFails(t)
  <2>1. /\ step' \in [Requests -> Steps] /\ step'[t] = "failing" /\ resident' = None
        /\ UNCHANGED ref /\ Yield(t) /\ engine' = Unloaded
        /\ overlap' = (overlap /\ \E u \in Requests \ {t} : Inside(u))
    BY <1>8 DEF AcquireFails, Placed, Go, Steps
  <2>2. \A u \in Requests : engine'[u] \in {"none", "unloaded", "failed"}
    BY <2>1 DEF Placed, Unloaded
  <2>3. Placed' BY <1>6, <2>1 DEF Placed, Unloaded
  <2>4. Alone' BY <1>1, <1>3, <2>1 DEF Alone, Inside
  <2>5. EngineIsResident' BY <2>2 DEF EngineIsResident
  <2>6. OneModel' BY <1>5, <2>1 DEF OneModel
  <2> QED BY <2>3, <2>4, <2>5, <2>6
<1> QED BY <1>4, <1>7, <1>8

\* The decode, and release().
LEMMA GpuDecode ==
  ASSUME GpuInv, NEW t \in Requests, Call(t) \/ CallFails(t) \/ Returns(t) \/ Release(t)
  PROVE  GpuInv'
<1> USE TranscribeAssumption DEF GpuInv
<1>1. /\ \A u \in Requests \ {t} : step'[u] = step[u] /\ engine'[u] = engine[u]
      /\ step' \in [Requests -> Steps] /\ UNCHANGED <<ref, resident, unyielded>>
      /\ engine' \in [Requests -> {"none", "loaded", "unloaded", "failed"}]
  BY DEF Placed, Call, CallFails, Returns, Release, Go, Steps, manager, history
<1>2. Inside(t) /\ step[t] # "in" BY DEF Call, CallFails, Returns, Release, Inside
<1>3. engine'[t] = "loaded" => engine[t] = "loaded" /\ step'[t] \in {"ready", "calling", "leaving"}
  BY DEF Placed, Call, CallFails, Returns, Release, Go
<1>4. EngineIsResident' BY <1>1, <1>3 DEF EngineIsResident, Holding
<1>5. ~Orphan(t)' BY DEF Placed, Orphan, Call, CallFails, Returns, Release, Go
<1>6. \A u \in Requests : Orphan(u)' => Orphan(u) BY <1>1, <1>5 DEF Orphan
<1>7. CASE Release(t)
  <2>1. /\ ~Inside(t)' /\ UNCHANGED router
        /\ overlap' = (overlap /\ \E u \in Requests \ {t} : Inside(u))
    BY <1>7 DEF Placed, Release, Go, Inside
  <2>2. Placed' BY <1>1, <2>1 DEF Placed
  <2>3. Alone' BY <1>1, <2>1 DEF Alone, Inside
  <2>4. OneModel'
    <3>1. ASSUME NEW u \in Requests, Orphan(u)', ~overlap' PROVE ~overlap
      BY <1>1, <1>5, <2>1, <3>1 DEF Orphan, Inside
    <3> QED BY <1>1, <1>6, <2>1, <3>1 DEF OneModel
  <2> QED BY <1>4, <2>2, <2>3, <2>4
<1>8. CASE ~Release(t)
  <2>1. Inside(t)' /\ UNCHANGED overlap
    BY <1>8 DEF Placed, Call, CallFails, Returns, Go, Inside, history
  <2>2. Alone' BY <1>1, <1>2, <2>1 DEF Alone, Inside
  <2>3. CASE Call(t)
    <3>1. engine[t] = "loaded" /\ router' = IF ref[t] = Router THEN "holds" ELSE router
      BY <2>3 DEF Call
    <3>2. resident = ref[t] BY <3>1 DEF EngineIsResident
    <3>3. Placed' BY <1>1, <2>1, <3>1 DEF Placed
    <3>4. ~overlap => \A u \in Requests : ~Orphan(u)'
      BY <1>1, <1>2, <1>5 DEF Alone, Orphan, Inside
    <3>5. OneModel' BY <1>1, <2>1, <3>1, <3>2, <3>4 DEF OneModel
    <3> QED BY <1>4, <2>2, <3>3, <3>5
  <2>4. CASE ~Call(t)
    <3>1. UNCHANGED router BY <1>8, <2>4 DEF CallFails, Returns
    <3>2. Placed' BY <1>1, <2>1, <3>1 DEF Placed
    <3>3. OneModel' BY <1>1, <1>6, <2>1, <3>1 DEF OneModel
    <3> QED BY <1>4, <2>2, <3>2, <3>3
  <2> QED BY <2>3, <2>4
<1> QED BY <1>7, <1>8

\* An engine is freed, under a call or not; time passes; llama-router evicts.
LEMMA GpuFreed ==
  ASSUME GpuInv, Sweep \/ Unload \/ TimePasses \/ RouterEvicts \/ UNCHANGED transcribeVars
  PROVE  GpuInv'
<1> USE TranscribeAssumption DEF GpuInv
<1>1. UNCHANGED <<step, ref, overlap>>
  BY DEF Sweep, Unload, Freed, TimePasses, RouterEvicts, request, history, transcribeVars
<1>2. Alone' BY <1>1 DEF Alone, Inside
<1>3. CASE Sweep \/ Unload
  <2>1. resident' = None /\ engine' = Unloaded /\ UNCHANGED <<router, unyielded>>
    BY <1>3 DEF Sweep, Unload, Freed, history
  <2>2. \A u \in Requests : engine'[u] \in {"none", "unloaded", "failed"}
    BY <2>1 DEF Placed, Unloaded
  <2>3. Placed' BY <1>1, <2>1 DEF Placed, Unloaded
  <2>4. EngineIsResident' BY <2>2 DEF EngineIsResident
  <2>5. ASSUME NEW u \in Requests, Orphan(u)', ~overlap PROVE unyielded \/ router # "holds"
    <3>1. Orphan(u) \/ (engine[u] = "loaded" /\ ref[u] \in Models)
      BY <1>1, <2>1, <2>5 DEF Orphan, Placed, Unloaded
    <3> QED BY <2>5, <3>1 DEF OneModel, EngineIsResident
  <2>6. OneModel' BY <1>1, <2>1, <2>5 DEF OneModel
  <2> QED BY <1>2, <2>3, <2>4, <2>6
<1>4. CASE ~(Sweep \/ Unload)
  <2>1. /\ UNCHANGED <<engine, resident>>
        /\ \/ UNCHANGED <<router, unyielded>>
           \/ router' = "empty" /\ unyielded' = FALSE
    BY <1>4 DEF TimePasses, RouterEvicts, request, manager, history, transcribeVars
  <2>2. Placed' BY <1>1, <2>1 DEF Placed
  <2>3. EngineIsResident' BY <1>1, <2>1 DEF EngineIsResident, Holding
  <2>4. OneModel' BY <1>1, <2>1 DEF OneModel, Orphan
  <2> QED BY <1>2, <2>2, <2>3, <2>4
<1> QED BY <1>3, <1>4

LEMMA GpuNext == GpuInv /\ [TranscribeNext]_transcribeVars => GpuInv'
  BY GpuOutside, GpuEnter, GpuAcquire, GpuDecode, GpuFreed DEF TranscribeNext, Work

\* What the invariant leaves on the GPU is one thing.
LEMMA OneIsEnough == GpuInv => OneOnGpu
<1> SUFFICES ASSUME GpuInv, ~overlap, ~unyielded PROVE Cardinality(OnGpu) <= 1 BY DEF OneOnGpu
<1>1. \A x, y \in OnGpu : x = y
  BY TranscribeAssumption DEF OnGpu, GpuInv, Placed, Alone, OneModel, Orphan, Inside
<1>2. CASE OnGpu = {} BY <1>2, FS_EmptySet
<1>3. CASE OnGpu # {}
  <2>1. PICK x \in OnGpu : TRUE BY <1>3
  <2>2. OnGpu = {x} BY <1>1, <2>1
  <2>3. Cardinality({x}) = 1 BY FS_Singleton
  <2> QED BY <2>2, <2>3
<1> QED BY <1>2, <1>3

\* Of the resident local model, the weights under an orphaned call and llama-router's audio
\* model at most one is on the GPU, but for requests let in together and a llama-router
\* that was not made to yield: for any number of requests and models.
THEOREM OneModelOnGpu == TranscribeSpec => []OneOnGpu
  BY GpuInit, GpuNext, OneIsEnough, PTL DEF TranscribeSpec

------------------------------------------------------------------------------
(* Types *)

Insiders == {t \in Requests : Inside(t)}
Recorded ==
  /\ job \in [Requests -> {"none", "queued", "running", "deleted"} \cup Finished]
  /\ file \in [Requests -> {"none", "spooled", "gone"}] /\ stale \in BOOLEAN
Fits == Cardinality(Insiders) <= Slots
TypeInv == GpuInv /\ Counted /\ Recorded /\ Fits

LEMMA InsidersFinite == IsFiniteSet(Insiders) /\ Cardinality(Insiders) \in Nat
  BY TranscribeAssumption, FS_Subset, FS_CardinalityType DEF Insiders

\* Only Enter lets a request in, and only below the semaphore's count.
LEMMA FitsStep == GpuInv /\ Fits /\ [TranscribeNext]_transcribeVars => Fits'
<1> SUFFICES ASSUME GpuInv, Fits, [TranscribeNext]_transcribeVars PROVE Fits' OBVIOUS
<1>1. CASE \E t \in Requests : Enter(t)
  <2>1. PICK t \in Requests : Enter(t) BY <1>1
  <2>2. Insiders' \in SUBSET (Insiders \cup {t}) BY <2>1 DEF Enter, Go, Insiders, Inside, GpuInv, Placed
  <2>3. t \notin Insiders BY <2>1 DEF Enter, Insiders, Inside
  <2>4. /\ Cardinality(Insiders \cup {t}) = Cardinality(Insiders) + 1
        /\ IsFiniteSet(Insiders \cup {t}) BY <2>3, InsidersFinite, FS_AddElement
  <2>5. Cardinality(Insiders') <= Cardinality(Insiders \cup {t}) /\ Cardinality(Insiders') \in Nat
    BY <2>2, <2>4, FS_Subset, FS_CardinalityType
  <2>6. Cardinality(Insiders) < Slots BY <2>1 DEF Enter, Insiders
  <2> QED BY <2>4, <2>5, <2>6, InsidersFinite, TranscribeAssumption DEF Fits
<1>2. CASE ~\E t \in Requests : Enter(t)
  <2>1. Insiders' \in SUBSET Insiders
    BY <1>2 DEF TranscribeNext, Work, Arrive, Begin, AcquireResident, AcquireLoad, AcquireFails, Call,
       CallFails, Returns, Release, Report, CleanUp, Delete, Sweep, Unload, Freed, TimePasses,
       RouterEvicts, request, transcribeVars, Go, Insiders, Inside, GpuInv, Placed
  <2>2. Cardinality(Insiders') <= Cardinality(Insiders) /\ Cardinality(Insiders') \in Nat
    BY <2>1, InsidersFinite, FS_Subset, FS_CardinalityType
  <2> QED BY <2>2, InsidersFinite, TranscribeAssumption DEF Fits
<1> QED BY <1>1, <1>2

LEMMA RecordedStep == Recorded /\ [TranscribeNext]_transcribeVars => Recorded'
<1> SUFFICES ASSUME Recorded, [TranscribeNext]_transcribeVars PROVE Recorded' OBVIOUS
<1>1. CASE \E t \in Requests : Arrive(t) BY <1>1 DEF Recorded, Finished, Arrive, manager
<1>2. CASE \E t \in Requests : Begin(t) \/ Report(t)
  BY <1>2 DEF Recorded, Finished, Begin, Report, Updated, manager
<1>3. CASE \E t \in Requests : CleanUp(t) \/ Delete(t)
  BY <1>3 DEF Recorded, Finished, CleanUp, Delete, manager
<1>4. ASSUME UNCHANGED <<job, file>>, stale' \in BOOLEAN PROVE Recorded' BY <1>4 DEF Recorded
<1>5. CASE \E t \in Requests : \/ Enter(t) \/ AcquireResident(t) \/ AcquireLoad(t) \/ AcquireFails(t)
                              \/ Call(t) \/ CallFails(t) \/ Returns(t) \/ Release(t)
  BY <1>4, <1>5 DEF Recorded, Enter, AcquireResident, AcquireLoad, AcquireFails, Call, CallFails,
     Returns, Release, manager
<1>6. CASE Sweep \/ Unload \/ TimePasses \/ RouterEvicts \/ UNCHANGED transcribeVars
  BY <1>4, <1>6 DEF Recorded, Sweep, Unload, Freed, TimePasses, RouterEvicts, request, manager,
     transcribeVars
<1> QED BY <1>1, <1>2, <1>3, <1>5, <1>6 DEF TranscribeNext, Work

LEMMA TypeInit == TranscribeInit => TypeInv
<1> SUFFICES ASSUME TranscribeInit PROVE TypeInv OBVIOUS
<1>1. Insiders = {} BY DEF TranscribeInit, Insiders, Inside
<1>2. Fits BY <1>1, FS_EmptySet, TranscribeAssumption DEF Fits
<1>3. Recorded BY DEF TranscribeInit, Recorded
<1> QED BY <1>2, <1>3, GpuInit, CountedInit DEF TypeInv

\* Every value of the sidecar is of its type, and the manager never counts more threads in
\* than TRANSCRIPT_MAX_CONCURRENCY.
THEOREM TranscribeIsTyped == TranscribeSpec => []TranscribeTypeOK
<1>1. TypeInv => TranscribeTypeOK
  <2> SUFFICES ASSUME TypeInv PROVE inflight \in 0..Slots
    BY DEF TypeInv, TranscribeTypeOK, GpuInv, Placed, Recorded
  <2>1. Holders \in SUBSET Insiders BY DEF Holders, Insiders, Holding, Inside
  <2>2. Cardinality(Holders) <= Cardinality(Insiders) BY <2>1, InsidersFinite, FS_Subset
  <2> QED BY <2>2, InsidersFinite, HoldersFinite, TranscribeAssumption DEF TypeInv, Counted, Fits
<1>2. TypeInv /\ [TranscribeNext]_transcribeVars => TypeInv'
  BY GpuNext, CountedStep, RecordedStep, FitsStep DEF TypeInv
<1> QED BY <1>1, <1>2, TypeInit, PTL DEF TranscribeSpec
=============================================================================
