---------------------------- MODULE BackendHeal ----------------------------
(***************************************************************************)
(* scripts/gpu-lease.py heal: a timer checks the chat backend once a       *)
(* minute and restarts a unit that runs but no longer serves, at most      *)
(* MaxRestarts times an hour.  heal shares its lock with the lease         *)
(* commands, which are here what heal can see of them: the lock, the lease *)
(* file and the unit.                                                      *)
(*                                                                         *)
(* A tick is one period of the timer.  Times are kept as ages, so that     *)
(* the clock needs no bound: the file keeps the ages of its restarts and   *)
(* of the first failing check, and drops what is an hour old when it is    *)
(* read.                                                                   *)
(***************************************************************************)
EXTENDS Integers, FiniteSets

CONSTANTS
  Hour,         \* ticks in the hour a restart counts for
  Grace,        \* HEAL_GRACE_SECONDS: a unit younger than this is still loading
  Confirm,      \* HEAL_CONFIRM_SECONDS between the two failing checks
  Ready,        \* BACKEND_READY_TIMEOUT: how long heal waits for /health
  MaxRestarts,  \* HEAL_MAX_PER_HOUR
  MaxCommands,  \* bound: lease commands
  MaxKills      \* bound: heal processes that die before they record their restart

ASSUME TimesAssumption ==
  /\ {Hour, Grace, Confirm, Ready} \subseteq Nat \ {0}
  /\ Ready < Hour
  /\ {MaxRestarts, MaxCommands, MaxKills} \subseteq Nat

VARIABLES
  lease,    \* the lease file exists
  lock,     \* who holds the lock: "free", "heal", "lease" (another command)
  unit,     \* the backend's unit is "active" or "inactive"
  age,      \* ticks since it became active, at most Grace
  health,   \* "off", "loading", "up", "latched"; only "up" answers /health with 200
  budget,     \* backend-heal.json
  healing,     \* the heal command: "idle", "restart", "ready"
  taken,    \* the age of the check that heal acts on
  due,      \* the timer has fired
  log,      \* ages of the restarts heal made in the last hour (history)
  good,     \* ticks since a check saw the backend answer, at most Confirm (history)
  commands, \* lease commands so far
  kills     \* kills so far

healVars == <<lease, lock, unit, age, health, budget, healing, taken, due, log, good, commands, kills>>
backendVars == <<unit, age, health>>
bounds == <<commands, kills>>

Never == -1
Ages == 0..(Hour - 1)
File == [restarts: SUBSET Ages, unhealthy: {Never} \cup 0..Confirm, gaveUp: BOOLEAN]

Capped(n, top) == IF n < top THEN n + 1 ELSE top
Older(ages) == {a + 1 : a \in ages} \cap Ages
OlderFile == [budget EXCEPT !.restarts = Older(@),
                          !.unhealthy = IF @ = Never THEN Never ELSE Capped(@, Confirm)]

Start == unit' = "active" /\ age' = 0 /\ health' = "loading"
Stop  == unit' = "inactive" /\ age' = 0 /\ health' = "off"

------------------------------------------------------------------------------
(* heal *)

\* Leaving the file without unhealthy_since, as done() does for all but "watching".
ForgetNothing == budget   \* mutant
Forget == [budget EXCEPT !.unhealthy = Never]

\* What stops a check before or at /health: a lease, a unit that is not active
\* or still loading, a 200.
HandsOff == lease \/ unit # "active" \/ age < Grace \/ health = "up"
Confirmed == budget.unhealthy # Never /\ budget.unhealthy >= Confirm

Check == due /\ lock = "free" /\ due' = FALSE
Seen == good' = IF unit = "active" /\ health = "up" /\ ~lease /\ age >= Grace THEN 0 ELSE good

HealNone ==
  /\ Check /\ HandsOff
  /\ budget' = Forget
  /\ Seen
  /\ UNCHANGED <<lease, lock, unit, age, health, healing, taken, log, bounds>>

HealWatch ==
  /\ Check /\ ~HandsOff /\ ~Confirmed
  /\ budget' = [budget EXCEPT !.unhealthy = IF @ = Never THEN 0 ELSE @]
  /\ UNCHANGED <<lease, lock, unit, age, health, healing, taken, log, good, bounds>>

HealGiveUp ==
  /\ Check /\ ~HandsOff /\ Confirmed
  /\ Cardinality(budget.restarts) >= MaxRestarts
  /\ budget' = [Forget EXCEPT !.gaveUp = TRUE]
  /\ UNCHANGED <<lease, lock, unit, age, health, healing, taken, log, good, bounds>>

\* Mutants: heal runs beside the other commands; one restart too many.
HealDecideUnlocked ==
  /\ Check /\ ~HandsOff /\ Confirmed
  /\ Cardinality(budget.restarts) < MaxRestarts
  /\ healing' = "restart" /\ taken' = 0
  /\ UNCHANGED <<lease, lock, unit, age, health, budget, log, good, bounds>>
HealDecideOnceMore ==
  /\ Check /\ ~HandsOff /\ Confirmed
  /\ Cardinality(budget.restarts) <= MaxRestarts
  /\ lock' = "heal" /\ healing' = "restart" /\ taken' = 0
  /\ UNCHANGED <<lease, unit, age, health, budget, log, good, bounds>>

\* Mutant: giving up is for good.
HealDecideUnlessGaveUp ==
  /\ Check /\ ~HandsOff /\ Confirmed
  /\ Cardinality(budget.restarts) < MaxRestarts /\ ~budget.gaveUp
  /\ lock' = "heal" /\ healing' = "restart" /\ taken' = 0
  /\ UNCHANGED <<lease, unit, age, health, budget, log, good, bounds>>

HealDecide ==
  /\ Check /\ ~HandsOff /\ Confirmed
  /\ Cardinality(budget.restarts) < MaxRestarts
  /\ lock' = "heal" /\ healing' = "restart" /\ taken' = 0
  /\ UNCHANGED <<lease, unit, age, health, budget, log, good, bounds>>

\* systemctl restart, which starts a unit that was stopped since the check too.
HealRestart ==
  /\ healing = "restart"
  /\ Start
  /\ healing' = "ready" /\ log' = log \cup {0}
  /\ UNCHANGED <<lease, lock, budget, taken, due, good, bounds>>

\* The wait for /health ends; only now the restart is written to the file.
HealRecord ==
  /\ healing = "ready" /\ (health = "up" \/ taken >= Ready)
  /\ budget' = [restarts |-> budget.restarts \cup {taken}, unhealthy |-> Never, gaveUp |-> FALSE]
  /\ lock' = "free" /\ healing' = "idle" /\ taken' = 0
  /\ UNCHANGED <<lease, unit, age, health, due, log, good, bounds>>

\* heal dies before or after the restart: systemctl failed, or outlasted run()'s
\* timeout, whose exception nothing catches; or heal is killed in its wait.
HealKilled ==
  /\ healing \in {"restart", "ready"} /\ kills < MaxKills
  /\ kills' = kills + 1
  /\ lock' = "free" /\ healing' = "idle" /\ taken' = 0
  /\ UNCHANGED <<lease, unit, age, health, budget, due, log, good, commands>>

\* Another command has the lock: look again next minute.
HealRefused ==
  /\ due /\ lock = "lease"
  /\ due' = FALSE
  /\ UNCHANGED <<lease, lock, unit, age, health, budget, healing, taken, log, good, bounds>>

------------------------------------------------------------------------------
(* The lease commands, the backend, its operator and the clock *)

Others == UNCHANGED <<budget, healing, taken, due, log, good, kills>>

CommandBegin ==
  /\ lock = "free" /\ commands < MaxCommands
  /\ lock' = "lease" /\ commands' = commands + 1
  /\ Others /\ UNCHANGED <<lease, backendVars>>
CommandEnd ==
  /\ lock = "lease" /\ lock' = "free"
  /\ Others /\ UNCHANGED <<lease, backendVars, commands>>
CommandWrites ==
  /\ lock = "lease" /\ lease' \in BOOLEAN /\ lease' # lease
  /\ Others /\ UNCHANGED <<lock, backendVars, commands>>
CommandStops ==
  /\ lock = "lease" /\ lease /\ unit = "active" /\ Stop
  /\ Others /\ UNCHANGED <<lease, lock, commands>>
CommandStarts ==
  /\ lock = "lease" /\ unit = "inactive" /\ Start
  /\ Others /\ UNCHANGED <<lease, lock, commands>>

OperatorStops ==
  /\ unit = "active" /\ Stop
  /\ Others /\ UNCHANGED <<lease, lock, commands>>
OperatorStarts ==
  /\ ~lease /\ unit = "inactive" /\ Start
  /\ Others /\ UNCHANGED <<lease, lock, commands>>
BackendLoads ==
  /\ health = "loading" /\ health' = "up"
  /\ Others /\ UNCHANGED <<lease, lock, unit, age, commands>>
BackendLatches ==
  /\ health \in {"loading", "up"} /\ health' = "latched"
  /\ Others /\ UNCHANGED <<lease, lock, unit, age, commands>>

\* The timer fires once a tick, except while heal itself runs; heal's wait for
\* /health is over after Ready ticks.
Tick ==
  /\ healing # "restart"
  /\ \/ healing = "idle" /\ ~due /\ due' = TRUE
     \/ healing = "ready" /\ taken < Ready /\ UNCHANGED due
  /\ taken' = IF healing = "ready" THEN taken + 1 ELSE taken
  /\ age' = IF unit = "active" THEN Capped(age, Grace) ELSE age
  /\ budget' = OlderFile /\ log' = Older(log) /\ good' = Capped(good, Confirm)
  /\ UNCHANGED <<lease, lock, unit, health, healing, bounds>>

------------------------------------------------------------------------------
HealInit ==
  /\ lease = FALSE /\ lock = "free"
  /\ unit = "active" /\ age = 0 /\ health = "loading"
  /\ budget = [restarts |-> {}, unhealthy |-> Never, gaveUp |-> FALSE]
  /\ healing = "idle" /\ taken = 0 /\ due = FALSE
  /\ log = {} /\ good = Confirm
  /\ commands = 0 /\ kills = 0

Heal == HealNone \/ HealWatch \/ HealGiveUp \/ HealDecide
Command == CommandEnd \/ CommandWrites \/ CommandStops \/ CommandStarts
HealNext ==
  \/ Heal \/ HealRestart \/ HealRecord \/ HealKilled \/ HealRefused
  \/ CommandBegin \/ Command
  \/ OperatorStops \/ OperatorStarts \/ BackendLoads \/ BackendLatches
  \/ Tick

HealSpec == HealInit /\ [][HealNext]_healVars

\* The clock goes on, the timer's unit runs, and every command ends.
HealFairSpec ==
  /\ HealSpec
  /\ WF_healVars(Tick) /\ WF_healVars(Heal) /\ WF_healVars(HealRefused)
  /\ WF_healVars(HealRestart) /\ WF_healVars(HealRecord)
  /\ WF_healVars(CommandEnd)

------------------------------------------------------------------------------
(* Properties *)

\* Types, and that heal has the lock exactly while it acts on a check.
HealTypeOK ==
  /\ lease \in BOOLEAN /\ due \in BOOLEAN
  /\ lock \in {"free", "heal", "lease"}
  /\ unit \in {"active", "inactive"} /\ age \in 0..Grace
  /\ health \in {"off", "loading", "up", "latched"}
  /\ budget \in File
  /\ healing \in {"idle", "restart", "ready"} /\ taken \in 0..Ready
  /\ log \subseteq Ages /\ good \in 0..Confirm
  /\ commands \in 0..MaxCommands /\ kills \in 0..MaxKills
  /\ (lock = "heal") <=> (healing # "idle")

\* In any hour the backend is restarted at most MaxRestarts times, and once more
\* for each heal that died before it wrote its restart down.
RestartBudget == Cardinality(log) <= MaxRestarts + kills

\* heal restarts only what it may: it never starts the backend on a card that a
\* lease has emptied (the lease's own commands do), and a backend that answered
\* a check is not restarted before Confirm has passed since.
HealIsJustified ==
  [][/\ lease /\ unit = "inactive" /\ unit' = "active" => lock = "lease"
     /\ log' # log /\ healing' = "ready" /\ healing = "restart" => good >= Confirm]_healVars

\* A latched backend does not stay: it is restarted once the hour's restarts
\* allow, unless a lease takes the card first.
Healed == (health = "latched" /\ ~lease) ~> (health # "latched" \/ lease)

\* The docstring's "At most HEAL_MAX_PER_HOUR restarts an hour".
AtMostAnHour == Cardinality(log) <= MaxRestarts
=============================================================================
