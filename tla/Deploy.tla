------------------------------- MODULE Deploy -------------------------------
(***************************************************************************)
(* Whether the installed stack runs the committed code: the watcher that   *)
(* compares the checkout with its remote (src/web/deploy.py), and the      *)
(* update that moves the checkout and restarts services (src/update.sh,    *)
(* /api/app/update).                                                       *)
(*                                                                         *)
(* A revision is the number of commits the remote had when it was made.    *)
(***************************************************************************)
EXTENDS Naturals, Sequences, FiniteSets, TLC

CONSTANTS Probers,     \* threads that check: the watcher's own and the button's
          OwnLoop,     \* which of them is the watcher's, the only one to recheck
          Updaters,    \* updates: from the page (children of the manager) or a shell
          FromPage,    \* which of them are from the page
          Restarted,   \* the services an update restarts, in its order
          GitFails,    \* a git command that only reads the checkout may fail
          MaxCommits, MaxProbes, MaxFaults,  \* bounds: pushes, checks, failed git commands
          None

ASSUME DeployAssumption ==
  /\ OwnLoop \in Probers /\ FromPage \subseteq Updaters /\ GitFails \in BOOLEAN
  /\ "llm-manager" \in {Restarted[i] : i \in 1..Len(Restarted)}

VARIABLES origin,    \* the remote's revision
          head,      \* the checkout's
          tracking,  \* the checkout's record of the remote, as of the last fetch
          dirty,     \* the checkout has local modifications
          snap,      \* the watcher's cached answer; None before the first
          checking,     \* prober -> what it is doing
          update,    \* updater -> what it is doing
          codeOf,    \* service -> the revision it runs
          probes, faults

deployVars == <<origin, head, tracking, dirty, snap, checking, update, codeOf, probes, faults>>

Stack == {Restarted[i] : i \in 1..Len(Restarted)} \cup {"llm-a"}
Resting == [step |-> "idle", at |-> 0, error |-> FALSE, dirty |-> FALSE]
NoUpdate == [step |-> "idle", left |-> <<>>]

(* The verdict the badge shows.  Without a cached answer it is made of the   *)
(* checkout alone: nothing is known to be pending.                           *)
Blank == [behind |-> 0, dirty |-> dirty, error |-> FALSE, at |-> None]
Shown == IF snap = None THEN Blank ELSE snap
Summary(s) ==
  CASE s.dirty      -> "dirty"
    [] s.behind > 0 -> "behind"
    [] s.error      -> "unknown"
    [] OTHER        -> "current"

-----------------------------------------------------------------------------
(* A check: the time is taken, then the fetch, then the comparison.  A       *)
(* recheck keeps the time and the error of the answer it found.              *)
CheckBegins(p) ==
  /\ checking[p].step = "idle" /\ probes < MaxProbes /\ probes' = probes + 1
  /\ checking' = [checking EXCEPT ![p] = [step |-> "fetching", at |-> origin, error |-> FALSE, dirty |-> FALSE]]
  /\ UNCHANGED <<origin, head, tracking, dirty, snap, update, codeOf, faults>>

(* Mutant: the time is taken when the answer is in. *)
FetchEndsStamped(p) ==
  /\ checking[p].step = "fetching"
  /\ tracking' = origin
  /\ \E at \in {origin, origin + 1} \cap (0..MaxCommits) :
       /\ origin' = at
       /\ checking' = [checking EXCEPT ![p] = [step |-> "fetched", at |-> at, error |-> FALSE, dirty |-> FALSE]]
  /\ UNCHANGED <<head, dirty, snap, update, codeOf, probes, faults>>

FetchEnds(p) ==
  /\ checking[p].step = "fetching"
  /\ \/ /\ tracking' = origin
        /\ checking' = [checking EXCEPT ![p] = [step |-> "fetched", at |-> @.at, error |-> FALSE, dirty |-> FALSE]]
        /\ UNCHANGED faults
     \/ /\ faults < MaxFaults /\ faults' = faults + 1
        /\ checking' = [checking EXCEPT ![p] = [step |-> "fetched", at |-> @.at, error |-> TRUE, dirty |-> FALSE]]
        /\ UNCHANGED tracking
  /\ UNCHANGED <<origin, head, dirty, snap, update, codeOf, probes>>

RecheckBegins(p) ==
  /\ p = OwnLoop /\ checking[p].step = "idle" /\ snap # None
  /\ probes < MaxProbes /\ probes' = probes + 1
  /\ checking' = [checking EXCEPT ![p] = [step |-> "fetched", at |-> snap.at, error |-> snap.error, dirty |-> FALSE]]
  /\ UNCHANGED <<origin, head, tracking, dirty, snap, update, codeOf, faults>>

LocalState(p) ==
  /\ checking[p].step = "fetched"
  /\ checking' = [checking EXCEPT ![p] = [step |-> "local", at |-> @.at, error |-> @.error, dirty |-> dirty]]
  /\ UNCHANGED <<origin, head, tracking, dirty, snap, update, codeOf, probes, faults>>

(* Nothing is pending when the count fails. *)
Compare(p) ==
  /\ checking[p].step = "local"
  /\ \E behind \in {IF tracking > head THEN tracking - head ELSE 0} \cup (IF GitFails THEN {0} ELSE {}) :
       snap' = [behind |-> behind, dirty |-> checking[p].dirty, error |-> checking[p].error, at |-> checking[p].at]
  /\ checking' = [checking EXCEPT ![p] = Resting]
  /\ UNCHANGED <<origin, head, tracking, dirty, update, codeOf, probes, faults>>

-----------------------------------------------------------------------------
(* update.sh: refused on a dirty tree; fetched and pulled; dependencies and  *)
(* units; then the services, one after the other.                            *)
UpdateBegins(u) ==
  /\ update[u].step = "idle"
  /\ update' = [update EXCEPT ![u] = [step |-> IF dirty THEN "ending" ELSE "pulling", left |-> <<>>]]
  /\ UNCHANGED <<origin, head, tracking, dirty, snap, checking, codeOf, probes, faults>>

Pull(u) ==
  /\ update[u].step = "pulling"
  /\ \/ /\ head' = origin /\ tracking' = origin /\ UNCHANGED faults
        /\ update' = [update EXCEPT ![u] = [step |-> "installing", left |-> <<>>]]
     \/ /\ faults < MaxFaults /\ faults' = faults + 1 /\ UNCHANGED <<head, tracking>>
        /\ update' = [update EXCEPT ![u] = [step |-> "ending", left |-> <<>>]]
  /\ UNCHANGED <<origin, dirty, snap, checking, codeOf, probes>>

Install(u) ==
  /\ update[u].step = "installing"
  /\ \/ update' = [update EXCEPT ![u] = [step |-> "restarting", left |-> Restarted]] /\ UNCHANGED faults
     \/ /\ faults < MaxFaults /\ faults' = faults + 1
        /\ update' = [update EXCEPT ![u] = [step |-> "ending", left |-> <<>>]]
  /\ UNCHANGED <<origin, head, tracking, dirty, snap, checking, codeOf, probes>>

(* The manager's end: its threads, its cached answer and the updates that    *)
(* are its children go with it, and the service manager starts it again.     *)
ManagerRestarts(others) ==
  /\ codeOf' = [codeOf EXCEPT !["llm-manager"] = head]
  /\ snap' = None /\ checking' = [p \in Probers |-> Resting]
  /\ update' = [u \in Updaters |-> IF u \in FromPage THEN [step |-> "done", left |-> <<>>] ELSE others[u]]

RestartOne(u) ==
  /\ update[u].step = "restarting"
  /\ LET rest == [update EXCEPT ![u] = [step |-> "restarting", left |-> Tail(@.left)]] IN
     IF update[u].left = <<>>
     THEN /\ update' = [update EXCEPT ![u] = [step |-> "ending", left |-> <<>>]]
          /\ UNCHANGED <<snap, checking, codeOf>>
     ELSE IF Head(update[u].left) = "llm-manager" THEN ManagerRestarts(rest)
     ELSE /\ codeOf' = [codeOf EXCEPT ![Head(update[u].left)] = head]
          /\ update' = rest /\ UNCHANGED <<snap, checking>>
  /\ UNCHANGED <<origin, head, tracking, dirty, probes, faults>>

(* Whatever the script said, the page's thread then ends the manager. *)
UpdateEnds(u) ==
  /\ update[u].step = "ending"
  /\ IF u \in FromPage THEN ManagerRestarts(update)
     ELSE /\ update' = [update EXCEPT ![u] = [step |-> "done", left |-> <<>>]]
          /\ UNCHANGED <<snap, checking, codeOf>>
  /\ UNCHANGED <<origin, head, tracking, dirty, probes, faults>>

Push == /\ origin < MaxCommits /\ origin' = origin + 1
        /\ UNCHANGED <<head, tracking, dirty, snap, checking, update, codeOf, probes, faults>>

EditTree == /\ dirty' = ~dirty /\ UNCHANGED <<origin, head, tracking, snap, checking, update, codeOf, probes, faults>>

DeployInit ==
  /\ origin \in 0..1 /\ head = 0 /\ tracking = 0 /\ dirty = FALSE
  /\ snap = None /\ checking = [p \in Probers |-> Resting] /\ update = [u \in Updaters |-> NoUpdate]
  /\ codeOf = [s \in Stack |-> 0] /\ probes = 0 /\ faults = 0

DeployNext ==
  \/ \E p \in Probers : CheckBegins(p) \/ FetchEnds(p) \/ RecheckBegins(p) \/ LocalState(p) \/ Compare(p)
  \/ \E u \in Updaters : UpdateBegins(u) \/ Pull(u) \/ Install(u) \/ RestartOne(u) \/ UpdateEnds(u)
  \/ Push \/ EditTree

DeploySpec == DeployInit /\ [][DeployNext]_deployVars

-----------------------------------------------------------------------------
DeployTypeOK ==
  /\ head \in 0..origin /\ tracking \in 0..origin
  /\ \A s \in Stack : codeOf[s] \in 0..head
  /\ \A p \in Probers : checking[p].step \in {"idle", "fetching", "fetched", "local"}

(* A verdict "current" with the time of a check is true of that time: the    *)
(* checkout holds all that the remote held when the check began, whichever   *)
(* checks, rechecks and updates ran in between.                              *)
CurrentIsHonest ==
  snap # None => (Summary(snap) = "current" => head >= snap.at)

(* (Does not hold.)  "Current" is said of a remote that was asked.           *)
CurrentWasChecked == Summary(Shown) = "current" => Shown.at # None

(* (Does not hold.)  "Running the latest committed code": once no update is  *)
(* under way, the services an update restarts run the checkout's code.       *)
CurrentIsRunning ==
  (snap # None /\ \A u \in Updaters : update[u].step \in {"idle", "done"}) =>
     (Summary(snap) = "current" => \A s \in Stack : codeOf[s] = head)

(* (Does not hold.)  A later answer is not of an earlier check.              *)
CheckedNeverBack == [][snap # None /\ snap' # None => snap'.at >= snap.at]_snap
=============================================================================
