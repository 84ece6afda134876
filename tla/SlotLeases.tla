----------------------------- MODULE SlotLeases -----------------------------
(***************************************************************************)
(* The contract pi-forge schedules by: what the primary backend is set to, *)
(* what it was launched with, and the verdict on both; and the lease files *)
(* of pi-forge's processes, which two reapers remove when their writer is  *)
(* gone.                                                                   *)
(***************************************************************************)
EXTENDS Naturals, FiniteSets

CONSTANTS
  Workers,        \* pi-forge processes; each writes one lease file
  Reapers,        \* the health prober's sweep and the button
  MaxContractSaves,       \* bound: saves of the backend's settings
  MaxScans,       \* bound: reaps
  NoScan          \* no scan; no backend; no report

ASSUME SlotLeasesAssumption == MaxContractSaves \in Nat /\ MaxScans \in Nat

VARIABLES
  set,            \* the contract's LLM_A_* keys, "" where one is unset
  flags,          \* what the running backend was launched with
  contractSaves, verdict, \* bound; the last report
  lease,          \* worker -> its file: "none", "fresh", "stale" or "old"
  lives,          \* the workers whose process is there
  scan,           \* reaper -> what it has read, judged and still has to unlink
  scans,          \* bound
  cut             \* history: the leases unlinked under a live writer

slotLeasesVars == <<set, flags, contractSaves, verdict, lease, lives, scan, scans, cut>>

Needed == [slots |-> "2", idle |-> "on", fit |-> "off", ctx |-> "65536"]
Defaults == [slots |-> "1", idle |-> "on", fit |-> "on", ctx |-> "0"]
Values == [slots |-> {"", "1", "2"}, idle |-> {"", "on", "off"}, fit |-> {"", "on", "off"},
           ctx |-> {"", "32768", "65536"}]
Settable == DOMAIN Needed
\* contract_check; a context is enough if one slot's half of it is.
ContractIssues(v) == {k \in Settable : v[k] # Needed[k]}
             \ (IF v["ctx"] = "32768" /\ v["slots"] \in {"", "1"} THEN {"ctx"} ELSE {})
\* The launcher writes every flag, with llama.cpp's defaults.
Flags(v) == [k \in Settable |-> IF v[k] = "" THEN Defaults[k] ELSE v[k]]
\* drift_between: a setting that is unset is not compared.
Drift(v, f) == {k \in Settable : v[k] # "" /\ v[k] # f[k]}

\* Mutant: the report judges the settings that are saved.
VerifySaved(v, f) == [ok |-> ContractIssues(v) = {}, drift |-> Drift(v, v)]
Verify(v, f) == [ok |-> ContractIssues(v) \cup ContractIssues(f) = {}, drift |-> Drift(v, f)]

SlotLeasesInit ==
  /\ set = Needed /\ flags = NoScan /\ contractSaves = 0 /\ verdict = NoScan
  /\ lease = [w \in Workers |-> "none"] /\ lives = Workers
  /\ scan = [r \in Reapers |-> NoScan] /\ scans = 0 /\ cut = {}

LeasesSame == UNCHANGED <<lease, lives, scan, scans, cut>>
SaveContract ==
  /\ contractSaves < MaxContractSaves /\ contractSaves' = contractSaves + 1
  /\ \E k \in Settable : \E x \in Values[k] : set' = [set EXCEPT ![k] = x]
  /\ verdict' = NoScan /\ UNCHANGED flags /\ LeasesSame
Launches == flags' = Flags(set) /\ verdict' = NoScan /\ UNCHANGED <<set, contractSaves>> /\ LeasesSame
BackendGoes == flags # NoScan /\ flags' = NoScan /\ verdict' = NoScan /\ UNCHANGED <<set, contractSaves>> /\ LeasesSame
Verifies ==
  /\ verdict' = IF flags = NoScan THEN [ok |-> ContractIssues(set) = {}, drift |-> {}] ELSE Verify(set, flags)
  /\ UNCHANGED <<set, flags, contractSaves>> /\ LeasesSame
-----------------------------------------------------------------------------
ContractSame == UNCHANGED <<set, flags, contractSaves, verdict>>
Keeps(w, s) == lease' = [lease EXCEPT ![w] = s]
\* pi-forge: a lease is written and refreshed by rename, and deleted in a
\* finally; a killed process leaves it.
WritesLease(w) == w \in lives /\ Keeps(w, "fresh") /\ UNCHANGED <<lives, scan, scans, cut>> /\ ContractSame
DropsLease(w) == w \in lives /\ Keeps(w, "none") /\ UNCHANGED <<lives, scan, scans, cut>> /\ ContractSame
WorkerDies(w) == w \in lives /\ lives' = lives \ {w} /\ UNCHANGED <<lease, scan, scans, cut>> /\ ContractSame
Ages(w) ==
  /\ lease[w] \in {"fresh", "stale"} /\ Keeps(w, IF lease[w] = "fresh" THEN "stale" ELSE "old")
  /\ UNCHANGED <<lives, scan, scans, cut>> /\ ContractSame

\* read_leases lists the files, and reads each before it looks for its process.
Scans(r, left, asked, orphans) ==
  scan' = [scan EXCEPT ![r] = [left |-> left, asked |-> asked, orphans |-> orphans]]
ReapBegins(r) ==
  /\ scan[r] = NoScan /\ scans < MaxScans /\ scans' = scans + 1
  /\ Scans(r, {w \in Workers : lease[w] # "none"}, {}, {})
  /\ UNCHANGED <<lease, lives, cut>> /\ ContractSame
ReadsLease(r) ==
  /\ scan[r] # NoScan /\ scan[r].asked = {}
  /\ \E w \in scan[r].left : Scans(r, scan[r].left \ {w}, IF lease[w] = "old" THEN {w} ELSE {},
                                   scan[r].orphans)
  /\ UNCHANGED <<lease, lives, scans, cut>> /\ ContractSame
\* Mutant: an expired lease is reaped whoever wrote it.
OrphanByAge(w) == TRUE
\* _classify_lease: expired, and its process is gone.
Orphan(w) == w \notin lives
LooksForWriter(r) ==
  /\ scan[r] # NoScan /\ scan[r].asked # {}
  /\ Scans(r, scan[r].left, {}, scan[r].orphans \cup {w \in scan[r].asked : Orphan(w)})
  /\ UNCHANGED <<lease, lives, scans, cut>> /\ ContractSame
\* reap_leases: by path, whatever is there by now; one that is gone fails.
Unlinks(r) ==
  /\ scan[r] # NoScan /\ scan[r].left = {} /\ scan[r].asked = {}
  /\ \/ \E w \in scan[r].orphans :
          /\ Keeps(w, "none")
          /\ cut' = IF lease[w] # "none" /\ w \in lives THEN cut \cup {w} ELSE cut
          /\ Scans(r, {}, {}, scan[r].orphans \ {w})
     \/ scan[r].orphans = {} /\ scan' = [scan EXCEPT ![r] = NoScan] /\ UNCHANGED <<lease, cut>>
  /\ UNCHANGED <<lives, scans>> /\ ContractSame

ContractNext == SaveContract \/ Launches \/ BackendGoes \/ Verifies
ReapNext ==
  \/ \E w \in Workers : WritesLease(w) \/ DropsLease(w) \/ WorkerDies(w) \/ Ages(w)
  \/ \E r \in Reapers : ReapBegins(r) \/ ReadsLease(r) \/ LooksForWriter(r) \/ Unlinks(r)
SlotLeasesSpec == SlotLeasesInit /\ [][ContractNext \/ ReapNext]_slotLeasesVars
-----------------------------------------------------------------------------
(* docs/pi-forge-scheduling-contract.md: a lease whose process is alive is *)
(* never touched, however old it was when it was read.                     *)
LiveLeaseStays == cut = {}
(* A report that is ok and names no drift is about the backend that runs:  *)
(* it has the slots, the context and the caching that were saved.          *)
OkIsServed == verdict # NoScan /\ flags # NoScan /\ verdict.ok /\ verdict.drift = {}
                => \A k \in Settable : flags[k] = set[k]
(* (Does not hold.)                                                      *)
(* The same of a report that names no drift, whether it is ok or not.      *)
DriftIsNamed == verdict # NoScan /\ flags # NoScan /\ verdict.drift = {} => flags = Flags(set)
=============================================================================
