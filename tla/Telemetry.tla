----------------------------- MODULE Telemetry ------------------------------
(***************************************************************************)
(* One unit's journal as the manager sees it: a collector that follows the *)
(* log from where it is and is seeded with a window of what came before,   *)
(* and the two questions asked of it: what the window holds, and whether a *)
(* probe pinned to each slot was served by that slot.                      *)
(***************************************************************************)
EXTENDS Naturals, Sequences, SequencesExt, FiniteSets

CONSTANTS
  Pollers,        \* requests to /api/backend/telemetry
  Windows,        \* the windows they ask for, in events
  MaxEvents,      \* bound: lines the backend logs
  MaxHeld,        \* MAX_EVENTS_PER_UNIT
  MaxExits,       \* bound: exits of the following journalctl
  Idle            \* no poll, no probe

ASSUME TelemetryAssumption == /\ MaxEvents \in Nat /\ MaxHeld \in Nat \ {0} /\ MaxExits \in Nat
                              /\ Windows \subseteq Nat

Slots == {0, 1}

VARIABLES
  journal,        \* the slots selected by id, in the order they are logged
  tail,           \* the follower: next line to deliver, last it will; Idle if none
  events,         \* the collector's deque, as places in the journal
  backfilled,     \* the widest window asked of it; 0 before there is one
  poll,           \* client -> its backfill
  exits,          \* bound
  probe,          \* the probe: slots left, where it started, its answer
  served          \* history: the slots that did serve the probe's requests

telemetryVars == <<journal, tail, events, backfilled, poll, exits, probe, served>>

TelemetryInit ==
  /\ journal = << >> /\ tail = Idle /\ events = << >> /\ backfilled = 0
  /\ poll = [r \in Pollers |-> Idle] /\ exits = 0
  /\ probe = Idle /\ served = {}

Newest(s) == SubSeq(s, IF Len(s) > MaxHeld THEN Len(s) - MaxHeld + 1 ELSE 1, Len(s))
Places(lo, hi) == [k \in 1..(IF lo > hi THEN 0 ELSE hi - lo + 1) |-> lo + k - 1]
Logged(s) == Len(journal) < MaxEvents /\ journal' = Append(journal, s)

\* pi-forge's own turns, pinned to their slot.
Turn == /\ \E s \in Slots : Logged(s)
        /\ UNCHANGED <<tail, events, backfilled, poll, exits, probe, served>>

\* TelemetryRegistry.collector: the first poll makes the collector; backfill
\* notes the window before it has read it, so a failed one is not read again.
PollAsks(r, w) ==
  /\ poll[r] = Idle
  /\ w > backfilled
  /\ backfilled' = w
  /\ poll' = [poll EXCEPT ![r] = [window |-> w, read |-> FALSE, seeded |-> << >>]]
  /\ UNCHANGED <<journal, tail, events, exits, probe, served>>
JournalRead(r) ==
  /\ poll[r] # Idle /\ ~poll[r].read
  /\ LET n == Len(journal) w == poll[r].window IN
     \/ poll' = [poll EXCEPT ![r] = [window |-> w, read |-> TRUE,
                   seeded |-> Places(IF n > w THEN n - w + 1 ELSE 1, n)]]
     \/ poll' = [poll EXCEPT ![r] = Idle]
  /\ UNCHANGED <<journal, tail, events, backfilled, exits, probe, served>>
\* Mutant: the history replaces what was collected while it was read.
MergedOver(seeded, live) == Newest(seeded)
\* What is newer than the history stays behind it.
NewerThan(seeded, live) ==
  LET kept[k \in 0..Len(live)] ==
        IF k = 0 THEN << >>
        ELSE IF seeded = << >> \/ live[k] > Last(seeded) THEN Append(kept[k - 1], live[k]) ELSE kept[k - 1]
  IN  kept[Len(live)]
Merged(seeded, live) == Newest(seeded \o NewerThan(seeded, live))
Seeds(r) ==
  /\ poll[r] # Idle /\ poll[r].read
  /\ events' = Merged(poll[r].seeded, events)
  /\ poll' = [poll EXCEPT ![r] = Idle]
  /\ UNCHANGED <<journal, tail, backfilled, exits, probe, served>>

\* UnitCollector._tail: lines written while nothing follows are not read.
Follows ==
  /\ backfilled > 0 /\ tail = Idle
  /\ tail' = [next |-> Len(journal) + 1, last |-> MaxEvents]
  /\ UNCHANGED <<journal, events, backfilled, poll, exits, probe, served>>
Delivers ==
  /\ tail # Idle /\ tail.next <= tail.last /\ tail.next <= Len(journal)
  /\ events' = Newest(Append(events, tail.next))
  /\ tail' = [next |-> tail.next + 1, last |-> tail.last]
  /\ UNCHANGED <<journal, backfilled, poll, exits, probe, served>>
Exits ==
  /\ tail # Idle /\ exits < MaxExits /\ tail.last = MaxEvents
  /\ exits' = exits + 1
  /\ tail' = [next |-> tail.next, last |-> Len(journal)]
  /\ UNCHANGED <<journal, events, backfilled, poll, probe, served>>
\* The pipe is read to its end before the follower is started again.
Restarts ==
  /\ tail # Idle /\ tail.last < MaxEvents /\ tail.next > tail.last
  /\ tail' = Idle
  /\ UNCHANGED <<journal, events, backfilled, poll, exits, probe, served>>
-----------------------------------------------------------------------------
Probe(left, since, honoured) == [left |-> left, since |-> since, honoured |-> honoured]
\* probe_slot_pinning: one request for each slot, served or refused, then what
\* the collector holds since the start, until there is one line for each
\* request or five seconds are over.
ProbeStarts ==
  /\ probe = Idle /\ backfilled > 0
  /\ probe' = Probe(<<0, 1>>, Len(journal), FALSE) /\ served' = {}
  /\ UNCHANGED <<journal, tail, events, backfilled, poll, exits>>
ProbeSends ==
  /\ probe # Idle /\ probe.left # << >>
  /\ probe' = Probe(Tail(probe.left), probe.since, FALSE)
  /\ \/ \E s \in Slots : Logged(s) /\ served' = served \cup ({s} \cap {Head(probe.left)})
     \/ UNCHANGED <<journal, served>>
  /\ UNCHANGED <<tail, events, backfilled, poll, exits>>
ProbeReads ==
  /\ probe # Idle /\ probe.left = << >> /\ ~probe.honoured
  /\ LET seen == {journal[i] : i \in {j \in ToSet(events) : j > probe.since}}
     IN  probe' = IF seen = Slots THEN Probe(<< >>, probe.since, TRUE) ELSE Idle
  /\ UNCHANGED <<journal, tail, events, backfilled, poll, exits, served>>

TelemetryNext ==
  \/ \E r \in Pollers : (\E w \in Windows : PollAsks(r, w)) \/ JournalRead(r) \/ Seeds(r)
  \/ Turn \/ Follows \/ Delivers \/ Exits \/ Restarts
  \/ ProbeStarts \/ ProbeSends \/ ProbeReads
TelemetrySpec == TelemetryInit /\ [][TelemetryNext]_telemetryVars
-----------------------------------------------------------------------------
(* Seeding the history loses nothing the follower collected meanwhile: a   *)
(* line leaves the collector only when newer ones fill it, or when it is   *)
(* older than the window being seeded.                                     *)
SeedingKeeps == [][\A i \in ToSet(events) \ ToSet(events') :
                     \/ Len(events') = MaxHeld
                     \/ \E r \in Pollers : /\ poll[r] # Idle /\ poll'[r] = Idle
                                           /\ poll[r].seeded # << >> /\ i < Head(poll[r].seeded)
                  ]_telemetryVars
(* (Does not hold.)                                                      *)
(* The comment in backfill: seeded history is strictly older than what the *)
(* follower collected.  No line is held, and counted, twice.               *)
EachOnce == \A j, k \in DOMAIN events : events[j] = events[k] => j = k
(* (Does not hold.)                                                      *)
(* summarize expects the newest event last.                                *)
NewestLast == \A j, k \in DOMAIN events : j < k => events[j] <= events[k]
(* (Does not hold.)                                                      *)
(* docs/pi-forge-scheduling-contract.md: the probe reads back which slot   *)
(* served each request.                                                    *)
ProbeHonest == probe # Idle /\ probe.honoured => served = Slots
=============================================================================
