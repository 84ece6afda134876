------------------------------- MODULE Recall -------------------------------
(***************************************************************************)
(* The chat proxy's memory gateway: facts of the conversation are asked of *)
(* Graphiti before a request goes to the backend, the turn is sent back to *)
(* it afterwards by a thread of its own, and one failure suspends both for *)
(* a while.  A 400 of the backend leaves a capture of the payload on disk, *)
(* of which the newest few are kept.                                       *)
(***************************************************************************)
EXTENDS Naturals, Sequences, FiniteSets

CONSTANTS
  Askers,             \* conversations: one request at a time each
  CooldownSec,        \* GRAPHITI_COOLDOWN_SEC
  FailOpen,           \* MEMORY_FAIL_OPEN
  Keep,               \* UPSTREAM_400_CAPTURE_KEEP
  MaxClock, MaxTurns, MaxFailures  \* bounds

ASSUME RecallAssumption == IsFiniteSet(Askers) /\ CooldownSec \in Nat /\ FailOpen \in BOOLEAN /\ Keep \in Nat \ {0}

VARIABLES
  recallClock,
  until,              \* _GRAPHITI_DISABLED_UNTIL
  phase,              \* conversation -> where the proxy is with its request
  turn,               \* ... the request: its number, kind and whether it has a group
  reply,              \* ... what the backend answered
  shot,               \* ... its capture: the stamp, and the listing it prunes by
  tasks,              \* the ingest threads
  remembered,         \* conversation -> what Graphiti holds of it, in order
  shots, drafts,      \* upstream-400-*.json and *.json.tmp, by their time stamp
  stamped,            \* the stamps given
  failures, lastFailure, captured  \* history: failed calls, the last one's time, captures completed

recallVars == <<recallClock, until, phase, turn, reply, shot, tasks, remembered, shots, drafts,
                stamped, failures, lastFailure, captured>>

Phases == {"idle", "look", "call", "calling", "backend", "stamp", "draft", "publish", "list", "prune", "answered"}
NoReply == [status |-> "none", text |-> <<>>, facts |-> FALSE]
NoCapture == [stamp |-> 0, listed |-> {}]

RecallInit ==
  /\ recallClock = 0 /\ until = 0 /\ stamped = 0 /\ failures = 0 /\ lastFailure = 0
  /\ phase = [c \in Askers |-> "idle"] /\ turn = [c \in Askers |-> [n |-> 0, kind |-> "chat", grouped |-> FALSE]]
  /\ reply = [c \in Askers |-> NoReply] /\ shot = [c \in Askers |-> NoCapture] /\ tasks = {}
  /\ remembered = [c \in Askers |-> <<>>] /\ shots = {} /\ drafts = {} /\ captured = {}

Suspended == until > recallClock
SuspensionAdded == (IF Suspended THEN until ELSE recallClock) + CooldownSec
Suspension == IF CooldownSec = 0 \/ recallClock + CooldownSec <= until
              THEN until ELSE recallClock + CooldownSec
FailedCall ==
  /\ failures < MaxFailures /\ failures' = failures + 1 /\ lastFailure' = recallClock
  /\ until' = Suspension
GoodCall == until' = 0 /\ UNCHANGED <<failures, lastFailure>>
NoCall == UNCHANGED <<until, failures, lastFailure>>
Goes(c, from, to) == phase[c] = from /\ phase' = [phase EXCEPT ![c] = to]
SameShots == UNCHANGED <<shot, shots, drafts, stamped, captured>>
SameTurn == UNCHANGED <<recallClock, turn, tasks, remembered>>

SecondGoes == /\ recallClock < MaxClock /\ recallClock' = recallClock + 1
              /\ UNCHANGED <<until, phase, turn, reply, shot, tasks, remembered, shots, drafts, stamped, failures, lastFailure, captured>>

\* A generation request; one of a port without memory has no group.
Ask(c, kind, memory) ==
  /\ Goes(c, "idle", IF memory THEN "look" ELSE "backend") /\ turn[c].n < MaxTurns
  /\ turn' = [turn EXCEPT ![c] = [n |-> turn[c].n + 1, kind |-> kind, grouped |-> memory]]
  /\ NoCall /\ SameShots /\ UNCHANGED <<recallClock, reply, tasks, remembered>>

\* The handler looks, and _retrieve_memory looks again before it calls.
Look(c) ==
  /\ Goes(c, "look", IF Suspended THEN "backend" ELSE "call")
  /\ NoCall /\ SameShots /\ SameTurn /\ UNCHANGED reply
BeginRetrieval(c, wordless) ==
  /\ Goes(c, "call", IF Suspended \/ wordless THEN "backend" ELSE "calling")
  /\ NoCall /\ SameShots /\ SameTurn /\ UNCHANGED reply
Retrieved(c) ==
  /\ Goes(c, "calling", "backend") /\ GoodCall
  /\ reply' = [reply EXCEPT ![c] = [status |-> "none", text |-> <<>>, facts |-> remembered[c] # <<>>]]
  /\ SameShots /\ SameTurn
\* Refused, timed out, or a status that is an error; a body that breaks off is neither
\* a URLError nor an OSError, and suspends nothing.
RetrievalFails(c, torn) ==
  /\ Goes(c, "calling", IF FailOpen THEN "backend" ELSE "idle")
  /\ IF torn THEN NoCall ELSE FailedCall
  /\ SameShots /\ SameTurn /\ UNCHANGED reply

\* The accumulator appends every delta of a stream, and again the text a
\* Responses stream closes with.
TurnHeard(c, streamed) ==
  IF turn[c].kind = "responses" /\ streamed THEN <<turn[c].n, turn[c].n>> ELSE <<turn[c].n>>
\* A stream is relayed and a status is never captured from it; a 400 in one piece is captured.
Replied(c, status, streamed) ==
  /\ Goes(c, "backend", IF status = "refused" /\ ~streamed THEN "stamp" ELSE "answered")
  /\ reply' = [reply EXCEPT ![c] = [status |-> status, facts |-> reply[c].facts,
                                    text |-> IF status = "ok" THEN TurnHeard(c, streamed) ELSE <<>>]]
  /\ NoCall /\ SameShots /\ SameTurn

\* _capture_upstream_400: a stamp, a temporary file, a rename, a listing, the unlinks.
Stamp(c) ==
  /\ Goes(c, "stamp", "draft")
  /\ stamped' = stamped + 1
  /\ shot' = [shot EXCEPT ![c] = [stamp |-> stamped + 1, listed |-> {}]]
  /\ NoCall /\ SameTurn /\ UNCHANGED <<reply, shots, drafts, captured>>
WriteDraft(c) ==
  /\ Goes(c, "draft", "publish")
  /\ drafts' = drafts \union {shot[c].stamp}
  /\ NoCall /\ SameTurn /\ UNCHANGED <<reply, shot, shots, stamped, captured>>
Publish(c) ==
  /\ Goes(c, "publish", "list")
  /\ drafts' = drafts \ {shot[c].stamp}
  /\ shots' = shots \union {shot[c].stamp} /\ captured' = captured \union {shot[c].stamp}
  /\ NoCall /\ SameTurn /\ UNCHANGED <<reply, shot, stamped>>
\* The disk is full: what was written of the temporary file stays.
DraftFails(c) ==
  /\ Goes(c, "publish", "answered")
  /\ NoCall /\ SameTurn /\ SameShots /\ UNCHANGED reply
ListShots(c) ==
  /\ Goes(c, "list", "prune")
  /\ shot' = [shot EXCEPT ![c] = [stamp |-> shot[c].stamp, listed |-> shots]]
  /\ NoCall /\ SameTurn /\ UNCHANGED <<reply, shots, drafts, stamped, captured>>
Newer(s, set) == {t \in set : t > s}
OutdatedBackwards(listed) == {s \in listed : Cardinality(listed \ Newer(s, listed)) > Keep}
Outdated(listed) == {s \in listed : Cardinality(Newer(s, listed)) >= Keep}
Prune(c) ==
  /\ Goes(c, "prune", "answered")
  /\ shots' = shots \ Outdated(shot[c].listed)
  /\ NoCall /\ SameTurn /\ UNCHANGED <<reply, shot, drafts, stamped, captured>>

\* The answer is out: a thread sends the turn to Graphiti, unless the backend
\* failed (5xx) or never answered.
Task(c, n, text, at) == [of |-> c, n |-> n, text |-> text, at |-> at]
Finish(c) ==
  /\ Goes(c, "answered", "idle")
  /\ tasks' = IF turn[c].grouped /\ reply[c].status \in {"ok", "refused"}
              THEN tasks \union {Task(c, turn[c].n, reply[c].text, "look")} ELSE tasks
  /\ reply' = [reply EXCEPT ![c] = NoReply] /\ shot' = [shot EXCEPT ![c] = NoCapture]
  /\ NoCall /\ UNCHANGED <<recallClock, turn, remembered, shots, drafts, stamped, captured>>

IngestLooks(t) ==
  /\ t \in tasks /\ t.at = "look"
  /\ tasks' = (tasks \ {t}) \union (IF Suspended THEN {} ELSE {Task(t.of, t.n, t.text, "call")})
  /\ NoCall /\ SameShots /\ UNCHANGED <<recallClock, phase, turn, reply, remembered>>
Remember(t) == remembered' = [remembered EXCEPT ![t.of] = Append(@, [n |-> t.n, text |-> t.text])]
Ingested(t) ==
  /\ t \in tasks /\ t.at = "call" /\ tasks' = tasks \ {t}
  /\ GoodCall /\ Remember(t) /\ SameShots /\ UNCHANGED <<recallClock, phase, turn, reply>>
\* A call that timed out may have been taken all the same.
IngestFails(t, taken) ==
  /\ t \in tasks /\ t.at = "call" /\ tasks' = tasks \ {t} /\ FailedCall
  /\ IF taken THEN Remember(t) ELSE UNCHANGED remembered
  /\ SameShots /\ UNCHANGED <<recallClock, phase, turn, reply>>

RecallNext ==
  \/ SecondGoes
  \/ \E c \in Askers : \/ \E kind \in {"chat", "responses"}, memory \in BOOLEAN : Ask(c, kind, memory)
                       \/ Look(c) \/ Retrieved(c) \/ Stamp(c) \/ Publish(c) \/ DraftFails(c) \/ WriteDraft(c) \/ ListShots(c)
                       \/ Prune(c) \/ Finish(c)
                       \/ \E b \in BOOLEAN : BeginRetrieval(c, b) \/ RetrievalFails(c, b)
                       \/ \E status \in {"ok", "refused", "broken", "none"}, streamed \in BOOLEAN :
                            Replied(c, status, streamed)
  \/ \E t \in tasks : IngestLooks(t) \/ Ingested(t) \/ \E b \in BOOLEAN : IngestFails(t, b)

RecallSpec == RecallInit /\ [][RecallNext]_recallVars

-----------------------------------------------------------------------------
RecallTypeOK ==
  /\ recallClock \in 0..MaxClock /\ until \in 0..(MaxClock + CooldownSec)
  /\ \A c \in Askers : phase[c] \in Phases /\ turn[c].n \in 0..MaxTurns
  /\ (shots \union drafts) \subseteq 1..MaxTurns * Cardinality(Askers)

\* Graphiti is left alone for one cooldown after a failure and no longer,
\* however many requests failed on it at once.
SuspensionEnds == Suspended => lastFailure + CooldownSec >= until /\ failures > 0
\* The newest captures are the ones on disk, though requests stamp, rename and
\* prune theirs in any order: one is gone only when Keep newer ones were taken.
NewestKept == \A s \in captured : Cardinality(Newer(s, captured)) < Keep => s \in shots
\* ... and what is on disk beyond them is what a request is about to prune.
CapturesBounded == Cardinality(shots) <= Keep + Cardinality({c \in Askers : phase[c] \in {"list", "prune"}})
CapturesKept == NewestKept /\ CapturesBounded

\* Violated: a turn is remembered once, as it was said.
IngestedOnce == \A c \in Askers : \A i \in DOMAIN remembered[c] : Len(remembered[c][i].text) <= 1
\* Violated: turns are remembered in the order they were had.
IngestedInOrder == \A c \in Askers : \A i, j \in DOMAIN remembered[c] : i < j => remembered[c][i].n < remembered[c][j].n
\* Violated: a refused turn (the backend's 400) is not remembered.
OnlyAnswered == \A c \in Askers : \A i \in DOMAIN remembered[c] : remembered[c][i].text # <<>>
\* Violated: a temporary file is some capture's in progress.
DraftsAreOpen == \A s \in drafts : \E c \in Askers : shot[c].stamp = s
=============================================================================
