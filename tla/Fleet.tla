------------------------------- MODULE Fleet --------------------------------
(***************************************************************************)
(* Other machines on one page: the peer list, the poller that asks every   *)
(* peer on a thread of its own and joins it against a deadline, the cards  *)
(* and the schemas it keeps by the name the operator gave, and the writes  *)
(* the page sends through, behind two gates.                               *)
(***************************************************************************)
EXTENDS Naturals, FiniteSets

CONSTANTS
  Peers,          \* names in the registry
  Boxes,          \* machines on the network
  Loops,          \* polling threads
  OldBox,         \* a machine whose API has another major, and fewer keys
  Keys,           \* the settings a save from this page carries
  MaxRegistry,    \* bound: edits of the registry
  MaxTurns,       \* bound: machines going away and coming back
  MaxWrites,      \* bound: saves sent
  None            \* no entry, no tick, no card, no schema, no write

ASSUME FleetAssumption == OldBox \in Boxes /\ MaxRegistry \in Nat /\ MaxTurns \in Nat

VARIABLES
  registry,       \* config/fleet.json: name -> the machine, and its control flag
  box,            \* machine -> "up", "off" or "hung"
  loop,           \* thread -> its tick
  card, schema,   \* FleetCache: by name
  write, holds,   \* the save under way; machine -> the keys written there
  edits, turns, writes, \* bounds
  refusedOnce,    \* history: names polled as speaking another major, and not edited since
  sent,           \* history: writes that went to such a name
  answer          \* history: the last answer to a save

fleetVars == <<registry, box, loop, card, schema, write, holds, edits, turns, writes,
               refusedOnce, sent, answer>>

Major(b) == IF b = OldBox THEN "1" ELSE "2"
KnownKeys(b) == IF b = OldBox THEN {} ELSE Keys
Entry(b, control) == [box |-> b, control |-> control]
Card(ok, of, refused) == [ok |-> ok, of |-> of, refused |-> refused]

FleetInit ==
  /\ registry = [h \in Peers |-> None]
  /\ box = [b \in Boxes |-> "up"]
  /\ loop = [t \in Loops |-> None]
  /\ card = [h \in Peers |-> None] /\ schema = [h \in Peers |-> None]
  /\ write = None /\ holds = [b \in Boxes |-> {}]
  /\ edits = 0 /\ turns = 0 /\ writes = 0
  /\ refusedOnce = {} /\ sent = {} /\ answer = None

Listed == {h \in Peers : registry[h] # None}

\* The registry's routes: a host is added, edited or deleted; its card and its
\* schema stay under its name.
Registered(h, entry) ==
  /\ edits < MaxRegistry /\ edits' = edits + 1
  /\ registry' = [registry EXCEPT ![h] = entry]
  /\ refusedOnce' = refusedOnce \ {h}
  /\ UNCHANGED <<box, loop, card, schema, write, holds, turns, writes, sent, answer>>
HostAdded(h) == registry[h] = None /\ \E b \in Boxes, c \in BOOLEAN : Registered(h, Entry(b, c))
HostEdited(h) == registry[h] # None /\ \E b \in Boxes, c \in BOOLEAN : Registered(h, Entry(b, c))
HostDeleted(h) == registry[h] # None /\ Registered(h, None)

BoxTurns(b) ==
  /\ turns < MaxTurns /\ turns' = turns + 1
  /\ \E s \in {"up", "off", "hung"} : s # box[b] /\ box' = [box EXCEPT ![b] = s]
  /\ UNCHANGED <<registry, loop, card, schema, write, holds, edits, writes, refusedOnce, sent, answer>>
-----------------------------------------------------------------------------
Ticks(t, to) == loop' = [loop EXCEPT ![t] = to]
Tick(at, asked, out) == [at |-> at, asked |-> asked, out |-> out]
Asking(at, had, shown) == [at |-> at, had |-> had, shown |-> shown]
Kept == UNCHANGED <<registry, box, write, holds, edits, turns, writes, refusedOnce, sent, answer>>
\* ensure_running: two requests that both find no thread start two.
LoopStarts(t) ==
  /\ loop[t] = None /\ Listed # {}
  /\ Ticks(t, Tick("rest", None, None))
  /\ UNCHANGED <<card, schema>> /\ Kept
\* collect: nobody listed clears the cards; otherwise a thread for each host.
TickBegins(t) ==
  /\ loop[t] # None /\ loop[t].at = "rest"
  /\ IF Listed = {} THEN card' = [h \in Peers |-> None] /\ UNCHANGED loop
     ELSE /\ Ticks(t, Tick("join", registry, [h \in Peers |-> Asking("schema", None, None)]))
          /\ UNCHANGED card
  /\ UNCHANGED schema /\ Kept
Out(t, h, to) == Ticks(t, Tick("join", loop[t].asked, [loop[t].out EXCEPT ![h] = to]))
Asked(t) == {h \in Peers : loop[t].asked[h] # None}
At(t, h, where) == /\ loop[t] # None /\ loop[t].at = "join"
                   /\ h \in Asked(t) /\ loop[t].out[h].at = where
\* A request to a machine: it answers, or fails.  The timeout is of one read,
\* so one that hangs may send a byte now and then and never meet it.
Replies(b) == box[b] = "up"
Returns(b) == box[b] # "hung"
\* _schema_for: what is cached under the name, for as long as it lives, a
\* failure included.
ReadsSchema(t, h) ==
  /\ At(t, h, "schema") /\ (schema[h] = None => Returns(loop[t].asked[h].box))
  /\ LET b == loop[t].asked[h].box
         had == IF schema[h] # None THEN schema[h] ELSE IF Replies(b) THEN Major(b) ELSE "error"
     IN  schema' = [schema EXCEPT ![h] = had] /\ Out(t, h, Asking("snapshot", had, None))
  /\ UNCHANGED card /\ Kept
\* _collect_one: a peer refuses a section it does not have, which blanks the card.
ReadsSnapshot(t, h) ==
  /\ At(t, h, "snapshot") /\ Returns(loop[t].asked[h].box)
  /\ LET b == loop[t].asked[h].box
         had == loop[t].out[h].had
         refused == had = "1"
         ok == Replies(b) /\ (b = OldBox => had = "1")
     IN  Out(t, h, Asking("back", had, Card(ok, IF ok THEN b ELSE None, refused)))
  /\ UNCHANGED <<card, schema>> /\ Kept
SchemaExpires(h) ==
  /\ schema[h] # None /\ schema' = [schema EXCEPT ![h] = None]
  /\ UNCHANGED <<loop, card>> /\ Kept

Back(t) == {h \in Asked(t) : loop[t].out[h].at = "back"}
\* Mutant: the tick waits for every thread.
JoinedAll(t) == Back(t) = Asked(t)
\* The join gives up on a machine that does not answer.
Joined(t) == \A h \in Asked(t) \ Back(t) : ~Replies(loop[t].asked[h].box)
Late == Card(FALSE, None, FALSE)
TickEnds(t) ==
  /\ loop[t] # None /\ loop[t].at = "join" /\ Joined(t)
  /\ card' = [h \in Peers |->
       IF h \notin Asked(t) THEN card[h]
       ELSE LET entry == IF h \in Back(t) THEN loop[t].out[h].shown ELSE Late
                kept == IF card[h] = None THEN None ELSE card[h].of
            IN  Card(entry.ok, IF entry.ok THEN entry.of ELSE kept, entry.refused)]
  /\ refusedOnce' = {h \in Peers : /\ h \in refusedOnce \/ (h \in Back(t) /\ card'[h].refused)
                                   /\ registry[h] # None}
  /\ Ticks(t, Tick("rest", None, None))
  /\ UNCHANGED <<registry, box, schema, write, holds, edits, turns, writes, sent, answer>>
-----------------------------------------------------------------------------
\* _controllable: the peer's flag, and the refusal on its card if it has one.
Controllable(h) == /\ registry[h] # None /\ registry[h].control
                   /\ card[h] # None => ~card[h].refused
Asks(h) ==
  /\ write = None /\ writes < MaxWrites /\ writes' = writes + 1
  /\ Controllable(h)
  /\ write' = [to |-> h, box |-> registry[h].box]
  /\ sent' = IF h \in refusedOnce THEN sent \cup {h} ELSE sent
  /\ answer' = None
  /\ UNCHANGED <<registry, box, loop, card, schema, holds, edits, turns, refusedOnce>>
\* Mutant: the peer's 200 is passed on.
CodePassedOn(written) == 200
\* api_fleet_config_save: a key the peer does not know makes its 200 a 409.
Code(written) == IF written = Keys THEN 200 ELSE 409
\* One call: the peer writes what it knows, and its answer arrives or is late.
Sends ==
  /\ write # None /\ write' = None
  /\ LET b == write.box IN
     IF Replies(b)
       THEN /\ holds' = [holds EXCEPT ![b] = KnownKeys(b)]
            /\ \E code \in {Code(KnownKeys(b)), 502} : answer' = [box |-> b, code |-> code]
       ELSE answer' = [box |-> b, code |-> 502] /\ UNCHANGED holds
  /\ UNCHANGED <<registry, box, loop, card, schema, edits, turns, writes, refusedOnce, sent>>

Polling(t) == \/ LoopStarts(t) \/ TickBegins(t) \/ TickEnds(t)
              \/ \E h \in Peers : ReadsSchema(t, h) \/ ReadsSnapshot(t, h)
FleetNext ==
  \/ \E h \in Peers : HostAdded(h) \/ HostEdited(h) \/ HostDeleted(h) \/ SchemaExpires(h) \/ Asks(h)
  \/ \E b \in Boxes : BoxTurns(b)
  \/ \E t \in Loops : Polling(t)
  \/ Sends
\* The threads run, a schema is forgotten after its time, and an open page
\* asks for the fleet.
FleetFairness ==
  /\ \A t \in Loops : WF_fleetVars(LoopStarts(t)) /\ WF_fleetVars(TickBegins(t)) /\ WF_fleetVars(TickEnds(t))
  /\ \A t \in Loops, h \in Peers : WF_fleetVars(ReadsSchema(t, h)) /\ WF_fleetVars(ReadsSnapshot(t, h))
  /\ \A h \in Peers : WF_fleetVars(SchemaExpires(h))
FleetSpec == FleetInit /\ [][FleetNext]_fleetVars /\ FleetFairness
-----------------------------------------------------------------------------
Seen(h) == card[h] # None /\ card[h].ok /\ card[h].of = registry[h].box
(* A machine that stays up under one name is shown, again and again, as it *)
(* answers, whatever hangs beside it and whatever was cached of another.   *)
FleetSees == \A h \in Peers :
  (<>[](registry[h] # None /\ Replies(registry[h].box))) => []<>(registry[h] # None /\ Seen(h))
(* A save answered 200 wrote every key on the machine it was sent to.     *)
OkMeansWritten == answer # None /\ answer.code = 200 => holds[answer.box] = Keys
(* (Does not hold.)                                                      *)
(* routes/fleet.py: the two majors must agree.  Once a peer has been seen  *)
(* to speak another, no write goes to it until it is edited.               *)
VersionGate == sent = {}
(* (Does not hold.)                                                      *)
(* A save answered with an error wrote nothing.                            *)
ErrorMeansUnwritten == answer # None /\ answer.code # 200 => holds[answer.box] = {}
(* (Does not hold.)                                                      *)
(* A card shows the machine that the registry names.                       *)
OwnCard == \A h \in Peers : registry[h] # None /\ card[h] # None /\ card[h].of # None
                              => card[h].of = registry[h].box
=============================================================================
