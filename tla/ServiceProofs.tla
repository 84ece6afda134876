---------------------------- MODULE ServiceProofs ----------------------------
(***************************************************************************)
(* The safety of the memory gateway, of the graph's pages, of the proxy's  *)
(* rewriting, of the voice profiles' cache, of the names voices are given  *)
(* and of the speech server's sleep, each proved of its own specification. *)
(***************************************************************************)
EXTENDS MemoryGraph, Recall, Rewrite, Voices, Speakers, Speech, FiniteSetTheorems, WellFoundedInduction, TLAPS

------------------------------------------------------------------------------
(* The memory gateway's suspension *)

\* No failure is ahead of the clock, and what suspends was put there by the last one.
SuspensionInv ==
  /\ recallClock \in Nat /\ until \in Nat /\ lastFailure \in Nat /\ failures \in Nat
  /\ lastFailure <= recallClock
  /\ until > 0 => failures > 0 /\ until <= lastFailure + CooldownSec

LEMMA SuspensionInit == RecallInit => SuspensionInv
  BY DEF RecallInit, SuspensionInv

\* A failed call suspends from now, unless what suspends is the later of the two.
LEMMA SuspensionFails == SuspensionInv /\ FailedCall /\ UNCHANGED recallClock => SuspensionInv'
  BY RecallAssumption DEF SuspensionInv, FailedCall, Suspension

LEMMA SuspensionGood == SuspensionInv /\ (GoodCall \/ NoCall) /\ UNCHANGED recallClock => SuspensionInv'
  BY DEF SuspensionInv, GoodCall, NoCall

LEMMA SuspensionNext == SuspensionInv /\ [RecallNext]_recallVars => SuspensionInv'
<1> SUFFICES ASSUME SuspensionInv, [RecallNext]_recallVars PROVE SuspensionInv' OBVIOUS
<1>1. CASE SecondGoes BY <1>1 DEF SecondGoes, SuspensionInv
<1>2. CASE \E c \in Askers, torn \in BOOLEAN : RetrievalFails(c, torn)
  BY <1>2, SuspensionFails, SuspensionGood DEF RetrievalFails, SameTurn
<1>3. CASE \E t \in tasks, b \in BOOLEAN : IngestFails(t, b)
  BY <1>3, SuspensionFails DEF IngestFails
<1>4. CASE \E t \in tasks : IngestLooks(t) \/ Ingested(t)
  BY <1>4, SuspensionGood DEF IngestLooks, Ingested
<1>5. CASE \E c \in Askers :
             \/ \E kind \in {"chat", "responses"}, memory \in BOOLEAN : Ask(c, kind, memory)
             \/ Look(c) \/ Retrieved(c) \/ Finish(c)
             \/ \E b \in BOOLEAN : BeginRetrieval(c, b)
             \/ \E status \in {"ok", "refused", "broken", "none"}, streamed \in BOOLEAN :
                  Replied(c, status, streamed)
  BY <1>5, SuspensionGood DEF Ask, Look, Retrieved, Finish, BeginRetrieval, Replied, SameTurn
<1>6. CASE \E c \in Askers : \/ Stamp(c) \/ WriteDraft(c) \/ Publish(c) \/ DraftFails(c)
                             \/ ListShots(c) \/ Prune(c)
  BY <1>6, SuspensionGood DEF Stamp, WriteDraft, Publish, DraftFails, ListShots, Prune, SameTurn
<1>7. CASE UNCHANGED recallVars BY <1>7 DEF recallVars, SuspensionInv
<1> QED BY <1>1, <1>2, <1>3, <1>4, <1>5, <1>6, <1>7 DEF RecallNext

\* Graphiti is left alone for one GRAPHITI_COOLDOWN_SEC after a failure and no longer,
\* however many requests and ingest threads failed on it at once.
THEOREM SuspensionIsShort == RecallSpec => []SuspensionEnds
<1>1. SuspensionInv => SuspensionEnds
  BY RecallAssumption DEF SuspensionInv, SuspensionEnds, Suspended
<1> QED BY <1>1, SuspensionInit, SuspensionNext, PTL DEF RecallSpec

------------------------------------------------------------------------------
(* The captures of refused requests *)

HasStamp(c) == phase[c] \in {"draft", "publish", "list", "prune"}
Pruning(c) == phase[c] \in {"list", "prune"}

\* A stamp is one request's, and no capture has it before that request renames its own.
StampsInv ==
  /\ stamped \in Nat /\ shots \subseteq captured /\ captured \subseteq 1..stamped
  /\ phase \in [Askers -> Phases]
  /\ shot \in [Askers -> [stamp : 0..stamped, listed : SUBSET captured]]
  /\ \A c \in Askers : HasStamp(c) => shot[c].stamp > 0
  /\ \A c \in Askers : phase[c] \in {"draft", "publish"} => shot[c].stamp \notin captured
  /\ \A c, d \in Askers : HasStamp(c) /\ HasStamp(d) /\ shot[c].stamp = shot[d].stamp => c = d

\* Every capture on disk outside L is of a request that has yet to prune.
Pending == {s \in captured : \E c \in Askers : Pruning(c) /\ shot[c].stamp = s}
OthersPending(L) == shots \ L \subseteq Pending

\* A listing covers its own request's capture; two listings differ by what was renamed
\* between them; and one that was made before L has nothing that L has not.
ListingsInv(L) ==
  /\ \A c \in Askers : phase[c] = "prune" =>
       /\ shot[c].stamp \in shots => shot[c].stamp \in shot[c].listed
       /\ OthersPending(shot[c].listed) \/ shots \cap shot[c].listed \subseteq L
  /\ \A c, d \in Askers : phase[c] = "prune" /\ phase[d] = "prune" =>
       \/ shots \cap shot[c].listed \subseteq shot[d].listed
       \/ shots \cap shot[d].listed \subseteq shot[c].listed

\* L: the last listing that a request has pruned by.
BoundedBy(L) ==
  /\ Cardinality(shots \cap L) <= Keep /\ OthersPending(L) /\ ListingsInv(L)

CapturesInv == StampsInv /\ NewestKept /\ \E L \in SUBSET captured : BoundedBy(L)

\* Of what a request lists, it leaves at most UPSTREAM_400_CAPTURE_KEEP captures.
LEMMA FewAreLeft ==
  ASSUME NEW S \in SUBSET Nat, IsFiniteSet(S)
  PROVE  IsFiniteSet(S \ Outdated(S)) /\ Cardinality(S \ Outdated(S)) <= Keep
<1> DEFINE N == S \ Outdated(S)
<1>1. IsFiniteSet(N) /\ Cardinality(N) \in Nat BY FS_Subset, FS_CardinalityType
<1>2. CASE N = {} BY <1>1, <1>2, FS_EmptySet, RecallAssumption
<1>3. CASE N # {}
  <2>1. PICK m \in N : \A s \in N : ~(<<s, m>> \in OpToRel(<, Nat))
    BY <1>3, NatLessThanWellFounded, WFMin, Zenon
  <2>9. N \subseteq Nat /\ m \in Nat /\ m \in S /\ m \notin Outdated(S) /\ N \subseteq S BY <2>1
  <2>2. ASSUME NEW s \in N PROVE s = m \/ s > m
    <3>1. s \in Nat /\ ~(<<s, m>> \in {ss \in Nat \X Nat : ss[1] < ss[2]}) BY <2>1, <2>9 DEF OpToRel
    <3>2. ~(s < m) BY <2>9, <3>1
    <3> QED BY <2>9, <3>1, <3>2
  <2>3. N \in SUBSET (Newer(m, S) \cup {m}) BY <2>2, <2>9 DEF Newer
  <2>4. Newer(m, S) \in SUBSET S /\ m \notin Newer(m, S) BY DEF Newer
  <2>5. IsFiniteSet(Newer(m, S)) /\ Cardinality(Newer(m, S)) \in Nat
    BY <2>4, FS_Subset, FS_CardinalityType
  <2>6. Cardinality(Newer(m, S)) < Keep BY <2>9, <2>5, RecallAssumption DEF Outdated
  <2>7. /\ Cardinality(Newer(m, S) \cup {m}) = Cardinality(Newer(m, S)) + 1
        /\ IsFiniteSet(Newer(m, S) \cup {m})
    BY <2>4, <2>5, FS_AddElement
  <2>8. Cardinality(N) <= Cardinality(Newer(m, S) \cup {m}) BY <2>3, <2>7, FS_Subset
  <2> QED BY <1>1, <2>5, <2>6, <2>7, <2>8, RecallAssumption
<1> QED BY <1>2, <1>3, <1>1

\* The captures taken are finitely many stamps.
LEMMA CapturesFinite ==
  ASSUME StampsInv, NEW S \in SUBSET captured
  PROVE  IsFiniteSet(S) /\ Cardinality(S) \in Nat /\ S \in SUBSET Nat
<1>1. stamped \in Nat /\ S \subseteq 1..stamped BY DEF StampsInv
<1>2. IsFiniteSet(1..stamped) BY <1>1, FS_Interval
<1>3. IsFiniteSet(S) BY <1>1, <1>2, FS_Subset
<1>4. Cardinality(S) \in Nat BY <1>3, FS_CardinalityType
<1>5. S \subseteq Nat BY <1>1
<1> QED BY <1>3, <1>4, <1>5

\* A capture that has Keep newer ones among some has them among more.
LEMMA MoreAreNewer ==
  ASSUME NEW S, NEW T, IsFiniteSet(T), S \subseteq T, NEW s
  PROVE  /\ Cardinality(Newer(s, S)) <= Cardinality(Newer(s, T))
         /\ Cardinality(Newer(s, S)) \in Nat /\ Cardinality(Newer(s, T)) \in Nat
<1>1. Newer(s, S) \in SUBSET Newer(s, T) /\ Newer(s, T) \in SUBSET T BY DEF Newer
<1>2. IsFiniteSet(Newer(s, T)) /\ IsFiniteSet(Newer(s, S)) BY <1>1, FS_Subset
<1>3. Cardinality(Newer(s, S)) <= Cardinality(Newer(s, T)) BY <1>1, <1>2, FS_Subset
<1> QED BY <1>2, <1>3, FS_CardinalityType

LEMMA CapturesInit == RecallInit => CapturesInv
<1> SUFFICES ASSUME RecallInit PROVE CapturesInv OBVIOUS
<1>1. StampsInv BY DEF RecallInit, StampsInv, Phases, NoCapture, HasStamp
<1>2. NewestKept BY DEF RecallInit, NewestKept
<1>3. shots \cap {} = {} /\ Cardinality({}) = 0 /\ Keep >= 0 BY FS_EmptySet, RecallAssumption
<1>4. BoundedBy({}) BY <1>3 DEF RecallInit, BoundedBy, OthersPending, ListingsInv
<1> QED BY <1>1, <1>2, <1>4 DEF CapturesInv

\* A step that leaves the files and the requests that have renamed one alone.
LEMMA CapturesElsewhere ==
  ASSUME CapturesInv, StampsInv', UNCHANGED <<shots, captured>>,
         \A c \in Askers : Pruning(c) \/ Pruning(c)' => phase'[c] = phase[c] /\ shot'[c] = shot[c]
  PROVE  CapturesInv'
<1>1. NewestKept' BY DEF CapturesInv, NewestKept
<1>2. PICK L \in SUBSET captured : BoundedBy(L) BY DEF CapturesInv
<1>3. Pending \subseteq Pending' BY DEF Pending, Pruning
<1>4. \A c \in Askers : phase'[c] = "prune" => phase[c] = "prune" /\ shot'[c] = shot[c]
  BY DEF Pruning
<1>5. ListingsInv(L)' BY <1>2, <1>3, <1>4 DEF BoundedBy, ListingsInv, OthersPending
<1>6. BoundedBy(L)' BY <1>2, <1>3, <1>5 DEF BoundedBy, OthersPending
<1> QED BY <1>1, <1>2, <1>6 DEF CapturesInv

\* The other steps of a request, and those of the clock and of the ingest threads.
LEMMA CapturesOthers ==
  ASSUME CapturesInv, NEW c \in Askers, NEW from \in {"idle", "look", "call", "calling", "backend", "answered"},
         NEW to \in {"idle", "look", "call", "calling", "backend", "answered", "stamp"}, Goes(c, from, to),
         UNCHANGED <<shots, captured, stamped>>,
         shot' = shot \/ shot' = [shot EXCEPT ![c] = NoCapture]
  PROVE  CapturesInv'
<1>1. /\ \A d \in Askers \ {c} : phase'[d] = phase[d] /\ shot'[d] = shot[d]
      /\ ~HasStamp(c) /\ ~HasStamp(c)' /\ phase' \in [Askers -> Phases]
      /\ shot' \in [Askers -> [stamp : 0..stamped, listed : SUBSET captured]]
  BY DEF CapturesInv, StampsInv, Goes, HasStamp, Phases, NoCapture
<1>2. StampsInv' BY <1>1 DEF CapturesInv, StampsInv, HasStamp
<1> QED BY <1>1, <1>2, CapturesElsewhere DEF HasStamp, Pruning

LEMMA CapturesUnmoved ==
  ASSUME CapturesInv, UNCHANGED <<phase, shot, shots, captured, stamped>>
  PROVE  CapturesInv'
<1>1. StampsInv' BY DEF CapturesInv, StampsInv, HasStamp
<1> QED BY <1>1, CapturesElsewhere

\* A capture is stamped and its draft is written.
LEMMA CapturesDraft ==
  ASSUME CapturesInv, NEW c \in Askers, Stamp(c) \/ WriteDraft(c) \/ DraftFails(c)
  PROVE  CapturesInv'
<1> USE DEF CapturesInv
<1>1. UNCHANGED <<shots, captured>> BY DEF Stamp, WriteDraft, DraftFails, SameShots
<1>2. /\ phase' \in [Askers -> Phases] /\ \A d \in Askers \ {c} : phase'[d] = phase[d]
      /\ ~Pruning(c) /\ ~Pruning(c)'
  BY DEF StampsInv, Stamp, WriteDraft, DraftFails, Goes, Phases, Pruning
<1>3. CASE Stamp(c)
  <2>1. /\ stamped' = stamped + 1 /\ shot' = [shot EXCEPT ![c] = [stamp |-> stamped + 1, listed |-> {}]]
        /\ phase[c] = "stamp" /\ phase'[c] = "draft"
    BY <1>3 DEF Stamp, Goes, StampsInv
  <2>2. shot' \in [Askers -> [stamp : 0..stamped', listed : SUBSET captured']]
    BY <1>1, <2>1 DEF StampsInv
  <2>3. \A d \in Askers \ {c} : shot'[d] = shot[d] /\ shot'[d].stamp # stamped + 1
    BY <2>1 DEF StampsInv
  <2>4. shot'[c].stamp = stamped + 1 /\ stamped + 1 \notin captured BY <2>1 DEF StampsInv
  <2>5. StampsInv' BY <1>1, <1>2, <2>1, <2>2, <2>3, <2>4 DEF StampsInv, HasStamp
  <2> QED BY <1>1, <1>2, <2>3, <2>5, CapturesElsewhere
<1>4. CASE WriteDraft(c) \/ DraftFails(c)
  <2>1. UNCHANGED <<shot, stamped>> /\ HasStamp(c) /\ phase'[c] \in {"publish", "answered"}
        /\ phase[c] \in {"draft", "publish"}
    BY <1>4 DEF WriteDraft, DraftFails, SameShots, Goes, StampsInv, HasStamp
  <2>2. StampsInv' BY <1>1, <1>2, <2>1 DEF StampsInv, HasStamp
  <2> QED BY <1>1, <1>2, <2>1, <2>2, CapturesElsewhere
<1> QED BY <1>3, <1>4

\* A capture gets its name: no listing has it, and its request has yet to prune.
LEMMA CapturesPublish == ASSUME CapturesInv, NEW c \in Askers, Publish(c) PROVE CapturesInv'
<1> DEFINE s == shot[c].stamp
<1> USE DEF CapturesInv
<1>1. /\ phase[c] = "publish" /\ phase'[c] = "list" /\ phase' \in [Askers -> Phases]
      /\ \A d \in Askers \ {c} : phase'[d] = phase[d]
      /\ UNCHANGED <<shot, stamped>> /\ shots' = shots \cup {s} /\ captured' = captured \cup {s}
  BY DEF Publish, Goes, StampsInv, Phases
<1>2. /\ s \in 1..stamped /\ s \notin captured
      /\ \A d \in Askers \ {c} : HasStamp(d) => shot[d].stamp # s
  <2>1. HasStamp(c) /\ s \in 0..stamped BY <1>1 DEF StampsInv, HasStamp
  <2> QED BY <1>1, <2>1 DEF StampsInv
<1>3. StampsInv'
  <2>1. shot' \in [Askers -> [stamp : 0..stamped', listed : SUBSET captured']] BY <1>1 DEF StampsInv
  <2>2. \A d \in Askers : HasStamp(d)' <=> HasStamp(d) BY <1>1 DEF HasStamp
  <2>3. \A d \in Askers : phase'[d] \in {"draft", "publish"} => shot'[d].stamp \notin captured'
    <3> SUFFICES ASSUME NEW d \in Askers, phase'[d] \in {"draft", "publish"}
                 PROVE  shot'[d].stamp \notin captured' OBVIOUS
    <3>1. d # c BY <1>1
    <3>2. shot[d].stamp # s /\ shot[d].stamp \notin captured BY <1>1, <1>2, <3>1 DEF HasStamp, StampsInv
    <3> QED BY <1>1, <3>2
  <2>4. \A d, e \in Askers : HasStamp(d)' /\ HasStamp(e)' /\ shot'[d].stamp = shot'[e].stamp => d = e
    BY <1>1, <2>2 DEF StampsInv
  <2>5. \A d \in Askers : HasStamp(d)' => shot'[d].stamp > 0 BY <1>1, <2>2 DEF StampsInv
  <2>6. stamped' \in Nat /\ shots' \subseteq captured' /\ captured' \subseteq 1..stamped'
    BY <1>1, <1>2 DEF StampsInv
  <2> QED BY <1>1, <2>1, <2>3, <2>4, <2>5, <2>6 DEF StampsInv
<1>4. NewestKept'
  <2> SUFFICES ASSUME NEW t \in captured', Cardinality(Newer(t, captured')) < Keep PROVE t \in shots'
    BY DEF NewestKept, Newer
  <2>1. CASE t = s BY <2>1, <1>1
  <2>2. CASE t \in captured
    <3>1. IsFiniteSet(captured) BY CapturesFinite
    <3>2. IsFiniteSet(captured') BY <1>1, <3>1, FS_AddElement
    <3>3. captured \subseteq captured' BY <1>1
    <3>4. Cardinality(Newer(t, captured)) < Keep BY <3>2, <3>3, MoreAreNewer, RecallAssumption
    <3> QED BY <2>2, <3>4, <1>1 DEF NewestKept
  <2> QED BY <1>1, <2>1, <2>2
<1>5. PICK L \in SUBSET captured : BoundedBy(L) OBVIOUS
<1>6. \A M \in SUBSET captured : shots' \cap M = shots \cap M BY <1>1, <1>2
<1>7. Pending \cup {s} \subseteq Pending'
  <2>1. \A d \in Askers : Pruning(d) => Pruning(d)' /\ shot'[d] = shot[d] BY <1>1 DEF Pruning
  <2>2. s \in Pending' BY <1>1 DEF Pending, Pruning
  <2> QED BY <1>1, <2>1, <2>2 DEF Pending
<1>8. ListingsInv(L)'
  <2>1. \A d \in Askers : phase'[d] = "prune" =>
          phase[d] = "prune" /\ shot[d].listed \in SUBSET captured /\ shot[d].stamp # s
    BY <1>1, <1>2 DEF StampsInv, HasStamp
  <2>2. ASSUME NEW d \in Askers, phase'[d] = "prune"
        PROVE  /\ shot[d].stamp \in shots' => shot[d].stamp \in shot[d].listed
               /\ shots' \ shot[d].listed \subseteq Pending' \/ shots' \cap shot[d].listed \subseteq L
    BY <1>1, <1>5, <1>6, <1>7, <2>1, <2>2 DEF BoundedBy, ListingsInv, OthersPending
  <2>3. ASSUME NEW d \in Askers, NEW e \in Askers, phase'[d] = "prune", phase'[e] = "prune"
        PROVE  \/ shots' \cap shot[d].listed \subseteq shot[e].listed
               \/ shots' \cap shot[e].listed \subseteq shot[d].listed
    BY <1>5, <1>6, <2>1, <2>3 DEF BoundedBy, ListingsInv
  <2>4. UNCHANGED shot BY <1>1
  <2> QED BY <2>2, <2>3, <2>4 DEF ListingsInv, OthersPending
<1>9. BoundedBy(L)' /\ L \in SUBSET captured'
  BY <1>1, <1>5, <1>6, <1>7, <1>8 DEF BoundedBy, OthersPending
<1> QED BY <1>3, <1>4, <1>9

\* A listing has all that is on disk.
LEMMA CapturesList == ASSUME CapturesInv, NEW c \in Askers, ListShots(c) PROVE CapturesInv'
<1> USE DEF CapturesInv
<1>1. /\ phase[c] = "list" /\ phase'[c] = "prune" /\ phase' \in [Askers -> Phases]
      /\ \A d \in Askers \ {c} : phase'[d] = phase[d] /\ shot'[d] = shot[d]
      /\ shot'[c] = [stamp |-> shot[c].stamp, listed |-> shots]
      /\ UNCHANGED <<shots, captured, stamped>>
  BY DEF ListShots, Goes, StampsInv, Phases
<1>2. /\ shot' \in [Askers -> [stamp : 0..stamped, listed : SUBSET captured]]
      /\ \A d \in Askers : shot'[d].stamp = shot[d].stamp
  BY <1>1 DEF ListShots, StampsInv
<1>3. \A d \in Askers : (HasStamp(d)' <=> HasStamp(d)) /\ (Pruning(d)' <=> Pruning(d))
  BY <1>1 DEF HasStamp, Pruning
<1>4. StampsInv'
  <2>1. \A d \in Askers : phase'[d] \in {"draft", "publish"} => shot'[d].stamp \notin captured'
    BY <1>1 DEF StampsInv
  <2> QED BY <1>1, <1>2, <1>3, <2>1 DEF StampsInv
<1>5. NewestKept' BY <1>1 DEF NewestKept
<1>6. PICK L \in SUBSET captured : BoundedBy(L) OBVIOUS
<1>7. Pending \subseteq Pending' BY <1>1, <1>2, <1>3 DEF Pending
<1>8. ListingsInv(L)'
  <2>1. \A d \in Askers \ {c} : phase'[d] = "prune" => phase[d] = "prune" /\ shot'[d] = shot[d]
    BY <1>1
  <2>2. ASSUME NEW d \in Askers, phase'[d] = "prune"
        PROVE  /\ shot'[d].stamp \in shots' => shot'[d].stamp \in shot'[d].listed
               /\ shots' \ shot'[d].listed \subseteq Pending' \/ shots' \cap shot'[d].listed \subseteq L
    <3>1. CASE d = c BY <1>1, <3>1
    <3>2. CASE d # c BY <1>1, <1>6, <1>7, <2>1, <2>2, <3>2 DEF BoundedBy, ListingsInv, OthersPending
    <3> QED BY <3>1, <3>2
  <2>3. ASSUME NEW d \in Askers, NEW e \in Askers, phase'[d] = "prune", phase'[e] = "prune"
        PROVE  \/ shots' \cap shot'[d].listed \subseteq shot'[e].listed
               \/ shots' \cap shot'[e].listed \subseteq shot'[d].listed
    <3>1. CASE d = c \/ e = c BY <1>1, <3>1
    <3>2. CASE d # c /\ e # c BY <1>1, <1>6, <2>1, <2>3, <3>2 DEF BoundedBy, ListingsInv
    <3> QED BY <3>1, <3>2
  <2> QED BY <2>2, <2>3 DEF ListingsInv, OthersPending
<1>9. BoundedBy(L)' BY <1>1, <1>6, <1>7, <1>8 DEF BoundedBy, OthersPending
<1> QED BY <1>1, <1>4, <1>5, <1>9

\* A request unlinks what was outdated when it listed.  The listing is the new bound,
\* if all captures it has not are still to be pruned by; else the old bound has it.
LEMMA CapturesPrune == ASSUME CapturesInv, NEW c \in Askers, Prune(c) PROVE CapturesInv'
<1> DEFINE s == shot[c].stamp
           Lc == shot[c].listed
           S == shots \ Outdated(Lc)
<1> USE DEF CapturesInv
<1>1. /\ phase[c] = "prune" /\ phase'[c] = "answered" /\ phase' \in [Askers -> Phases]
      /\ \A d \in Askers \ {c} : phase'[d] = phase[d]
      /\ shots' = S /\ UNCHANGED <<shot, captured, stamped>>
  BY DEF Prune, Goes, StampsInv, Phases
<1>2. Lc \in SUBSET captured /\ S \in SUBSET shots /\ shots \in SUBSET captured
  BY DEF StampsInv
<1>3. StampsInv'
  <2>1. \A d \in Askers : HasStamp(d)' => HasStamp(d) BY <1>1 DEF HasStamp
  <2>2. \A d \in Askers : phase'[d] \in {"draft", "publish"} => phase[d] = phase'[d] BY <1>1
  <2> QED BY <1>1, <1>2, <2>1, <2>2 DEF StampsInv
<1>4. NewestKept'
  <2> SUFFICES ASSUME NEW t \in captured, Cardinality(Newer(t, captured)) < Keep PROVE t \in S
    BY <1>1 DEF NewestKept
  <2>1. IsFiniteSet(captured) BY CapturesFinite
  <2>2. Cardinality(Newer(t, Lc)) < Keep BY <1>2, <2>1, MoreAreNewer, RecallAssumption
  <2>3. t \notin Outdated(Lc) BY <1>2, <2>1, <2>2, MoreAreNewer, RecallAssumption DEF Outdated
  <2> QED BY <2>3 DEF NewestKept
<1>5. PICK L \in SUBSET captured : BoundedBy(L) OBVIOUS
<1>6. /\ s \in shots => s \in Lc
      /\ shots \ Lc \subseteq Pending \/ shots \cap Lc \subseteq L
      /\ shots \ L \subseteq Pending
  BY <1>1, <1>5 DEF BoundedBy, ListingsInv, OthersPending
<1>7. Pending \ {s} \subseteq Pending'
  <2>1. \A d \in Askers \ {c} : Pruning(d)' <=> Pruning(d) BY <1>1 DEF Pruning
  <2> QED BY <1>1, <2>1 DEF Pending
<1>8. \A d \in Askers : phase'[d] = "prune" => d # c /\ phase[d] = "prune" BY <1>1
<1>9. ASSUME NEW d \in Askers, phase'[d] = "prune"
      PROVE  /\ shot[d].stamp \in S => shot[d].stamp \in shot[d].listed
             /\ \/ shots \cap shot[d].listed \subseteq Lc
                \/ shots \cap Lc \subseteq shot[d].listed
             /\ shots \ shot[d].listed \subseteq Pending \/ shots \cap shot[d].listed \subseteq L
  BY <1>1, <1>2, <1>5, <1>8, <1>9 DEF BoundedBy, ListingsInv, OthersPending
<1>10. \A d, e \in Askers : phase'[d] = "prune" /\ phase'[e] = "prune" =>
         \/ S \cap shot[d].listed \subseteq shot[e].listed
         \/ S \cap shot[e].listed \subseteq shot[d].listed
  BY <1>2, <1>5, <1>8 DEF BoundedBy, ListingsInv
<1>11. ASSUME NEW M \in SUBSET captured, Cardinality(S \cap M) <= Keep, S \ M \subseteq Pending',
              \A d \in Askers : phase'[d] = "prune" =>
                S \ shot[d].listed \subseteq Pending' \/ S \cap shot[d].listed \subseteq M
       PROVE  CapturesInv'
  <2>1. ListingsInv(M)' BY <1>1, <1>9, <1>10, <1>11 DEF ListingsInv, OthersPending
  <2>2. BoundedBy(M)' BY <1>1, <1>11, <2>1 DEF BoundedBy, OthersPending
  <2> QED BY <1>1, <1>3, <1>4, <2>2
<1>12. CASE shots \ Lc \subseteq Pending
  <2>1. Cardinality(S \cap Lc) <= Keep
    <3>1. Lc \in SUBSET Nat /\ IsFiniteSet(Lc) BY <1>2, CapturesFinite
    <3>2. IsFiniteSet(Lc \ Outdated(Lc)) /\ Cardinality(Lc \ Outdated(Lc)) <= Keep
      BY <3>1, FewAreLeft
    <3>3. S \cap Lc \in SUBSET (Lc \ Outdated(Lc)) BY <1>2
    <3>4. Cardinality(S \cap Lc) <= Cardinality(Lc \ Outdated(Lc)) BY <3>2, <3>3, FS_Subset
    <3>5. IsFiniteSet(S \cap Lc) BY <3>2, <3>3, FS_Subset
    <3>6. Cardinality(S \cap Lc) \in Nat /\ Cardinality(Lc \ Outdated(Lc)) \in Nat
      BY <3>2, <3>5, FS_CardinalityType
    <3> QED BY <3>2, <3>4, <3>6, RecallAssumption
  <2>2. S \ Lc \subseteq Pending' BY <1>2, <1>6, <1>7, <1>12
  <2>3. \A d \in Askers : phase'[d] = "prune" =>
          S \ shot[d].listed \subseteq Pending' \/ S \cap shot[d].listed \subseteq Lc
    BY <1>2, <1>9, <2>2
  <2> QED BY <1>2, <1>11, <2>1, <2>2, <2>3
<1>13. CASE shots \cap Lc \subseteq L
  <2>1. Cardinality(S \cap L) <= Keep
    <3>1. IsFiniteSet(shots \cap L) /\ Cardinality(shots \cap L) \in Nat BY <1>2, CapturesFinite
    <3>2. S \cap L \in SUBSET (shots \cap L) BY <1>2
    <3>3. Cardinality(S \cap L) <= Cardinality(shots \cap L) BY <3>1, <3>2, FS_Subset
    <3>4. Cardinality(S \cap L) \in Nat BY <1>2, CapturesFinite
    <3> QED BY <1>5, <3>1, <3>3, <3>4, RecallAssumption DEF BoundedBy
  <2>2. S \ L \subseteq Pending' BY <1>2, <1>6, <1>7, <1>13
  <2>3. ASSUME NEW d \in Askers, phase'[d] = "prune"
        PROVE  S \ shot[d].listed \subseteq Pending' \/ S \cap shot[d].listed \subseteq L
    <3>1. CASE shots \cap shot[d].listed \subseteq L BY <1>2, <3>1
    <3>2. CASE shots \cap shot[d].listed \subseteq Lc BY <1>2, <1>13, <3>2
    <3>3. CASE shots \cap Lc \subseteq shot[d].listed /\ shots \ shot[d].listed \subseteq Pending
      BY <1>2, <1>6, <1>7, <3>3
    <3> QED BY <1>9, <2>3, <3>1, <3>2, <3>3
  <2> QED BY <1>5, <1>11, <2>1, <2>2, <2>3
<1> QED BY <1>6, <1>12, <1>13

LEMMA CapturesNext == CapturesInv /\ [RecallNext]_recallVars => CapturesInv'
<1> SUFFICES ASSUME CapturesInv, [RecallNext]_recallVars PROVE CapturesInv' OBVIOUS
<1>1. CASE SecondGoes BY <1>1, CapturesUnmoved DEF SecondGoes
<1>2. CASE \E t \in tasks : IngestLooks(t) \/ Ingested(t) \/ \E b \in BOOLEAN : IngestFails(t, b)
  BY <1>2, CapturesUnmoved DEF IngestLooks, Ingested, IngestFails, SameShots
<1>3. ASSUME NEW c \in Askers, Stamp(c) \/ WriteDraft(c) \/ DraftFails(c) \/ Publish(c)
                               \/ ListShots(c) \/ Prune(c)
      PROVE  CapturesInv'
  BY <1>3, CapturesDraft, CapturesPublish, CapturesList, CapturesPrune
<1>4. ASSUME NEW c \in Askers, NEW kind \in {"chat", "responses"}, NEW memory \in BOOLEAN,
             Ask(c, kind, memory)
      PROVE  CapturesInv'
  <2>1. UNCHANGED <<shots, captured, stamped, shot>> BY <1>4 DEF Ask, SameShots
  <2>2. Goes(c, "idle", "look") \/ Goes(c, "idle", "backend") BY <1>4 DEF Ask
  <2> QED BY <2>1, <2>2, CapturesOthers
<1>5. ASSUME NEW c \in Askers, NEW b \in BOOLEAN,
             Look(c) \/ Retrieved(c) \/ BeginRetrieval(c, b) \/ RetrievalFails(c, b)
      PROVE  CapturesInv'
  <2>1. UNCHANGED <<shots, captured, stamped, shot>>
    BY <1>5 DEF Look, Retrieved, BeginRetrieval, RetrievalFails, SameShots
  <2>2. \/ Goes(c, "look", "backend") \/ Goes(c, "look", "call") \/ Goes(c, "call", "backend")
        \/ Goes(c, "call", "calling") \/ Goes(c, "calling", "backend") \/ Goes(c, "calling", "idle")
    BY <1>5 DEF Look, Retrieved, BeginRetrieval, RetrievalFails
  <2> QED BY <2>1, <2>2, CapturesOthers
<1>6. ASSUME NEW c \in Askers, NEW status \in {"ok", "refused", "broken", "none"}, NEW streamed \in BOOLEAN,
             Replied(c, status, streamed)
      PROVE  CapturesInv'
  <2>1. UNCHANGED <<shots, captured, stamped, shot>> BY <1>6 DEF Replied, SameShots
  <2>2. Goes(c, "backend", "stamp") \/ Goes(c, "backend", "answered") BY <1>6 DEF Replied
  <2> QED BY <2>1, <2>2, CapturesOthers
<1>7. ASSUME NEW c \in Askers, Finish(c) PROVE CapturesInv'
  BY <1>7, CapturesOthers DEF Finish
<1>8. CASE UNCHANGED recallVars BY <1>8, CapturesUnmoved DEF recallVars
<1> QED BY <1>1, <1>2, <1>3, <1>4, <1>5, <1>6, <1>7, <1>8 DEF RecallNext

\* What is outside the last listing is the capture of a request that has yet to prune.
LEMMA CapturesFew == CapturesInv => CapturesKept
<1> SUFFICES ASSUME CapturesInv PROVE CapturesBounded BY DEF CapturesInv, CapturesKept
<1> USE DEF CapturesInv
<1> DEFINE P == {c \in Askers : phase[c] \in {"list", "prune"}}
           T == {shot[c].stamp : c \in P}
<1>1. PICK L \in SUBSET captured : BoundedBy(L) OBVIOUS
<1>2. shots \in SUBSET captured /\ shots \cap L \in SUBSET captured /\ shots \ L \in SUBSET captured
  BY DEF StampsInv
<1>3. /\ IsFiniteSet(shots \cap L) /\ IsFiniteSet(shots \ L)
      /\ Cardinality(shots) \in Nat /\ Cardinality(shots \cap L) \in Nat /\ Cardinality(shots \ L) \in Nat
  BY <1>2, CapturesFinite
<1>4. IsFiniteSet(P) BY FS_Subset, RecallAssumption
<1>5. IsFiniteSet(T) /\ Cardinality(T) <= Cardinality(P)
  <2> DEFINE f == [c \in P |-> shot[c].stamp]
  <2>1. f \in Surjection(P, T) BY DEF Surjection, Range
  <2> QED BY <1>4, <2>1, FS_Surjection
<1>6. shots \ L \in SUBSET T BY <1>1 DEF BoundedBy, OthersPending, Pending, Pruning
<1>7. Cardinality(shots \ L) <= Cardinality(T) BY <1>5, <1>6, FS_Subset
<1>8. Cardinality(P) \in Nat /\ Cardinality(T) \in Nat BY <1>4, <1>5, FS_CardinalityType
<1>9. Cardinality(shots) = Cardinality(shots \cap L) + Cardinality(shots \ L)
  <2> DEFINE A == shots \cap L
             B == shots \ L
  <2>1. shots = A \cup B /\ A \cap B = {} OBVIOUS
  <2>2. IsFiniteSet(A) /\ IsFiniteSet(B) /\ Cardinality(A) \in Nat /\ Cardinality(B) \in Nat BY <1>3
  <2> HIDE DEF A, B
  <2>3. Cardinality(A \cup B) = Cardinality(A) + Cardinality(B) - Cardinality(A \cap B)
    BY <2>2, FS_Union
  <2>4. Cardinality(A \cap B) = 0 BY <2>1, FS_EmptySet
  <2>5. Cardinality(shots) = Cardinality(A) + Cardinality(B) BY <2>1, <2>2, <2>3, <2>4
  <2> QED BY <2>5 DEF A, B
<1> QED BY <1>1, <1>3, <1>5, <1>7, <1>8, <1>9, RecallAssumption DEF BoundedBy, CapturesBounded

\* The newest UPSTREAM_400_CAPTURE_KEEP captures stay on disk, and no more than the requests
\* that have yet to prune are there beyond them, however many stamp, rename, list and unlink
\* at once.
THEOREM NewestCapturesStay == RecallSpec => []CapturesKept
BY CapturesInit, CapturesNext, CapturesFew, PTL DEF RecallSpec

------------------------------------------------------------------------------
(* The voice profiles' cache *)

\* A reading loads no older file than the one whose mtime it saw.
Honest(reading) ==
  /\ reading.saw \in Nat
  /\ reading.at = "load" => reading.saw <= profiles.version
  /\ reading.at = "update" => reading.data.version \in Nat /\ reading.saw <= reading.data.version

StampInv ==
  /\ profiles.version \in Nat
  /\ cache.mtime \in Nat /\ cache.data.version \in Nat /\ StampIsHonest
  /\ Honest(probe) /\ DOMAIN listener = Listeners /\ \A r \in Listeners : Honest(listener[r])

LEMMA StampInit == VoicesInit => StampInv
  BY DEF VoicesInit, StampInv, StampIsHonest, Honest, NoRead, Profiles

\* The three steps of a reading, whoever reads.
LEMMA ReadingIsHonest ==
  ASSUME StampInv, NEW reading, Honest(reading)
  PROVE  /\ Honest(Stat(reading))
         /\ Honest(NoRead)
         /\ reading.at = "load" => Honest(Load(reading))
         /\ reading.at = "update" =>
              /\ Stamped(reading).mtime \in Nat /\ Stamped(reading).data.version \in Nat
              /\ Stamped(reading).data.version >= Stamped(reading).mtime
         /\ \A at \in {"queued", "stat"} : Honest(Reading(at, 0, NoRead.data))
         /\ \A data : Honest(Reading("use", reading.saw, data)) /\ Honest(Reading("named", reading.saw, data))
BY DEF StampInv, StampIsHonest, Honest, Stat, Load, Stamped, Reading, NoRead, Profiles

\* The tools make versions; they never take one back.
LEMMA StampTools ==
  ASSUME StampInv, UNCHANGED <<cache, listener, probe>>, profiles'.version \in Nat,
         profiles'.version >= profiles.version
  PROVE  StampInv'
BY DEF StampInv, StampIsHonest, Honest

LEMMA StampNext == StampInv /\ [VoicesNext]_voicesVars => StampInv'
<1> SUFFICES ASSUME StampInv, [VoicesNext]_voicesVars PROVE StampInv' OBVIOUS
<1>1. CASE UNCHANGED <<profiles, cache, listener, probe>>
  BY <1>1, StampTools DEF StampInv
<1>2. ASSUME NEW t \in VoiceTools, WriteProfiles(t) PROVE StampInv'
  <2>1. profiles'.version = profiles.version + 1 /\ UNCHANGED <<cache, listener, probe>>
    BY <1>2 DEF WriteProfiles, Built, Profiles, serverVars
  <2> QED BY <2>1, StampTools DEF StampInv
<1>3. ASSUME NEW r \in Listeners,
             \/ BeginListening(r) \/ TakeModels(r) \/ ListenerStats(r) \/ ListenerLoads(r)
             \/ Identify(r) \/ Reply(r)
      PROVE  StampInv'
  <2>1. UNCHANGED <<profiles, cache, probe>>
    BY <1>3 DEF BeginListening, TakeModels, ListenerStats, ListenerLoads, Identify, Reply, toolVars
  <2>2. PICK reading : listener' = [listener EXCEPT ![r] = reading] /\ Honest(reading)
    <3>1. Honest(listener[r]) BY DEF StampInv
    <3> QED BY <1>3, <3>1, ReadingIsHonest
      DEF BeginListening, TakeModels, ListenerStats, ListenerLoads, Identify, Reply
  <2> QED BY <2>1, <2>2 DEF StampInv, StampIsHonest, Honest
<1>4. ASSUME NEW r \in Listeners, ListenerUpdates(r) PROVE StampInv'
  <2>1. /\ listener[r].at = "update" /\ cache' = Stamped(listener[r]) /\ UNCHANGED <<profiles, probe>>
        /\ listener' = [listener EXCEPT ![r] = Reading("use", listener[r].saw, NoRead.data)]
    BY <1>4 DEF ListenerUpdates, toolVars
  <2>2. Honest(listener[r]) BY DEF StampInv
  <2>3. /\ cache'.mtime \in Nat /\ cache'.data.version \in Nat /\ StampIsHonest'
        /\ Honest(Reading("use", listener[r].saw, NoRead.data))
    BY <2>1, <2>2, ReadingIsHonest DEF StampIsHonest
  <2> QED BY <2>1, <2>3 DEF StampInv, Honest
<1>5. CASE ProbeStats \/ ProbeLoads
  <2>1. UNCHANGED <<profiles, cache, listener>> BY <1>5 DEF ProbeStats, ProbeLoads, toolVars
  <2>2. Honest(probe) BY DEF StampInv
  <2>3. PICK reading : probe' = reading /\ Honest(reading)
    BY <1>5, <2>2, ReadingIsHonest DEF ProbeStats, ProbeLoads
  <2> QED BY <2>1, <2>3 DEF StampInv, StampIsHonest, Honest
<1>6. CASE ProbeUpdates
  <2>1. /\ probe.at = "update" /\ cache' = Stamped(probe) /\ probe' = NoRead
        /\ UNCHANGED <<profiles, listener>>
    BY <1>6 DEF ProbeUpdates, toolVars
  <2>2. Honest(probe) BY DEF StampInv
  <2>3. cache'.mtime \in Nat /\ cache'.data.version \in Nat /\ StampIsHonest' /\ Honest(NoRead)
    BY <2>1, <2>2, ReadingIsHonest DEF StampIsHonest
  <2> QED BY <2>1, <2>3 DEF StampInv, Honest
<1>7. ASSUME NEW t \in VoiceTools, NEW recording \in Recordings, NEW label \in Labels,
             \/ LabelLine(recording, label) \/ LoadSamples(t, recording, label)
             \/ SaveConfig(t) \/ SaveSamples(t) \/ ReadSamples(t) \/ ReadConfig(t)
      PROVE  UNCHANGED <<profiles, cache, listener, probe>>
  BY <1>7 DEF LabelLine, LoadSamples, SaveConfig, SaveSamples, ReadSamples, ReadConfig, serverVars
<1>8. ASSUME NEW t \in VoiceTools, NEW kind, NEW given, NEW excludes, NEW evaluates,
             StartTool(t, kind, given, excludes, evaluates)
      PROVE  UNCHANGED <<profiles, cache, listener, probe>>
  BY <1>8 DEF StartTool, serverVars
<1>9. CASE VoiceTick \/ UnloaderLooks \/ Unload \/ UNCHANGED voicesVars
  BY <1>1, <1>9 DEF VoiceTick, UnloaderLooks, Unload, voicesVars, toolVars, serverVars
<1>10. ASSUME NEW t \in VoiceTools, SaveConfig(t) \/ SaveSamples(t) \/ ReadSamples(t) \/ ReadConfig(t)
       PROVE  UNCHANGED <<profiles, cache, listener, probe>>
  BY <1>10 DEF SaveConfig, SaveSamples, ReadSamples, ReadConfig, serverVars
<1>11. ASSUME NEW recording \in Recordings, NEW label \in Labels, LabelLine(recording, label)
       PROVE  UNCHANGED <<profiles, cache, listener, probe>>
  BY <1>11 DEF LabelLine, serverVars
<1> QED BY <1>1, <1>2, <1>3, <1>4, <1>5, <1>6, <1>7, <1>8, <1>9, <1>10, <1>11 DEF VoicesNext

\* The mtime a cache is stamped with is never newer than the file it holds, whichever of the
\* requests and the health probe read, and a tool wrote, in between.
THEOREM StaleCacheIsReread == VoicesSpec => []StampIsHonest
<1>1. StampInv => StampIsHonest BY DEF StampInv
<1> QED BY <1>1, StampInit, StampNext, PTL DEF VoicesSpec

------------------------------------------------------------------------------
(* The speech server's sleep *)

\* Who wakes or speaks has the lock, under which the model moves; and while the server is
\* awake and no sleep has failed, the model is whole.
SpeechInv ==
  /\ DOMAIN call = Callers /\ sleeping \in BOOLEAN /\ graphs \in BOOLEAN /\ count.failed \in Nat
  /\ \A c \in Callers : call[c].step \in {"waking", "speaking"} => locked = c
  /\ \A c \in Callers : call[c].step = "speaking" => sleeping = FALSE
  /\ sleeping = FALSE => (weights = "gpu" /\ graphs = TRUE) \/ count.failed > 0
  /\ live.default \in LoadedNames

LEMMA SpeechStarts == SpeechInit => SpeechInv
<1> SUFFICES ASSUME SpeechInit PROVE SpeechInv OBVIOUS
<1>1. live.default \in LoadedNames BY DEF SpeechInit
<1>2. DOMAIN call = Callers /\ \A c \in Callers : call[c].step = "none" BY DEF SpeechInit, NoCaller
<1>3. sleeping = FALSE /\ graphs = TRUE /\ weights = "gpu" /\ count.failed = 0 BY DEF SpeechInit
<1>4. sleeping \in BOOLEAN /\ graphs \in BOOLEAN BY <1>3
<1>5. count.failed \in Nat BY <1>3
<1> QED BY <1>1, <1>2, <1>3, <1>4, <1>5 DEF SpeechInv

\* The refreshes of the default voice, the edits of the file and the clock.
LEMMA SpeechVoices ==
  ASSUME SpeechInv,
         \/ \E v \in VoiceNames : OverwriteDefault(v)
         \/ CutDefault \/ RefreshStep \/ SpeechTick \/ WatchLooks
         \/ \E t \in Pages : OpenPage(t) \/ ClosePage(t)
         \/ \E c \in Callers : AskSpeech(c)
         \/ UNCHANGED speechVars
  PROVE  SpeechInv'
<1>1. UNCHANGED <<weights, graphs, sleeping, locked, call>> /\ count'.failed = count.failed
  BY DEF OverwriteDefault, CutDefault, RefreshStep, LookUp, ReadDefault, TakeDefault, SpeechTick,
         WatchLooks, OpenPage, ClosePage, AskSpeech, speechVars, modelVars, Bump, SpeechInv
<1>2. live'.default \in LoadedNames
  BY DEF OverwriteDefault, CutDefault, RefreshStep, LookUp, ReadDefault, TakeDefault, SpeechTick,
         WatchLooks, OpenPage, ClosePage, AskSpeech, speechVars, voiceVars, Known, SpeechInv
<1> QED BY <1>1, <1>2 DEF SpeechInv

\* The steps of one request.
LEMMA SpeechCall ==
  ASSUME SpeechInv, NEW c \in Callers, CallStep(c) \/ Leave(c)
  PROVE  SpeechInv'
<1>1. CASE TakeLock(c)
  BY <1>1, SpeechAssumption DEF TakeLock, Became, voiceVars, modelVars, SpeechInv
<1>2. CASE Wake(c) BY <1>2 DEF Wake, Became, voiceVars, SpeechInv
<1>3. CASE Unlock(c) BY <1>3 DEF Unlock, Became, voiceVars, modelVars, SpeechInv
<1>4. CASE \/ Resolved(c) \/ Chunk(c) \/ EndQueue(c) \/ BodyStarts(c) \/ BodyTakes(c)
           \/ Return(c) \/ Leave(c)
  <2>1. UNCHANGED <<live, weights, graphs, sleeping, locked, count>>
    BY <1>4 DEF Resolved, Chunk, EndQueue, BodyStarts, BodyTakes, Return, Leave, voiceVars, modelVars
  <2>2. /\ DOMAIN call' = Callers
        /\ \A d \in Callers :
             call'[d].step \in {"waking", "speaking"} => call'[d].step = call[d].step
    <3>1. CASE Resolved(c) BY <3>1 DEF Resolved, SpeechInv
    <3>2. CASE Chunk(c) BY <3>2 DEF Chunk, SpeechInv
    <3>3. CASE EndQueue(c) BY <3>3 DEF EndQueue, Became, SpeechInv
    <3>4. CASE BodyStarts(c) BY <3>4 DEF BodyStarts, Body, SpeechInv
    <3>5. CASE BodyTakes(c) BY <3>5 DEF BodyTakes, Body, SpeechInv
    <3>6. CASE Return(c) BY <3>6 DEF Return, NoCaller, SpeechInv
    <3>7. CASE Leave(c) BY <3>7 DEF Leave, SpeechInv
    <3> QED BY <1>4, <3>1, <3>2, <3>3, <3>4, <3>5, <3>6, <3>7
  <2> QED BY <2>1, <2>2 DEF SpeechInv
<1> QED BY <1>1, <1>2, <1>3, <1>4 DEF CallStep

\* The model sleeps, in part or whole, while nobody has the lock; a wake that fails starts
\* the server again.
LEMMA SpeechSleeps ==
  ASSUME SpeechInv, WatchActs \/ SleepNow \/ \E c \in Callers : WakeFails(c)
  PROVE  SpeechInv'
<1>1. CASE (WatchActs \/ SleepNow) /\ (Sleeps \/ SleepFails)
  <2>1. locked = Free \/ UNCHANGED <<weights, graphs, sleeping, count>>
    BY <1>1 DEF WatchActs, SleepNow, Lockable
  <2>2. UNCHANGED <<locked, call, live>> BY <1>1 DEF WatchActs, SleepNow, voiceVars
  <2>3. \A c \in Callers : locked = Free => call[c].step \notin {"waking", "speaking"}
    BY SpeechAssumption DEF SpeechInv
  <2>4. CASE Sleeps /\ locked = Free BY <2>2, <2>3, <2>4 DEF Sleeps, SpeechInv
  <2>5. CASE SleepFails /\ locked = Free
    <3>1. count'.failed = count.failed + 1 BY <2>5 DEF SleepFails, Bump
    <3>2. UNCHANGED sleeping /\ graphs' = FALSE BY <2>5 DEF SleepFails
    <3>3. sleeping' \in BOOLEAN /\ graphs' \in BOOLEAN BY <3>2 DEF SpeechInv
    <3>4. count'.failed \in Nat /\ count'.failed > 0 BY <3>1 DEF SpeechInv
    <3>5. \A c \in Callers : call'[c].step \notin {"waking", "speaking"} BY <2>2, <2>3, <2>5
    <3>6. DOMAIN call' = Callers /\ live'.default \in LoadedNames BY <2>2 DEF SpeechInv
    <3> QED BY <3>3, <3>4, <3>5, <3>6 DEF SpeechInv
  <2>6. CASE UNCHANGED <<weights, graphs, sleeping, count>> BY <2>2, <2>6 DEF SpeechInv
  <2> QED BY <1>1, <2>1, <2>4, <2>5, <2>6
<1>2. CASE WatchActs /\ UNCHANGED <<weights, graphs, sleeping, count>>
  BY <1>2 DEF WatchActs, voiceVars, SpeechInv
<1>3. CASE \E c \in Callers : WakeFails(c)
  <2>1. (CHOOSE v \in LoadedNames : TRUE) \in LoadedNames BY DEF SpeechInv
  <2>2. live'.default \in LoadedNames BY <1>3, <2>1 DEF WakeFails, Known
  <2>3. DOMAIN call' = Callers /\ \A c \in Callers : call'[c].step = "none"
    BY <1>3 DEF WakeFails, NoCaller
  <2>4. sleeping' = FALSE /\ graphs' = TRUE /\ weights' = "gpu" /\ UNCHANGED count
    BY <1>3 DEF WakeFails
  <2> QED BY <2>2, <2>3, <2>4 DEF SpeechInv
<1> QED BY <1>1, <1>2, <1>3 DEF WatchActs, SleepNow

LEMMA SpeechSteps == SpeechInv /\ [SpeechNext]_speechVars => SpeechInv'
BY SpeechVoices, SpeechCall, SpeechSleeps DEF SpeechNext

\* A reply is generated by the one that has the model to itself, awake and whole unless a
\* sleep broke it, in a voice the server has loaded: for any number of requests, pages and
\* edits.
THEOREM SpeakerHasTheModel == SpeechSpec => []SpeaksLoaded
<1>1. SpeechInv => SpeaksLoaded BY DEF SpeechInv, SpeaksLoaded
<1> QED BY <1>1, SpeechStarts, SpeechSteps, PTL DEF SpeechSpec

------------------------------------------------------------------------------
(* The thinking level of a rewritten request *)

\* No thinking and no level, or thinking at one level named twice.
Agreed(levels) == {Thought(FALSE, "unset", "unset")} \cup {Thought(TRUE, l, l) : l \in levels}

\* What _inject_thinking makes of a request, whatever the client put there.
LEMMA ThinkingAgrees ==
  ASSUME NEW e \in Endpoints, e.effort # "blank", NEW p
  PROVE  Thinking(e, p) \in Agreed(Levels)
<1> DEFINE requested == IF p.top # "unset" THEN p.top ELSE p.level
<1>1. e.effort \in Levels BY RewriteAssumption DEF Levels
<1>2. Level(requested, e.effort) \in Levels BY <1>1 DEF Level, Levels
<1> HIDE DEF requested
<1>3. \/ Thinking(e, p) = Thought(TRUE, Level(requested, e.effort), Level(requested, e.effort))
      \/ Thinking(e, p) = Thought(FALSE, "unset", "unset")
  BY DEF Thinking, requested
<1> QED BY <1>2, <1>3 DEF Agreed

\* The slot's own level replaces both names of the level.
LEMMA RaisedAgrees ==
  ASSUME NEW t \in Agreed(Levels), NEW effort
  PROVE  IF effort = "unset" THEN Raised(t, effort) \in Agreed(Levels)
         ELSE Raised(t, effort) \in Agreed({effort})
<1>1. CASE t = Thought(FALSE, "unset", "unset")
  <2>1. Raised(t, effort) = t BY <1>1 DEF Raised, Thought
  <2> QED BY <1>1, <2>1 DEF Agreed
<1>2. CASE \E l \in Levels : t = Thought(TRUE, l, l)
  <2>1. t.think = TRUE /\ t.top \in Levels /\ t.level \in Levels BY <1>2 DEF Thought
  <2>2. Raised(t, effort) = IF effort = "unset" THEN t ELSE Thought(TRUE, effort, effort)
    BY <2>1 DEF Raised, Levels
  <2> QED BY <1>2, <2>2 DEF Agreed
<1> QED BY <1>1, <1>2 DEF Agreed

\* What was read of the stack's env file is what it says: it is read again when its mtime
\* is another.
RewriteInv ==
  /\ proxy.endpoint \in Endpoints
  /\ forced.mtime = 0 => forced.effort = "unset"
  /\ settings = forced \/ (settings.mtime = 0 /\ settings.effort = "unset")
  /\ LevelsAgree

LEMMA RewriteStarts == RewriteInit => RewriteInv
  BY DEF RewriteInit, RewriteInv, LevelsAgree, NothingSent

LEMMA SettingsAreForced == RewriteInv => Settings.effort = forced.effort
  BY DEF RewriteInv, Settings

\* One level is named twice, or none is, in what is sent on an endpoint with a level.
LEMMA RewrittenAgrees ==
  ASSUME NEW x, x.endpoint \in Endpoints, x.endpoint.effort # "blank", NEW effort, NEW p
  PROVE  LET q == Rewritten(x, effort, p)
             top == IF x.engine = "ninfer" /\ q.kind = "responses" THEN q.reasoning ELSE q.top
         IN IF q.think THEN /\ top = q.level
                            /\ \/ q.level \in Levels
                               \/ x.engine = "ninfer" /\ effort # "unset" /\ q.level = effort
            ELSE q.level = "unset" /\ (top = "unset" \/ (top = "none" /\ x.engine \in {"splash", "ninfer"}))
<1> DEFINE q == Rewritten(x, effort, p)
           t == Thinking(x.endpoint, p)
           r == Raised(t, effort)
<1>1. t \in Agreed(Levels) BY ThinkingAgrees
<1>2. IF effort = "unset" THEN r \in Agreed(Levels) ELSE r \in Agreed({effort}) BY <1>1, RaisedAgrees
<1> HIDE DEF t, r
<1>3. CASE x.engine = "ninfer" /\ p.kind = "responses"
  <2>1. /\ q.kind = "responses" /\ q.think = r.think /\ q.level = r.level
        /\ q.reasoning = IF ~r.think THEN "none" ELSE IF r.top = "unset" THEN p.reasoning ELSE r.top
    BY <1>3 DEF Rewritten, Payload, Thought, t, r
  <2> HIDE DEF q
  <2> QED BY <1>2, <1>3, <2>1 DEF Agreed, Thought, Levels, q
<1>4. CASE x.engine = "ninfer" /\ p.kind # "responses"
  <2>1. q.kind # "responses" /\ q.think = ForNinfer(r).think /\ q.level = ForNinfer(r).level
        /\ q.top = ForNinfer(r).top
    BY <1>4 DEF Rewritten, Payload, t, r
  <2> HIDE DEF q
  <2> QED BY <1>2, <1>4, <2>1 DEF Agreed, Thought, Levels, ForNinfer, q
<1>5. CASE x.engine # "ninfer"
  <2> DEFINE u == IF x.engine = "splash" THEN ForSplash(t) ELSE t
  <2>1. q.think = u.think /\ q.level = u.level /\ q.top = u.top
    BY <1>5 DEF Rewritten, Payload, t
  <2> HIDE DEF q
  <2> QED BY <1>1, <1>5, <2>1 DEF Agreed, Thought, Levels, ForSplash, q
<1> QED BY <1>3, <1>4, <1>5

LEMMA RewriteSteps == RewriteInv /\ [RewriteNext]_rewriteVars => RewriteInv'
<1> SUFFICES ASSUME RewriteInv, [RewriteNext]_rewriteVars PROVE RewriteInv' OBVIOUS
<1>1. ASSUME NEW p \in Asked, ServePayload(p) PROVE RewriteInv'
  <2>1. /\ UNCHANGED <<proxy, forced>> /\ sent' = {Rewritten(proxy, forced.effort, p)}
        /\ settings' = settings \/ settings' = forced
    BY <1>1, SettingsAreForced DEF ServePayload, Settings
  <2>2. LevelsAgree' BY <2>1, RewrittenAgrees DEF RewriteInv, LevelsAgree
  <2> QED BY <2>1, <2>2 DEF RewriteInv
<1>2. CASE PayloadSent BY <1>2 DEF PayloadSent, RewriteInv, LevelsAgree, NothingSent
<1>3. CASE ForceEffort("high") BY <1>3 DEF ForceEffort, RewriteInv, LevelsAgree, NothingSent
<1>4. CASE UNCHANGED rewriteVars BY <1>4 DEF rewriteVars, RewriteInv, LevelsAgree
<1> QED BY <1>1, <1>2, <1>3, <1>4 DEF RewriteNext

\* On an endpoint with a thinking level, the level that reaches the template and the one that
\* reaches the backend's own field are one level, or thinking is off in both: for every
\* request a client may send, on every engine and with any level of the slot.
THEOREM OneLevelIsSent == RewriteSpec => []LevelsAgree
<1>1. RewriteInv => LevelsAgree BY DEF RewriteInv
<1> QED BY <1>1, RewriteStarts, RewriteSteps, PTL DEF RewriteSpec
------------------------------------------------------------------------------
(* The pages of the graph *)

\* Every set of numbers has a least one.
LEMMA LeastOfSome ==
  ASSUME NEW T \in SUBSET Nat, T # {} PROVE \E m \in T : \A k \in T : m <= k
<1>1. PICK m \in T : \A k \in T : ~(<<k, m>> \in OpToRel(<, Nat))
  BY WFMin, NatLessThanWellFounded
<1>2. \A k, h \in Nat : k < h => <<k, h>> \in OpToRel(<, Nat) BY DEF OpToRel
<1>3. \A k \in T : ~(k < m)
  <2> SUFFICES ASSUME NEW k \in T PROVE ~(k < m) OBVIOUS
  <2>1. k \in Nat /\ m \in Nat BY <1>1
  <2> QED BY <2>1, <1>1, <1>2, Zenon
<1> QED BY <1>3

LEMMA NewerCounts ==
  ASSUME NEW S \in SUBSET Nat, IsFiniteSet(S), NEW i \in S PROVE NewerThan(i, S) \in Nat
<1>1. IsFiniteSet({j \in S : j > i}) BY FS_Subset
<1> QED BY <1>1, FS_CardinalityType DEF NewerThan

\* There are rows with every smaller number of newer ones.
LEMMA NoHoles ==
  ASSUME NEW S \in SUBSET Nat, IsFiniteSet(S), NEW i \in S, NEW m \in Nat, m <= NewerThan(i, S)
  PROVE  \E j \in S : NewerThan(j, S) = m
<1> DEFINE Late == {j \in S : NewerThan(j, S) >= m}
           T == {NewerThan(j, S) : j \in Late}
<1>1. T \in SUBSET Nat /\ T # {} BY NewerCounts
<1>2. PICK r \in T : \A k \in T : r <= k BY <1>1, LeastOfSome
<1>3. PICK j \in Late : NewerThan(j, S) = r BY <1>2
<1>4. CASE r = m BY <1>3, <1>4
<1>5. CASE r # m
  <2> DEFINE Above(k) == {h \in S : h > k}
  <2>1. r > m /\ r \in Nat BY <1>1, <1>3, <1>5
  <2>2. Above(j) \in SUBSET Nat /\ IsFiniteSet(Above(j)) BY FS_Subset
  <2>3. Above(j) # {}
    <3>1. Cardinality(Above(j)) = r BY <1>3 DEF NewerThan
    <3> QED BY <3>1, <2>1, FS_EmptySet
  <2>4. PICK k \in Above(j) : \A h \in Above(j) : k <= h BY <2>2, <2>3, LeastOfSome
  <2>5. Above(j) = Above(k) \cup {k}
    <3>1. j \in Nat /\ k \in Nat /\ k > j /\ k \in S BY <2>4
    <3>2. \A h \in S : h \in Nat OBVIOUS
    <3>3. \A h \in S : h > j <=> h > k \/ h = k BY <2>4, <3>1, <3>2
    <3> QED BY <3>1, <3>3
  <2>6. IsFiniteSet(Above(k)) /\ k \notin Above(k) BY FS_Subset
  <2>7. Cardinality(Above(j)) = Cardinality(Above(k)) + 1 BY <2>5, <2>6, FS_AddElement
  <2>8. r = NewerThan(k, S) + 1 BY <2>7, <1>3 DEF NewerThan
  <2>9. NewerThan(k, S) \in Nat BY NewerCounts, <2>4
  <2>10. NewerThan(k, S) \in T BY <2>1, <2>4, <2>8, <2>9
  <2> QED BY <2>10, <2>8, <2>9, <1>2
<1> QED BY <1>4, <1>5

LEMMA Distributes == \A n \in Nat \ {0}, size \in Nat : n * size = (n - 1) * size + size
  OBVIOUS

\* A page that some row comes behind is full.
LEMMA FullPage ==
  ASSUME NEW S \in SUBSET Nat, IsFiniteSet(S), NEW n \in Nat \ {0}, NEW size \in Nat \ {0},
         NEW i \in S, NewerThan(i, S) >= n * size
  PROVE  Cardinality(Rows(S, n, size)) >= size
<1> DEFINE lo == (n - 1) * size
           R == Rows(S, n, size)
           place == [j \in R |-> NewerThan(j, S) - lo]
<1>1. lo \in Nat /\ n * size = lo + size BY Distributes
<1>2. R = {j \in S : lo <= NewerThan(j, S) /\ NewerThan(j, S) < lo + size} BY <1>1 DEF Rows
<1> HIDE DEF lo, R
<1>3. place \in [R -> 0..(size - 1)]
  <2>1. \A j \in R : NewerThan(j, S) - lo \in 0..(size - 1) BY <1>1, <1>2, NewerCounts
  <2> QED BY <2>1
<1>4. \A y \in 0..(size - 1) : \E j \in R : place[j] = y
  <2> SUFFICES ASSUME NEW y \in 0..(size - 1) PROVE \E j \in R : place[j] = y OBVIOUS
  <2>1. lo + y \in Nat /\ lo + y <= NewerThan(i, S) BY <1>1, NewerCounts
  <2>2. PICK j \in S : NewerThan(j, S) = lo + y BY <2>1, NoHoles
  <2>3. j \in R BY <2>2, <1>1, <1>2
  <2> QED BY <2>2, <2>3, <1>1
<1>5. place \in Surjection(R, 0..(size - 1)) BY <1>3, <1>4 DEF Surjection, Range
<1>6. IsFiniteSet(R) BY <1>2, FS_Subset
<1>7. Cardinality(0..(size - 1)) = size BY FS_Interval
<1>8. Cardinality(0..(size - 1)) <= Cardinality(R) BY <1>5, <1>6, FS_Surjection
<1>9. Cardinality(R) \in Nat BY <1>6, FS_CardinalityType
<1> QED BY <1>7, <1>8, <1>9 DEF R

\* While nothing is forgotten every row that was there when the reader began, and has not
\* been shown, comes behind the pages the reader has had.
Row == [kind : Kinds, id : Nat, group : Groups, ends : SUBSET Nat, at : Nat]
PageState == [kind : Kinds, filter : [group : Groups \cup {"any"}, from : Nat, till : Nat], n : Nat \ {0},
              at : {"rows", "told"}, short : BOOLEAN, total : Nat, seen : SUBSET Row, stopped : BOOLEAN,
              still : SUBSET Row]
Behind(p) ==
  \A i \in Found(p.kind, p.filter) :
    graph[i] \in p.still \ p.seen =>
      NewerThan(i, Found(p.kind, p.filter)) >= IF p.at = "rows" THEN (p.n - 1) * PageSize ELSE p.n * PageSize
PageOK(p) ==
  /\ p \in PageState
  /\ \A x \in p.still : x.id < added
  /\ p.still \subseteq p.seen \cup RowsAt(Found(p.kind, p.filter))
  /\ Behind(p)
  /\ p.short => p.at = "told" /\ p.still \subseteq p.seen
GraphOK == graph \in Seq(Row) /\ \A i \in DOMAIN graph : graph[i].id < added
PagesInv ==
  /\ added \in Nat /\ forgotten \in Nat /\ second \in Nat
  /\ forgotten = 0 => /\ GraphOK /\ page \in [Readers -> PageState \cup {NoReading}]
                      /\ \A r \in Readers : Paging(r) => PageOK(page[r])

LEMMA PlacesAreFinite ==
  ASSUME NEW T, NEW l \in Seq(T), NEW S, S \subseteq DOMAIN l
  PROVE  S \in SUBSET Nat /\ IsFiniteSet(S)
<1>1. DOMAIN l = 1..Len(l) /\ Len(l) \in Nat OBVIOUS
<1>2. IsFiniteSet(1..Len(l)) BY <1>1, FS_Interval
<1> QED BY <1>1, <1>2, FS_Subset

LEMMA PagesInit == GraphInit => PagesInv
  BY DEF GraphInit, PagesInv, Paging, GraphOK

\* What is ingested is newer than all that was there.
LEMMA GrowthKeeps ==
  ASSUME PagesInv, forgotten = 0, GraphOK, GraphOK', added' >= added, added' \in Nat,
         Len(graph') >= Len(graph), \A i \in DOMAIN graph : graph'[i] = graph[i],
         \A i \in DOMAIN graph' : i > Len(graph) => graph'[i].id >= added,
         NEW p, PageOK(p)
  PROVE  PageOK(p)'
<1> DEFINE F == Found(p.kind, p.filter)
           G == Found(p.kind, p.filter)'
<1>1. F \in SUBSET Nat /\ IsFiniteSet(F) /\ F \subseteq DOMAIN graph BY PlacesAreFinite DEF GraphOK, Found
<1>2. G \in SUBSET Nat /\ IsFiniteSet(G) /\ G \subseteq DOMAIN graph' BY PlacesAreFinite DEF GraphOK, Found
<1>3. DOMAIN graph = 1..Len(graph) /\ DOMAIN graph' = 1..Len(graph') /\ Len(graph) \in Nat /\ Len(graph') \in Nat
  BY DEF GraphOK
<1>4. F \subseteq G BY <1>3 DEF Found
<1>5. \A i \in G : i \notin F => graph'[i].id >= added BY <1>3 DEF Found
<1>6. \A i \in F : graph'[i] = graph[i] BY <1>1
<1>7. \A i \in F : NewerThan(i, G) >= NewerThan(i, F)
  <2> SUFFICES ASSUME NEW i \in F PROVE NewerThan(i, G) >= NewerThan(i, F) OBVIOUS
  <2>1. IsFiniteSet({j \in G : j > i}) BY <1>2, FS_Subset
  <2>2. {j \in F : j > i} \subseteq {j \in G : j > i} BY <1>4
  <2> QED BY <2>1, <2>2, FS_Subset, FS_CardinalityType DEF NewerThan
<1>8. p.still \subseteq p.seen \cup RowsAt(F) BY DEF PageOK
<1>9. p.still \subseteq p.seen \cup {graph'[i] : i \in G} BY <1>8, <1>6, <1>4 DEF RowsAt
<1>10. \A i \in G : graph'[i] \in p.still \ p.seen => i \in F
  <2>1. \A x \in p.still : x.id < added /\ x.id \in Nat BY DEF PageOK, PageState, Row
  <2> QED BY <2>1, <1>5 DEF PagesInv
<1>11. p \in PageState /\ PageSize \in Nat BY GraphAssumption DEF PageOK
<1>12. ASSUME NEW i \in G, graph'[i] \in p.still \ p.seen
       PROVE  NewerThan(i, G) >= IF p.at = "rows" THEN (p.n - 1) * PageSize ELSE p.n * PageSize
  <2>1. i \in F /\ graph[i] \in p.still \ p.seen BY <1>12, <1>10, <1>6
  <2>2. NewerThan(i, F) >= IF p.at = "rows" THEN (p.n - 1) * PageSize ELSE p.n * PageSize
    BY <2>1 DEF PageOK, Behind
  <2>3. NewerThan(i, F) \in Nat /\ NewerThan(i, G) \in Nat BY <1>1, <1>2, <2>1, <1>4, NewerCounts
  <2>4. (p.n - 1) * PageSize \in Int /\ p.n * PageSize \in Int BY <1>11 DEF PageState
  <2> QED BY <2>2, <2>3, <2>4, <2>1, <1>7
<1>13. Behind(p)' BY <1>12 DEF Behind
<1>14. \A x \in p.still : x.id < added'
  BY DEF PageOK, PageState, Row, PagesInv
<1> QED BY <1>9, <1>13, <1>14 DEF PageOK, RowsAt

LEMMA IngestGrows ==
  ASSUME PagesInv, forgotten = 0, NEW g \in Groups, Ingest(g)
  PROVE  PagesInv'
<1>1. GraphOK /\ added \in Nat /\ second \in Nat BY DEF PagesInv
<1>2. added' = added + 1 /\ forgotten' = forgotten /\ page' = page /\ second' = second BY DEF Ingest
<1>3. PICK more \in Seq(Row) : graph' = graph \o more /\ \A i \in DOMAIN more : more[i].id = added
  <2> DEFINE e == Episode(g, added)
             n == Entity(g, added)
  <2>1. e \in Row /\ n \in Row BY <1>1 DEF Episode, Entity, Row, Kinds
  <2>0. e.id = added /\ n.id = added BY DEF Episode, Entity
  <2>a. graph \in Seq(Row) BY <1>1 DEF GraphOK
  <2>2. CASE Newest(g) = {}
    <3>1. graph' = graph \o <<e, n>> \o <<>> BY <2>2 DEF Ingest
    <3> HIDE DEF e, n
    <3>2. graph' = graph \o <<e, n>> BY <3>1, <2>1, <2>a
    <3>3. <<e, n>> \in Seq(Row) BY <2>1
    <3>4. \A i \in DOMAIN <<e, n>> : <<e, n>>[i].id = added BY <2>0
    <3> QED BY <3>2, <3>3, <3>4
  <2>3. CASE Newest(g) # {}
    <3> DEFINE i == CHOOSE i \in Newest(g) : TRUE
               rel == Relates(g, added, added, graph[i].id)
    <3>1. i \in DOMAIN graph BY <2>3 DEF Newest
    <3>2. graph[i] \in Row BY <3>1, <1>1 DEF GraphOK
    <3>3. rel \in Row /\ rel.id = added BY <3>2, <1>1 DEF Relates, Row, Kinds
    <3>4. graph' = graph \o <<e, n>> \o <<rel>> BY <2>3 DEF Ingest
    <3> HIDE DEF rel, e, n
    <3>5. graph' = graph \o <<e, n, rel>> BY <3>4, <3>3, <2>1, <2>a
    <3>6. <<e, n, rel>> \in Seq(Row) BY <2>1, <3>3
    <3>7. \A k \in DOMAIN <<e, n, rel>> : <<e, n, rel>>[k].id = added BY <2>0, <3>3
    <3> QED BY <3>5, <3>6, <3>7
  <2> QED BY <2>2, <2>3
<1>4. GraphOK'
  <2>1. graph' \in Seq(Row) BY <1>1, <1>3 DEF GraphOK
  <2>2. ASSUME NEW i \in DOMAIN graph' PROVE graph'[i].id < added'
    <3>1. CASE i \in DOMAIN graph
      <4>1. graph'[i] = graph[i] /\ graph[i] \in Row BY <3>1, <1>1, <1>3 DEF GraphOK
      <4> QED BY <4>1, <3>1, <1>1, <1>2 DEF GraphOK, Row
    <3>2. CASE i \notin DOMAIN graph
      <4>1. i - Len(graph) \in DOMAIN more /\ graph'[i] = more[i - Len(graph)]
        BY <3>2, <2>2, <1>1, <1>3 DEF GraphOK
      <4> QED BY <4>1, <1>1, <1>2, <1>3
    <3> QED BY <3>1, <3>2
  <2> QED BY <2>1, <2>2 DEF GraphOK
<1>5. Len(graph') >= Len(graph) /\ \A i \in DOMAIN graph : graph'[i] = graph[i] BY <1>1, <1>3 DEF GraphOK
<1>6. \A i \in DOMAIN graph' : i > Len(graph) => graph'[i].id >= added BY <1>1, <1>3 DEF GraphOK, Row
<1>7. ASSUME NEW r \in Readers, Paging(r) PROVE PageOK(page[r])'
  BY <1>1, <1>2, <1>4, <1>5, <1>6, <1>7, GrowthKeeps DEF PagesInv
<1> QED BY <1>1, <1>2, <1>4, <1>7 DEF PagesInv, Paging

\* A new listing is all it has to show, and the next page comes behind the one before.
LEMMA AskKeeps ==
  ASSUME PagesInv, forgotten = 0, NEW r \in Readers, AskPage(r) PROVE PagesInv'
<1>1. graph' = graph /\ added' = added /\ forgotten' = forgotten /\ second' = second BY DEF AskPage
<1>2. MaxSeconds \in Nat /\ PageSize \in Nat \ {0} BY GraphAssumption
<1>3. GraphOK BY DEF PagesInv
<1>4. \A kind, f : Cardinality(Found(kind, f)) \in Nat
  BY <1>3, PlacesAreFinite, FS_CardinalityType DEF GraphOK, Found
<1>5. \A kind, f : RowsAt(Found(kind, f)) \subseteq Row /\ \A x \in RowsAt(Found(kind, f)) : x.id < added
  BY <1>3 DEF GraphOK, Found, RowsAt
<1>6. \E q \in PageState : page' = [page EXCEPT ![r] = q] /\ PageOK(q)
  <2>1. CASE /\ ~Paging(r)
             /\ \E kind \in Kinds : \E f \in {Anything} \cup {[Anything EXCEPT !.group = g] : g \in Groups} :
                  page' = [page EXCEPT ![r] = Counted(kind, f, 1, {}, FALSE, RowsAt(Found(kind, f)))]
    <3>1. PICK kind \in Kinds, f \in {Anything} \cup {[Anything EXCEPT !.group = g] : g \in Groups} :
            page' = [page EXCEPT ![r] = Counted(kind, f, 1, {}, FALSE, RowsAt(Found(kind, f)))]
      BY <2>1
    <3> DEFINE q == Counted(kind, f, 1, {}, FALSE, RowsAt(Found(kind, f)))
    <3>2. f \in [group : Groups \cup {"any"}, from : Nat, till : Nat] BY <1>2 DEF Anything
    <3>3. q \in PageState BY <3>2, <1>4, <1>5 DEF Counted, PageState
    <3>4. /\ q.kind = kind /\ q.filter = f /\ q.still = RowsAt(Found(kind, f)) /\ q.n = 1
          /\ q.at = "rows" /\ q.short = FALSE
      BY DEF Counted
    <3> HIDE DEF q
    <3>5. \A i \in Found(kind, f) : NewerThan(i, Found(kind, f)) >= 0
      <4> DEFINE S == Found(kind, f)
      <4>1. S \in SUBSET Nat /\ IsFiniteSet(S) BY <1>3, PlacesAreFinite DEF GraphOK, Found
      <4> HIDE DEF S
      <4>2. \A i \in S : NewerThan(i, S) \in Nat BY <4>1, NewerCounts
      <4> QED BY <4>2 DEF S
    <3>6. PageOK(q) BY <3>3, <3>4, <3>5, <1>2, <1>5 DEF PageOK, Behind
    <3> QED BY <3>1, <3>3, <3>6 DEF q
  <2>2. CASE /\ Paging(r) /\ page[r].at = "told" /\ ~page[r].short
             /\ page' = [page EXCEPT ![r] = LET p == page[r] IN
                           Counted(p.kind, p.filter, p.n + 1, p.seen, p.stopped, p.still)]
    <3> DEFINE p == page[r]
               q == Counted(p.kind, p.filter, p.n + 1, p.seen, p.stopped, p.still)
    <3>1. PageOK(p) BY <2>2 DEF PagesInv
    <3>2. p \in PageState BY <3>1 DEF PageOK
    <3>3. q \in PageState BY <3>2, <1>4 DEF Counted, PageState
    <3>4. /\ q.kind = p.kind /\ q.filter = p.filter /\ q.still = p.still /\ q.seen = p.seen
          /\ q.n = p.n + 1 /\ q.at = "rows" /\ q.short = FALSE /\ p.at = "told"
      BY <2>2 DEF Counted
    <3>5. page' = [page EXCEPT ![r] = q] BY <2>2
    <3> HIDE DEF p, q
    <3>6. q.n - 1 = p.n BY <3>2, <3>4 DEF PageState
    <3>7. PageOK(q) BY <3>1, <3>3, <3>4, <3>6 DEF PageOK, Behind
    <3> QED BY <3>3, <3>5, <3>7
  <2> QED BY <2>1, <2>2 DEF AskPage
<1>7. page' \in [Readers -> PageState \cup {NoReading}] BY <1>6 DEF PagesInv
<1>8. ASSUME NEW x \in Readers, Paging(x)' PROVE PageOK(page'[x]) BY <1>6, <1>8 DEF PagesInv, Paging
<1> QED BY <1>1, <1>7, <1>8 DEF PagesInv, Paging, PageOK, Behind, GraphOK, RowsAt, Found

\* A page shows the rows that come next; one that is not full is the last.
LEMMA AnswerKeeps ==
  ASSUME PagesInv, forgotten = 0, NEW r \in Readers, AnswerPage(r) PROVE PagesInv'
<1> DEFINE p == page[r]
           F == Found(p.kind, p.filter)
           rows == Rows(F, p.n, PageSize)
           q == [kind |-> p.kind, filter |-> p.filter, n |-> p.n, at |-> "told",
                 short |-> Cardinality(rows) < PageSize, total |-> p.total, seen |-> p.seen \cup RowsAt(rows),
                 still |-> p.still, stopped |-> p.stopped \/ p.n * PageSize >= p.total]
<1>1. graph' = graph /\ added' = added /\ forgotten' = forgotten /\ second' = second BY DEF AnswerPage
<1>2. page' = [page EXCEPT ![r] = q] BY DEF AnswerPage
<1>3. PageOK(p) /\ p.at = "rows" BY DEF AnswerPage, PagesInv
<1>4. p \in PageState BY <1>3 DEF PageOK
<1>5. F \in SUBSET Nat /\ IsFiniteSet(F) BY PlacesAreFinite DEF PagesInv, GraphOK, Found
<1>6. rows \subseteq F BY DEF Rows
<1>7. RowsAt(F) \subseteq Row BY DEF PagesInv, GraphOK, Found, RowsAt
<1>8. q \in PageState BY <1>4, <1>6, <1>7 DEF PageState, RowsAt
<1>9. \A i \in F : graph[i] \in p.still \ p.seen => i \in rows \/ NewerThan(i, F) >= p.n * PageSize
  <2>1. \A i \in F : graph[i] \in p.still \ p.seen => NewerThan(i, F) >= (p.n - 1) * PageSize
    BY <1>3 DEF PageOK, Behind
  <2>2. p.n * PageSize \in Int BY <1>4, GraphAssumption DEF PageState
  <2>3. \A i \in F : NewerThan(i, F) \in Nat BY <1>5, NewerCounts
  <2> QED BY <2>1, <2>2, <2>3 DEF Rows
<1>10. \A i \in F : NewerThan(i, F) >= p.n * PageSize => ~(Cardinality(rows) < PageSize)
  <2>1. PageSize \in Nat \ {0} /\ p.n \in Nat \ {0} BY <1>4, GraphAssumption DEF PageState
  <2>2. Cardinality(rows) \in Nat BY <1>5, <1>6, FS_Subset, FS_CardinalityType
  <2> QED BY <2>1, <2>2, <1>5, FullPage
<1>11. p.still \subseteq p.seen \cup RowsAt(F) BY <1>3 DEF PageOK
<1> HIDE DEF rows, F
<1>12. /\ q.kind = p.kind /\ q.filter = p.filter /\ q.still = p.still /\ q.seen = p.seen \cup RowsAt(rows)
       /\ q.n = p.n /\ q.at = "told" /\ q.short = (Cardinality(rows) < PageSize)
  OBVIOUS
<1> HIDE DEF q
<1>13. q.short => q.still \subseteq q.seen
  <2> SUFFICES ASSUME q.short, NEW y \in p.still \ p.seen PROVE y \in RowsAt(rows) BY <1>12
  <2>1. PICK i \in F : y = graph[i] BY <1>11 DEF RowsAt
  <2>2. i \in rows BY <2>1, <1>9, <1>10, <1>12
  <2> QED BY <2>1, <2>2 DEF RowsAt
<1>14. Behind(q) BY <1>9, <1>12 DEF Behind, F, RowsAt
<1>15. PageOK(q) BY <1>3, <1>8, <1>11, <1>12, <1>13, <1>14 DEF PageOK, F
<1>16. page' \in [Readers -> PageState \cup {NoReading}] BY <1>2, <1>8 DEF PagesInv
<1>17. ASSUME NEW x \in Readers, Paging(x)' PROVE PageOK(page'[x])
  BY <1>2, <1>15, <1>17 DEF PagesInv, Paging
<1> QED BY <1>1, <1>16, <1>17 DEF PagesInv, Paging, PageOK, Behind, GraphOK, RowsAt, Found

LEMMA PagesNext == PagesInv /\ [GraphNext]_graphVars => PagesInv'
<1> SUFFICES ASSUME PagesInv, [GraphNext]_graphVars PROVE PagesInv' OBVIOUS
<1>1. CASE forgotten # 0 /\ ~\E g \in Groups : Forget(g)
  <2>1. added' \in Nat /\ forgotten' = forgotten /\ second' \in Nat
    <3>1. CASE \E g \in Groups : Ingest(g) BY <3>1 DEF PagesInv, Ingest
    <3>2. CASE SecondPasses BY <3>2 DEF PagesInv, SecondPasses
    <3>3. CASE \E r \in Readers : AskPage(r) \/ AnswerPage(r) \/ LeavePage(r)
      BY <3>3 DEF PagesInv, AskPage, AnswerPage, LeavePage
    <3>4. CASE \E r \in Readers : AskExport(r) \/ ExportRead(r) \/ AskEntityExport(r)
                                  \/ ExportNeighborhood(r) \/ ExportWritten(r)
      BY <3>4 DEF PagesInv, AskExport, ExportRead, AskEntityExport, ExportNeighborhood, ExportWritten
    <3>5. CASE UNCHANGED graphVars BY <3>5 DEF PagesInv, graphVars
    <3> QED BY <1>1, <3>1, <3>2, <3>3, <3>4, <3>5 DEF GraphNext
  <2> QED BY <2>1, <1>1 DEF PagesInv
<1>2. CASE \E g \in Groups : Ingest(g) /\ forgotten = 0 BY <1>2, IngestGrows
<1>3. CASE \E g \in Groups : Forget(g) BY <1>3 DEF PagesInv, Forget
<1>4. CASE SecondPasses
  BY <1>4 DEF SecondPasses, PagesInv, Paging, PageOK, Behind, GraphOK, RowsAt, Found
<1>5. CASE \E r \in Readers : AskPage(r) /\ forgotten = 0 BY <1>5, AskKeeps
<1>6. CASE \E r \in Readers : AnswerPage(r) /\ forgotten = 0 BY <1>6, AnswerKeeps
<1>7. CASE \E r \in Readers : LeavePage(r)
  BY <1>7 DEF LeavePage, PagesInv, Paging, PageOK, Behind, GraphOK, RowsAt, Found
<1>8. CASE \E r \in Readers : AskExport(r) \/ ExportRead(r) \/ AskEntityExport(r)
                             \/ ExportNeighborhood(r) \/ ExportWritten(r)
  <2>1. UNCHANGED <<graph, added, forgotten, second, page>>
    BY <1>8 DEF AskExport, ExportRead, AskEntityExport, ExportNeighborhood, ExportWritten
  <2> QED BY <2>1 DEF PagesInv, Paging, PageOK, Behind, GraphOK, RowsAt, Found
<1>9. CASE UNCHANGED graphVars
  BY <1>9 DEF graphVars, PagesInv, Paging, PageOK, Behind, GraphOK, RowsAt, Found
<1> QED BY <1>1, <1>2, <1>3, <1>4, <1>5, <1>6, <1>7, <1>8, <1>9 DEF GraphNext

\* A reader that pages until a short page has been shown every row that was there when it
\* began (graphiti_recent_*, SKIP and LIMIT), whatever Graphiti ingested in between.
THEOREM NoRowIsMissed == GraphSpec => []PagesMissNothing
<1>1. PagesInv => PagesMissNothing BY DEF PagesInv, PagesMissNothing, PageOK
<1> QED BY <1>1, PagesInit, PagesNext, PTL DEF GraphSpec

------------------------------------------------------------------------------
(* The names of the voices *)

Pair == [cluster : Nat, name : Nat, score : Nat]

LEMMA PairsAreFinite ==
  ASSUME NEW like \in Likenesses
  PROVE  /\ Pairs(like) \subseteq Pair /\ IsFiniteSet(Pairs(like))
         /\ \A c \in DOMAIN like : DOMAIN like[c] = DOMAIN like[1] /\ \A n \in DOMAIN like[1] : like[c][n] \in Nat
<1>1. /\ like \in Seq(Seq(Nat)) /\ like # << >> /\ DOMAIN like = 1..Len(like) /\ Len(like) \in Nat
      /\ DOMAIN like[1] = 1..Len(like[1]) /\ Len(like[1]) \in Nat
  <2>1. like \in Seq(Seq(Nat)) /\ like # << >> BY SpeakersAssumption
  <2>2. Len(like) \in Nat /\ DOMAIN like = 1..Len(like) /\ Len(like) # 0 BY <2>1
  <2>3. like[1] \in Seq(Nat) BY <2>1, <2>2
  <2> QED BY <2>1, <2>2, <2>3
<1>2. \A c \in DOMAIN like : DOMAIN like[c] = DOMAIN like[1] /\ \A n \in DOMAIN like[1] : like[c][n] \in Nat
  <2> SUFFICES ASSUME NEW c \in DOMAIN like
               PROVE  DOMAIN like[c] = DOMAIN like[1] /\ \A n \in DOMAIN like[1] : like[c][n] \in Nat
    OBVIOUS
  <2>1. like[c] \in Seq(Nat) BY <1>1
  <2>2. Len(like[c]) = Len(like[1]) BY SpeakersAssumption
  <2>3. DOMAIN like[c] = 1..Len(like[c]) /\ \A n \in DOMAIN like[c] : like[c][n] \in Nat BY <2>1
  <2> QED BY <2>2, <2>3, <1>1
<1>3. Pairs(like) \subseteq Pair BY <1>1, <1>2 DEF Pairs, Pair
<1> DEFINE places == (1..Len(like)) \X (1..Len(like[1]))
           pair == [x \in places |-> [cluster |-> x[1], name |-> x[2], score |-> like[x[1]][x[2]]]]
<1>4. IsFiniteSet(places)
  <2>1. IsFiniteSet(1..Len(like)) /\ IsFiniteSet(1..Len(like[1])) BY <1>1, FS_Interval
  <2> QED BY <2>1, FS_Product
<1>5. \A p \in Pairs(like) : \E x \in places : pair[x] = p
  <2> SUFFICES ASSUME NEW p \in Pairs(like) PROVE \E x \in places : pair[x] = p OBVIOUS
  <2>1. PICK c \in DOMAIN like, n \in DOMAIN like[1] : p = [cluster |-> c, name |-> n, score |-> like[c][n]]
    BY DEF Pairs
  <2>2. <<c, n>> \in places BY <2>1, <1>1
  <2>3. pair[<<c, n>>] = p BY <2>1, <2>2
  <2> QED BY <2>2, <2>3
<1>6. pair \in [places -> Pairs(like)] BY <1>1 DEF Pairs
<1>7. pair \in Surjection(places, Pairs(like)) BY <1>5, <1>6 DEF Surjection
<1> QED BY <1>2, <1>3, <1>4, <1>7, FS_Surjection

\* Some pair comes last.
LEMMA SomeIsWeakest ==
  ASSUME NEW pairs \in SUBSET Pair, pairs # {}
  PROVE  Weakest(pairs) \in pairs /\ \A q \in pairs \ {Weakest(pairs)} : Before(q, Weakest(pairs))
<1>1. PICK a \in pairs : \A q \in pairs : a.score <= q.score
  <2> DEFINE T == {q.score : q \in pairs}
  <2>1. T \in SUBSET Nat /\ T # {} BY DEF Pair
  <2>2. PICK m \in T : \A k \in T : m <= k BY <2>1, LeastOfSome
  <2> QED BY <2>2
<1>2. PICK b \in pairs : b.score = a.score /\ \A q \in pairs : q.score = a.score => b.cluster <= q.cluster
  <2> DEFINE T == {q.cluster : q \in {q \in pairs : q.score = a.score}}
  <2>1. T \in SUBSET Nat /\ T # {} BY DEF Pair
  <2>2. PICK m \in T : \A k \in T : m <= k BY <2>1, LeastOfSome
  <2> QED BY <2>2
<1>3. PICK c \in pairs : /\ c.score = a.score /\ c.cluster = b.cluster
                         /\ \A q \in pairs : q.score = a.score /\ q.cluster = b.cluster => c.name <= q.name
  <2> DEFINE T == {q.name : q \in {q \in pairs : q.score = a.score /\ q.cluster = b.cluster}}
  <2>1. T \in SUBSET Nat /\ T # {} BY <1>2 DEF Pair
  <2>2. PICK m \in T : \A k \in T : m <= k BY <2>1, LeastOfSome
  <2> QED BY <2>2
<1>4. ASSUME NEW q \in pairs \ {c} PROVE Before(q, c)
  <2>1. q \in Pair /\ c \in Pair /\ b \in Pair /\ a \in Pair OBVIOUS
  <2>2. q.score # c.score \/ q.cluster # c.cluster \/ q.name # c.name BY <2>1 DEF Pair
  <2>3. /\ c.score <= q.score
        /\ q.score = c.score => c.cluster <= q.cluster
        /\ q.score = c.score /\ q.cluster = c.cluster => c.name <= q.name
    BY <1>1, <1>2, <1>3
  <2>4. /\ q.score \in Nat /\ q.cluster \in Nat /\ q.name \in Nat
        /\ c.score \in Nat /\ c.cluster \in Nat /\ c.name \in Nat
    BY <2>1 DEF Pair
  <2> QED BY <2>2, <2>3, <2>4 DEF Before
<1>5. \E p \in pairs : \A q \in pairs \ {p} : Before(q, p) BY <1>4
<1> QED BY <1>5 DEF Weakest

\* What the loop of match has taken, for every set of at most n pairs.
Small(all, n) == {pairs \in SUBSET all : Cardinality(pairs) <= n}
Greedy(like, threshold, margin, sets, g) ==
  g = [pairs \in sets |->
        IF pairs = {} THEN {}
        ELSE Taking(like, Weakest(pairs), g[pairs \ {Weakest(pairs)}], threshold, margin)]

LEMMA LessIsSmall ==
  ASSUME NEW all \in SUBSET Pair, IsFiniteSet(all), NEW pairs \in SUBSET all, pairs # {}
  PROVE  /\ pairs \ {Weakest(pairs)} \in SUBSET all
         /\ Cardinality(pairs) \in Nat
         /\ Cardinality(pairs \ {Weakest(pairs)}) = Cardinality(pairs) - 1
         /\ Cardinality(pairs) > 0
<1>1. IsFiniteSet(pairs) BY FS_Subset
<1>2. Weakest(pairs) \in pairs BY SomeIsWeakest
<1>3. Cardinality(pairs) \in Nat BY <1>1, FS_CardinalityType
<1>4. Cardinality(pairs) # 0 BY <1>1, FS_EmptySet
<1>5. Cardinality(pairs \ {Weakest(pairs)}) = Cardinality(pairs) - 1 BY <1>1, <1>2, FS_RemoveElement
<1> QED BY <1>3, <1>4, <1>5

LEMMA GreedyExists ==
  ASSUME NEW all \in SUBSET Pair, IsFiniteSet(all), NEW like, NEW threshold, NEW margin, NEW n \in Nat
  PROVE  \E g : Greedy(like, threshold, margin, Small(all, n), g)
<1> DEFINE Is(k, g) == Greedy(like, threshold, margin, Small(all, k), g)
           T == {k \in Nat : ~\E g : Is(k, g)}
<1>1. SUFFICES ASSUME T # {} PROVE FALSE OBVIOUS
<1>2. PICK m \in T : \A k \in T : m <= k BY <1>1, LeastOfSome
<1>3. CASE m = 0
  <2>1. \A pairs \in Small(all, 0) : pairs = {}
    <3> SUFFICES ASSUME NEW pairs \in Small(all, 0), pairs # {} PROVE FALSE OBVIOUS
    <3>1. pairs \in SUBSET all /\ Cardinality(pairs) <= 0 BY DEF Small
    <3>2. Cardinality(pairs) \in Nat /\ Cardinality(pairs) > 0 BY <3>1, LessIsSmall
    <3> QED BY <3>1, <3>2
  <2> DEFINE g == [pairs \in Small(all, 0) |-> {}]
  <2>2. Is(0, g) BY <2>1 DEF Greedy
  <2> QED BY <2>2, <1>2, <1>3
<1>4. CASE m # 0
  <2>1. m - 1 \in Nat /\ m - 1 \notin T BY <1>2, <1>4
  <2>2. PICK h : Is(m - 1, h) BY <2>1
  <2> DEFINE Next1(pairs, f) == IF pairs = {} THEN {}
               ELSE Taking(like, Weakest(pairs), f[pairs \ {Weakest(pairs)}], threshold, margin)
             g == [pairs \in Small(all, m) |-> Next1(pairs, h)]
  <2>3. h = [pairs \in Small(all, m - 1) |-> Next1(pairs, h)] BY <2>2 DEF Greedy
  <2>4. Small(all, m - 1) \subseteq Small(all, m)
    <3> SUFFICES ASSUME NEW pairs \in Small(all, m - 1) PROVE pairs \in Small(all, m) OBVIOUS
    <3>1. Cardinality(pairs) \in Nat BY FS_Subset, FS_CardinalityType DEF Small
    <3> QED BY <3>1, <2>1, <1>2 DEF Small
  <2>5. \A pairs \in Small(all, m - 1) : g[pairs] = h[pairs] BY <2>3, <2>4
  <2>6. ASSUME NEW pairs \in Small(all, m), pairs # {}
        PROVE  pairs \ {Weakest(pairs)} \in Small(all, m - 1)
    BY <2>6, <2>1, <1>2, LessIsSmall DEF Small
  <2>7. \A pairs \in Small(all, m) : Next1(pairs, h) = Next1(pairs, g) BY <2>5, <2>6
  <2>8. Is(m, g) BY <2>7 DEF Greedy
  <2> QED BY <2>8, <1>2
<1> QED BY <1>3, <1>4

\* What a set of pairs leaves taken: none too weak, unclear or taken twice, and what could
\* have been taken was kept out by one at least as strong.
Fits(like, p, threshold, margin) == p.score >= threshold /\ Clear(like, p, {}, margin)
Meets(p, t) == t.cluster = p.cluster \/ t.name = p.name
Settled(like, threshold, margin, pairs, taken) ==
  /\ taken \subseteq pairs
  /\ \A p \in taken : Fits(like, p, threshold, margin)
  /\ \A p, q \in taken : p # q => ~Meets(p, q)
  /\ \A p \in pairs \ taken : Fits(like, p, threshold, margin) =>
       \E t \in taken : Meets(p, t) /\ t.score >= p.score

LEMMA TakingSettles ==
  ASSUME NEW like, NEW threshold, NEW margin, NEW pairs \in SUBSET Pair, pairs # {},
         NEW taken, Settled(like, threshold, margin, pairs \ {Weakest(pairs)}, taken)
  PROVE  Settled(like, threshold, margin, pairs, Taking(like, Weakest(pairs), taken, threshold, margin))
<1> DEFINE w == Weakest(pairs)
           after == Taking(like, w, taken, threshold, margin)
<1>1. w \in pairs /\ \A q \in pairs \ {w} : Before(q, w) BY SomeIsWeakest
<1>2. taken \subseteq pairs \ {w} BY DEF Settled
<1>3. \A t \in taken : t.score >= w.score
  <2> SUFFICES ASSUME NEW t \in taken PROVE t.score >= w.score OBVIOUS
  <2>1. t \in Pair /\ w \in Pair /\ Before(t, w) BY <1>1, <1>2
  <2> QED BY <2>1 DEF Before, Pair
<1>4. Clear(like, w, taken, margin) = Clear(like, w, {}, margin) BY DEF Clear
<1>5. \A t \in taken : Meets(w, t) <=> ~(t.cluster # w.cluster /\ t.name # w.name) BY DEF Meets
<1>6. \A p, q : Meets(p, q) <=> Meets(q, p) BY DEF Meets
<1>7. CASE Fits(like, w, threshold, margin) /\ \A t \in taken : ~Meets(w, t)
  <2>1. after = taken \union {w} BY <1>4, <1>5, <1>7 DEF Taking, Fits
  <2> HIDE DEF after, w
  <2>2. \A p, q \in after : p # q => ~Meets(p, q) BY <1>6, <1>7, <2>1 DEF Settled, w
  <2> QED BY <1>1, <1>2, <1>7, <2>1, <2>2 DEF Settled, after, w
<1>8. CASE ~(Fits(like, w, threshold, margin) /\ \A t \in taken : ~Meets(w, t))
  <2>1. after = taken BY <1>4, <1>5, <1>8 DEF Taking, Fits
  <2> HIDE DEF after, w
  <2> QED BY <1>1, <1>2, <1>3, <1>8, <2>1 DEF Settled, after, w
<1> QED BY <1>7, <1>8

LEMMA MatchedIsSettled ==
  ASSUME NEW like \in Likenesses, NEW threshold, NEW margin
  PROVE  Settled(like, threshold, margin, Pairs(like), Matched(like, threshold, margin))
<1> DEFINE all == Pairs(like)
           g == CHOOSE g : Greedy(like, threshold, margin, SUBSET all, g)
           Bad(k) == \E pairs \in SUBSET all : Cardinality(pairs) = k /\ ~Settled(like, threshold, margin, pairs, g[pairs])
           T == {k \in Nat : Bad(k)}
<1>1. all \in SUBSET Pair /\ IsFiniteSet(all) BY PairsAreFinite
<1>2. SUBSET all = Small(all, Cardinality(all)) /\ Cardinality(all) \in Nat
  BY <1>1, FS_Subset, FS_CardinalityType DEF Small
<1>3. \E f : Greedy(like, threshold, margin, Small(all, Cardinality(all)), f) BY <1>1, <1>2, GreedyExists
<1>4. Greedy(like, threshold, margin, SUBSET all, g) BY <1>2, <1>3
<1>5. Matched(like, threshold, margin) = g[all] BY DEF Matched, Greedy
<1> HIDE DEF g, all
<1>6. \A pairs \in SUBSET all : g[pairs] =
        IF pairs = {} THEN {}
        ELSE Taking(like, Weakest(pairs), g[pairs \ {Weakest(pairs)}], threshold, margin)
  BY <1>4 DEF Greedy
<1>7. T = {}
  <2> SUFFICES ASSUME T # {} PROVE FALSE OBVIOUS
  <2>1. PICK m \in T : \A k \in T : m <= k BY LeastOfSome
  <2>2. PICK pairs \in SUBSET all : Cardinality(pairs) = m /\ ~Settled(like, threshold, margin, pairs, g[pairs])
    BY <2>1
  <2>3. pairs # {}
    <3>1. g[{}] = {} BY <1>6
    <3>2. Settled(like, threshold, margin, {}, g[{}]) BY <3>1 DEF Settled
    <3> QED BY <3>2, <2>2
  <2> DEFINE less == pairs \ {Weakest(pairs)}
  <2>4. less \in SUBSET all /\ Cardinality(less) = m - 1 /\ m > 0 /\ m \in Nat BY <1>1, <2>2, <2>3, LessIsSmall
  <2>5. m - 1 \in Nat /\ m - 1 \notin T BY <2>4, <2>1
  <2>6. Settled(like, threshold, margin, less, g[less]) BY <2>4, <2>5
  <2>7. pairs \in SUBSET Pair BY <1>1, <2>2
  <2>8. Settled(like, threshold, margin, pairs, Taking(like, Weakest(pairs), g[less], threshold, margin))
    BY <2>3, <2>6, <2>7, TakingSettles
  <2> QED BY <2>2, <2>3, <2>8, <1>6
<1>8. Cardinality(all) \in Nat /\ Cardinality(all) \notin T BY <1>2, <1>7
<1>9. Settled(like, threshold, margin, all, g[all]) BY <1>8
<1> QED BY <1>5, <1>9 DEF all

\* The answer is of the voices and the thresholds it was asked with.
NamedInv ==
  \A x \in named : /\ x.like \in Likenesses /\ x.threshold \in Thresholds /\ x.margin \in Margins
                   /\ x.names = Matched(x.like, x.threshold, x.margin)

\* A voice the evaluation would count as named is free for its best profile.
LEMMA BestFits ==
  ASSUME NEW like \in Likenesses, NEW threshold \in Int, NEW margin \in Int, NEW c \in DOMAIN like,
         Outcome(like[c], threshold, margin),
         NEW n \in DOMAIN like[c], \A m \in DOMAIN like[c] : like[c][m] <= like[c][n]
  PROVE  /\ [cluster |-> c, name |-> n, score |-> like[c][n]] \in Pairs(like)
         /\ Fits(like, [cluster |-> c, name |-> n, score |-> like[c][n]], threshold, margin)
<1> DEFINE p == [cluster |-> c, name |-> n, score |-> like[c][n]]
<1>1. DOMAIN like[c] = DOMAIN like[1] /\ \A m \in DOMAIN like[c] : like[c][m] \in Nat BY PairsAreFinite
<1>2. p \in Pairs(like) BY <1>1 DEF Pairs
<1>3. PICK b \in DOMAIN like[c] : /\ like[c][b] >= threshold
                                  /\ \A m \in DOMAIN like[c] \ {b} : like[c][b] - like[c][m] >= margin
  BY DEF Outcome
<1>4. like[c][n] >= like[c][b] /\ like[c][n] \in Nat /\ like[c][b] \in Nat BY <1>1
<1>5. like[c][n] >= threshold BY <1>3, <1>4
<1>6. ASSUME NEW m \in DOMAIN like[c] \ {n} PROVE like[c][n] - like[c][m] >= margin
  <2>1. like[c][m] \in Nat BY <1>1
  <2>2. CASE m # b BY <2>1, <2>2, <1>3, <1>4
  <2>3. CASE m = b
    <3>1. like[c][b] - like[c][n] >= margin BY <1>3, <1>6, <2>3
    <3> QED BY <3>1, <2>1, <2>3, <1>4
  <2> QED BY <2>2, <2>3
<1>7. p.cluster = c /\ p.name = n /\ p.score = like[c][n] OBVIOUS
<1> HIDE DEF p
<1>8. Fits(like, p, threshold, margin) BY <1>5, <1>6, <1>7 DEF Fits, Clear
<1> QED BY <1>2, <1>8 DEF p

LEMMA SettledIsClear ==
  ASSUME NamedInv, NEW x \in named
  PROVE  /\ \A p \in x.names :
              /\ p.score >= x.threshold
              /\ \A n \in DOMAIN x.like[p.cluster] \ {p.name} : p.score - x.like[p.cluster][n] >= x.margin
              /\ \A q \in x.names : p # q => p.cluster # q.cluster /\ p.name # q.name
         /\ \A c \in DOMAIN x.like :
              Outcome(x.like[c], x.threshold, x.margin) /\ ~(\E p \in x.names : p.cluster = c) =>
                \A n \in DOMAIN x.like[c] : (\A m \in DOMAIN x.like[c] : x.like[c][m] <= x.like[c][n]) =>
                  \E p \in x.names : p.name = n /\ p.score >= x.like[c][n]
<1>1. x.like \in Likenesses /\ x.threshold \in Int /\ x.margin \in Int BY SpeakersAssumption DEF NamedInv
<1>2. Settled(x.like, x.threshold, x.margin, Pairs(x.like), x.names) BY <1>1, MatchedIsSettled DEF NamedInv
<1>3. ASSUME NEW p \in x.names
      PROVE  /\ p.score >= x.threshold
             /\ \A n \in DOMAIN x.like[p.cluster] \ {p.name} : p.score - x.like[p.cluster][n] >= x.margin
             /\ \A q \in x.names : p # q => p.cluster # q.cluster /\ p.name # q.name
  BY <1>2 DEF Settled, Fits, Clear, Meets
<1>4. ASSUME NEW c \in DOMAIN x.like, Outcome(x.like[c], x.threshold, x.margin), ~\E p \in x.names : p.cluster = c,
             NEW n \in DOMAIN x.like[c], \A m \in DOMAIN x.like[c] : x.like[c][m] <= x.like[c][n]
      PROVE  \E p \in x.names : p.name = n /\ p.score >= x.like[c][n]
  <2> DEFINE p == [cluster |-> c, name |-> n, score |-> x.like[c][n]]
  <2>1. p \in Pairs(x.like) /\ Fits(x.like, p, x.threshold, x.margin) BY <1>1, <1>4, BestFits
  <2>2. p.cluster = c /\ p.name = n /\ p.score = x.like[c][n] OBVIOUS
  <2> HIDE DEF p
  <2>3. p \notin x.names BY <1>4, <2>2
  <2>4. PICK t \in x.names : Meets(p, t) /\ t.score >= p.score BY <1>2, <2>1, <2>3 DEF Settled
  <2> QED BY <2>2, <2>4, <1>4 DEF Meets
<1> QED BY <1>3, <1>4

LEMMA NamedNext == NamedInv /\ [SpeakersNext]_speakersVars => NamedInv'
<1> SUFFICES ASSUME NamedInv, [SpeakersNext]_speakersVars PROVE NamedInv' OBVIOUS
<1>1. CASE \E like \in Likenesses, threshold \in Thresholds, margin \in Margins : NameVoices(like, threshold, margin)
  BY <1>1 DEF NameVoices, NamedInv
<1>2. CASE named' = {} BY <1>2 DEF NamedInv
<1>3. CASE UNCHANGED speakersVars BY <1>3 DEF speakersVars, NamedInv
<1> QED BY <1>1, <1>2, <1>3 DEF SpeakersNext, NameSpans, NameWords

\* Whatever the likenesses, the threshold and the margin, match gives a name only to a voice
\* that clears both and never gives one twice; a voice the evaluation counts as named goes
\* without its name only when one at least as like has it.
THEOREM NamesAreGivenClearly == SpeakersSpec => []NamesAreClear
<1>1. SpeakersInit => NamedInv BY DEF SpeakersInit, NamedInv
<1>2. NamedInv => NamesAreClear BY SettledIsClear DEF NamesAreClear
<1> QED BY <1>1, <1>2, NamedNext, PTL DEF SpeakersSpec

==============================================================================
