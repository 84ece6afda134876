------------------------------ MODULE MCServices -----------------------------
(***************************************************************************)
(* The memory, voice and speech services and the proxy's rewriting, each   *)
(* checked on its own small instance: a behaviour runs one of them, "part",*)
(* and leaves the others as they start.                                    *)
(***************************************************************************)
EXTENDS MemoryGraph, Recall, Rewrite, Voices, Speakers, Speech

VARIABLE part

vars == <<part, graphVars, recallVars, rewriteVars, voicesVars, speakersVars, speechVars>>

Parts == {"graph", "recall", "rewrite", "voices", "speakers", "speech"}

\* A part that does not run starts in one of its initial states.
Init ==
  /\ part \in Parts
  /\ GraphInit /\ RecallInit /\ VoicesInit /\ SpeakersInit /\ SpeechInit
  /\ RewriteInit
  /\ part # "rewrite" => proxy = [engine |-> "llama", mode |-> "developer",
                                  endpoint |-> CHOOSE e \in Endpoints : TRUE]

GraphPart == /\ part = "graph" /\ GraphNext
             /\ UNCHANGED <<part, recallVars, rewriteVars, voicesVars, speakersVars, speechVars>>
RecallPart == /\ part = "recall" /\ RecallNext
              /\ UNCHANGED <<part, graphVars, rewriteVars, voicesVars, speakersVars, speechVars>>
RewritePart == /\ part = "rewrite" /\ RewriteNext
               /\ UNCHANGED <<part, graphVars, recallVars, voicesVars, speakersVars, speechVars>>
VoicesPart == /\ part = "voices" /\ VoicesNext
              /\ UNCHANGED <<part, graphVars, recallVars, rewriteVars, speakersVars, speechVars>>
SpeakersPart == /\ part = "speakers" /\ SpeakersNext
                /\ UNCHANGED <<part, graphVars, recallVars, rewriteVars, voicesVars, speechVars>>
SpeechPart == /\ part = "speech" /\ SpeechNext
              /\ UNCHANGED <<part, graphVars, recallVars, rewriteVars, voicesVars, speakersVars>>
Next == \/ GraphPart \/ RecallPart \/ RewritePart
        \/ VoicesPart \/ SpeakersPart \/ SpeechPart
Spec == Init /\ [][Next]_vars

\* Of the speech server: the voices are edited or two replies are spoken, and a
\* page is refreshed before the second one ends.
SpeechBound == /\ count.edited > 0 => count.spoken <= 1
               /\ count.spoken = 2 => \A t \in Pages : refresh[t].step = "idle"
-----------------------------------------------------------------------------
SafeNames == [g \in Groups |-> "a_b"]
RWProfiles == {[thinking |-> TRUE, effort |-> "medium", limit |-> 0, strips |-> FALSE],
               [thinking |-> TRUE, effort |-> "blank", limit |-> 3, strips |-> FALSE],
               [thinking |-> FALSE, effort |-> "blank", limit |-> 0, strips |-> TRUE],
               [thinking |-> FALSE, effort |-> "xhigh", limit |-> 3, strips |-> FALSE]}
RWUser == Item("user", "message", TRUE, FALSE, FALSE)
RWPhoto == Item("user", "plain", FALSE, TRUE, FALSE)
RWCaptioned == Item("user", "message", TRUE, TRUE, FALSE)
RWInputs == {<<RWUser>>, <<RWPhoto>>, <<Item("developer", "message", TRUE, FALSE, FALSE), RWCaptioned>>,
             <<RWUser, Item("none", "function_call", FALSE, FALSE, FALSE),
               Item("none", "function_call_output", TRUE, FALSE, FALSE)>>}
RWNoLimits == [k \in LimitKeys |-> -1]
RWRequest(kind, top, think, level, limits, items, facts) ==
  [kind |-> kind, top |-> top, think |-> think, level |-> level, reasoning |-> "unset", limits |-> limits,
   items |-> items, instructions |-> facts, facts |-> facts, tools |-> "required", format |-> "json_object",
   grammar |-> FALSE, extras |-> TRUE]
RWAsked ==
  {RWRequest(k, t, s, l, RWNoLimits, <<RWUser>>, FALSE) :
     k \in {"chat", "responses"}, t \in {"unset", "none", "low", "odd"}, s \in {"unset", "on", "off"},
     l \in {"unset", "minimal", "odd"}}
  \union
  {RWRequest(k, "unset", "unset", "unset", [m \in LimitKeys |-> IF m = "max_tokens" THEN a ELSE b], i, f) :
     k \in {"chat", "responses"}, a \in {-1, 0, 1, 5}, b \in {-1, 1, 5}, i \in RWInputs, f \in BOOLEAN}
SPSegments == {[speaker |-> s, start |-> a, end |-> b] : s \in {1, 2}, a \in {0, 1, 2, 4}, b \in {3, 5, 7, 9}}
SPDiarizations == {<<[speaker |-> 1, start |-> a, end |-> b], x, y>> : a \in {0, 2}, b \in {6, 9}, x \in SPSegments, y \in SPSegments}
SPLikenesses == [1..2 -> [1..3 -> 0..2]]
SPTracks == [0..2 -> [0..1 -> 0..2]]
SPSentences == {<<[start |-> 0, end |-> 1, ends |-> e], [start |-> 1, end |-> b, ends |-> FALSE],
                  [start |-> b, end |-> 3, ends |-> FALSE]>> : e \in BOOLEAN, b \in {1, 2}}
=============================================================================
