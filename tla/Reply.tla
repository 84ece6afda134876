------------------------------- MODULE Reply -------------------------------
(***************************************************************************)
(* What a client of one chat completion is promised, however often the     *)
(* proxy asks the backend: nothing, or one response, which is a whole      *)
(* answer or a stream; a stream shows the answer of one attempt only, and  *)
(* once it is over nothing is shown any more.                              *)
(***************************************************************************)
CONSTANT Attempts

VARIABLES
  phase,   \* "none", "stream", "over"
  source   \* the attempts whose answer the client has been shown

Init == phase = "none" /\ source = {}

Respond == phase = "none" /\ phase' = "over" /\ source' \in {{}} \cup {{a} : a \in Attempts}
Start == phase = "none" /\ phase' = "stream" /\ UNCHANGED source
Show(a) == phase = "stream" /\ source \subseteq {a} /\ source' = {a} /\ UNCHANGED phase
End == phase = "stream" /\ phase' = "over" /\ UNCHANGED source
ShowAndEnd(a) == phase = "stream" /\ source \subseteq {a} /\ source' = {a} /\ phase' = "over"

Next == Respond \/ Start \/ End \/ \E a \in Attempts : Show(a) \/ ShowAndEnd(a)

Spec == Init /\ [][Next]_<<phase, source>>
=============================================================================
