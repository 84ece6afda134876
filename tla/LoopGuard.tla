----------------------------- MODULE LoopGuard -----------------------------
(***************************************************************************)
(* scripts/llm-chat-proxy.py, LoopGuardedChatRelay: one chat completion,   *)
(* always streamed from the backend and watched for a repetition loop.  A  *)
(* loop closes the backend connection, and the request is sent again while *)
(* the client has seen nothing that a second attempt would show twice.     *)
(* The client gets a stream, or one JSON reply built from the last attempt.*)
(*                                                                         *)
(* Handler is what becomes of an exception that leaves run(): the paths of *)
(* _proxy_backend (ChatRoute).                                             *)
(***************************************************************************)
EXTENDS Naturals, FiniteSets

CONSTANT Retries   \* LOOP_GUARD_RETRIES

ASSUME RetriesAssumption == Retries \in Nat

VARIABLES
  wants,       \* what the client gets: one "json", or a stream whose reasoning is "hidden",
               \* "shown" (as content: the modes mirror and content) or "raw" (passthrough)
  fallback,    \* can_fall_back: "set" or "none"
  stage,        \* "connect", "head", "events", "over"
  attempt,
  got,         \* what the events of this attempt have brought
  saw,         \* client_saw_content: "nothing" or "content"
  head,        \* head_sent: "unsent" or "sent"
  client,      \* "there" or "gone"
  reply        \* what the client has: how it ended, the attempts shown, markers

loopVars == <<wants, fallback, stage, attempt, got, saw, head, client, reply>>
chat == <<wants, fallback>>

Streaming == wants # "json"
Sent == head = "sent"
There == client = "there"

Attempts == 0..Retries
Pieces == {"reasoning", "content", "tools", "finish", "error"}
\* open: not over; finish: the backend's own ending, relayed or rebuilt; length: the
\* guard's; cut: a stream that stops without one; error: an error event, or an error
\* response; forward: handed to the fallback; plain: the backend's unstreamed answer.
Ends == {"open", "finish", "length", "cut", "error", "forward", "plain", "gone"}

Over(end) == stage' = "over" /\ reply' = [reply EXCEPT !.end = end]
Shows(end) ==
  stage' = "over" /\ reply' = [reply EXCEPT !.end = end, !.shown = @ \cup {attempt}]
Kept == UNCHANGED <<chat, attempt, saw, head, client>>

------------------------------------------------------------------------------
(* run: an attempt fails *)

\* On the first attempt, with nothing sent, the exception is the handler's; later
\* it ends the stream, or is a 502.
Failed(handled) ==
  IF attempt = 0 /\ ~Sent THEN Over(handled) ELSE Over("error")

ConnectFails ==
  /\ stage = "connect"
  /\ Failed(IF fallback = "set" THEN "forward" ELSE "error")
  /\ UNCHANGED got /\ Kept
Connects ==
  /\ stage = "connect"
  /\ stage' = "head" /\ got' = {}
  /\ UNCHANGED reply /\ Kept
\* A reset, a read timeout, or an end of file before the head.
ReadFails ==
  /\ stage \in {"head", "events"}
  /\ Failed("error")
  /\ UNCHANGED got /\ Kept

------------------------------------------------------------------------------
(* _read: the backend's head *)

HeadNotReady ==
  /\ stage = "head" /\ attempt = 0 /\ fallback = "set"
  /\ Over("forward")
  /\ UNCHANGED got /\ Kept
\* Not 200, or not a stream: relayed as it is, or the end of a stream.
HeadPlainAgain ==   \* mutant: relayed although a head is out
  /\ stage = "head"
  /\ Over("plain")
  /\ UNCHANGED got /\ Kept
HeadPlain ==
  /\ stage = "head"
  /\ Over(IF Sent THEN "error" ELSE "plain")
  /\ UNCHANGED got /\ Kept
HeadStream ==
  /\ stage = "head"
  /\ IF Streaming /\ ~Sent /\ ~There THEN Over("gone") /\ UNCHANGED head
     ELSE stage' = "events" /\ head' = (IF Streaming THEN "sent" ELSE head) /\ UNCHANGED reply
  /\ UNCHANGED <<chat, attempt, got, saw, client>>

------------------------------------------------------------------------------
(* _event *)

TellingContent(piece) == piece \in {"content", "tools"}   \* mutant
\* What of an event the client must not be shown twice.
Telling(piece) == piece \in {"content", "tools"} \/ (piece = "reasoning" /\ wants = "shown")
\* In `hidden` the rewriter spends the reasoning it held back on a reply that ends
\* without anything else (SSEEventRewriter._hold_reasoning).
Spent(piece) ==
  piece = "finish" /\ wants = "hidden" /\ got \cap {"content", "tools"} = {} /\ "reasoning" \in got
\* Content as the client sees it, not as the guard counts it.
Visible(piece) == Spent(piece) \/ piece \in {"content", "tools"} \/ (piece = "reasoning" /\ wants = "shown")

\* After its finish_reason, or an error, a reply has nothing more to show.
Event(piece) ==
  /\ stage = "events" /\ got \cap {"finish", "error"} = {}
  /\ got' = got \cup {piece}
  /\ IF ~Streaming THEN UNCHANGED <<stage, saw, reply>>
     ELSE /\ saw' = IF Telling(piece) THEN "content" ELSE saw
          /\ IF ~There THEN Over("gone")
             ELSE /\ reply' = [reply EXCEPT !.shown = IF Visible(piece) THEN @ \cup {attempt} ELSE @]
                  /\ UNCHANGED stage
  /\ UNCHANGED <<chat, attempt, head, client>>
\* A comment, [DONE], usage: nothing but a write.
Keepalive ==
  /\ stage = "events" /\ Streaming /\ ~There
  /\ Over("gone")
  /\ UNCHANGED got /\ Kept

------------------------------------------------------------------------------
(* A loop *)

\* The detector of the field trips on an event, which is not passed on.
Trips(field) == stage = "events" /\ field \in got /\ got \cap {"finish", "error"} = {}

MayRetryAlways == attempt < Retries   \* mutant: whatever the client has seen
MayRetryOnceMore == attempt <= Retries /\ saw = "nothing"   \* mutant
MayRetry == attempt < Retries /\ saw = "nothing"

LoopRetriedUncounted(field) ==   \* mutant
  /\ Trips(field) /\ MayRetry
  /\ stage' = "connect"
  /\ UNCHANGED <<chat, attempt, got, saw, head, client, reply>>
LoopRetried(field) ==
  /\ Trips(field) /\ MayRetry
  /\ IF Streaming /\ ~There THEN Over("gone") /\ UNCHANGED attempt
     ELSE /\ stage' = "connect" /\ attempt' = attempt + 1
          /\ reply' = [reply EXCEPT !.marks = IF Streaming THEN @ + 1 ELSE @]
  /\ UNCHANGED <<chat, got, saw, head, client>>
\* _stop: a loop in the reasoning is shown as content, unless there is content.
LoopStopped(field) ==
  /\ Trips(field) /\ ~MayRetry
  /\ IF ~Streaming \/ (saw = "nothing" /\ field = "reasoning") THEN Shows("length") ELSE Over("length")
  /\ UNCHANGED got /\ Kept

------------------------------------------------------------------------------
(* The end of the backend's stream *)

Relayed ==
  /\ stage = "events" /\ Streaming
  /\ Over(IF "error" \in got THEN "error" ELSE IF "finish" \in got THEN "finish" ELSE "cut")
  /\ UNCHANGED got /\ Kept
RebuiltUnfinished ==   \* mutant: a reply that was cut off is sent as one
  /\ stage = "events" /\ ~Streaming
  /\ IF "error" \notin got THEN Shows("finish") ELSE Over("error")
  /\ UNCHANGED got /\ Kept
Rebuilt ==
  /\ stage = "events" /\ ~Streaming
  /\ IF "finish" \in got THEN Shows("finish") ELSE Over("error")
  /\ UNCHANGED got /\ Kept

ClientLeaves ==
  /\ There /\ stage # "over" /\ client' = "gone"
  /\ UNCHANGED <<chat, stage, attempt, got, saw, head, reply>>

LoopInit ==
  /\ wants \in {"json", "hidden", "shown", "raw"} /\ fallback \in {"set", "none"}
  /\ stage = "connect" /\ attempt = 0 /\ got = {} /\ saw = "nothing" /\ head = "unsent"
  /\ client = "there"
  /\ reply = [end |-> "open", shown |-> {}, marks |-> 0]

Backend ==
  \/ ConnectFails \/ Connects \/ ReadFails
  \/ HeadNotReady \/ HeadPlain \/ HeadStream
  \/ \E field \in {"reasoning", "content"} : LoopRetried(field) \/ LoopStopped(field)
  \/ Relayed \/ Rebuilt
LoopNext ==
  \/ Backend \/ \E piece \in Pieces : Event(piece)
  \/ Keepalive \/ ClientLeaves
  \/ stage = "over" /\ UNCHANGED loopVars

LoopSpec == LoopInit /\ [][LoopNext]_loopVars
\* The backend answers, or the read times out; its stream does not go on for ever.
LoopFairSpec == LoopSpec /\ WF_loopVars(Backend)

------------------------------------------------------------------------------
(* Properties *)

LoopTypeOK ==
  /\ wants \in {"json", "hidden", "shown", "raw"} /\ fallback \in {"set", "none"}
  /\ stage \in {"connect", "head", "events", "over"} /\ attempt \in Attempts
  /\ got \subseteq Pieces /\ saw \in {"nothing", "content"}
  /\ head \in {"unsent", "sent"} /\ client \in {"there", "gone"}
  /\ reply \in [end: Ends, shown: SUBSET Attempts, marks: 0..Retries]
  /\ stage = "over" <=> reply.end # "open"
  /\ Sent => Streaming

\* A stream begins once, shows the answer of one attempt, and ends once; a client
\* that asked for no stream gets one response.
Promised == INSTANCE Reply WITH
  phase <- IF stage = "over" THEN "over" ELSE IF Sent THEN "stream" ELSE "none",
  source <- reply.shown
OneReply == Promised!Spec

\* Once a head is out no second response is written into the stream, neither the
\* backend's nor the fallback's.
NoSecondResponse == Sent => reply.end \notin {"plain", "forward"}

\* A reply that ends as if it were complete is complete: no part of it is missing,
\* nothing of it comes from an attempt that was given up, and a client that is told
\* "length" has something to read.
CompleteOrSaid ==
  There /\ stage = "over" =>
    /\ reply.end = "finish" => "finish" \in got /\ reply.shown \subseteq {attempt}
    /\ reply.end = "length" => reply.shown = {attempt}

\* Every restart is marked in the stream, and none is made once content was shown.
RestartsMarked ==
  /\ Streaming /\ reply.end # "gone" => reply.marks = attempt
  /\ attempt > 0 => \A a \in reply.shown : a = attempt
=============================================================================
