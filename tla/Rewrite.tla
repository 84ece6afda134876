------------------------------ MODULE Rewrite -------------------------------
(***************************************************************************)
(* What the chat proxy makes of a request before the backend sees it: the  *)
(* items of a Responses request flattened, the thinking level of the       *)
(* endpoint or of the caller, the output limits, the JSON format, the      *)
(* memory block, and what NInfer would refuse taken out.                   *)
(***************************************************************************)
EXTENDS Integers, Sequences

CONSTANTS
  RewriteEngines,     \* CHAT_BACKEND_ENGINE
  Endpoints,          \* the profiles: thinking, effort ("blank": model default), own limit, tools
  Asked,              \* the requests clients send
  Modes,              \* MEMORY_INJECTION_MODE
  MediaMax            \* MEDIA_MAX_TOKENS, 0 for off

ASSUME RewriteAssumption ==
  /\ MediaMax \in Nat /\ Modes \subseteq {"developer", "system", "prefix_user"}
  \* Every handler normalises its endpoint's level when it starts.
  /\ \A e \in Endpoints : e.thinking \in BOOLEAN /\ e.effort \in {"low", "medium", "xhigh", "blank"}

VARIABLES
  proxy,              \* the engine, the endpoint's profile, the mode
  forced,             \* LLM_*_NINFER_THINK_EFFORT in the stack's env file, and its mtime
  settings,           \* _NINFER_SETTINGS_READ: the mtime it was read at, and what it said
  asked, sent         \* the last request, and what left for the backend

rewriteVars == <<proxy, forced, settings, asked, sent>>
NothingSent == {}

Levels == {"low", "medium", "xhigh"}
\* _normalize_reasoning_effort
Level(effort, default) == CASE effort \in Levels -> effort
                            [] effort \in {"high", "max"} -> "xhigh"
                            [] effort = "minimal" -> "low"
                            [] OTHER -> default
OptsOut(effort) == effort \in {"none", "off"}

\* The input of a Responses request: text parts joined, everything else of a
\* message's content dropped; a tool's output becomes a tool message.
Spoken == {"system", "developer", "user", "assistant"}
Item(role, type, text, media, memory) ==
  [role |-> role, type |-> type, text |-> text, media |-> media, memory |-> memory]
Flat(i) ==
  CASE i.type = "message" /\ i.role \in Spoken -> Item(i.role, "plain", i.text, FALSE, i.memory)
    [] i.type = "function_call_output" -> Item("tool", "plain", TRUE, FALSE, FALSE)
    [] i.role \in Spoken \union {"tool"} -> Item(i.role, i.type, i.text, i.media /\ ~i.text, i.memory)
    [] OTHER -> i
Items(p) ==
  LET flat == IF p.kind # "responses" THEN p.items ELSE [n \in DOMAIN p.items |-> Flat(p.items[n])]
  IN IF p.kind = "responses" /\ p.instructions
     THEN <<Item("developer", "plain", TRUE, FALSE, FALSE)>> \o flat ELSE flat
\* A string input is one user item until instructions or memory make it a list.
HasMedia(items) == \E n \in DOMAIN items : items[n].media

\* _inject_thinking: the switch, the level of chat_template_kwargs, and the level on top.
Thought(think, level, top) == [think |-> think, level |-> level, top |-> top]
Thinking(e, p) ==
  LET requested == IF p.top # "unset" THEN p.top ELSE p.level
      level == Level(requested, e.effort)
  IN CASE e.effort = "blank" -> Thought(e.thinking, p.level, "unset")
       [] e.effort # "blank" /\ e.thinking /\ ~OptsOut(requested) /\ p.think # "off" -> Thought(TRUE, level, level)
       [] OTHER -> Thought(FALSE, "unset", "unset")
ForSplash(t) == IF t.think THEN t ELSE Thought(FALSE, t.level, "none")

\* _inject_max_tokens, _cap_media_max_tokens: -1 is a field that is not there.
LimitKeys == {"max_tokens", "max_completion_tokens", "max_output_tokens"}
OwnLimit(e, p) ==
  LET key == CASE p.kind = "responses" -> "max_output_tokens"
               [] p.limits["max_completion_tokens"] # -1 /\ p.limits["max_tokens"] = -1 -> "max_completion_tokens"
               [] OTHER -> "max_tokens"
  IN IF e.limit <= 0 THEN p.limits ELSE [k \in LimitKeys |-> IF k = key THEN e.limit ELSE p.limits[k]]
MediaKeys(kind) == IF kind = "responses" THEN {"max_output_tokens"} ELSE {"max_tokens", "max_completion_tokens"}
Capped(limits, p) ==
  LET present == {k \in MediaKeys(p.kind) : limits[k] > 0}
      first == IF p.kind = "responses" THEN "max_output_tokens" ELSE "max_tokens"
  IN IF \/ MediaMax = 0 \/ ~HasMedia(Items(p)) \/ (present # {} /\ \A k \in present : limits[k] <= MediaMax)
     THEN limits
     ELSE [k \in LimitKeys |-> IF k \in (IF present = {} THEN {first} ELSE present) THEN MediaMax ELSE limits[k]]
LimitsCappedFirst(e, p) == OwnLimit(e, [kind |-> p.kind, limits |-> Capped(p.limits, p)])
Limits(e, p) == Capped(OwnLimit(e, p), p)

\* _normalize_json_object_response_format
Format(p) == IF p.format = "json_object" /\ ~p.grammar THEN "any_object" ELSE p.format

\* _inject_memory: into the last user message, or as the first message of the
\* mode's role.  A list of Responses items is read through the roles it knows.
MemoryRole(mode) == IF mode = "developer" THEN "developer" ELSE "system"
Remembering(i) == Item(i.role, i.type, TRUE, i.media, TRUE)
Users(items) == {n \in DOMAIN items : items[n].role = "user"}
LastUser(items) == CHOOSE n \in Users(items) : \A m \in Users(items) : m <= n
WithBlock(mode, items) ==
  CASE items = <<>> -> items
    [] mode = "prefix_user" ->
         IF Users(items) = {} THEN items
         ELSE [n \in DOMAIN items |-> IF n = LastUser(items) THEN Remembering(items[n]) ELSE items[n]]
    [] mode # "prefix_user" /\ items # <<>> /\ Head(items).role = MemoryRole(mode) ->
         <<Remembering(Head(items))>> \o Tail(items)
    [] OTHER -> <<Item(MemoryRole(mode), "plain", TRUE, FALSE, TRUE)>> \o items
Remembered(mode, p) ==
  LET read == SelectSeq(Items(p), LAMBDA i : i.role \in Spoken)
      added == WithBlock(mode, read)
  IN CASE ~p.facts -> Items(p)
       [] p.facts /\ p.kind = "chat" -> WithBlock(mode, Items(p))
       [] OTHER -> IF added = read THEN Items(p) ELSE added

\* _raise_thinking_effort: the slot's own level replaces the level of a request that thinks.
RaisedOnTop(t, effort) ==
  IF effort = "unset" \/ ~t.think \/ t.top = "none" THEN t ELSE Thought(t.think, t.level, effort)
Raised(t, effort) ==
  IF effort = "unset" \/ ~t.think \/ t.top = "none" THEN t
  ELSE Thought(t.think, IF t.level = "unset" THEN t.level ELSE effort, effort)
ForNinfer(t) ==
  IF t.think THEN t ELSE Thought(FALSE, "unset", IF t.top \in {"unset", "none"} THEN t.top ELSE "none")
Choice(e, engine, p) ==
  CASE e.strips -> "none" [] ~e.strips /\ engine = "ninfer" /\ p.tools = "required" -> "auto" [] OTHER -> p.tools

\* _proxy_backend: what is sent for p.
Payload(kind, thought, reasoning, limits, items, tools, format, extras) ==
  [kind |-> kind, think |-> thought.think, level |-> thought.level, top |-> thought.top, reasoning |-> reasoning,
   limits |-> limits, items |-> items, tools |-> tools, format |-> format, extras |-> extras]
Rewritten(x, effort, p) ==
  LET e == x.endpoint
      thought == Thinking(e, p)
      raised == Raised(thought, effort)
      items == Remembered(x.mode, p)
  IN CASE x.engine = "ninfer" /\ p.kind = "responses" ->
            Payload(p.kind, Thought(raised.think, raised.level, "unset"),
                    IF ~raised.think THEN "none" ELSE IF raised.top = "unset" THEN p.reasoning ELSE raised.top,
                    Limits(e, p), items, Choice(e, x.engine, p), "unset", FALSE)
       [] x.engine = "ninfer" /\ p.kind # "responses" ->
            Payload(p.kind, ForNinfer(raised), p.reasoning, Limits(e, p), items, Choice(e, x.engine, p),
                    IF p.format = "json_object_schema" THEN "json_schema" ELSE Format(p), FALSE)
       [] OTHER ->
            Payload(p.kind, IF x.engine = "splash" THEN ForSplash(thought) ELSE thought, p.reasoning,
                    Limits(e, p), items, Choice(e, x.engine, p), Format(p), p.extras)

RewriteInit ==
  /\ proxy \in [engine : RewriteEngines, endpoint : Endpoints, mode : Modes]
  /\ forced = [effort |-> "unset", mtime |-> 0] /\ settings = [effort |-> "unset", mtime |-> 0]
  /\ asked = NothingSent /\ sent = NothingSent

\* _ninfer_model_settings reads the file again when its mtime is another.
Settings == IF forced.mtime = settings.mtime THEN settings ELSE forced
ServePayload(p) ==
  /\ sent = NothingSent
  /\ asked' = {p}
  /\ settings' = IF proxy.engine = "ninfer" THEN Settings ELSE settings
  /\ sent' = {Rewritten(proxy, Settings.effort, p)}
  /\ UNCHANGED <<proxy, forced>>
PayloadSent == /\ sent # NothingSent /\ sent' = NothingSent /\ asked' = NothingSent
            /\ UNCHANGED <<proxy, forced, settings>>
ForceEffort(effort) ==
  /\ proxy.engine = "ninfer" /\ forced.mtime = 0 /\ sent = NothingSent
  /\ forced' = [effort |-> effort, mtime |-> 1]
  /\ UNCHANGED <<proxy, settings, asked, sent>>

RewriteNext == \/ \E p \in Asked : ServePayload(p)
               \/ PayloadSent
               \/ ForceEffort("high")
RewriteSpec == RewriteInit /\ [][RewriteNext]_rewriteVars

-----------------------------------------------------------------------------
RewriteTypeOK ==
  \A q \in sent : /\ q.think \in BOOLEAN /\ q.level \in Levels \union {"unset", "high", "minimal", "odd", "none"}
                  /\ q.limits \in [LimitKeys -> Int] /\ q.items \in Seq([role : Spoken \union {"tool", "none"},
                       type : {"message", "plain", "function_call", "function_call_output"},
                       text : BOOLEAN, media : BOOLEAN, memory : BOOLEAN])

\* On an endpoint with a level the template and the top of the payload never
\* disagree about it: both name one level the template knows (or the slot's own,
\* for NInfer), or thinking is off, no level is named, and only the engines that
\* read "none" see it.
LevelsAgree ==
  \A q \in sent : proxy.endpoint.effort # "blank" =>
    LET top == IF proxy.engine = "ninfer" /\ q.kind = "responses" THEN q.reasoning ELSE q.top
    IN IF q.think THEN /\ top = q.level
                       /\ q.level \in Levels \/ (proxy.engine = "ninfer" /\ q.level = forced.effort)
       ELSE q.level = "unset" /\ (top = "unset" \/ (top = "none" /\ proxy.engine \in {"splash", "ninfer"}))
\* A request that carries media to the backend carries an output limit, and none
\* over MEDIA_MAX_TOKENS, whatever the endpoint's own limit and the caller's were.
MediaIsCapped ==
  \A q \in sent : HasMedia(q.items) /\ MediaMax > 0 =>
    /\ \E k \in MediaKeys(q.kind) : q.limits[k] > 0
    /\ \A k \in MediaKeys(q.kind) : q.limits[k] <= MediaMax

\* Violated: a request may opt out of thinking.
OptOutIsHonoured ==
  \A p \in asked, q \in sent : OptsOut(p.top) \/ p.think = "off" => ~q.think
\* Violated: a level the template does not know never reaches one that reads it.
OddNeverArrives == \A q \in sent : q.think => q.level \in Levels \union {"unset"}
\* Violated: the memory block is added to the input and takes nothing from it.
MemoryOnlyAdds == \A p \in asked, q \in sent : Len(q.items) >= Len(Items(p))
\* Violated: an image the client sent reaches the backend.
MediaArrives == \A p \in asked, q \in sent : HasMedia(p.items) => HasMedia(q.items)
=============================================================================
