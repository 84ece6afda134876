------------------------------- MODULE Speech -------------------------------
(***************************************************************************)
(* The voice server: requests spoken one at a time under a lock, the       *)
(* weights moved to host memory after a quiet while and back before the    *)
(* next reply, and the default voice, which is read again whenever the     *)
(* voices file has another timestamp.                                      *)
(***************************************************************************)
EXTENDS Integers, FiniteSets, Sequences

CONSTANTS
  Callers,     \* requests for speech
  Pages,       \* /health and /v1/audio/voices, each in a thread of its own
  VoiceNames,  \* the names in the voices file
  LoadedNames, \* those the server could load when it started
  Chunks,      \* of audio in a reply, at most
  IdleSleep, MaxNow, MaxSpoken, MaxEdited, MaxSleepFailures

Server == "server"  \* the loop that resolves every request's voice, one at a time
Watch == "watch"
Free == "free"
Refreshers == Pages \union {Server}

ASSUME SpeechAssumption == Free \notin Callers /\ {MaxNow, MaxSpoken, MaxEdited, MaxSleepFailures} \subseteq Nat

VARIABLES
  voices,   \* the file: [default, stamp, whole]
  live,     \* the server's: [default, seen]
  refresh,  \* refresher -> [step, got]
  asking,   \* the caller whose voice is being resolved: {} or {caller}
  weights, graphs, sleeping,
  locked,   \* who holds the model lock
  call,     \* caller -> [step, left, queue, stop, body, gone]
  watch,    \* the idle watcher: "waits" or "sleepy"
  lastSpoken, now, count

speechVars == <<voices, live, refresh, asking, weights, graphs, sleeping, locked, call, watch, lastSpoken, now, count>>
modelVars == <<weights, graphs, sleeping, lastSpoken>>
voiceVars == <<voices, live, refresh>>

Counters == [edited : 0..MaxEdited, spoken : 0..MaxSpoken, failed : 0..MaxSleepFailures]
Bump(field) == count' = [edited |-> count.edited + (IF field = "edited" THEN 1 ELSE 0),
                         spoken |-> count.spoken + (IF field = "spoken" THEN 1 ELSE 0),
                         failed |-> count.failed + (IF field = "failed" THEN 1 ELSE 0)]
NoCaller == [step |-> "none", left |-> 0, queue |-> 0, stop |-> FALSE, body |-> "none", gone |-> FALSE]
Became(c, step) ==
  [call EXCEPT ![c] = [step |-> step, left |-> call[c].left, queue |-> call[c].queue, stop |-> call[c].stop,
                       body |-> call[c].body, gone |-> call[c].gone]]

SpeechInit ==
  /\ \E v \in LoadedNames : voices = [default |-> v, stamp |-> 0, whole |-> TRUE] /\ live = [default |-> v, seen |-> 0]
  /\ refresh = [t \in Refreshers |-> [step |-> "idle", got |-> "none"]]
  /\ asking = {}
  /\ weights = "gpu" /\ graphs = TRUE /\ sleeping = FALSE
  /\ locked = Free
  /\ call = [c \in Callers |-> NoCaller]
  /\ watch = "waits"
  /\ lastSpoken = 0 /\ now = 0
  /\ count = [edited |-> 0, spoken |-> 0, failed |-> 0]

-----------------------------------------------------------------------------
\* set_default_voice writes over the file and then cuts it to length, a timestamp each.
OverwriteDefault(v) ==
  /\ count.edited < MaxEdited /\ voices.whole
  /\ voices' = [default |-> v, stamp |-> voices.stamp + 1, whole |-> FALSE]
  /\ Bump("edited")
  /\ UNCHANGED <<live, refresh, asking, modelVars, locked, call, watch, now>>
CutDefault ==
  /\ ~voices.whole
  /\ voices' = [default |-> voices.default, stamp |-> voices.stamp + 1, whole |-> TRUE]
  /\ UNCHANGED <<live, refresh, asking, modelVars, locked, call, watch, now, count>>

\* refresh_default: the timestamp is taken and kept, then the file is read, then the
\* default is set if it is a voice that loaded.
LookUp(t) ==
  /\ refresh[t].step = "look"
  /\ \/ /\ voices.stamp = live.seen
        /\ refresh' = [refresh EXCEPT ![t] = [step |-> "done", got |-> "none"]]
        /\ UNCHANGED live
     \/ /\ voices.stamp # live.seen
        /\ live' = [default |-> live.default, seen |-> voices.stamp]
        /\ refresh' = [refresh EXCEPT ![t] = [step |-> "read", got |-> "none"]]
  /\ UNCHANGED <<voices, asking, modelVars, locked, call, watch, now, count>>
ReadDefault(t) ==
  /\ refresh[t].step = "read"
  /\ refresh' = [refresh EXCEPT ![t] = IF voices.whole THEN [step |-> "set", got |-> voices.default]
                                       ELSE [step |-> "done", got |-> "none"]]
  /\ UNCHANGED <<voices, live, asking, modelVars, locked, call, watch, now, count>>
AnyName(name) == TRUE
Known(name) == name \in LoadedNames
TakeDefault(t) ==
  /\ refresh[t].step = "set"
  /\ live' = [default |-> IF Known(refresh[t].got) THEN refresh[t].got ELSE live.default, seen |-> live.seen]
  /\ refresh' = [refresh EXCEPT ![t] = [step |-> "done", got |-> "none"]]
  /\ UNCHANGED <<voices, asking, modelVars, locked, call, watch, now, count>>
OpenPage(t) ==
  /\ t \in Pages /\ refresh[t].step = "idle"
  /\ refresh' = [refresh EXCEPT ![t] = [step |-> "look", got |-> "none"]]
  /\ UNCHANGED <<voices, live, asking, modelVars, locked, call, watch, now, count>>
ClosePage(t) ==
  /\ t \in Pages /\ refresh[t].step = "done"
  /\ refresh' = [refresh EXCEPT ![t] = [step |-> "idle", got |-> "none"]]
  /\ UNCHANGED <<voices, live, asking, modelVars, locked, call, watch, now, count>>

-----------------------------------------------------------------------------
\* pieces: a text is spoken in one or more.
Pieces == 1..Chunks
\* speech: the voice is resolved, then a thread of its own generates into a queue.
AskSpeech(c) ==
  /\ call[c].step = "none" /\ asking = {} /\ refresh[Server].step = "idle"
  /\ count.spoken < MaxSpoken
  /\ asking' = {c}
  /\ refresh' = [refresh EXCEPT ![Server] = [step |-> "look", got |-> "none"]]
  /\ Bump("spoken")
  /\ UNCHANGED <<voices, live, modelVars, locked, call, watch, now>>
Resolved(c) ==
  /\ c \in asking /\ refresh[Server].step = "done"
  /\ asking' = {}
  /\ refresh' = [refresh EXCEPT ![Server] = [step |-> "idle", got |-> "none"]]
  /\ \E n \in Pieces :
       call' = [call EXCEPT ![c] = [step |-> "queued", left |-> n, queue |-> 0, stop |-> FALSE,
                                    body |-> "unstarted", gone |-> FALSE]]
  /\ UNCHANGED <<voices, live, modelVars, locked, watch, now, count>>
TakeLock(c) ==
  /\ call[c].step = "queued" /\ locked = Free
  /\ locked' = c
  /\ call' = Became(c, "waking")
  /\ UNCHANGED <<voiceVars, asking, modelVars, watch, now, count>>
\* wake_models, and a wake that fails: the process exits and systemd starts it cold.
Wake(c) ==
  /\ call[c].step = "waking"
  /\ call' = Became(c, "speaking")
  /\ \/ sleeping /\ weights' = "gpu" /\ graphs' = TRUE /\ sleeping' = FALSE
     \/ ~sleeping /\ UNCHANGED <<weights, graphs, sleeping>>
  /\ UNCHANGED <<voiceVars, asking, lastSpoken, locked, watch, now, count>>
WakeFails(c) ==
  /\ call[c].step = "waking" /\ sleeping
  /\ call' = [d \in Callers |-> NoCaller] /\ asking' = {}
  /\ locked' = Free /\ watch' = "waits"
  /\ weights' = "gpu" /\ graphs' = TRUE /\ sleeping' = FALSE /\ lastSpoken' = now
  /\ refresh' = [t \in Refreshers |-> [step |-> "idle", got |-> "none"]]
  /\ live' = [default |-> IF voices.whole /\ Known(voices.default) THEN voices.default
                          ELSE CHOOSE v \in LoadedNames : TRUE, seen |-> voices.stamp]
  /\ UNCHANGED <<voices, now, count>>
\* generate: a chunk, the stop seen between two, an error, and the end.
Chunk(c) ==
  /\ call[c].step = "speaking" /\ call[c].left > 0 /\ ~call[c].stop /\ graphs /\ weights = "gpu"
  /\ call' = [call EXCEPT ![c] = [step |-> "speaking", left |-> call[c].left - 1, queue |-> call[c].queue + 1,
                                  stop |-> FALSE, body |-> call[c].body, gone |-> call[c].gone]]
  /\ UNCHANGED <<voiceVars, asking, modelVars, locked, watch, now, count>>
Unlock(c) ==
  /\ call[c].step = "speaking"
  /\ call[c].left = 0 \/ call[c].stop \/ ~graphs \/ weights # "gpu"
  /\ call' = Became(c, "unlocked")
  /\ locked' = Free
  /\ UNCHANGED <<voiceVars, asking, modelVars, watch, now, count>>
EndQueue(c) ==
  /\ call[c].step = "unlocked"
  /\ call' = Became(c, "done")
  /\ lastSpoken' = now
  /\ UNCHANGED <<voiceVars, asking, weights, graphs, sleeping, locked, watch, now, count>>

\* body: what the client is sent.  A client that leaves before the first item is asked for
\* leaves a generator whose finally never runs.
Body(c, body, queue, stop) ==
  call' = [call EXCEPT ![c] = [step |-> call[c].step, left |-> call[c].left, queue |-> queue, stop |-> stop,
                               body |-> body, gone |-> call[c].gone]]
BodyStarts(c) ==
  /\ call[c].body = "unstarted" /\ ~call[c].gone
  /\ Body(c, "open", call[c].queue, call[c].stop)
  /\ UNCHANGED <<voiceVars, asking, modelVars, locked, watch, now, count>>
BodyTakes(c) ==
  /\ call[c].body = "open"
  /\ \/ call[c].queue > 0 /\ ~call[c].gone /\ Body(c, "open", call[c].queue - 1, call[c].stop)
     \/ call[c].gone /\ Body(c, "closed", call[c].queue, TRUE)
     \/ call[c].queue = 0 /\ call[c].step = "done" /\ Body(c, "closed", 0, TRUE)
  /\ UNCHANGED <<voiceVars, asking, modelVars, locked, watch, now, count>>
Leave(c) ==
  /\ call[c].body \in {"unstarted", "open"} /\ ~call[c].gone
  /\ call' = [call EXCEPT ![c] = [step |-> call[c].step, left |-> call[c].left, queue |-> call[c].queue,
                                  stop |-> call[c].stop,
                                  body |-> IF call[c].body = "unstarted" THEN "closed" ELSE "open", gone |-> TRUE]]
  /\ UNCHANGED <<voiceVars, asking, modelVars, locked, watch, now, count>>
Return(c) ==
  /\ call[c].step = "done" /\ call[c].body = "closed"
  /\ call' = [call EXCEPT ![c] = NoCaller]
  /\ UNCHANGED <<voiceVars, asking, modelVars, locked, watch, now, count>>

-----------------------------------------------------------------------------
\* sleep_models, whole or failing part of the way: the graphs go first.
Sleeps == weights' = "host" /\ graphs' = FALSE /\ sleeping' = TRUE /\ UNCHANGED count
SleepFails == /\ count.failed < MaxSleepFailures
              /\ weights' \in {"gpu", "part"} /\ graphs' = FALSE /\ UNCHANGED sleeping
              /\ Bump("failed")
Quiet == now - lastSpoken >= IdleSleep
WatchLooks ==
  /\ watch = "waits" /\ ~sleeping /\ Quiet
  /\ watch' = "sleepy"
  /\ UNCHANGED <<voiceVars, asking, modelVars, locked, call, now, count>>
Unguarded == TRUE
Lockable == locked = Free
WatchActs ==
  /\ watch = "sleepy"
  /\ watch' = "waits"
  /\ \/ /\ Lockable /\ Quiet /\ ~sleeping
        /\ Sleeps \/ SleepFails
     \/ /\ ~(Lockable /\ Quiet) \/ sleeping
        /\ UNCHANGED <<weights, graphs, sleeping, count>>
  /\ UNCHANGED <<voiceVars, asking, lastSpoken, locked, call, now>>
SleepNow ==
  /\ locked = Free /\ ~sleeping
  /\ Sleeps \/ SleepFails
  /\ UNCHANGED <<voiceVars, asking, lastSpoken, locked, call, watch, now>>
SpeechTick ==
  /\ now < MaxNow
  /\ now' = now + 1
  /\ UNCHANGED <<voiceVars, asking, modelVars, locked, call, watch, count>>

RefreshStep == \E t \in Refreshers : LookUp(t) \/ ReadDefault(t) \/ TakeDefault(t)
CallStep(c) == \/ Resolved(c) \/ TakeLock(c) \/ Wake(c) \/ Chunk(c) \/ Unlock(c) \/ EndQueue(c)
               \/ BodyStarts(c) \/ BodyTakes(c) \/ Return(c)
SpeechNext ==
  \/ \E v \in VoiceNames : OverwriteDefault(v)
  \/ CutDefault
  \/ RefreshStep
  \/ \E t \in Pages : OpenPage(t) \/ ClosePage(t)
  \/ \E c \in Callers : AskSpeech(c) \/ CallStep(c) \/ WakeFails(c) \/ Leave(c)
  \/ WatchLooks \/ WatchActs \/ SleepNow \/ SpeechTick
SpeechSpec == SpeechInit /\ [][SpeechNext]_speechVars

-----------------------------------------------------------------------------
SpeechTypeOK ==
  /\ voices.default \in VoiceNames /\ locked \in Callers \union {Free}
  /\ weights \in {"gpu", "host", "part"} /\ count \in Counters

\* Whatever sleeps and wakes around it, the thread that generates has the model to itself,
\* awake, with its weights and its graphs on the card unless a sleep failed, and whoever asks
\* for the default gets a voice the server has loaded.
SpeaksLoaded ==
  /\ \A c \in Callers : call[c].step = "speaking" =>
       locked = c /\ ~sleeping /\ ((weights = "gpu" /\ graphs) \/ count.failed > 0)
  /\ live.default \in LoadedNames
\* Violated: the default a finished save put in the file is what the server uses once no
\* refresh is under way and its timestamp has been seen.
DefaultIsLive ==
  voices.whole /\ (\A t \in Refreshers : refresh[t].step \in {"idle", "done"}) /\ live.seen = voices.stamp
    /\ voices.default \in LoadedNames => live.default = voices.default
\* Violated once a sleep can fail: the model stays loaded then.
StaysLoaded == locked = Free /\ ~sleeping => weights = "gpu" /\ graphs
\* Violated: a reply that just ended keeps the model awake.
AwakeAfterReply == [][watch = "sleepy" /\ sleeping' /\ ~sleeping => \A c \in Callers : call[c].step # "unlocked"]_speechVars
\* Violated: a client that leaves stops the generation at the next chunk.
BargeInStops == \A c \in Callers : call[c].gone /\ call[c].body = "closed" => call[c].stop
=============================================================================
