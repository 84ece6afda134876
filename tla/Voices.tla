------------------------------- MODULE Voices -------------------------------
(***************************************************************************)
(* Voice profiles: the tools that enrol clips and rebuild profiles.json,   *)
(* each a process of its own with no lock between them, and the Parakeet   *)
(* server that names the speakers of a recording by the file, read again   *)
(* when its mtime is another, and frees its models when nobody has used    *)
(* them for a while.                                                       *)
(***************************************************************************)
EXTENDS Naturals, FiniteSets

CONSTANTS
  VoiceTools, ToolKinds,       \* processes, and what they run: macwhisper, rebuild, record
  Listeners,                   \* requests of the server
  Labels, Recordings,          \* names on transcript lines, recordings
  IdleSec,                     \* TRANSCRIPT_IDLE_UNLOAD_SECONDS
  MaxVoiceClock, MaxRuns, MaxLabelled  \* bounds

ASSUME VoicesAssumption == IdleSec \in Nat \ {0}

VARIABLES
  library,            \* MacWhisper's labelled lines: recording and label
  clips,              \* samples.npz
  exclusions,         \* config.json: the labels left out
  profiles,           \* profiles.json: version (its mtime), the people, whether it has a threshold
  tool,               \* process -> where it is and what it has read
  runs, labelled,     \* bounds
  cache,              \* _profiles: the mtime it is stamped with, and the data
  listener,           \* request -> where it is: the mtime it saw, the data it loaded
  probe,              \* GET /health, on the event loop, reading the same cache
  held,               \* who holds _inference_lock
  loaded, lastUsed, unloader, voiceClock,
  enrolled            \* history: what recordings were enrolled as

toolVars == <<library, clips, exclusions, profiles, tool, runs, labelled, enrolled>>
serverVars == <<cache, listener, probe, held, loaded, lastUsed, unloader, voiceClock>>
voicesVars == <<toolVars, serverVars>>

Clip(recording, cluster, label) == [recording |-> recording, cluster |-> cluster, label |-> label]
Library == {Clip(l.recording, "", l.label) : l \in library}  \* macwhisper_clips: none is a cluster's
Profiles(version, people, threshold) == [version |-> version, people |-> people, threshold |-> threshold]
Work(kind, at, excludes, evaluates, read, config) ==
  [kind |-> kind, at |-> at, excludes |-> excludes, evaluates |-> evaluates, read |-> read, config |-> config]
NoWork == Work("none", "idle", {}, FALSE, {}, {})
NoRead == [at |-> "idle", saw |-> 0, data |-> Profiles(0, {}, FALSE)]
Reading(at, saw, data) == [at |-> at, saw |-> saw, data |-> data]

VoicesInit ==
  /\ library = {} /\ clips = {} /\ exclusions = {} /\ profiles = Profiles(1, {}, FALSE)
  /\ tool = [t \in VoiceTools |-> NoWork] /\ runs = 0 /\ labelled = 0 /\ enrolled = {}
  /\ cache = [mtime |-> 0, data |-> Profiles(0, {}, FALSE)]
  /\ listener = [r \in Listeners |-> NoRead] /\ probe = NoRead /\ held = {}
  /\ loaded = TRUE /\ lastUsed = 0 /\ unloader = "asleep" /\ voiceClock = 0

-----------------------------------------------------------------------------
(* The tools *)
LabelLine(recording, label) ==
  /\ labelled < MaxLabelled /\ labelled' = labelled + 1
  /\ library' = library \union {[recording |-> recording, label |-> label]}
  /\ UNCHANGED <<clips, exclusions, profiles, tool, runs, enrolled, serverVars>>

\* main: config.json is read and written back, with --exclude's list if one was given.
\* A tool that names a recording's speakers goes straight to the samples.
StartTool(t, kind, given, excludes, evaluates) ==
  /\ tool[t].at = "idle" /\ runs < MaxRuns /\ runs' = runs + 1
  /\ tool' = [tool EXCEPT ![t] =
       Work(kind, IF kind = "record" THEN "samples" ELSE "config",
            IF given THEN excludes ELSE exclusions, evaluates, {}, {})]
  /\ UNCHANGED <<library, clips, exclusions, profiles, labelled, enrolled, serverVars>>
SaveConfig(t) ==
  /\ tool[t].at = "config" /\ exclusions' = tool[t].excludes
  /\ tool' = [tool EXCEPT ![t] = Work(tool[t].kind, IF tool[t].kind = "rebuild" THEN "build" ELSE "samples",
                                     tool[t].excludes, tool[t].evaluates, {}, {})]
  /\ UNCHANGED <<library, clips, profiles, runs, labelled, enrolled, serverVars>>
\* enroll decodes every recording before the samples are read: what it read of the
\* library replaces the clips that are no cluster's.  replace_cluster drops what the
\* speaker was enrolled as before.
Fresh(t, recording, label) ==
  IF tool[t].kind = "macwhisper" THEN {c \in clips : c.cluster # ""} \union Library
  ELSE {c \in clips : ~(c.recording = recording /\ c.cluster = "speaker")}
       \union {Clip(recording, "speaker", label)}
LoadSamples(t, recording, label) ==
  /\ tool[t].at = "samples"
  /\ tool' = [tool EXCEPT ![t] = Work(tool[t].kind, "save", tool[t].excludes, tool[t].evaluates,
                                     Fresh(t, recording, label), {})]
  /\ UNCHANGED <<library, clips, exclusions, profiles, runs, labelled, enrolled, serverVars>>
SaveSamples(t) ==
  /\ tool[t].at = "save" /\ clips' = tool[t].read
  /\ enrolled' = IF tool[t].kind = "record"
                 THEN {c \in tool[t].read : c.cluster # "" /\ \A d \in enrolled : d.recording # c.recording}
                      \union {d \in enrolled : d \in tool[t].read} ELSE enrolled
  /\ tool' = [tool EXCEPT ![t] = Work(tool[t].kind, "build", tool[t].excludes, tool[t].evaluates, {}, {})]
  /\ UNCHANGED <<library, exclusions, profiles, runs, labelled, serverVars>>
\* rebuild: the samples, then the config, then profiles.json by a rename.
ReadSamples(t) ==
  /\ tool[t].at = "build"
  /\ tool' = [tool EXCEPT ![t] = Work(tool[t].kind, "configured", {}, tool[t].evaluates, clips, {})]
  /\ UNCHANGED <<library, clips, exclusions, profiles, runs, labelled, enrolled, serverVars>>
ReadConfig(t) ==
  /\ tool[t].at = "configured"
  /\ tool' = [tool EXCEPT ![t] = Work(tool[t].kind, "write", {}, tool[t].evaluates, tool[t].read, exclusions)]
  /\ UNCHANGED <<library, clips, exclusions, profiles, runs, labelled, enrolled, serverVars>>
Built(read, config, evaluates, version) ==
  LET used == {c \in read : c.label \notin config}
  IN Profiles(version, {c.label : c \in used}, evaluates /\ Cardinality({c.recording : c \in used}) > 1)
WriteProfiles(t) ==
  /\ tool[t].at = "write"
  /\ profiles' = Built(tool[t].read, tool[t].config, tool[t].evaluates, profiles.version + 1)
  /\ tool' = [tool EXCEPT ![t] = NoWork]
  /\ UNCHANGED <<library, clips, exclusions, runs, labelled, enrolled, serverVars>>

-----------------------------------------------------------------------------
(* The server *)
VoiceTick == /\ voiceClock < MaxVoiceClock /\ voiceClock' = voiceClock + 1
             /\ UNCHANGED <<toolVars, cache, listener, probe, held, loaded, lastUsed, unloader>>
\* transcribe: the upload is saved, then the inference lock, then the models, in a thread.
BeginListening(r) ==
  /\ listener[r].at = "idle" /\ listener' = [listener EXCEPT ![r] = Reading("queued", 0, NoRead.data)]
  /\ UNCHANGED <<toolVars, cache, probe, held, loaded, lastUsed, unloader, voiceClock>>
TakeModels(r) ==
  /\ listener[r].at = "queued" /\ held = {} /\ held' = {r} /\ loaded' = TRUE
  /\ listener' = [listener EXCEPT ![r] = Reading("stat", 0, NoRead.data)]
  /\ UNCHANGED <<toolVars, cache, probe, lastUsed, unloader, voiceClock>>
\* _voiceprint_profiles: the mtime, the file if it is another, the cache, and what the cache says then.
Stat(reading) == Reading(IF profiles.version = cache.mtime THEN "use" ELSE "load", profiles.version, NoRead.data)
Load(reading) == Reading("update", reading.saw, profiles)
StampLate(reading) == [mtime |-> profiles.version, data |-> reading.data]
Stamped(reading) == [mtime |-> reading.saw, data |-> reading.data]
ListenerStats(r) ==
  /\ listener[r].at = "stat" /\ listener' = [listener EXCEPT ![r] = Stat(listener[r])]
  /\ UNCHANGED <<toolVars, cache, probe, held, loaded, lastUsed, unloader, voiceClock>>
ListenerLoads(r) ==
  /\ listener[r].at = "load" /\ listener' = [listener EXCEPT ![r] = Load(listener[r])]
  /\ UNCHANGED <<toolVars, cache, probe, held, loaded, lastUsed, unloader, voiceClock>>
ListenerUpdates(r) ==
  /\ listener[r].at = "update" /\ cache' = Stamped(listener[r])
  /\ listener' = [listener EXCEPT ![r] = Reading("use", listener[r].saw, NoRead.data)]
  /\ UNCHANGED <<toolVars, probe, held, loaded, lastUsed, unloader, voiceClock>>
\* The speakers are named by what the cache holds now; the thread ends, _mark_used, the lock is freed.
Identify(r) ==
  /\ listener[r].at = "use"
  /\ listener' = [listener EXCEPT ![r] = Reading("named", listener[r].saw, cache.data)]
  /\ UNCHANGED <<toolVars, cache, probe, held, loaded, lastUsed, unloader, voiceClock>>
Reply(r) ==
  /\ listener[r].at = "named" /\ held' = {} /\ lastUsed' = voiceClock
  /\ listener' = [listener EXCEPT ![r] = NoRead]
  /\ UNCHANGED <<toolVars, cache, probe, loaded, unloader, voiceClock>>
ProbeStats ==
  /\ probe.at = "idle"
  /\ probe' = IF Stat(probe).at = "use" THEN NoRead ELSE Stat(probe)
  /\ UNCHANGED <<toolVars, cache, listener, held, loaded, lastUsed, unloader, voiceClock>>
ProbeLoads ==
  /\ probe.at = "load" /\ probe' = Load(probe)
  /\ UNCHANGED <<toolVars, cache, listener, held, loaded, lastUsed, unloader, voiceClock>>
ProbeUpdates ==
  /\ probe.at = "update" /\ cache' = Stamped(probe) /\ probe' = NoRead
  /\ UNCHANGED <<toolVars, listener, held, loaded, lastUsed, unloader, voiceClock>>

\* _idle_unloader: it looks, waits for the lock, and looks again under it.
Idle == voiceClock - lastUsed >= IdleSec
UnloaderLooks ==
  /\ unloader = "asleep" /\ Idle /\ held = {} /\ unloader' = "waiting"
  /\ UNCHANGED <<toolVars, cache, listener, probe, held, loaded, lastUsed, voiceClock>>
IdleWhenLooked == TRUE
StillIdle == Idle
Unload ==
  /\ unloader = "waiting" /\ held = {} /\ unloader' = "asleep"
  /\ loaded' = (loaded /\ ~StillIdle)
  /\ UNCHANGED <<toolVars, cache, listener, probe, held, lastUsed, voiceClock>>

VoicesNext ==
  \/ \E recording \in Recordings, label \in Labels : LabelLine(recording, label)
  \/ \E t \in VoiceTools :
       \/ \E kind \in ToolKinds, given \in BOOLEAN, evaluates \in BOOLEAN, excludes \in {{}} \union {{l} : l \in Labels} :
            StartTool(t, kind, given, excludes, evaluates)
       \/ SaveConfig(t) \/ SaveSamples(t) \/ ReadSamples(t) \/ ReadConfig(t) \/ WriteProfiles(t)
       \/ \E recording \in Recordings, label \in Labels : LoadSamples(t, recording, label)
  \/ \E r \in Listeners : \/ BeginListening(r) \/ TakeModels(r) \/ ListenerStats(r) \/ ListenerLoads(r)
                          \/ ListenerUpdates(r) \/ Identify(r) \/ Reply(r)
  \/ ProbeStats \/ ProbeLoads \/ ProbeUpdates \/ VoiceTick \/ UnloaderLooks \/ Unload
VoicesSpec == VoicesInit /\ [][VoicesNext]_voicesVars

-----------------------------------------------------------------------------
VoicesTypeOK ==
  /\ clips \subseteq [recording : Recordings, cluster : {"", "speaker"}, label : Labels]
  /\ exclusions \subseteq Labels /\ profiles.people \subseteq Labels /\ held \subseteq Listeners
  /\ Cardinality(held) <= 1 /\ loaded \in BOOLEAN /\ unloader \in {"asleep", "waiting"}

\* A cache stamped with an mtime never holds an older file than the one of that mtime, whoever of
\* the requests and the health probe filled it last: a stale cache is always read again.
StampIsHonest == cache.data.version >= cache.mtime
\* The models are freed only when no request runs on them and none has for IdleSec.
FreedWhenIdle == [][loaded /\ ~loaded' => Idle /\ held = {}]_voicesVars

\* Violated: speakers enrolled from recordings are kept, but for one enrolled again.
RecordingsKept == \A c \in enrolled : c \in clips
\* Violated: with every tool done, profiles.json is what the samples and the config make.
ProfilesFollow == (\A t \in VoiceTools : tool[t].at = "idle") /\ runs > 0 =>
                    profiles.people = {c.label : c \in {d \in clips : d.label \notin exclusions}}
\* Violated: a request names speakers by profiles no older than the ones it saw.
NamesAreCurrent == \A r \in Listeners : listener[r].at = "named" => listener[r].data.version >= listener[r].saw
=============================================================================
