SPECIFICATION Spec
CONSTANTS
  Readers = {r1}
  Groups = {"g"}
  SafeName <- SafeNames
  PageSize = 1
  Limit = 2
  MaxAdded = 3
  MaxForgotten = 1
  MaxSeconds = 1
  MaxExports = 1
  NoReading = NoReading
  Askers = {c1, c2}
  CooldownSec = 2
  FailOpen = TRUE
  Keep = 1
  MaxClock = 3
  MaxTurns = 1
  MaxFailures = 2
  RewriteEngines = {"llama", "splash", "ninfer"}
  Endpoints <- RWProfiles
  Asked <- RWAsked
  Modes = {"developer", "prefix_user"}
  MediaMax = 2
  VoiceTools = {v1}
  ToolKinds = {"macwhisper", "record", "rebuild"}
  Listeners = {q1, q2}
  Labels = {"ann"}
  Recordings = {1}
  IdleSec = 1
  MaxVoiceClock = 2
  MaxRuns = 1
  MaxLabelled = 1
  Diarizations <- SPDiarizations
  Likenesses <- SPLikenesses
  Thresholds = {1, 2}
  Margins = {0, 1}
  Tracks <- SPTracks
  Sentences <- SPSentences
  Callers = {c1, c2}
  Pages = {p1}
  VoiceNames = {"a", "b"}
  LoadedNames = {"a"}
  Chunks = 2
  IdleSleep = 1
  MaxNow = 1
  MaxSpoken = 2
  MaxEdited = 1
  MaxSleepFailures = 1
INVARIANTS   LevelsAgree StampIsHonest
  NamesAreClear SpeaksLoaded
CONSTRAINT SpeechBound
CHECK_DEADLOCK FALSE
