SPECIFICATION Spec
CONSTANTS
  Clients = {r1}
  Editable = {"EMBED", "CODE"}
  ActedOn = {"embed"}
  MaxRequests = 3
  Chosen = {"llm-a", "llm-a-proxy", "embed"}
  MaxDeaths = 1
  MaxReboots = 1
  Stopped = Stopped
  Failed = Failed
  Nothing = Nothing
  Editors = {e1}
  Paths = {"famous", "pack", "hf"}
  MaxEdits = 3
  NoEntry = NoEntry
  Pollers = {p1, p2}
  Windows = {1, 2}
  MaxEvents = 3
  MaxHeld = 3
  MaxExits = 1
  Idle = Idle
  Workers = {w1, w2}
  Reapers = {sweep, button}
  MaxContractSaves = 2
  MaxScans = 2
  NoScan = NoScan
  Os = "linux"
  Hybrid = FALSE
  MaxSettings = 2
  SettingValues <- LChoices
  ShippedEnv <- LShipped
  Probers = {"loop", "click"}
  OwnLoop = "loop"
  Updaters = {"page", "shell"}
  FromPage = {"page"}
  Restarted <- RestartedD
  GitFails = FALSE
  MaxCommits = 2
  MaxProbes = 2
  MaxFaults = 1
  None = None
  Hosts <- BHosts
  Metadata <- BMetadata
  Projectors <- BProjectors
  Ladder <- BLadder
  Tunable <- BTunable
  CacheFloor = 32
  PlannedCtx = 4
  Context = 3
  MaxTunings = 2
  OldFiles <- SFiles
  Payloads <- SPayloads
  MaxSaves = 2
INVARIANTS   LiveLeaseStays  
   RenameIsInvisible
 
CONSTRAINT Small
CHECK_DEADLOCK FALSE
