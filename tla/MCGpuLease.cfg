CONSTANTS
  bench = bench
  comfyMode = comfyMode
  Holders = {bench, comfyMode}
  NoHolder = NoHolder
  Requests = {r1}
  Asks <- AllAsks
  MaxCommands = 3
  MaxCrashes = 1
  MaxFailures = 1
  MaxReboots = 1
SPECIFICATION Spec
INVARIANTS
  NoLeaseBackendOn
  EvictionHolds
  GuestAlone
  
PROPERTIES
  HandoverSpec
