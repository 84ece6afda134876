CONSTANTS
  bench = bench
  comfyMode = comfyMode
  Holders = {bench, comfyMode}
  NoHolder = NoHolder
  Requests = {r1}
  Asks <- AllAsks
  MaxCommands = 2
  MaxCrashes = 0
  MaxFailures = 0
  MaxReboots = 0
SPECIFICATION Spec
INVARIANTS
  LeftLeaseIsWatched
