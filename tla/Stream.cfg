CONSTANTS
  Clients = {c1, c2}
  Depth = 1
  HookDepth = 1
  MaxTold = 1
SPECIFICATION FairSpec
INVARIANTS
  NoSilentGap
PROPERTIES
  Served
