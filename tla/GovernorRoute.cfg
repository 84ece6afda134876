CONSTANTS
  t1 = t1
  t2 = t2
  Threads = {t1, t2}
  Conversations = {c1}
  Enter = 1
  Leave = 2
  Stick = 1
  Ttl = 2
  Probe = 1
  Prompts <- TwoThreads
SPECIFICATION FairSpec
PROPERTIES
  
  PressureEnds
