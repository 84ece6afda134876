SPECIFICATION Spec
CONSTANTS
  Hour = 14
  Grace = 3
  Confirm = 2
  Ready = 2
  MaxRestarts = 2
  MaxCommands = 2
  MaxKills = 1
  llms = llms
  studio = studio
  Proxies = {llms, studio}
  NoProxy = NoProxy
  Fallback <- EachOther
  Chats = {r1}
  MaxCrashes = 1
  Retries = 2
  Requests = {t1, t2}
  Models = {m1, m2}
  Slots = 2
INVARIANTS RestartBudget ErrorMeansNobody CompleteOrSaid OneOnGpu
PROPERTIES HealIsJustified Healed SoftNeverFails OneReply SweepSparesDecodes Ended
