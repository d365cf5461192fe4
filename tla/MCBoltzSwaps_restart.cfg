SPECIFICATION FairSpec
CONSTANTS
  Swaps = {s1}
  Servers = {v1, v2}
  Kinds = {"reverse", "chainOut"}
  NoServer = NoServer
  Orphan = Orphan
  Patient = FALSE
  MaxFaults = 0
  MaxOutages = 0
  MaxCrashes = 1
  MaxDrops = 0
  MaxInFlight = 1
CHECK_DEADLOCK FALSE
PROPERTIES
  LocksAreFreed
  PendingSwapsAreResubscribed
