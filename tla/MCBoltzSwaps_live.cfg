SPECIFICATION FairSpec
CONSTANTS
  Swaps = {s1}
  Servers = {v1}
  Kinds = {"submarine", "reverse", "chainOut", "chainIn"}
  NoServer = NoServer
  Orphan = Orphan
  Patient = TRUE
  MaxFaults = 1
  MaxOutages = 0
  MaxCrashes = 0
  MaxDrops = 1
  MaxInFlight = 2
CHECK_DEADLOCK FALSE
PROPERTIES
  ClaimHappens
  RefundHappens
  SwapIsClosed
