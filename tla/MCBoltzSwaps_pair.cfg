SPECIFICATION Spec
CONSTANTS
  Swaps = {s1}
  Servers = {v1, v2}
  Kinds = {"submarine", "reverse", "chainOut", "chainIn"}
  NoServer = NoServer
  Orphan = Orphan
  Patient = FALSE
  MaxFaults = 0
  MaxOutages = 1
  MaxCrashes = 1
  MaxDrops = 0
  MaxInFlight = 1
CHECK_DEADLOCK FALSE
SYMMETRY ServerSymmetry
INVARIANT
  OneHandlerPerUpdate
PROPERTY
  LockEndsWithItsHandler
