SPECIFICATION Spec
CONSTANTS
  Swaps = {s1}
  Servers = {v1}
  Kinds = {"submarine", "reverse", "chainOut", "chainIn"}
  NoServer = NoServer
  Orphan = Orphan
  Patient = FALSE
  MaxFaults = 1
  MaxOutages = 1
  MaxCrashes = 1
  MaxDrops = 1
  MaxInFlight = 2
CHECK_DEADLOCK FALSE
INVARIANTS
  TypeOK
  SignatureOnlyForPaidInvoice
  PreimageOnlyForServerLock
  FundedSwapIsStored
  ActionableUpdateFindsRow
  RowsMatchTheChain
