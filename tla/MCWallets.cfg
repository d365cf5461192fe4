SPECIFICATION MCSpec
CONSTANTS
  None = None
  Requests = {r1, r2}
  Goals = {"wallet", "address", "blockedAddress", "refresh"}
  MaxTxs = 2
  MaxIndex = 2
  MaxFaults = 1
  Creations = {c1, c2}
  MaxWallets = 5
  WALLET_LIMIT = 3
  AccountsAsked = {2}
CONSTRAINTS FaultFreeAddresses BlocksAmongAddresses
CHECK_DEADLOCK FALSE
SYMMETRY Symmetry
INVARIANTS
  WalletsAreInOrder
  ScanTellsTheTruth
  AddressIsFree
PROPERTY
  KnowledgeGrows
