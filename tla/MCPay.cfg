SPECIFICATION MCSpec
CONSTANTS
  None = None
  hinted = hinted
  Payments = {p1, p2}
  Accounts = {a1, a2}
  Invoices = {plain, hinted}
  Hinted = {hinted}
  Sats <- SomeSats
  InvoiceSats <- SomeInvoices
  Noise <- SomeNoise
  MaxSwaps = 2
  MaxFaults = 1
  Requests = {r1, r2}
  Ips = {i1}
  Deposits = {1, 3}
  Exact = {1}
  MaxQuotes = 1
  MaxShifts = 2
  MaxChanges = 1
CONSTRAINT OneOff
CHECK_DEADLOCK FALSE
SYMMETRY Symmetry
INVARIANTS
  SignableSwapIsSound
  OneOpenSwapPerInvoice
  PaysWhatIsDue
  AnsweredShiftIsSound
