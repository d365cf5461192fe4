SPECIFICATION FairSpec
CONSTANTS
  e1 = e1
  e2 = e2
  e3 = e3
  None = None
  Requests = {r1, r2}
  Codes = {c1}
  Emails = {e1, e2, e3}
  Mailbox <- Mailboxes
  Subscribed = {"m2"}
  Inputs <- SomeInputs
  MaxFaults = 1
INVARIANTS
  SignupIsWhole
  OneAccountPerMailbox
PROPERTY
  CodeLockIsFreed
