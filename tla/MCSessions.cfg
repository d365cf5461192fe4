SPECIFICATION MCSpec
CONSTANTS
  Accounts = {a1}
  Requests = {r1, r2}
  Passwords = {p1, p2}
  MaxTokens = 2
  MaxCuts = 1
  None = None
  OtpRequests = {o1, o2, o3}
  Secrets = {s1, s2, s3}
  MaxRows = 2
SYMMETRY Symmetry
INVARIANTS
  LoginIsProven
  StoredTokenReachesClient
  LoginSecretWorks
PROPERTY
  RevokedStaysRevoked
CHECK_DEADLOCK FALSE
