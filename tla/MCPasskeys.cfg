SPECIFICATION Spec
CONSTANTS
  a1 = a1
  a2 = a2
  p1 = p1
  p2 = p2
  None = None
  Accounts = {a1, a2}
  LoginSessions = {s1}
  Requests = {r1, r2}
  SymmetricKeys = {k1, k2}
  Passkeys = {p1, p2}
  Owner <- Owners
  Domain <- Domains
  MaxChallenges = 3
  MaxCounter = 2
CONSTRAINTS Small InTurn
CHECK_DEADLOCK FALSE
SYMMETRY Symmetry
INVARIANT
  AcceptedAnswerIsDue
PROPERTY
  RowIsNotSetBack
