SPECIFICATION MCSpec
CONSTANTS
  None = None
  K = 3
  Payers = {p1}
  Callers = {c1}
  Amounts = {0, 1, 2, 3, 4}
  Asked = {0, 1, 2, 3, 4, 5, 6, 7, 8, 9, 10}
  BoltzLimits <- SomeBoltzLimits
  RemoteLimits <- SomeRemoteLimits
  MaxChanges = 2
  MaxFaults = 1
  Users = {u1, u2}
  Main = main
  Domains = {main, other}
  LocalDomains = {main}
  Messages = {m1}
  Creators = {n1, n2}
  Processes = {q1, q2}
  MaxTries = 2
CONSTRAINTS Apart LocalApart FewSpellings FewElsewhere OneListener
CHECK_DEADLOCK FALSE
SYMMETRY Symmetry
INVARIANTS
  CallerIsServed
  AcceptedAmountHolds
  ConversationsAreWhole
