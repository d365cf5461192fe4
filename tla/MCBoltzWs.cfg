SPECIFICATION FairSpec
CONSTANTS
  MaxFaults = 7
  MaxHangs = 1
  MaxLateErrors = 2
CHECK_DEADLOCK FALSE
INVARIANTS
  CrashOnlyAfterLateError
  OneLiveSocket
  OutageIsBounded
PROPERTIES
  HealthySocketIsKept
  AlwaysReconnects
  ConnectionPromise
