\* One service process with kills, storage faults (a write fails before or
\* after it is visible) and imports of both kinds; the process may start
\* before the first import.
CONSTANTS
  Service = {s1}
  InitialKinds = {"absent", "cookie"}
  ImportKinds = {"cookie", "bearer"}
  Legacy = FALSE
  FaultKinds = {"unseen", "visible"}
  MaxRevision = 4
  MaxTime = 3
  MaxStarts = 2
  MaxCrashes = 1
  MaxFaults = 1
  TotalDispatchCap = 2
  SafeRetryLimit = 1
  ValidationRetryLimit = 1
  AmbiguityReplayLimit = 1
  RecoveryWindow = 2
  SafeRetryDelay = 1
  ValidationRetryDelay = 1
  AmbiguityReplayDelay = 1
SPECIFICATION Spec
INVARIANT TypeOK
INVARIANT SuccessorKept
INVARIANT NoOutcomeLost
PROPERTY NewerWins
PROPERTY LifecycleSpec
CHECK_DEADLOCK FALSE
