\* One kill while a recovery dispatch is being reserved.
CONSTANTS
  Service = {s1}
  InitialKinds = {"cookie"}
  ImportKinds = {"cookie"}
  Legacy = FALSE
  FaultKinds = {}
  MaxRevision = 3
  MaxTime = 4
  MaxStarts = 2
  MaxCrashes = 1
  MaxFaults = 0
  TotalDispatchCap = 3
  SafeRetryLimit = 2
  ValidationRetryLimit = 1
  AmbiguityReplayLimit = 1
  RecoveryWindow = 3
  SafeRetryDelay = 1
  ValidationRetryDelay = 1
  AmbiguityReplayDelay = 1
SPECIFICATION Spec
INVARIANT PostsWithinCap
CHECK_DEADLOCK FALSE
