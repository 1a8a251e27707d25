\* One process and two storage faults: a retained successor is projected.
CONSTANTS
  Service = {s1}
  InitialKinds = {"cookie"}
  ImportKinds = {"cookie"}
  Legacy = FALSE
  FaultKinds = {"unseen", "visible"}
  MaxRevision = 4
  MaxTime = 2
  MaxStarts = 2
  MaxCrashes = 0
  MaxFaults = 2
  TotalDispatchCap = 3
  SafeRetryLimit = 2
  ValidationRetryLimit = 1
  AmbiguityReplayLimit = 1
  RecoveryWindow = 2
  SafeRetryDelay = 1
  ValidationRetryDelay = 1
  AmbiguityReplayDelay = 1
SPECIFICATION FairSpec
PROPERTY RetainedProjected
CHECK_DEADLOCK FALSE
