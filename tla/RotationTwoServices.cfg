\* Two service processes over the same files, with a kill, restarts and
\* imports, but no storage fault.
CONSTANTS
  Service = {s1, s2}
  InitialKinds = {"cookie"}
  ImportKinds = {"cookie"}
  Legacy = FALSE
  FaultKinds = {}
  MaxRevision = 4
  MaxTime = 2
  MaxStarts = 2
  MaxCrashes = 1
  MaxFaults = 0
  TotalDispatchCap = 3
  SafeRetryLimit = 2
  ValidationRetryLimit = 1
  AmbiguityReplayLimit = 1
  RecoveryWindow = 2
  SafeRetryDelay = 1
  ValidationRetryDelay = 1
  AmbiguityReplayDelay = 1
SPECIFICATION Spec
SYMMETRY ServiceSymmetry
INVARIANT WriteAhead
INVARIANT SingleFlight
INVARIANT CapKeptUntilKill
PROPERTY NoPostAfterRotated
CHECK_DEADLOCK FALSE
