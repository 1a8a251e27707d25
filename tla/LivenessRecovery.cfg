\* One process that may be killed and a telemetry sink that accepts again and
\* again; no storage fault. Abandoned dispatches are settled, scheduled
\* recoveries go on and a finished rotation makes room for the next.
CONSTANTS
  Service = {s1}
  InitialKinds = {"cookie"}
  ImportKinds = {"cookie"}
  Legacy = FALSE
  FaultKinds = {}
  MaxRevision = 3
  MaxTime = 3
  MaxStarts = 3
  MaxCrashes = 1
  MaxFaults = 0
  TotalDispatchCap = 3
  SafeRetryLimit = 2
  ValidationRetryLimit = 1
  AmbiguityReplayLimit = 1
  RecoveryWindow = 2
  SafeRetryDelay = 1
  ValidationRetryDelay = 1
  AmbiguityReplayDelay = 1
SPECIFICATION FairSinkSpec
PROPERTY AbandonedRequestSettled
PROPERTY RecoveryProceeds
PROPERTY RotationResumes
CHECK_DEADLOCK FALSE
