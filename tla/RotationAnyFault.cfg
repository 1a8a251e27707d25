\* One process and two faults of any kind, reads and ExceptionGroups
\* included, from a new or a version 2 journal.
CONSTANTS
  Service = {s1}
  InitialKinds = {"cookie"}
  ImportKinds = {"cookie"}
  Legacy = TRUE
  FaultKinds = {"unseen", "visible", "group", "unread"}
  MaxRevision = 3
  MaxTime = 2
  MaxStarts = 2
  MaxCrashes = 1
  MaxFaults = 2
  TotalDispatchCap = 3
  SafeRetryLimit = 2
  ValidationRetryLimit = 1
  AmbiguityReplayLimit = 1
  RecoveryWindow = 2
  SafeRetryDelay = 1
  ValidationRetryDelay = 1
  AmbiguityReplayDelay = 1
SPECIFICATION Spec
INVARIANT WriteAhead
INVARIANT CorruptOnlyWhenStopped
INVARIANT BudgetAccounting
PROPERTY RotatedBeforeReplace
PROPERTY ReauthFinal
CHECK_DEADLOCK FALSE
