SPECIFICATION FairSpec
CONSTANTS
    Ttl = 3
    Grace = 0
    Audit = {a1}
    PollSeconds = 1
    TimeoutSeconds = 3
    HeartbeatSeconds = 2
    MaxTasks = 1
    MaxHeads = 2
    MaxTime = 3
CHECK_DEADLOCK FALSE
INVARIANT TypeOK
INVARIANT CompleteHonest
INVARIANT AdviceSound
INVARIANT BeatsOnSchedule
INVARIANT NewerRunNamed
PROPERTY WaitReturns
