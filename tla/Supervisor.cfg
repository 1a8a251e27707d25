SPECIFICATION FairSpec
CONSTANTS
    StaleAfter = 1
    FailureThreshold = 2
    ClockTolerance = 0
    Interval = 1
    ProbeTime = 1
    GraceTime = 1
    MaxStarts = 2
    MaxFaults = 1
    MaxTime = 5
INVARIANT TypeOK
INVARIANT ReadyBounded
INVARIANT ClientClosedLast
PROPERTY McpGrace
PROPERTY ServiceStops
CHECK_DEADLOCK FALSE
