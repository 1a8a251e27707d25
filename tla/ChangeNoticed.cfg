SPECIFICATION Spec
CONSTANTS
    RetryTotal = 1
    BackoffFactor = 1
    MaxDelay = 2
    Jitter = 1
    RespectRetryAfter = TRUE
    Client = {c1}
    Sessions <- Emails
    Catalogs <- SoundCatalogs
    Project = {"p1", "p2"}
    Name = {"n1", "n2"}
    Repo = {"r1"}
    AuditKey = {"a1", "a2"}
    Start <- MCStart
    Scopes <- MCScopes
    Updates <- MCUpdates
    CredentialLimit = 1
    GitLabId = {"g1", "g2"}
    MaxPage = 3
    MaxCommands = 2
    MaxFaults = 1
    MaxPublish = 1
CHECK_DEADLOCK FALSE
INVARIANT ChangeNoticed
