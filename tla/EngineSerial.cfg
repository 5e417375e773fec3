SPECIFICATION LiveSpec
CONSTANTS
    m1 = m1
    m2 = m2
    FailureThreshold = 3
    RecoveryThreshold = 2
    CounterCap = 3
    Monitors = {m1}
    HttpMonitors = {m1}
    JobMonitors = {m1}
    EditedMonitors = {m1}
    DeletableMonitors = {m1}
    MaintainedMonitors = {m1}
    ConcurrentEdits = FALSE
    MaxConcurrency = 1
    MaxEdits = 1
    MaxOpen = 2
    MaxCrashes = 1
INVARIANT
    DownHasIncident
PROPERTIES
    OutageDetected
    HealthDetected
    NoPrematureIncident
    NoPrematureRecovery
