SPECIFICATION Spec
CONSTANTS
    m1 = m1
    m2 = m2
    FailureThreshold = 2
    RecoveryThreshold = 1
    CounterCap = 2
    Monitors = {m1}
    HttpMonitors = {}
    JobMonitors = {m1}
    EditedMonitors = {}
    DeletableMonitors = {}
    MaintainedMonitors = {}
    ConcurrentEdits = FALSE
    MaxConcurrency = 1
    MaxEdits = 0
    MaxOpen = 2
    MaxCrashes = 0
INVARIANT
    UpHasNoIncident
