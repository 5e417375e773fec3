SPECIFICATION Spec
CONSTANTS
    m1 = m1
    m2 = m2
    FailureThreshold = 2
    RecoveryThreshold = 1
    CounterCap = 2
    Monitors = {m1}
    HttpMonitors = {}
    JobMonitors = {}
    EditedMonitors = {}
    DeletableMonitors = {}
    MaintainedMonitors = {m1}
    ConcurrentEdits = FALSE
    MaxConcurrency = 1
    MaxEdits = 0
    MaxOpen = 1
    MaxCrashes = 0
PROPERTY
    NoIncidentInWindow
