SPECIFICATION Spec
CONSTANTS
    m1 = m1
    m2 = m2
    FailureThreshold = 2
    RecoveryThreshold = 1
    CounterCap = 2
    Monitors = {m1, m2}
    HttpMonitors = {m1}
    JobMonitors = {m2}
    EditedMonitors = {m2}
    DeletableMonitors = {m2}
    MaintainedMonitors = {m2}
    ConcurrentEdits = TRUE
    MaxConcurrency = 2
    MaxEdits = 1
    MaxOpen = 2
    MaxCrashes = 0
INVARIANTS
    TypeOK
    PauseConsistent
PROPERTIES
    IncidentsAnnounced
    ImplementsLifecycle
