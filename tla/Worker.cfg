SPECIFICATION CycleSpec
CONSTANTS
    w1 = w1
    worker1 = w1
    j = j
    Items = {1, 2}
    Poison = {1}
    Workers = {w1}
    Limit = 1
    MaxAttempts = 1
    ExpCap = 2
    RetryCap = 3
    Retention = 1
    BusyClock = TRUE
    MaxCrashes = 1
    Monitors = {j}
    JobMonitors = {j}
    Interval <- Intervals
    JobPeriod = 2
    MaxBusy = 1
    MaxEdits = 1
INVARIANTS
    CycleTypeOK
    SignalSeenSoon
    SignalSeenInTime
PROPERTY
    EventuallyDelivered
