SPECIFICATION Spec
CHECK_DEADLOCK FALSE
CONSTANTS
    c1 = c1
    c2 = c2
    Modes = {"SIMPLE"}
    Graces = {1}
    Jobs <- MCJobs
    Schedule <- MCSchedule
    Clients = {c1, c2}
    EventIds = {"k"}
    Minute = 1
    MaxPerMinute = 1
    Retention = 2
    MaxDelay = 1
    MaxTime = 6
    MaxEvents = 3
INVARIANT
    RateKept
