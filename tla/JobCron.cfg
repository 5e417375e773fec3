SPECIFICATION Spec
CHECK_DEADLOCK FALSE
CONSTANTS
    c1 = c1
    c2 = c2
    Modes = {"CRON"}
    Graces = {3}
    Jobs <- MCJobs
    Schedule <- MCSchedule
    Clients = {c1}
    EventIds = {"k"}
    Minute = 1
    MaxPerMinute = 1
    Retention = 2
    MaxDelay = 1
    MaxTime = 7
    MaxEvents = 1
INVARIANT
    MissedIsDown
