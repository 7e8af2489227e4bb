SPECIFICATION Spec
CONSTANTS
    Scheduled = {"nightly"}
    CronSlots = {2, 4}
    Interval = 2
    Scheduler = {s1, s2}
    Client = {}
    RequestOf <- MCRequestOf
    Period = 1
    MaxParallel = 1
    StartTime = 2
    MaxTime = 4
    MaxFailures = 0
    MaxRetries = 0
INVARIANT ParallelRunsLimited
CHECK_DEADLOCK FALSE
