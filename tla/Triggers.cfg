SPECIFICATION Spec
CONSTANTS
    Scheduled = {"nightly"}
    CronSlots = {2, 3}
    Interval = 1
    Scheduler = {s1, s2}
    Client = {c1, c2}
    RequestOf <- MCRequestOf
    Period = 1
    MaxParallel = 1
    StartTime = 1
    MaxTime = 3
    MaxFailures = 1
    MaxRetries = 1
SYMMETRY Symmetry
INVARIANTS TypeOK OneRunPerEvent NoSlotSkipped OvershootBounded
CHECK_DEADLOCK FALSE
