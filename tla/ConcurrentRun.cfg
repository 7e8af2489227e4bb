SPECIFICATION FairConcurrentSpec
CONSTANTS
    Job <- DeliveryJob
    Deps <- DeliveryDeps
    Protected = {"deploy"}
    MaxAttempts <- DeliveryMaxAttempts
    AttemptBound = 2
    EventStatus = {"running", "success", "failed"}
    EventTimed = {TRUE}
    Consumer = {t1, t2}
    Requester = {t1, t2}
    MaxDisturbances = 2
CHECK_DEADLOCK FALSE
INVARIANTS OneMessagePerAttempt StartedAfterSuccess
PROPERTY DeliveredIsApplied
