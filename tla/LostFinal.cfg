SPECIFICATION ConcurrentSpec
CONSTANTS
    Job <- DeliveryJob
    Deps <- DeliveryDeps
    Protected = {"deploy"}
    MaxAttempts <- DeliveryMaxAttempts
    AttemptBound = 2
    EventStatus = {"running", "success", "failed"}
    EventTimed = {TRUE}
    Consumer = {t1}
    Requester = {t2}
    MaxDisturbances = 1
CHECK_DEADLOCK FALSE
PROPERTY FinalLeftOnlyByRetry
