SPECIFICATION Spec
CONSTANTS
    MaxMessage = 1
    Publisher = {p1}
    BatchSize = 1
    MaxAttempts = 2
    PublisherEnabled = TRUE
    MaxFaults = 1
CHECK_DEADLOCK FALSE
INVARIANT PublishedReachesKafka
