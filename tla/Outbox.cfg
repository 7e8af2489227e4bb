SPECIFICATION Spec
CONSTANTS
    MaxMessage = 3
    Publisher = {p1, p2}
    BatchSize = 2
    MaxAttempts = 2
    PublisherEnabled = TRUE
    MaxFaults = 1
CHECK_DEADLOCK FALSE
INVARIANTS OnlyCommittedIsSent DuplicatesTakeFaults
PROPERTY RowsAreSettled
