SPECIFICATION Spec
CONSTANTS
    MaxDocument = 4
    MessageOf <- FourDocuments
    Poller = {p1, p2}
    BatchSize = 2
    MaxFailures = 1
CHECK_DEADLOCK FALSE
INVARIANTS AppliedOnce NothingPassedOver
PROPERTY EventsAreApplied
