SPECIFICATION Spec
CONSTANTS
    Workers = 2
    Candidate = {1, 2}
    Size <- LongShort
    QueueSize = 1
    MaxSample = 2
    Lengths = {0, 1, 2}
    MaxCalls = 3
    MaxConnections = 2
    MaxRestarts = 1
CHECK_DEADLOCK FALSE
INVARIANTS TypeOK RepliesInStep HitsAreCandidates FeedbackIsWhole OutputFits
PROPERTY CallReturns
