SPECIFICATION FairSpec
CONSTANTS
    w1 = w1
    w2 = w2
    Worker <- Workers
    NoWorker = NoWorker
    MaxFailures = 2
    MaxCrashes = 2
CHECK_DEADLOCK FALSE
INVARIANTS TypeOK ExclusiveJob JobKeepsWorkspace MarkedSuccessIsReported AckedIsReported MasterHearsTheEnd
PROPERTIES SuccessKept Settles
