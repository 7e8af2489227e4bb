SPECIFICATION RetrySpec
CONSTANTS
    Job <- RetryJob
    Deps <- RetryDeps
    Stages <- RetryStages
    Explicit = {}
    Protected = {}
    MaxAttempts <- RetryMaxAttempts
    AttemptBound = 2
    EventStatus = {"running", "success", "failed", "timeout"}
    EventTimed = {FALSE}
PROPERTY RunFinishes
