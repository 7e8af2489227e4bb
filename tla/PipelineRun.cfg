SPECIFICATION FairSpec
CONSTANTS
    Job <- DeliveryJob
    Deps <- DeliveryDeps
    Stages <- DeliveryStages
    Explicit = {}
    Protected = {"deploy"}
    MaxAttempts <- DeliveryMaxAttempts
    AttemptBound = 3
    EventStatus = {"running", "success", "failed", "timeout", "canceled", "skipped"}
    EventTimed = {TRUE}
INVARIANTS IndInv DispatchGated FinishedRunIsQuiet OnSuccessHonoured PreviousStageFirst
PROPERTIES FinalLeftOnlyByRetry AttemptsNeverReused ImplementsLifecycle UnheldRunFinishes
