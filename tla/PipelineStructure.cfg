SPECIFICATION Spec
CONSTANTS
    MaxJobs = 3
    Position = {1, 2}
    Foreign = {0}
    RowCondition = {"always"}
    MaxDependencies = 2
CHECK_DEADLOCK FALSE
INVARIANTS ValidatorAgrees CycleTakesARow
PROPERTIES RunStartsWorking RunFinishesUnlessCyclic
