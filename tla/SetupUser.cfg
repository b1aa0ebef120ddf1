SPECIFICATION Spec
CONSTANTS
    Ids <- IdRange
    MaxFaults = 3
    MaxRuns = 4
INVARIANTS CreatedComplete UserHasGroup FailureCoherent RemovedGone
CHECK_DEADLOCK FALSE
