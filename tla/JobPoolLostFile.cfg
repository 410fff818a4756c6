SPECIFICATION Spec
CONSTANTS
    Total = 4
    MaxJobs = 2
INVARIANTS PoolBuildsAll
CHECK_DEADLOCK FALSE
