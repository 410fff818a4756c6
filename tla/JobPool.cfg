SPECIFICATION FairSpec
CONSTANTS
    Total = 4
    MaxJobs = 3
INVARIANTS PidsExact NoOrphans SuccessMeansBuilt
PROPERTIES FailFast Terminates
CHECK_DEADLOCK FALSE
