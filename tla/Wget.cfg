SPECIFICATION FairSpec
CONSTANTS
    Size = 7
    MinChunk = 2
    ParallelMin = 4
    MaxParallel = 3
    MaxRuns = 3
    Envs <- MCEnvs
INVARIANTS CompleteIsRight RangesPartition
PROPERTIES NeverCorrupts Terminates
CHECK_DEADLOCK FALSE
