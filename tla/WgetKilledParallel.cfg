SPECIFICATION Spec
CONSTANTS
    Size = 7
    MinChunk = 2
    ParallelMin = 4
    MaxParallel = 3
    MaxRuns = 2
    Envs <- KillEnvs
INVARIANTS ResumeIsRight
CHECK_DEADLOCK FALSE
