SPECIFICATION FairSpec
CONSTANTS
    NConns = 2
    Names = {"f", "g"}
    Requests <- MCRequests
    Initial <- MCInitial
    Envs <- MCEnvs
    HeadBuf = 6
    Chunk = 2
    MaxUpload = 10
    MaxSaves = 2
INVARIANTS EverythingSaved NothingLeaks
PROPERTIES SavedIsExact ReplyIsFile Answered
CHECK_DEADLOCK FALSE
