SPECIFICATION Spec
CONSTANTS
    r1 = r1
    r2 = r2
    Req = {r1, r2}
    PromptLen <- Prompts
    MaxNewTokens <- MaxNew
    BlockSize = 2
    MaxRunningRequests = 2
    MaxMicroBatch = 2
    MaxPrefillTokens = 4
    ClipMaxNewTokens = 4
    PoolSize = 11
    NumRows = 2
    RowWidth = 8
    AcceptedLens = {2}
    StrictMemCheck = TRUE
INVARIANT BlocksFit
CHECK_DEADLOCK FALSE
