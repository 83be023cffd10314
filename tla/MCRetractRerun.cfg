SPECIFICATION RetractSpec
CONSTANTS
    r1 = r1
    r2 = r2
    Req = {r1}
    PromptLen <- Prompts
    MaxNewTokens <- MaxNew
    BlockSize = 2
    MaxRunningRequests = 2
    MaxMicroBatch = 2
    MaxPrefillTokens = 4
    ClipMaxNewTokens = 4
    PoolSize = 7
    NumRows = 2
    RowWidth = 8
    AcceptedLens = {1, 2}
    StrictMemCheck = TRUE
INVARIANT RetractedRunAgain
CHECK_DEADLOCK FALSE
