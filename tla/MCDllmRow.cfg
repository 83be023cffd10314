SPECIFICATION Spec
CONSTANTS
    r1 = r1
    r2 = r2
    Req = {r1}
    PromptLen <- LongPrompt
    MaxNewTokens <- LongMaxNew
    BlockSize = 8
    MaxRunningRequests = 2
    MaxMicroBatch = 2
    MaxPrefillTokens = 16
    ClipMaxNewTokens = 16
    PoolSize = 24
    NumRows = 2
    RowWidth = 18
    AcceptedLens = {8}
    StrictMemCheck = TRUE
INVARIANT RowLongEnough
CHECK_DEADLOCK FALSE
