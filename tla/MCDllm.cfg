SPECIFICATION Spec
CONSTANTS
    r1 = r1
    r2 = r2
    Req = {r1, r2}
    PromptLen <- Prompts
    MaxNewTokens <- MaxNew
    BlockSize = 2
    MaxRunningRequests = 2
    MaxMicroBatch = 2
    MaxPrefillTokens = 4
    ClipMaxNewTokens = 4
    PoolSize = 8
    NumRows = 2
    RowWidth = 8
    AcceptedLens = {0, 1, 2}
    StrictMemCheck = TRUE
INVARIANTS
    TypeOK
    LifecycleInv
    NoDoubleFree
    NoSlotShared
    NoSlotLost
    RowsOwnedOnce
    BlockSeesWholePrefix
    CommittedIsOutput
    NoProtocolError
    PromptNeverOutOfMemory
    NoOvertaking
    OutputBounded
PROPERTIES
    CommittedKvStable
    RefinesKvStore
CHECK_DEADLOCK FALSE
