SPECIFICATION FairSpec
CONSTANTS
    r1 = r1
    r2 = r2
    a = a
    EOS = EOS
    MASK = MASK
    None = None
    Req = {r1, r2}
    Words = {a}
    MaxNewTokens = 5
    MaxPostEditSteps = 1
    MaxQuadIters = 3
    Greedy <- Continuations
    PromptLen = 1
    PoolSize = 15
    MaxSteps = {0, 2, 3}
    Settings <- Servers
INVARIANTS
    OutputResolved
    KvMatchesUnlessForced
    TrajectoryReplays
    ScheduleSuffices
    OutputIsGreedy
    PreviousRestores
    SlotsOwnedOnce
PROPERTY BlockReturns
CHECK_DEADLOCK FALSE
