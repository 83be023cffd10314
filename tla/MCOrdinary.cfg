SPECIFICATION FairSpec
CONSTANTS
    r1 = r1
    r2 = r2
    r3 = r3
    Req = {r1, r2}
    PageSize = 2
    NumPages = 8
    Prompt <- SharedPrompts
    MaxNew <- ManyTokens
    Priority <- UrgentLast
    OutTokens = {1, 9}
    StopTokens = {9}
    ChunkSize = 4
    MaxPrefillTokens = 8
    RetractDecodeSteps = 1
    MaxRunnings = {1, 2}
    Overlaps = {TRUE, FALSE}
    Preemptions = {TRUE, FALSE}
INVARIANTS
    PagesOwnedOnce
    CacheSound
    RowSound
    LocksCountHolders
    AccountingExact
    NeverRaises
    RequestsInOnePlace
PROPERTY EveryRequestAnswered
