CONSTANTS
    r1 = r1
    r2 = r2
    r3 = r3
    None = None
    Req = {r1, r2}
    InLen <- Prompts
    PPages = 5
    DPages = 5
    ChunkSize = 1
    NumRows = 2
    Reserved = 0
    MaxRetries = 1
    MaxFaults = 1
    Settings <- Servers
SPECIFICATION FairSpec
INVARIANTS
    ResourcesOwnedOnce
    InOneQueue
    NeverRaises
    FirstTokenIsOwnUnlessGivenUp
    KvIsOwnUnlessGivenUp
PROPERTY EveryRequestAnswered
