CONSTANTS
    r1 = r1
    r2 = r2
    r3 = r3
    None = None
    Req = {r1, r2, r3}
    InLen <- ShortPrompts
    PPages = 5
    DPages = 9
    ChunkSize = 1
    NumRows = 3
    Reserved = 2
    MaxRetries = 1
    MaxFaults = 0
    Settings <- ThreeServers
SPECIFICATION FairSpec
PROPERTY EveryRequestAnswered
