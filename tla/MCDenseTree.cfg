CONSTANTS
    Threads = {t1, t2}
    Nobody = Nobody
    NoEntry = NoEntry
    Entries = {1, 2, 3, 4, 5}
    MaxNode = 7
    Within <- MCWithin
    Saturation = 1
    MaxPages = 6
    MaxReopens = 0
SPECIFICATION FairSpec
INVARIANTS
    TypeOK
    OnlyOnce
    InItsBox
    NoneLost
    CountsMatch
    LeafBound
PROPERTIES
    InsertsEnd
