CONSTANTS
    Threads = {t1}
    Nobody = Nobody
    NoEntry = NoEntry
    Entries = {1, 2, 3, 4, 5}
    MaxNode = 7
    Within <- MCWithin
    Saturation = 1
    MaxPages = 6
    MaxReopens = 1
SPECIFICATION Spec
INVARIANT
    ChildLenAgrees
