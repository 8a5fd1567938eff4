CONSTANTS
    Threads = {t1, t2}
    NoEntry = NoEntry
    Entries = {1, 2, 3, 4, 5, 6}
    Key <- MCKey
    RootBox <- MCRootBox
    MaxNode = 7
    Saturation = 4
    MaxReopens = 2
SPECIFICATION Spec
INVARIANTS
    TypeOK
    SearchFindsOnce
    GetFinds
    CountsMatch
