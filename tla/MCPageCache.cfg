CONSTANTS
    Threads = {t1, t2}
    Nobody = Nobody
    Ids = {1, 2}
    Objects = {1, 2, 3}
    NoObject = NoObject
    Values = {a, b}
    Nothing = Nothing
    PageSize = 1
    Size <- MCSize
    MaxBytes = 1
    MaxHands = 2
    MaxOps = 6
SPECIFICATION FairSpec
INVARIANTS
    TypeOK
    OneCopy
    VictimsUnused
    BytesCover
    NewPageInserts
PROPERTIES
    StoreSpec
    CallsEnd
CHECK_DEADLOCK FALSE
