SPECIFICATION Spec
CONSTANTS
    W = 8
    BlockWrite = 2
    Schema <- MCSchema
    Rules <- MCRules
    KeyOrder <- MCKeyOrder
    Elements <- Elems
    Data <- MCData
    Root <- MCRoot
    Sat = 1
    NonStored <- MCNonStored
    SingleInlined <- MCSingleInlined
    MaxDepth = 2
    MaxReruns = 1
    MaxReads = 2
INVARIANTS BoxesKept PointsRead TagsRead RolesRead BlocksWalk
CHECK_DEADLOCK FALSE
