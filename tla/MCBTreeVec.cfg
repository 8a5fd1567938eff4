CONSTANTS
    Keys = {1, 2, 3, 4, 5, 6}
    MaxInsert = 2
    MaxPushes = 5
    MaxRebuilds = 1
SPECIFICATION Spec
INVARIANTS
    RangesOrdered
    WalkExact
PROPERTIES
    MultimapSpec
