SPECIFICATION Spec
CONSTANTS
    MaxMoves = 3
    MaxSizes = 2
    Bare <- MCBare
    Batches <- MCBatches
    Nothing = Nothing
INVARIANT QuietIsRight
PROPERTY LastAreaDrawn
