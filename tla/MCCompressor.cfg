SPECIFICATION Spec
CONSTANTS
    Elements <- Elems
    Ids <- MCIds
    Empty <- MCEmpty
    Needs <- MCNeeds
    Blobs <- MCBlobs
    RoundSize = 3
    Attempts = 2
    NoElement = NoElement
INVARIANTS OneFate LeftOutOnlyIfStuck
PROPERTY RetryEnds
