CONSTANTS
    MaxPage = 3
    MaxCrashes = 1
    Items <- MCItems
    Nothing <- MCNothing
SPECIFICATION Spec
INVARIANTS
    TypeOK
    NoSharedPage
    LinksMatch
    SavedReadable
    NoLeak
PROPERTIES
    ReopenFindsChain
    StoreSpec
CHECK_DEADLOCK FALSE
VIEW MCView
