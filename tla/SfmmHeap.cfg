SPECIFICATION Spec
CONSTANTS
    PAGE_SZ = 128
    MaxPages = 2
    ListMin <- SmallMin
    ListMax <- SmallMax
    Sizes = {0, 16, 36, 48, 140, 250}
    MaxCalls = 5
INVARIANTS
    TypeOK
    HeapTiles
    FreeListsExact
    LiveBlocksHeld
    ContentsKept
    RefusalsAreRight
PROPERTIES
    FaultsExplained
