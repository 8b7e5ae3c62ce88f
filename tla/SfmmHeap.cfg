SPECIFICATION Spec
CONSTANTS
    NUM_QUICK_LISTS = 3
    QUICK_LIST_MAX = 2
    NUM_FREE_LISTS = 4
    PAGE_SZ = 256
    SizeRange = 1024
    MaxPages = 2
    Requests = {0, 24, 32, 72, 264, 976, 1004, 1020}
    MaxLive = 3
    MaxCalls = 7
    Magics = {"zero", "random"}
INVARIANTS HeapTiles ListsHoldTheirBlocks FreeBlocksAreListed FragmentationCounts
