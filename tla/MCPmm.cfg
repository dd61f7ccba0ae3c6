SPECIFICATION PmmSpec
CONSTANTS
    PageSize = 4
    Map <- MCMap
    MaxAddr = 56
    KernelStart = 8
    KernelEnd = 15
    LowPages = 2
    FbBase = 33
    FbSize = 6
    RunSizes = {0, 1, 2, 3}
INVARIANTS
    UsedCountsBits
    BooksBalance
    NoPageHeldTwice
PROPERTY ImplementsAllocator
