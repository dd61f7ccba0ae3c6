SPECIFICATION Ext2Spec
CONSTANTS
    NBlocks = 25
    NInodes = 13
    MaxBlocks = 2
    DirSlots = 2
    Names = {lf, a, b}
    LostFound = lf
    Data = {x, y}
    MaxDepth = 2
    lf = lf
    a = a
    b = b
    x = x
    y = y
INVARIANTS
    Ext2TypeOK
    NoBlockShared
    BitmapsExact
    CountsExact
    EntriesAreSound
    FailureIsContained
SYMMETRY Sym
PROPERTY ImplementsStore
