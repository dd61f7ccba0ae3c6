SPECIFICATION ProgramsSpec
CONSTANTS
    NameMax = 2
    SegMax = 3
    PathSize = 8
    TmpSize = 13
    AddrSpace = 16
    PageSize = 2
    PagesPerLarge = 2
    LargePerHuge = 2
    NEntries = 3
    WalkPages = 7
    Packages <- MCPackages
    PrefixLen = 3
    MaxFile = 10
    MaxHeader = 6
    MaxManifest = 2
    MaxSegs = 2
    UnitsPerPage = 2
    Window = {0, 1, 2}
    TextBase = 4
    StackBase = 8
    NLibs = 2
    SonameOf <- MCSonameOf
    PathArgs <- MCPathArgs
    Cwds <- MCCwds
INVARIANTS
    HeaderPagesReturned
    LoaderActsOnBytesRead
    RunsWholeImage
    
    LibrariesEnteredOnce
    
    ResolvesAsMeant
