SPECIFICATION IdeSpec
CONSTANTS
    NBlk = 2
    Data = {"a", "b"}
    Junk = "junk"
    Buffers <- MCBuffers
    MaxPolls = 2
    Geometries <- MCGeometries
    MaxLba28 = 15
    MaxSectors = 31
    Fallback = 6
INVARIANTS
    ReadsAreTrue
    WritesAreTrue
    ProbeIsRight
    PacketsAreTrue
PROPERTIES
    WritesStayInBlock
    RequestsEnd
