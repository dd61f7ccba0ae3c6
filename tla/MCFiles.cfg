SPECIFICATION FilesSpec
CONSTANTS
    PageSize = 4
    Map <- MCMap
    MaxAddr = 40
    KernelStart = 8
    KernelEnd = 10
    LowPages = 2
    FbBase = 36
    FbSize = 2
    RunSizes = {}
    Drives = {"hda", "hdb"}
    Capacity <- MCCapacity
    MinBlk = 4
    MaxBlk = 12
    DiskSizes = {3, 11, 13}
    MaxFixed = 1
    NFd = 2
    Contents <- MCContents
    Chunk = 2
    MaxIo = 3
    ZeroSize = 2
INVARIANTS
    RamDiskBacked
    
    MountedHasVolume
    
    
    
