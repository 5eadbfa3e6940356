SPECIFICATION Spec
CONSTANTS
    RealBlock = 512  ItemSize = 20  RootSize = 60  Word = 32768
    GPT <- Disk  Formats <- AllFormats
INVARIANTS TypeOK RegionsDisjoint InsidePartition MountedMapWritten
