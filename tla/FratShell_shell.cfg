SPECIFICATION Spec
CONSTANTS
    Disks = {k1, k2}
    Items = {p}
    Aliases = {a, b}
    REALDISK = REALDISK
    MaxRoots = 2  MaxMounts = 1  MaxHandles = 2  MaxSyms = 3
INVARIANTS TypeOK HandlesLive CreatedStays
PROPERTY ImplementsStore
