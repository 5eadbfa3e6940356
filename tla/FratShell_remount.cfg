SPECIFICATION Spec
CONSTANTS
    Disks = {k1}
    Items = {p, q}
    Aliases = {a}
    REALDISK = REALDISK
    MaxRoots = 2  MaxMounts = 2  MaxHandles = 1  MaxSyms = 3
INVARIANTS CreatedStays
