SPECIFICATION Spec
CONSTANTS
    Holders = {h1, h2, h3}
    Sizes = {1, 2, 3, 40, 8179, 8187, 9000}
    dPOOLS = 2  dBLOCKS = 32768  BlockUnits = 512  DescUnits = 4  MaxDescs = 5
INVARIANTS TypeOK Tiled Linked BlockInPool
CHECK_DEADLOCK FALSE
