SPECIFICATION FairSpec
CONSTANTS
    d = d  a = a  b = b  e = e  top = top
    N = 4
    Paths = {d, a, b, e}
    Unused = Unused
    IdxMod = 8
    NoParent = top
    Parent <- Deep  Depth <- Levels
    Handles = {h1}
    B = 1  PosMax = 7  DirCap = 1
    Values = {v}  Blank = Blank  Garbage = Garbage
    Creates <- FullCreates
    Opens <- FullOpens
    DeletePaths = {a}
    SeekTo = {}  SeekBy = {}  Lengths = {1}  Reach = 2
INVARIANTS TypeOK MapInv FrameOwns DurableCreate
PROPERTIES NoSteal NoForeignWrite ImplementsStore CallsReturn
