SPECIFICATION Spec
CONSTANTS
    d = d  a = a  b = b  e = e  top = top
    N = 3
    Paths = {a, b}
    Unused = Unused
    IdxMod = 4
    NoParent = top
    Parent <- Flat  Depth <- Levels
    Handles = {h1}
    B = 2  PosMax = 15  DirCap = 1
    Values = {v}  Blank = Blank  Garbage = Garbage
    Creates <- IOCreates
    Opens <- IOOpens
    DeletePaths = {a}
    SeekTo = {3}  SeekBy <- IOSeekBy  Lengths = {4}  Reach = 9
INVARIANTS MapInv BehindMetadata
PROPERTIES MetadataProtected WriteInsideReadsBack
