SPECIFICATION Spec
CONSTANTS
    d = d  a = a  b = b  e = e  top = top
    N = 3
    Paths = {a, b}
    Unused = Unused
    IdxMod = 8
    NoParent = top
    Parent <- Flat  Depth <- Levels
    Handles = {h1}
    B = 2  PosMax = 15  DirCap = 1
    Values = {v}  Blank = Blank  Garbage = Garbage
    Creates <- IOCreates
    Opens <- IOOpens
    DeletePaths = {}
    SeekTo = {0}  SeekBy <- IOSeekBy  Lengths = {3}  Reach = 6
PROPERTY WriteReadsBack
