SPECIFICATION Spec
CONSTANTS
    d = d  a = a  b = b  e = e  top = top
    N = 5
    Paths = {d, a, b}
    Unused = Unused
    IdxMod = 8
    NoParent = top
    Parent <- Tree  Depth <- Levels
    Handles = {h1}
    B = 1  PosMax = 7  DirCap = 2
    Values = {v}  Blank = Blank  Garbage = Garbage
    Creates <- NamesCreates
    Opens <- NamesOpens  DeletePaths = {b}
    SeekTo = {}  SeekBy = {}  Lengths = {1}  Reach = 2
INVARIANTS DurableCreate Listed ListEnds
