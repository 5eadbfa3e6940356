SPECIFICATION Spec
CONSTANTS
    k = k  a = a  b = b  c = c
    Files = {k, a, b, c}
    Kboot = k
    Graphs <- MCGraphs  Absents <- MCAbsents  Flaws <- MCFlaws
    MaxNodes = 6
    Maps <- MCMaps  Pad = 1  MaxKey = 2  Garbage = Garbage
INVARIANTS TypeOK OwnIsLast BoundRight ImageComplete TwinsApart NoSocketLeft KernelMapCurrent
PROPERTY BootEnds
CHECK_DEADLOCK FALSE
