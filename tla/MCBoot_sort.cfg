SPECIFICATION Spec
CONSTANTS
    k = k  a = a  b = b  c = c
    Files = {k, a, b, c}
    Kboot = k
    Graphs <- Alone  Absents <- MCAbsents  Flaws <- MCFlaws
    MaxNodes = 6
    Maps <- MCMaps  Pad = 1  MaxKey = 2  Garbage = Garbage
INVARIANT MapSorted
CHECK_DEADLOCK FALSE
