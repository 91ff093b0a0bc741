SPECIFICATION FairSpec
CONSTANTS
    Tasks = {t1, t2}
    Bits = 3
    GppFirst = 1
    GppLast = 2
    PerBit = 2
    Mixes = {{1, 2}, {3, 5, 11, 13}, {1, 7}, {4, 10}}
    MaxRaises = 2
    NULL = NULL
INVARIANTS UnmaskedIffReady
PROPERTY FiqsEnd
