SPECIFICATION FairDaemon
CONSTANTS
    PAGE_SIZE = 3
    SkbRoom = 2
    Consoles = {c1}
    Ttys = {t1}
    Pids = {p1}
    MaxLen = 3
    MaxCalls = 2
    AllocFails = TRUE
INVARIANTS AloneWithinBuffer SentOnceInOrder
PROPERTIES Drained
