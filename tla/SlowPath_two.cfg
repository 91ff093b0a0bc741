SPECIFICATION FairSpec
CONSTANTS
    Tasks = {t1, t2}
    NoTask = NoTask
    NZones = 2
    Highmem = {2}
    MaxOrder = 1
    PAGE_ALLOC_COSTLY_ORDER = 0
    Size <- PowersOfTwo
    Present <- SmallZones
    Clean <- SmallClean
    Dirty <- SmallDirty
    watermark <- SmallMarks
    lowmem_reserve <- SmallReserve
    Requests <- SomeRequests
    NUMA = TRUE
    zone_reclaim_mode = TRUE
    oom_killer_disabled = FALSE
    fail_page_alloc = TRUE
    MaxAsked = 2
INVARIANTS  LeaveNoStone SmallNeverFails
CHECK_DEADLOCK FALSE
PROPERTIES AllocsReturn FailureIsServed
