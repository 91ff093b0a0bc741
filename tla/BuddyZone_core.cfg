SPECIFICATION Spec
CONSTANTS
    CPUs = {c1, c2}
    NoCPU = NoCPU
    MAX_ORDER = 3
    pageblock_order = 2
    Size <- PowersOfTwo
    ZonePages = 4
    batch = 1
    high = 2
    AllocTypes = {"unmovable"}
    Orders = {0, 1}
    Events = {"isolate", "offline", "reserve", "drain", "split"}
    page_group_by_mobility_disabled = FALSE
SYMMETRY Symmetry
INVARIANTS OnePlace Coalesced Counted 
