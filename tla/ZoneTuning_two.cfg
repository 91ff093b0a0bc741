SPECIFICATION Spec
CONSTANTS
    NNodes = 3
    MAX_NR_ZONES = 2
    ZONE_NORMAL = 1
    Highmem = {}
    Boot <- ThreeNodes
    node_distance <- Distances
    PENALTY_FOR_NODE_WITH_CPUS = 1
    Headless = {2}
    CPUs = {c0, c1}
    cpu0 = c0
    Writers = {w1, w2}
    Orders = {"node", "zone", "bogus"}
    MinFree = {16}
    boot_min = 8
    Ratios = {0}
    Fractions = {8}
    SWAP_CLUSTER_MAX = 1
    HighmemCap = 4
    Batch = 4
    BatchCap = 6
    HotAdd <- Late
    Added = 8
    Events = {"nomem", "cancel", "down"}
    MaxOps = 3
SYMMETRY Symmetry
INVARIANTS ZonelistsRight  PagesetsRight
CHECK_DEADLOCK FALSE
