SPECIFICATION Spec
CONSTANTS
    MaxPfn = 7
    NNodes = 2
    max_zone_pfn <- DmaAndNormal
    MAX_ACTIVE_REGIONS = 3
    MAX_ORDER_NR_PAGES = 2
    Word = 64
    StructsPerPage = 4
    dma_reserve = 1
    Kernelcore = {0, 1, 4}
    Movablecore = {0, 3}
    NODES_SPAN_OTHER_NODES = TRUE
    MaxCalls = 4
INVARIANTS   KernelcoreMet
CHECK_DEADLOCK FALSE
