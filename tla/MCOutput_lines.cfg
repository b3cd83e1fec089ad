\* Allocator, either revoker, the graph and allocation-map outputs, trace timestamps from 0.
CONSTANTS
    N = 3
    Strategies = {"Naive", "Compacting"}
    Sizes = {0}
    MaxSwept = 0
    ZeroSizeRealloc = FALSE
    Period = 1
    Times = {0, 1, 2}
    PoolGrowth = 1
    Resolution = 2
    MaxEvents = 3
SPECIFICATION OutSpec
VIEW OutView
INVARIANTS
    AtLeastOneLine
    PoolsMatchReference
    ChunksTilePool
CHECK_DEADLOCK FALSE
