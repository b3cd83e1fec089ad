\* Allocator, Naive revoker and the rate-limited graph output, timestamps after 0.
CONSTANTS
    N = 2
    Strategies = {"Naive"}
    Sizes = {0, 1}
    MaxSwept = 2
    ZeroSizeRealloc = FALSE
    Period = 1
    Times = {1, 2, 3}
    PoolGrowth = 1
    Resolution = 2
    MaxEvents = 4
SPECIFICATION OutSpec
VIEW OutView
PROPERTIES
    SnapshotsAtEventBoundaries
CHECK_DEADLOCK FALSE
