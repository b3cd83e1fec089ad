\* Allocations inside allocator-mapped memory shrink mapd_size.
CONSTANTS
    N = 3
    Strategies = {"Naive"}
    Sizes = {0, 2}
    MaxSwept = 4
    ZeroSizeRealloc = FALSE
SPECIFICATION Spec
VIEW StateView
PROPERTY MappedSizeOnlyFromMapEvents
\* the replay really stops at a failed assertion or an exception
CHECK_DEADLOCK FALSE
