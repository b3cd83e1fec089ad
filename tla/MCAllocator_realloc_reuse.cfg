\* Naive revoker, reallocs of live blocks: a shrinking or moving realloc loses freed memory.
CONSTANTS
    N = 3
    Strategies = {"Naive"}
    Sizes = {0, 2}
    MaxSwept = 4
    ZeroSizeRealloc = FALSE
SPECIFICATION LiveReallocSpec
VIEW StateView
INVARIANT ReuseSafe
\* the replay really stops at a failed assertion or an exception
CHECK_DEADLOCK FALSE
