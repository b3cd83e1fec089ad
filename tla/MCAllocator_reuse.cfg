\* Either revoker, on traces whose reallocs leave no part of the old block behind.
CONSTANTS
    N = 3
    Strategies = {"Naive", "Compacting"}
    Sizes = {0, 2}
    MaxSwept = 4
    ZeroSizeRealloc = FALSE
SPECIFICATION NoRemainderSpec
VIEW StateView
INVARIANT ReuseSafe
PROPERTIES
    ImplementsSweepingRevocation
\* the replay really stops at a failed assertion or an exception
CHECK_DEADLOCK FALSE
