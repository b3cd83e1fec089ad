\* A realloc to an empty range (a free through realloc) ends the replay.
CONSTANTS
    N = 3
    Strategies = {"Naive"}
    Sizes = {0, 2}
    MaxSwept = 4
    ZeroSizeRealloc = TRUE
SPECIFICATION Spec
VIEW StateView
INVARIANT ReplayNeverFails
\* the replay really stops at a failed assertion or an exception
CHECK_DEADLOCK FALSE
