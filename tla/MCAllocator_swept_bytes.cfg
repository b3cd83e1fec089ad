\* The swept counter is charged the address-space size, not the revoked bytes.
CONSTANTS
    N = 3
    Strategies = {"Naive"}
    Sizes = {0, 2}
    MaxSwept = 4
    ZeroSizeRealloc = FALSE
SPECIFICATION Spec
VIEW StateView
PROPERTY SweptCountsRevokedBytes
\* the replay really stops at a failed assertion or an exception
CHECK_DEADLOCK FALSE
