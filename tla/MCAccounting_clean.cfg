\* Interval model (either revoker) and accounting fast path on one clean trace: equal allocated bytes.
CONSTANTS
    N = 3
    Strategies = {"Naive", "Compacting"}
    Sizes = {0}
    MaxSwept = 0
    ZeroSizeRealloc = FALSE
    MaxMapd = 2
SPECIFICATION CleanSpec
VIEW BothView
INVARIANTS
    AccountingAgreesOnCleanTraces
CHECK_DEADLOCK FALSE
