\* Either revoker, every event kind: tree, aggregates and the revokers' batches.
CONSTANTS
    N = 3
    Strategies = {"Naive", "Compacting"}
    Sizes = {0, 2}
    MaxSwept = 4
    ZeroSizeRealloc = TRUE
SPECIFICATION Spec
VIEW StateView
INVARIANTS
    TypeOK
    TreeDisjoint
PROPERTIES
    RevokerNeverRevokesAllocd
    CompactingSweepsAll
\* the replay really stops at a failed assertion or an exception
CHECK_DEADLOCK FALSE
