\* Rows written by the exporter, over all traces of up to MaxEvents events.
CONSTANTS
    TVA = {0, 1}
    Sizes = {1, 2}
    MaxEvents = 4
    None = None
SPECIFICATION FairSpec
VIEW StateView
INVARIANTS
    TypeOK
    InsertsSatisfySchema
    RtsMatchesReallocRows
    ReallocRowsChain
PROPERTIES
    FinishTerminates
\* the trace ends: after finish() nothing more is delivered
CHECK_DEADLOCK FALSE
