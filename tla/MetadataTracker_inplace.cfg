\* An in-place realloc ends the object's lifetime.
CONSTANTS
    TVA = {0, 1}
    Sizes = {1, 2}
    MaxEvents = 4
    None = None
SPECIFICATION Spec
VIEW StateView
PROPERTY ReallocKeepsObject
\* the trace ends: after finish() nothing more is delivered
CHECK_DEADLOCK FALSE
