SPECIFICATION Spec
CONSTANTS
    Handle = {h1, h2, h3}
    Matching = {h1, h2}
    Stops = {h1}
    NULL = NULL
INVARIANTS
    VisitsRight
PROPERTIES
    LoopEnds
