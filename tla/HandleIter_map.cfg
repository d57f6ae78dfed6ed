SPECIFICATION Spec
CONSTANTS
    Handle = {h1, h2}
    Matching = {h1, h2}
    Stops = {}
    NULL = NULL
PROPERTIES
    MapReturns
