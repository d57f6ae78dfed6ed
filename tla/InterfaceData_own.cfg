SPECIFICATION Spec
CONSTANTS
    Client = {c1, c2}
    Handle = {h1, h2}
    Data = {d1}
    NULL = NULL
    Key = {k1, k2, k3}
    Reuse = FALSE
SYMMETRY Symmetry
INVARIANTS
    ArraysOK
    NoForeignData
PROPERTIES
    ImplementsCallerData
CHECK_DEADLOCK FALSE
