SPECIFICATION Spec
CONSTANTS
    a = a
    b = b
    c = c
    preopen = preopen
    dlopen = dlopen
    Self = self
    NULL = NULL
    Handle = {h1, h2, h3, h4, h5}
    Module = {a, b, c}
    DepLibs <- Dag
    DlopenDeplibs = TRUE
    Preloaded = {c}
    Preopen = preopen
    LinkedLoaders <- OneLoader
    Appended = {dlopen}
    ClientFiles = {a, c, self}
    MayBeResident = {c}
    RemoveMayFail = FALSE
    MaxHeld = 1
    MaxRef = 4
    MaxInit = 1
    MaxSessions = 1
SYMMETRY Symmetry
INVARIANTS
    DepsOpenAtExit
    ExitComplete
CHECK_DEADLOCK FALSE
