SPECIFICATION Spec
CONSTANTS
    a = a
    b = b
    c = c
    preopen = preopen
    dlopen = dlopen
    Self = self
    NULL = NULL
    Handle = {h1, h2, h3}
    Module = {a, b}
    DepLibs <- Pair
    DlopenDeplibs = TRUE
    Preloaded = {}
    Preopen = preopen
    LinkedLoaders <- OneLoader
    Appended = {}
    ClientFiles = {a, self}
    MayBeResident = {}
    RemoveMayFail = TRUE
    MaxHeld = 2
    MaxRef = 3
    MaxInit = 1
    MaxSessions = 2
PROPERTIES
    CallsReturn
    ExitEnds
CHECK_DEADLOCK FALSE
