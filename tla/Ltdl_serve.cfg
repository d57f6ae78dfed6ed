SPECIFICATION Spec
CONSTANTS
    a = a
    b = b
    c = c
    preopen = preopen
    dlopen = dlopen
    Self = self
    NULL = NULL
    Handle = {h1, h2, h3, h4}
    Module = {a, b}
    DepLibs <- Pair
    DlopenDeplibs = TRUE
    Preloaded = {}
    Preopen = preopen
    LinkedLoaders <- OneLoader
    Appended = {}
    ClientFiles = {a, b, self}
    MayBeResident = {a, b}
    RemoveMayFail = TRUE
    MaxHeld = 2
    MaxRef = 4
    MaxInit = 1
    MaxSessions = 1
SYMMETRY Symmetry
INVARIANTS
    TypeOK
    ListOK
    RefCountExact
    DepsOpenInUse
    LoaderOfOpenModule
PROPERTIES
    ResidentForGood
CHECK_DEADLOCK FALSE
