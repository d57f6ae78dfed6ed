SPECIFICATION Spec
CONSTANTS
    P = P
    Q = Q
    sym_f = sym_f
    sym_g = sym_g
    x1 = x1
    x2 = x2
    x3 = x3
    x4 = x4
    x5 = x5
    x6 = x6
    library = library
    preopen = preopen
    dlopen = dlopen
    self = self
    NULL = NULL
    Self = self
    Program = Program
    InitMark = Init_mark
    Broken = broken
    SymList = {P, Q}
    Entries <- Lists
    Dir = {"user", "sys", "lib", "objs"}
    NoDir = ""
    SearchDirs <- SearchPath
    objdir <- ObjDir
    Name = {"m", "n", "k"}
    Request <- Requests
    Hints <- Advices
    LibExts <- Exts
    FileSystem <- FileSystems
    DepLib <- Deps
    Unregistered = unregistered
    Loader = {dlopen, preopen}
    PreopenLoader = preopen
    LoaderLists <- Loaders
    Originator <- Originators
    PreloadList = {P, Q}
    DefaultList <- Defaults
    MaxCalls = 2
    MaxPreloads = 1
INVARIANTS
    HandlesRight
    RightFile
    SuccessKeepsError
    PreloadedRight
PROPERTIES
    PreloadedAllOpened
CHECK_DEADLOCK FALSE
