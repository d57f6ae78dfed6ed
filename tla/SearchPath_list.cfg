CONSTANTS
    Name = {"a", "b"}
    Spelling <- Spelt
    Path <- Paths
    Defaults <- Else
    Contents <- InDir
    LibDirs <- ModuleDirs
    LoadsUnset = FALSE
    MaxDirs = 3
    MaxLoads = 2
    MaxChanges = 1
    NULL = NULL
SPECIFICATION Spec
INVARIANTS
    PathOK
    WalkRight
PROPERTIES
    ImplementsDirList
    WalkEnds
