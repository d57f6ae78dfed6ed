SPECIFICATION PartsSpec
CONSTANTS
    NULL = NULL
    Merged = Merged
    Freed = Freed
    EOS = EOS
    INVALID = INVALID
    MaxSize = 6
    Start <- FirstVersions
    MaxReleases = 5
    MaxRevision = 3
    p1 = p1
    p2 = p2
    p3 = p3
    a1 = a1
    a2 = a2
    a3 = a3
    a4 = a4
    Run <- Runs
    Wrappers <- WrapperRuns
    NoFile = NoFile
    Archive <- Archives
    Basename <- Names
    Members <- Objects
    oldlibs <- Given
    Locking = TRUE
    MaxBuilds = 3
    MaxKills = 1
    MaxInstalls = 3
INVARIANTS
    VersionsRight
    ListsAndTextsRight
    ProgramsRight
    ArchivesRight
    LibrariesRight
PROPERTIES
    AllEnd
CHECK_DEADLOCK FALSE
