SPECIFICATION Spec
CONSTANTS
    a = a
    link = link
    b = b
    LibA = LibA
    LibB = LibB
    s = s
    NULL = NULL
    Gone = Gone
    Program = Program
    Name = {a, link, b}
    Lib = {LibA, LibB}
    FileOf <- MCFileOf
    Long = {b}
    Dylib = {LibA}
    Symbol = {s}
    Defines <- MCDefines
    UserData = {0, 1}
    MaxRefs = 4
    MaxTexts = 1
    MaxStuck = 1
INVARIANTS
    ReferencesRight
    FailureExplained
    ErrorModeKept
    CannotCloseSaid
