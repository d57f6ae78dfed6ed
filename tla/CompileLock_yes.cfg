SPECIFICATION Spec
CONSTANTS
    Proc = {p, q, r}
    None = none
    Script = script
    Stale = stale
    NeedLocks = "yes"
    Objects <- Both
    InPlace = {}
    Faults = {"trap", "kill"}
INVARIANTS
    TypeOK
    MutualExclusion
    LoMeansObjects
    NothingLeft
PROPERTIES
    AllEnd
CHECK_DEADLOCK FALSE
