SPECIFICATION Spec
CONSTANTS
    Proc = {p, q, r}
    None = none
    Script = script
    Stale = stale
    NeedLocks = "warn"
    Objects <- Both
    InPlace = {p}
    Faults = {"trap", "late", "kill"}
INVARIANTS
    NothingLeft
CHECK_DEADLOCK FALSE
