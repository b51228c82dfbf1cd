SPECIFICATION FairSpec
CONSTANTS
    Uri = {"a", "b", "c"}
    From = "a"
    MaxChanges = 1
INVARIANTS
    TypeOK
    UnrelatedExcluded
    ComponentFound
    ExploredOnce
PROPERTIES
    Terminates
CHECK_DEADLOCK FALSE
