CONSTANTS
    Root = "root"
    Order <- MCOrder
    Parent <- MCParent
    Name <- MCName
    Starts <- MCNoLast
    Given <- MCNoLast
    Patterns <- MCPatterns
    Shapes <- MCShapes
    MaxEvents = 1
    MaxRuns = 1
    Faults = {"truncated"}
SPECIFICATION Spec
CHECK_DEADLOCK FALSE
INVARIANTS
    WrittenIsSnapshot
