CONSTANTS
    Root = "root"
    Order <- MCOrder
    Parent <- MCParent
    Name <- MCName
    Starts <- MCNoLast
    Given <- MCNoLast
    Patterns <- MCTwoPatterns
    Shapes <- MCNoShapes
    MaxEvents = 0
    MaxRuns = 1
    Faults = {}
SPECIFICATION Spec
CHECK_DEADLOCK FALSE
INVARIANTS
    IgnoredIsLeftOut
