CONSTANTS
    Root = "root"
    Order <- MCOrder
    Parent <- MCParent
    Name <- MCName
    Starts <- MCNoLast
    Given <- MCNoLast
    Patterns <- MCPatterns
    Shapes <- MCNoShapes
    MaxEvents = 0
    MaxRuns = 1
    Faults = {}
SPECIFICATION Spec
CHECK_DEADLOCK FALSE
PROPERTIES
    LinkedNodeIgnored
