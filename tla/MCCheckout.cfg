CONSTANTS
    Root = "root"
    Order <- MCOrder
    Parent <- MCParent
    Name <- MCName
    Starts <- MCStarts
    Given <- MCStarts
    Patterns <- MCPatterns
    Shapes <- MCShapes
    MaxEvents = 2
    MaxRuns = 2
    Faults = {"kill", "evict"}
SPECIFICATION Spec
CHECK_DEADLOCK FALSE
INVARIANTS
    TypeOK
    WrittenIsSnapshot
    CheckedOutIsTree
    
    IndexIsComplete
PROPERTIES
    TreeIsStored
    
