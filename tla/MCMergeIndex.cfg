CONSTANTS
    Root = "root"
    Order <- MCOrder
    Parent <- MCParent
    Name <- MCName
    Workspaces <- MCWorkspaces
    MaxPaths = 3
SPECIFICATION MergeSpec
CHECK_DEADLOCK FALSE
INVARIANTS
    MergedIsOverlay
    LastIsWhole
    DisjointIsOverlay
    MergedIsStored
