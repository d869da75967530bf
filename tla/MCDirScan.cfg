CONSTANTS
    w1 = w1  w2 = w2  main = main
    root = root  a = a  b = b  c = c  e = e  f = f  g = g
    Workers <- MCWorkers
    Main = main
    Nodes <- MCNodes
    Dirs <- MCDirs
    Root = root
    NoDir = NoDir
    Parent <- MCParent
    Faults = {"skip", "opendir", "readlink"}
SPECIFICATION FairSpec
INVARIANTS
    TypeOK
    PermitsConserved
    QueuedJobHasWaker
    WaitGroupOutlivesJobs
PROPERTIES
    ImplementsTreeScan
    ScanEnds
