CONSTANTS
    adder = adder  puller = puller  evictor = evictor
    p1 = p1  p2 = p2  x = x  y = y  a = a  b = b  d = d
    Threads <- MCThreads
    Procs <- MCProcs
    ProcOf <- MCProcOf
    Does <- MCDoes
    Paths <- MCPaths
    Files <- MCFiles
    Trees <- MCTrees
    Limit = 2
    Faults = {"copy"}
    Watched = {"add"}
    NoProc = NoProc
    NoHash = NoHash
    NoPath = NoPath
SPECIFICATION Spec
INVARIANT
    ClaimedIsWhole
