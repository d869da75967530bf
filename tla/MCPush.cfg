CONSTANTS
    w1 = w1  w2 = w2
    root = root  a = a  b = b  f = f  g = g
    Workers <- MCWorkers
    Trees <- MCTrees
    Objects <- MCObjects
    Root = root
    Children <- MCChildren
    NoHash = NoHash
    NoWorker = NoWorker
    Faults = {"check", "write"}
SPECIFICATION FairSpec
INVARIANTS
    TypeOK
    MissingIsPending
    QuietWhenReturned
PROPERTIES
    ImplementsUpload
    PushEnds
