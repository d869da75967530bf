CONSTANTS
    w1 = w1  w2 = w2
    root = root  a = a  b = b  c = c  af = af  bf = bf  cf = cf  l = l
    dr = dr  da = da  db = db  df = df  dg = dg
    Workers <- MCWorkers
    Trees <- MCTrees
    Files <- MCFiles
    Links <- MCLinks
    Root = root
    Parent <- MCParent
    Digest <- MCDigest
    NoNode = NoNode
    Faults = {"read_object", "evict"}
SPECIFICATION FairSpec
INVARIANTS
    TypeOK
    CountsJobs
    QuietWhenOver
PROPERTIES
    ImplementsDownload
    PullEnds
