---------------------------- MODULE MCObjectCache ----------------------------
(***************************************************************************)
(* A process that adds, one that also pulls and stores trees, and one that *)
(* evicts; then one process with two threads, and an evictor.              *)
(***************************************************************************)
EXTENDS ObjectCache, TLC

CONSTANTS adder, puller, evictor, p1, p2, x, y, a, b, d

MCThreads == {adder, puller, evictor}
MCDoes == (adder :> {"add"}) @@ (puller :> {"add", "pull", "tree"}) @@ (evictor :> {"evict"})

\* Each is a process with one thread.
MCProcs == MCThreads
MCProcOf == [t \in MCThreads |-> t]

\* Or the first two are threads of one process.
MCPoolProcs == {p1, p2}
MCPoolOf == (adder :> p1) @@ (puller :> p1) @@ (evictor :> p2)

MCPaths == {x, y}
MCFiles == {a, b}
MCTrees == {d}

\* Files and paths are alike.
MCSymmetry == Permutations(MCFiles) \cup Permutations(MCPaths)
=============================================================================
