----------------------------- MODULE MCDirScan ------------------------------
(***************************************************************************)
(* Trees of four subdirectories on two levels, and two files.  With two    *)
(* workers the pool is saturated by two subdirectories, so that the others *)
(* may be read by a nested call of whichever thread meets them, Main       *)
(* included.                                                               *)
(***************************************************************************)
EXTENDS DirScan, TLC

CONSTANTS w1, w2, main, root, a, b, c, e, f, g

MCWorkers == {w1, w2}
MCDirs == {root, a, b, c, e}
MCNodes == MCDirs \cup {f, g}

\* Subdirectories and files are never in the same directory, so that a call
\* that fails on a symlink has handed nothing to the pool.
MCParent == (a :> root) @@ (b :> root) @@ (c :> a) @@ (e :> a) @@ (f :> b) @@ (g :> c)
=============================================================================
