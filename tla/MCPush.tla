------------------------------- MODULE MCPush -------------------------------
(***************************************************************************)
(* A tree with two subtrees, one of which is also below the other, and a   *)
(* file that is in both.  The file g is in the cache, and not in the tree. *)
(***************************************************************************)
EXTENDS Push, TLC

CONSTANTS w1, w2, root, a, b, f, g

MCWorkers == {w1, w2}
MCTrees == {root, a, b}
MCObjects == {f, g}
MCChildren == (root :> {a, b}) @@ (a :> {b, f}) @@ (b :> {f})
=============================================================================
