------------------------------- MODULE MCPull -------------------------------
(***************************************************************************)
(* A tree with two subtrees, one of which has a subtree with the content   *)
(* of the other, and a symlink.                                            *)
(***************************************************************************)
EXTENDS Pull, TLC

CONSTANTS w1, w2, root, a, b, c, af, bf, cf, l, dr, da, db, df, dg

MCWorkers == {w1, w2}
MCTrees == {root, a, b, c}
MCFiles == {af, bf, cf}
MCLinks == {l}
MCParent ==
    (a :> root) @@ (b :> root) @@ (l :> root) @@ (c :> b) @@ (af :> a) @@ (bf :> b) @@ (cf :> c)
MCDigest ==
    (root :> dr) @@ (a :> da) @@ (b :> db) @@ (c :> da) @@ (af :> df) @@ (bf :> dg) @@ (cf :> df)
=============================================================================
