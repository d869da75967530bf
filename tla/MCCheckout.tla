------------------------------ MODULE MCCheckout ------------------------------
(***************************************************************************)
(* A workspace where a is a symlink to the directory 0, and one where a is *)
(* a directory.  The path a-b comes between a and a/x in the order of the  *)
(* strings.  The path z, which is never deleted and which only the first   *)
(* has, comes after them all, so that a tree with the symlink is not       *)
(* exhausted before a/x.  The file a/o is ignored.                         *)
(***************************************************************************)
EXTENDS Checkout

MCOrder == <<"0", "0/x", "a", "a-b", "a/o", "a/x", "z">>
MCParent ==
    [p \in ToSet(MCOrder) |-> CASE p = "0/x" -> "0" [] p \in {"a/o", "a/x"} -> "a" [] OTHER -> "root"]
MCName ==
    [p \in ToSet(MCOrder) |-> CASE p \in {"0/x", "a/x"} -> "x" [] p = "a/o" -> "o" [] OTHER -> p]

Entry(type, data, mode) == [type |-> type, data |-> data, mode |-> mode, time |-> 1]
Dir == Entry("dir", "", "rwx")

MCLinked ==
    ("0" :> Dir) @@ ("0/x" :> Entry("file", "A", "rw")) @@
    ("a" :> Entry("link", "0", "rwx")) @@ ("z" :> Entry("file", "A", "rw"))

MCPlain ==
    ("0" :> Dir) @@ ("0/x" :> Entry("file", "B", "rw")) @@
    ("a" :> Dir) @@ ("a-b" :> Entry("file", "A", "rw")) @@
    ("a/o" :> Entry("file", "A", "rw")) @@ ("a/x" :> Entry("file", "A", "rw"))

MCStarts == {MCLinked, MCPlain}
MCPatterns == {{"a/o"}}

Shape(type, data, mode) == [type |-> type, data |-> data, mode |-> mode]
MCShapes ==
    ("0/x" :> {Shape("file", "B", "r")}) @@ ("a/x" :> {Shape("file", "B", "rw")})

\* Without z, and with two lists of patterns.
MCNoLast == {[p \in DOMAIN w \ {"z"} |-> w[p]] : w \in MCStarts}
MCTwoPatterns == {{}, {"a/o"}}
MCNoShapes == [p \in {} |-> {}]
=============================================================================
