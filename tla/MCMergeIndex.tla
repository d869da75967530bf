---------------------------- MODULE MCMergeIndex ----------------------------
(***************************************************************************)
(* Five workspaces, given in every order, one, two or three at a time.  In *)
(* two d is a directory, in one it is a file, and d-e comes between d and  *)
(* d/f in the order of the strings but not in that of a merged index.      *)
(***************************************************************************)
EXTENDS MergeIndex

MCOrder == <<"d", "d-e", "d/f", "d/g", "e", "e/h", "e/h/i">>
MCParent ==
    [p \in ToSet(MCOrder) |-> CASE p \in {"d/f", "d/g"} -> "d" [] p = "e/h" -> "e"
                                [] p = "e/h/i" -> "e/h" [] OTHER -> "root"]
MCName ==
    [p \in ToSet(MCOrder) |-> CASE p = "d/f" -> "f" [] p = "d/g" -> "g" [] p = "e/h" -> "h"
                                [] p = "e/h/i" -> "i" [] OTHER -> p]

Dir == [type |-> "dir", data |-> "", mode |-> "rwx", time |-> 1]
File(data) == [type |-> "file", data |-> data, mode |-> "rw", time |-> 1]

MCWorkspaces == {
    ("d" :> Dir) @@ ("d-e" :> File("A")) @@ ("d/f" :> File("A")),
    ("d" :> Dir) @@ ("d/f" :> File("B")) @@ ("d/g" :> File("A")),
    ("d" :> File("A")) @@ ("e" :> Dir),
    ("e" :> Dir) @@ ("e/h" :> Dir) @@ ("e/h/i" :> File("A")),
    ("d-e" :> File("B")) @@ ("e" :> [type |-> "link", data |-> "d", mode |-> "rwx", time |-> 1])}
=============================================================================
