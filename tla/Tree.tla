-------------------------------- MODULE Tree --------------------------------
(***************************************************************************)
(* What the operations of an index share: paths in the order of their      *)
(* strings, the walk over two sorted lists, and digests.                   *)
(*                                                                         *)
(* A digest is what it is a digest of: that of a file is its content, that *)
(* of a directory the set of its lines.  All digests are sets of tuples,   *)
(* so that any two can be compared.                                        *)
(***************************************************************************)
EXTENDS Naturals, SequencesExt

CONSTANTS
    Root,               \* the directory that is listed, which no list has
    Order,              \* the paths, in the order of std::string
    Parent,             \* the directory each path is in
    Name                \* the last component of each path

Paths == ToSet(Order)

\* The position of each path in the order.
Rank == [p \in Paths |-> CHOOSE k \in DOMAIN Order : Order[k] = p]

\* A directory comes before what is in it, as "a" before "a/b".
ASSUME TreeAssumption ==
    /\ Order \in Seq(Paths) /\ IsInjective(Order)
    /\ Root \notin Paths
    /\ Parent \in [Paths -> Paths \cup {Root}]
    /\ \A p \in Paths : Parent[p] # Root => Rank[Parent[p]] < Rank[p]
    /\ \A p, q \in Paths : p # q => <<Parent[p], Name[p]>> # <<Parent[q], Name[q]>>

\* std::sort
Sorted(S) ==
    LET upto[k \in 0..Len(Order)] ==
            IF k = 0 THEN <<>>
            ELSE IF Order[k] \in S THEN Append(upto[k - 1], Order[k])
            ELSE upto[k - 1]
    IN  upto[Len(Order)]

\* The directories a path is below, Root left out.
Above[p \in Paths] ==
    IF Parent[p] = Root THEN {} ELSE {Parent[p]} \cup Above[Parent[p]]

\* One turn of a walk over two lists, from the positions m: it goes on in the
\* list whose path is smaller, in both if the paths are the same.
Turn(a, b, m) ==
    LET x == Rank[a[m[1]]]
        y == Rank[b[m[2]]]
    IN  IF m[1] > Len(a) \/ m[2] > Len(b) THEN m
        ELSE <<IF x <= y THEN m[1] + 1 ELSE m[1], IF y <= x THEN m[2] + 1 ELSE m[2]>>

\* The positions after each turn.
Walk(a, b) ==
    LET at[s \in 0..Len(a) + Len(b)] == IF s = 0 THEN <<1, 1>> ELSE Turn(a, b, at[s - 1])
    IN  at

Match(a, b, m) == m[1] <= Len(a) /\ m[2] <= Len(b) /\ a[m[1]] = b[m[2]]

\* The pairs of positions at which the walk finds the same path.
Matches(a, b) == LET at == Walk(a, b) IN {m \in {at[s] : s \in DOMAIN at} : Match(a, b, m)}

PathsOf(nodes) == [k \in DOMAIN nodes |-> nodes[k].path]

-----------------------------------------------------------------------------
(* Digests.  A node of an index is a record with the fields path, type,    *)
(* mode, target (of a symlink, else ""), time and hash.                    *)

NoHash == {}
FileHash(content) == {<<"file", content>>}
Content(hash) == (CHOOSE l \in hash : TRUE)[2]

Line(n) == <<Name[n.path], n.type, n.mode, n.target, n.hash>>

\* What operator<< writes for a directory.
TreeHash(lines) == {<<"tree">>} \cup lines

ChildrenOf(nodes, d) == {n \in ToSet(nodes) : Parent[n.path] = d}

\* The line of a tree that was read for the name of p, or none.
NoLine == <<"", "none", "", "", NoHash>>
LineIn(tree, p) ==
    LET found == {l \in tree : Len(l) = 5 /\ l[1] = Name[p]}
    IN  IF found = {} THEN NoLine ELSE CHOOSE l \in found : TRUE

\* The line of each path below the tree root, or none.
LineOf(root, line, p) == LineIn(IF Parent[p] = Root THEN root ELSE line[Parent[p]][5], p)
Lines(root) ==
    LET line[p \in Paths] == LineOf(root, line, p)
    IN  line

\* The nodes below root, as operator>> makes them: their time is 0.
Listing(root) ==
    LET line == Lines(root)
        node(p) == [path |-> p, type |-> line[p][2], mode |-> line[p][3],
                    target |-> line[p][4], hash |-> line[p][5], time |-> 0]
        list == Sorted({p \in Paths : line[p] # NoLine})
    IN  [k \in DOMAIN list |-> node(list[k])]

\* The digests of the trees that a listing of root reads, and of all objects.
TreesOf(root) == {root} \cup {n.hash : n \in {n \in ToSet(Listing(root)) : n.type = "dir"}}
ObjectsOf(root) == {root} \cup {n.hash : n \in {n \in ToSet(Listing(root)) : n.type # "link"}}

-----------------------------------------------------------------------------
(* Entries of a workspace: type, data (content or target), mode, time.     *)

IsEntry(e) ==
    /\ e = [type |-> e.type, data |-> e.data, mode |-> e.mode, time |-> e.time]
    /\ e.type \in {"file", "dir", "link"}

\* The directory of every path exists, and is one.
IsWorkspace(disk) ==
    /\ DOMAIN disk \subseteq Paths
    /\ \A p \in DOMAIN disk :
          /\ IsEntry(disk[p])
          /\ Parent[p] # Root => Parent[p] \in DOMAIN disk /\ disk[Parent[p]].type = "dir"

Target(e) == IF e.type = "link" THEN e.data ELSE ""
Node(p, e, h) ==
    [path |-> p, type |-> e.type, mode |-> e.mode, target |-> Target(e),
     time |-> e.time, hash |-> h]

\* What a scan finds, which leaves out what the list of patterns matches.
Listed(disk, list) == {p \in DOMAIN disk : ({p} \cup Above[p]) \cap list = {}}

\* The digest of a directory, and of each path of the workspace.
DirHash(disk, list, hash, d) ==
    TreeHash({Line(Node(q, disk[q], hash[q])) : q \in {q \in Listed(disk, list) : Parent[q] = d}})
HashOf(disk, list, hash, p) ==
    IF p # Root /\ disk[p].type = "file" THEN FileHash(disk[p].data)
    ELSE IF p # Root /\ disk[p].type = "link" THEN NoHash
    ELSE DirHash(disk, list, hash, p)
Hashes(disk, list) ==
    LET hash[p \in Paths \cup {Root}] == HashOf(disk, list, hash, p)
    IN  hash
Snapshot(disk, list) == Hashes(disk, list)[Root]

\* What a write-tree of the workspace saves.
IndexOf(disk, list) ==
    LET hash == Hashes(disk, list)
        found == Sorted(Listed(disk, list))
    IN  [k \in DOMAIN found |-> Node(found[k], disk[found[k]], hash[found[k]])]

\* create_dirtree
Written(list, k) == [list EXCEPT ![k].hash = TreeHash({Line(n) : n \in ChildrenOf(list, list[k].path)})]
=============================================================================
