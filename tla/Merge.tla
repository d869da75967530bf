-------------------------------- MODULE Merge --------------------------------
(***************************************************************************)
(* index::merge (src/src/index.cpp): the nodes of another index are put    *)
(* over those of this one, directory by directory.                         *)
(***************************************************************************)
EXTENDS Tree

\* The direct children of d in the order of a list.
Children(list, d) ==
    LET upto[k \in 0..Len(list)] ==
            IF k = 0 THEN <<>>
            ELSE IF Parent[list[k].path] = d THEN Append(upto[k - 1], list[k])
            ELSE upto[k - 1]
    IN  upto[Len(list)]

\* A node, and below it what the recursion gives, if it is a directory.
Kept(n, below) == <<n>> \o IF n.type = "dir" THEN below[n.path] ELSE <<>>

\* Mutant: the rest of the first list is lost when the other is exhausted.
TurnStops(x, y, below, rest, m) ==
    LET i == m[1]
        j == m[2]
    IN  IF j > Len(y) THEN <<>>
        ELSE IF i <= Len(x) /\ Rank[x[i].path] < Rank[y[j].path]
             THEN Kept(x[i], below) \o rest[<<i + 1, j>>]
        ELSE Kept(y[j], below) \o
             rest[<<IF i <= Len(x) /\ x[i].path = y[j].path THEN i + 1 ELSE i, j + 1>>]

\* Mutant: a node of both lists is taken from the first.
TurnPrefersFirst(x, y, below, rest, m) ==
    LET i == m[1]
        j == m[2]
    IN  IF i > Len(x) /\ j > Len(y) THEN <<>>
        ELSE IF j > Len(y) \/ (i <= Len(x) /\ Rank[x[i].path] <= Rank[y[j].path])
             THEN Kept(x[i], below) \o
                  rest[<<i + 1, IF j <= Len(y) /\ x[i].path = y[j].path THEN j + 1 ELSE j>>]
        ELSE Kept(y[j], below) \o rest[<<i, j + 1>>]

\* One turn over the children of a directory in both lists, from the positions
\* m: the node whose path comes first.  One that is in both is taken from the
\* other list, with its digest (clone_node).
MergeTurn(x, y, below, rest, m) ==
    LET i == m[1]
        j == m[2]
    IN  IF i > Len(x) /\ j > Len(y) THEN <<>>
        ELSE IF j > Len(y) \/ (i <= Len(x) /\ Rank[x[i].path] < Rank[y[j].path])
             THEN Kept(x[i], below) \o rest[<<i + 1, j>>]
        ELSE Kept(y[j], below) \o
             rest[<<IF i <= Len(x) /\ x[i].path = y[j].path THEN i + 1 ELSE i, j + 1>>]

\* The loop of merge_recursive.
Combined(x, y, below) ==
    LET rest[m \in (1..Len(x) + 1) \X (1..Len(y) + 1)] == MergeTurn(x, y, below, rest, m)
    IN  rest[<<1, 1>>]

\* Mutant: directories are not descended into.
MergeFlat(a, b) ==
    Combined(Children(a, Root), Children(b, Root), [d \in Paths |-> <<>>])

\* index::merge_recursive, from the root.
Merge(a, b) ==
    LET merged[d \in Paths \cup {Root}] == Combined(Children(a, d), Children(b, d), merged)
    IN  merged[Root]
=============================================================================
