----------------------------- MODULE MergeIndex -----------------------------
(***************************************************************************)
(* simple::write_tree of several paths (src/python/simple.cpp): each       *)
(* workspace in turn is refreshed, stored and merged into one index        *)
(* (index::merge), and what that lists is stored as one tree.              *)
(*                                                                         *)
(* The refresh and the storing of one workspace are those of WriteTree, in *)
(* one step; nobody edits meanwhile and nothing is evicted.  The index     *)
(* files that are saved, that of each path and that of the merged index,   *)
(* which has no root and is saved in the current directory, are left out:  *)
(* nothing here reads them again.                                          *)
(***************************************************************************)
EXTENDS Merge

CONSTANTS
    Workspaces,
    MaxPaths            \* bound on the number of paths given

ASSUME MergeAssumption ==
    /\ MaxPaths \in Nat /\ Workspaces # {}
    /\ \A w \in Workspaces : IsWorkspace(w)

VARIABLES
    given,              \* the workspaces, one for each path
    done,               \* how many have been merged
    stage,              \* what write_tree does next
    refreshed,          \* the index of one workspace
    merged,             \* the merged one
    cached,             \* the digests in the cache
    printed             \* the digest printed

mergeVars == <<given, done, stage, refreshed, merged, cached, printed>>

MergeInit ==
    /\ given \in UNION {[1..n -> Workspaces] : n \in 1..MaxPaths}
    /\ done = 0
    /\ stage = "refresh"
    /\ refreshed = <<>> /\ merged = <<>>
    /\ cached = {}
    /\ printed = NoHash

\* Mutant: the workspace is not added to the cache.
RefreshOnly ==
    /\ stage = "refresh" /\ done < Len(given)
    /\ refreshed' = IndexOf(given[done + 1], {})
    /\ stage' = "merge"
    /\ UNCHANGED <<given, done, merged, cached, printed>>

\* refresh and add: the index of a workspace, which becomes part of the cache.
RefreshAdd ==
    /\ stage = "refresh" /\ done < Len(given)
    /\ refreshed' = IndexOf(given[done + 1], {})
    /\ cached' = cached \cup ObjectsOf(Snapshot(given[done + 1], {}))
    /\ stage' = "merge"
    /\ UNCHANGED <<given, done, merged, printed>>

MergeOther ==
    /\ stage = "merge"
    /\ merged' = Merge(merged, refreshed)
    /\ done' = done + 1
    /\ stage' = "refresh"
    /\ UNCHANGED <<given, refreshed, cached, printed>>

\* The directories that have no tree in the cache are written, from the last
\* to the first.
WrittenAll(list, dirty) ==
    LET upto[k \in 0..Len(list)] ==
            IF k = 0 THEN list
            ELSE IF Len(list) + 1 - k \in dirty THEN Written(upto[k - 1], Len(list) + 1 - k)
            ELSE upto[k - 1]
    IN  upto[Len(list)]

\* cache::add of the merged index: its directories have digests, of trees that
\* are in the cache, so that only the root is written.  Its save is left out.
AddMerged ==
    /\ stage = "refresh" /\ done = Len(given)
    /\ LET dirty == {n \in DOMAIN merged : merged[n].type = "dir" /\ merged[n].hash \notin cached}
           list == WrittenAll(merged, dirty)
       IN  /\ merged' = list
           /\ printed' = TreeHash({Line(n) : n \in ChildrenOf(list, Root)})
           /\ cached' = cached \cup {list[n].hash : n \in dirty} \cup {printed'}
    /\ stage' = "returned"
    /\ UNCHANGED <<given, done, refreshed>>

MergeNext == RefreshAdd \/ MergeOther \/ AddMerged

MergeSpec == MergeInit /\ [][MergeNext]_mergeVars

-----------------------------------------------------------------------------
(* Properties. *)

\* What copying the workspaces over each other gives: a path of the last one
\* that has it, unless a later one has something else in place of a directory
\* above it.
Over(disk, w) ==
    [p \in DOMAIN w \cup {p \in DOMAIN disk : \A d \in Above[p] \cap DOMAIN w : w[d].type = "dir"} |->
        IF p \in DOMAIN w THEN w[p] ELSE disk[p]]
Overlay(list, n) ==
    LET upto[k \in 0..Len(list)] == IF k = 0 THEN <<>> ELSE Over(upto[k - 1], list[k])
    IN  upto[n]

\* The merged index lists what the workspaces have together, in whichever
\* order the list left by the merge before is.
MergedIsOverlay ==
    stage = "refresh" =>
        LET disk == Overlay(given, done) IN
        /\ ToSet(PathsOf(merged)) = DOMAIN disk
        /\ \A n \in ToSet(merged) : n = Node(n.path, disk[n.path], n.hash)

\* Everything of the workspace that was given last is in the tree.
LastIsWhole ==
    stage = "returned" =>
        LET last == Lines(Snapshot(given[done], {}))
        IN  \A p \in DOMAIN given[done] : Lines(printed)[p] = last[p]

\* The tree is the one of the merged workspaces if no directory is in two of
\* them.  Of one that is, the tree has what the last workspace has in it.
DisjointIsOverlay ==
    /\ stage = "returned"
    /\ \A x, y \in DOMAIN given, p \in Paths :
          x # y /\ p \in DOMAIN given[x] \cap DOMAIN given[y] =>
              given[x][p].type # "dir" /\ given[y][p].type # "dir"
    => printed = Snapshot(Overlay(given, done), {})

\* Every object of the tree is in the cache.
MergedIsStored == stage = "returned" => ObjectsOf(printed) \subseteq cached
=============================================================================
