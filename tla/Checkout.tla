------------------------------ MODULE Checkout ------------------------------
(***************************************************************************)
(* fstree checkout and pull-checkout (src/src/main.cpp, src/src/index.cpp): *)
(* the tree is read from the cache and takes the times of the saved index  *)
(* where the digests agree; then the sorted lists of the workspace and of  *)
(* the tree are walked together, and each difference is put right.         *)
(*                                                                         *)
(* One step of the walk is one turn of its loop, with all it does to the   *)
(* disk.  Between the turns the user may write files in place and another  *)
(* process may evict.  The commands alternate with write-tree on the same  *)
(* workspace, index file and cache: this module is the whole of them.      *)
(***************************************************************************)
EXTENDS WriteTree

tree == Sorted(DOMAIN scan)
walkVars == <<ignored, quiet, saved, cacheVars, cmd, scan, todo, root, exn, bounds>>

\* Mutant: the times of all paths that agree are taken.
CopyMetadataByPath(new, old) ==
    [k \in DOMAIN new |->
        LET match == {m \in DOMAIN old : old[m].path = new[k].path}
        IN  IF match = {} THEN new[k]
            ELSE [new[k] EXCEPT !.time = old[CHOOSE m \in match : TRUE].time]]

\* index::copy_metadata: digests are compared, and nothing else.
CopyMetadata(new, old) ==
    LET match(k) == {m \in Matches(PathsOf(new), PathsOf(old)) :
                        m[1] = k /\ new[k].hash = old[m[2]].hash}
    IN  [k \in DOMAIN new |-> IF match(k) = {} THEN new[k]
                              ELSE [new[k] EXCEPT !.time = old[(CHOOSE m \in match(k) : TRUE)[2]].time]]

-----------------------------------------------------------------------------
(* The disk, as the calls of std::filesystem change it. *)

\* The path with the name of p in d, or in the directory that d is a link to.
RealIn(disk, d, p) ==
    LET dir == IF d \in DOMAIN disk /\ disk[d].type = "link" THEN disk[d].data ELSE d
        found == {q \in Paths : Parent[q] = dir /\ Name[q] = Name[p]}
    IN  IF found = {} THEN p ELSE CHOOSE q \in found : TRUE

\* What a path is when the symlinks among its directories are followed.
RealOf(disk, real, p) == RealIn(disk, IF Parent[p] = Root THEN Root ELSE real[Parent[p]], p)
Real(disk, p) ==
    LET real[q \in Paths] == RealOf(disk, real, q)
    IN  real[p]

Below(p) == {q \in Paths : p \in Above[q]}

\* std::filesystem::remove_all; nothing there is no error.
RemoveAll(disk, p) ==
    LET q == Real(disk, p)
    IN  IF q \notin DOMAIN disk THEN disk
        ELSE Touched([r \in DOMAIN disk \ ({q} \cup Below(q)) |-> disk[r]], Parent[q], clock + 1)

\* weakly_canonical of the directory of p is that directory: none above p is a
\* symlink, and the path of the workspace has none.
Canonical(disk, p) ==
    \A d \in Above[p] \cap DOMAIN disk : disk[d].type # "link"

\* Nothing is in the way of n.  A symlink to a directory is in the way of a
\* directory here, and not in the code, which sets the permissions of what it
\* leads to: one that the scan has listed has been removed by then.
Clear(disk, n) ==
    LET q == Real(disk, n.path) IN
    /\ Parent[q] = Root \/ (Parent[q] \in DOMAIN disk /\ disk[Parent[q]].type = "dir")
    /\ q \in DOMAIN disk =>
          IF n.type = "dir" THEN disk[q].type = "dir" ELSE Below(q) \cap DOMAIN disk = {}

\* What the object of a file has in it.
HeldBy(hash) == IF hash \in DOMAIN held THEN held[hash] ELSE Content(hash)

\* index::checkout_node: n is made on the disk, unless it is a directory that
\* exists, and its permissions are set.
CheckoutNode(disk, n) ==
    LET q == Real(disk, n.path)
        kept == n.type = "dir" /\ q \in DOMAIN disk
        entry == [type |-> n.type, mode |-> n.mode, time |-> clock + 1,
                  data |-> CASE n.type = "file" -> HeldBy(n.hash)
                             [] n.type = "link" -> n.target
                             [] OTHER -> ""]
    IN  IF kept THEN [disk EXCEPT ![q].mode = n.mode]
        ELSE Touched(Put(disk, q, entry), Parent[q], clock + 1)

-----------------------------------------------------------------------------
(* The command. *)

\* index_from_tree, sort, copy_metadata, and the patterns that are in the tree.
\* A tree that is not in the cache fails the command, and so does the object with
\* the patterns, which may be any that is missing.
Begin(t) ==
    /\ pc \in Idle
    /\ runs < MaxRuns
    /\ runs' = runs + 1
    /\ ignored' \in Patterns
    /\ \/ /\ TreesOf(t) \subseteq store'
          /\ cmd' = "checkout" /\ pc' = "scan"
          /\ root' = t /\ exn' = FALSE
          /\ nodes' = CopyMetadata(Listing(t), saved)
          /\ scan' = <<>> /\ todo' = {Root}
          /\ quiet' = TRUE
          /\ UNCHANGED <<i, j>>
       \/ ~(ObjectsOf(t) \subseteq store') /\ Fail
    /\ UNCHANGED <<ws, clock, saved, held, mixed, known, events>>

StartCheckout(t) == t \in known /\ UNCHANGED store /\ Begin(t)

\* pull-checkout: what the cache lacks is pulled first, from a remote that has
\* it as it was named.
StartPullCheckout(t) == t \in known /\ store' = store \cup ObjectsOf(t) /\ Begin(t)

StartWalk ==
    /\ pc = "scan" /\ todo = {} /\ cmd = "checkout"
    /\ pc' = "walk" /\ i' = 1 /\ j' = 1
    /\ UNCHANGED <<userVars, saved, cacheVars, cmd, scan, todo, nodes, root, exn, bounds>>

\* Mutant: the node keeps the time it had.
PlaceUntimed(disk, next) ==
    /\ pc = "walk"
    /\ clock' = clock + 1
    /\ LET n == nodes[j] IN
       IF Clear(disk, n) /\ (n.type = "file" => n.hash \in store)
       THEN /\ ws' = CheckoutNode(disk, n)
            /\ i' = next /\ j' = j + 1
            /\ UNCHANGED <<nodes, quiet, cmd, pc, scan, todo, root, exn>>
       ELSE ws' = disk /\ Fail
    /\ UNCHANGED <<ignored, saved, cacheVars, bounds>>

\* The node at j is made on what is left of the disk.  A file that is not in
\* the cache has been removed by then.
Place(disk, next) ==
    LET n == nodes[j] IN
    /\ pc = "walk"
    /\ clock' = clock + 1
    /\ IF Clear(disk, n) /\ (n.type = "file" => n.hash \in store)
       THEN /\ ws' = CheckoutNode(disk, n)
            /\ nodes' = [nodes EXCEPT ![j].time = ws'[Real(disk, n.path)].time]
            /\ i' = next /\ j' = j + 1
            /\ UNCHANGED <<quiet, cmd, pc, scan, todo, root, exn>>
       ELSE /\ ws' = IF Clear(disk, n) THEN RemoveAll(disk, n.path) ELSE disk
            /\ Fail
    /\ UNCHANGED <<ignored, saved, cacheVars, bounds>>

\* The entry at i is removed.
Drop ==
    /\ ws' = RemoveAll(ws, tree[i])
    /\ clock' = clock + 1
    /\ i' = i + 1
    /\ UNCHANGED <<walkVars, pc, nodes, j>>

Both == pc = "walk" /\ i <= Len(tree) /\ j <= Len(nodes)
Same == Both /\ tree[i] = nodes[j].path
Extra == Both /\ Rank[tree[i]] < Rank[nodes[j].path]

CreateMissing ==
    /\ pc = "walk" /\ j <= Len(nodes)
    /\ i <= Len(tree) => Rank[tree[i]] > Rank[nodes[j].path]
    /\ Place(ws, i)

\* The index is exhausted: the rest of the workspace is removed.
RemoveRest == pc = "walk" /\ i <= Len(tree) /\ j > Len(nodes) /\ Drop

RemoveExtra == Extra /\ Canonical(ws, tree[i]) /\ Drop

SkipBelowLink ==
    /\ Extra /\ ~Canonical(ws, tree[i])
    /\ i' = i + 1
    /\ UNCHANGED <<walkVars, ws, clock, pc, nodes, j>>

\* A directory becomes a file or a symlink.  The paths below it are skipped
\* while they follow each other.
ReplaceDirectory ==
    /\ Same /\ scan[tree[i]].type = "dir" /\ nodes[j].type # "dir"
    /\ LET other == {k \in i + 1..Len(tree) : tree[k] \notin Below(tree[i])}
       IN  Place(RemoveAll(ws, tree[i]), Min(other \cup {Len(tree) + 1}))

ReplaceOther ==
    /\ Same /\ scan[tree[i]].type # "dir" /\ nodes[j].type # scan[tree[i]].type
    /\ Place(RemoveAll(ws, tree[i]), i + 1)

\* The type is the same.
Differs ==
    LET e == scan[tree[i]] IN
    \/ nodes[j].type # "dir" /\ e.time # nodes[j].time
    \/ Target(e) # nodes[j].target

\* Mutant: the entry of the workspace is passed twice.
UpdateTwice ==
    /\ Same /\ nodes[j].type = scan[tree[i]].type
    /\ i' = i + 2 /\ j' = j + 1
    /\ UNCHANGED <<walkVars, ws, clock, pc, nodes>>

Update ==
    /\ Same /\ nodes[j].type = scan[tree[i]].type
    /\ IF Differs THEN Place(ws, i + 1)
       ELSE /\ ws' = IF scan[tree[i]].mode = nodes[j].mode THEN ws
                     ELSE [ws EXCEPT ![tree[i]].mode = nodes[j].mode]
            /\ i' = i + 1 /\ j' = j + 1
            /\ UNCHANGED <<walkVars, clock, pc, nodes>>

EndWalk ==
    /\ pc = "walk" /\ i > Len(tree) /\ j > Len(nodes)
    /\ pc' = "save"
    /\ UNCHANGED <<walkVars, ws, clock, nodes, i, j>>

CheckoutStep ==
    \/ \E t \in known : StartCheckout(t) \/ StartPullCheckout(t)
    \/ StartWalk
    \/ CreateMissing \/ RemoveRest \/ RemoveExtra \/ SkipBelowLink
    \/ ReplaceDirectory \/ ReplaceOther \/ Update
    \/ EndWalk

Next == WriteStep \/ CheckoutStep \/ Environment

Spec == Init /\ [][Next]_vars

-----------------------------------------------------------------------------
(* Properties. *)

IsNode(n) ==
    /\ n = [path |-> n.path, type |-> n.type, mode |-> n.mode, target |-> n.target,
            time |-> n.time, hash |-> n.hash]
    /\ n.path \in Paths
    /\ n.type \in {"file", "dir", "link"}

\* The types, and the times: none is later than the clock.
TypeOK ==
    /\ IsWorkspace(ws)
    /\ DOMAIN scan \subseteq Paths /\ \A p \in DOMAIN scan : IsEntry(scan[p])
    /\ \A disk \in {ws, scan} : \A p \in DOMAIN disk : disk[p].time \in 1..clock
    /\ \A list \in {saved, nodes} :
          /\ list \in Seq(ToSet(list))
          /\ \A k \in DOMAIN list : IsNode(list[k]) /\ list[k].time \in 0..clock
    /\ todo \subseteq Paths \cup {Root}
    /\ ignored \subseteq Paths
    /\ clock \in Nat
    /\ pc \in Idle \cup {"scan", "add", "trees", "walk", "save"}
    /\ cmd \in {"none", "write", "checkout"}
    /\ exn \in BOOLEAN /\ quiet \in BOOLEAN
    /\ events \in 0..MaxEvents /\ runs \in 0..MaxRuns
    /\ DOMAIN held \subseteq store \cap mixed
    /\ pc = "walk" => i \in 1..Len(tree) + 1 /\ j \in 1..Len(nodes) + 1

\* The objects of the tree have always been what their digests say.
Unmixed(t) == ObjectsOf(t) \cap mixed = {}

\* A write-tree that returns while nobody edits prints the digest of the
\* workspace, whatever of it was reused from an index that another command,
\* or one before a kill or a failed checkout, had saved.
WrittenIsSnapshot ==
    pc = "returned" /\ cmd = "write" /\ quiet /\ Unmixed(root) => root = Snapshot(ws, ignored)

\* The name of every object of the tree it prints is then in the cache, whatever
\* has been evicted before.
TreeIsStored ==
    [][pc = "save" /\ pc' = "returned" /\ cmd = "write" /\ quiet =>
          ObjectsOf(root) \subseteq store]_vars

\* A checkout that returns has made the workspace the tree, from whatever a
\* checkout that failed or was killed has left of it, when the objects of the
\* tree are what they should be.
CheckedOutIsTree ==
    pc = "returned" /\ cmd = "checkout" /\ quiet /\ Unmixed(root) => Snapshot(ws, ignored) = root

\* A file that the index file takes for unchanged has the content it recorded:
\* also when it was written while the command was scanning, adding or walking,
\* and when the command that followed has failed.  Nothing else leads to a wrong
\* record than an object that was stored with another content.
IndexIsTruthful ==
    \A k \in DOMAIN saved :
        LET n == saved[k] IN
        n.type = "file" /\ n.path \in DOMAIN ws /\ Equivalent(n, ws[n.path])
            => n.hash = FileHash(ws[n.path].data) \/ n.hash \in mixed

\* An object is first stored with another content than its digest says only by a
\* command during which the user has edited, whatever an index had recorded and
\* an eviction removed before.
MixedByEdits == [][mixed' # mixed => ~quiet]_vars

\* A checkout copies the object with the given hash (cache.hpp:70), so that the
\* workspace would be the tree, whatever happened to its objects.  It is not, if
\* one was stored with another content; no theorem and no run has this.
CheckoutIsTree ==
    pc = "returned" /\ cmd = "checkout" /\ quiet => Snapshot(ws, ignored) = root

\* After a command that returns while nobody edits, the next one has no file
\* to hash.
IndexIsComplete ==
    pc = "returned" /\ quiet =>
        \A p \in Listed(ws, ignored) :
            ws[p].type = "file" =>
                \E k \in DOMAIN saved : saved[k].path = p /\ Equivalent(saved[k], ws[p])

\* What the patterns match is not in the tree.
IgnoredIsLeftOut ==
    pc = "returned" /\ cmd = "write" /\ quiet =>
        \A p \in ignored : Lines(root)[p] = NoLine

\* A node of the workspace whose directory became a symlink is ignored.
LinkedNodeIgnored ==
    [][pc = "walk" /\ i' = i + 1 /\ j' = j /\ ~Canonical(ws, tree[i]) => ws' = ws]_vars
=============================================================================
