------------------------------ MODULE WriteTree ------------------------------
(***************************************************************************)
(* fstree write-tree (src/src/main.cpp): the index of the last run is      *)
(* loaded, the workspace is scanned, digests are kept for what seems not   *)
(* to have changed (index::refresh), files and then trees are stored       *)
(* (cache::add), and the index is saved.                                   *)
(*                                                                         *)
(* The user edits the workspace at any time, also while the command runs.  *)
(* Every edit that changes a file in place, or the entries of a directory, *)
(* gives it a new time.  Within the command, one directory is read in one  *)
(* step, one file is hashed in one and copied in another (DirScan and      *)
(* ObjectCache have those in detail); one command uses a workspace at a    *)
(* time.  The commands of Checkout use the same variables.                 *)
(***************************************************************************)
EXTENDS Tree

CONSTANTS
    Starts,             \* the workspaces to begin with
    Given,              \* those whose trees are in the cache already
    Patterns,           \* the sets of paths that a list of patterns may match
    Shapes,             \* what the user may make of the paths in its domain
    MaxEvents,          \* bound on edits and evictions
    MaxRuns,            \* bound on commands
    Faults              \* "kill", "evict", "truncated"

ASSUME WorkspaceAssumption ==
    /\ MaxEvents \in Nat /\ MaxRuns \in Nat
    /\ \A w \in Starts : IsWorkspace(w) /\ \A p \in DOMAIN w : w[p].time = 1
    /\ Given \subseteq Starts
    /\ Patterns \subseteq SUBSET Paths /\ Patterns # {}
    /\ DOMAIN Shapes \subseteq Paths
    /\ \A p \in DOMAIN Shapes : \A s \in Shapes[p] : s.type \in {"file", "dir", "link"}
    /\ Faults \subseteq {"kill", "evict", "truncated"}

VARIABLES
    ws,                 \* the workspace: an entry for each path that exists
    ignored,            \* what the patterns match that the command has loaded
    clock,              \* the time of the last change
    saved,              \* the nodes in the index file
    store,              \* the digests in the cache: the names of its objects
    held,               \* what those objects have in them whose content is not
                        \* that of their digest
    mixed,              \* not in the code: the digests under which another
                        \* content has been stored
    known,              \* the digests of trees that a command may be given
    cmd, pc,            \* the command, and what it does next; "idle" when it has
                        \* failed or was killed
    scan,               \* what the scan found: an entry for each path
    todo,               \* the directories to scan, then the files to add, then
                        \* the directories to write
    nodes,              \* _inodes: the index loaded, then the one made of it
    root,               \* the digest of _root
    exn,                \* a job of add has failed
    i, j,               \* the positions of a checkout in scan and nodes
    quiet,              \* nobody has edited since the command began
    events, runs

userVars == <<ws, ignored, clock, quiet>>
cacheVars == <<store, held, mixed, known>>
bounds == <<events, runs>>
vars == <<userVars, saved, cacheVars, cmd, pc, scan, todo, nodes, root, exn, i, j, bounds>>

Idle == {"idle", "returned"}

-----------------------------------------------------------------------------

\* The index file is missing, or an earlier write-tree has saved it, which may
\* have used another list of patterns.  One that was killed in index::save,
\* which writes the file in place, has left the first part of it.
Init ==
    /\ ws \in Starts
    /\ ignored \in Patterns
    /\ clock = 1
    /\ \E list \in Patterns :
          LET index == IndexOf(ws, list) IN
          \/ saved \in {<<>>, index}
          \/ "truncated" \in Faults /\ \E n \in DOMAIN index : saved = SubSeq(index, 1, n)
    /\ known = {Snapshot(w, list) : w \in Given, list \in Patterns}
    /\ store = UNION {ObjectsOf(r) : r \in known}
    /\ held = <<>> /\ mixed = {}
    /\ cmd = "none" /\ pc = "idle"
    /\ scan = <<>> /\ todo = {} /\ nodes = <<>>
    /\ root = NoHash /\ exn = FALSE
    /\ i = 1 /\ j = 1
    /\ quiet = FALSE
    /\ events = 0 /\ runs = 0

-----------------------------------------------------------------------------
(* The command. *)

\* What the process has in memory is gone.
Forget ==
    /\ scan' = <<>> /\ todo' = {} /\ nodes' = <<>>
    /\ exn' = FALSE
    /\ i' = 1 /\ j' = 1

\* The command ends without a result.
Fail ==
    /\ pc' = "idle" /\ cmd' = "none"
    /\ root' = NoHash
    /\ quiet' = FALSE
    /\ Forget

\* The patterns and the index are loaded: a part of an index is used as far as
\* it goes.
StartWrite ==
    /\ pc \in Idle
    /\ runs < MaxRuns
    /\ cmd' = "write" /\ pc' = "scan"
    /\ nodes' = saved
    /\ scan' = <<>> /\ todo' = {Root}
    /\ root' = NoHash /\ exn' = FALSE
    /\ ignored' \in Patterns
    /\ quiet' = TRUE
    /\ runs' = runs + 1
    /\ UNCHANGED <<ws, clock, saved, cacheVars, i, j, events>>

\* read_directory, and the filter of ignored files: the entries of d, each
\* with its metadata.  A directory that is gone fails the scan.
ReadDirectory(d) ==
    /\ pc = "scan" /\ d \in todo
    /\ LET found == {p \in DOMAIN ws \ ignored : Parent[p] = d} IN
       IF d = Root \/ (d \in DOMAIN ws /\ ws[d].type = "dir")
       THEN /\ scan' = [p \in DOMAIN scan \cup found |-> IF p \in found THEN ws[p] ELSE scan[p]]
            /\ todo' = (todo \ {d}) \cup {p \in found : ws[p].type = "dir"}
            /\ UNCHANGED <<quiet, cmd, pc, nodes, root, exn, i, j>>
       ELSE Fail
    /\ UNCHANGED <<ws, ignored, clock, saved, cacheVars, bounds>>

\* Mutant: the permissions are not compared.
EquivalentButMode(n, e) == n.type = e.type /\ n.time = e.time /\ n.target = Target(e)

\* Mutant: the times are not compared.
EquivalentButTime(n, e) == n.type = e.type /\ n.mode = e.mode /\ n.target = Target(e)

\* inode::is_equivalent
Equivalent(n, e) ==
    n.type = e.type /\ n.mode = e.mode /\ n.time = e.time /\ n.target = Target(e)

\* inode::set_dirty: the digest is cleared, and those above up to the first
\* that has none.
SetDirty(hash, p) ==
    LET clean(a) == \A b \in Above[p] : b = a \/ a \in Above[b] => hash[b] # NoHash
    IN  [q \in DOMAIN hash |->
            IF q = p \/ (q \in Above[p] /\ clean(q)) THEN NoHash ELSE hash[q]]

\* What a match does: the digest of the index is kept, if there is one and the
\* metadata agree.
Reuse(list, entries, index, hash, m) ==
    LET p == list[m[1]]
        n == index[m[2]]
    IN  IF n.hash # NoHash /\ Equivalent(n, entries[p])
        THEN [hash EXCEPT ![p] = n.hash]
        ELSE SetDirty(hash, p)

\* The digests that refresh finds for the sorted list of the entries, after
\* each turn of the walk.  A symlink has none.
Refreshing(list, entries, index) ==
    LET at == Walk(list, PathsOf(index))
        hash[s \in DOMAIN at] ==
            IF s = 0 THEN [p \in DOMAIN entries |-> NoHash]
            ELSE IF Match(list, PathsOf(index), at[s - 1])
                 THEN Reuse(list, entries, index, hash[s - 1], at[s - 1])
            ELSE hash[s - 1]
    IN  hash
Refreshed(list, entries, index) == Refreshing(list, entries, index)[Len(list) + Len(index)]

\* index::refresh, and the jobs of add for the files it lists.
Refresh ==
    /\ pc = "scan" /\ todo = {} /\ cmd = "write"
    /\ LET list == Sorted(DOMAIN scan)
           hash == Refreshed(list, scan, nodes)
       IN  nodes' = [k \in DOMAIN list |-> Node(list[k], scan[list[k]], hash[list[k]])]
    /\ todo' = {p \in DOMAIN scan : scan[p].type = "file"}
    /\ pc' = "add"
    /\ UNCHANGED <<userVars, saved, cacheVars, cmd, scan, root, exn, i, j, bounds>>

Position(p) == CHOOSE k \in DOMAIN nodes : nodes[k].path = p

Readable(p) == p \in DOMAIN ws /\ ws[p].type = "file"

\* There is the entry e at p.
Put(disk, p, e) == [q \in DOMAIN disk \cup {p} |-> IF q = p THEN e ELSE disk[q]]

\* The job of a file, first half: one without a digest is hashed, and a file
\* that cannot be read fails the job.  One that a symlink has replaced counts
\* as such, although the code reads what the symlink leads to.
HashFile(p) ==
    /\ pc = "add" /\ p \in todo
    /\ nodes[Position(p)].hash = NoHash
    /\ IF Readable(p)
       THEN /\ nodes' = [nodes EXCEPT ![Position(p)].hash = FileHash(ws[p].data)]
            /\ UNCHANGED <<todo, exn>>
       ELSE exn' = TRUE /\ todo' = todo \ {p} /\ UNCHANGED nodes
    /\ UNCHANGED <<userVars, saved, cacheVars, cmd, pc, scan, root, i, j, bounds>>

\* create_file: the file is copied as it is now, whatever was hashed.
CopyFile(hash, data) ==
    /\ store' = store \cup {hash}
    /\ IF hash = FileHash(data) THEN UNCHANGED <<held, mixed>>
       ELSE held' = Put(held, hash, data) /\ mixed' = mixed \cup {hash}

\* The second half: what the cache lacks is copied.  The digest is the one just
\* made, or the one that refresh has kept, of a file that may have been written
\* since.
AddFile(p) ==
    /\ pc = "add" /\ p \in todo
    /\ todo' = todo \ {p}
    /\ LET hash == nodes[Position(p)].hash IN
       /\ hash # NoHash
       /\ \/ hash \in store /\ UNCHANGED <<store, held, mixed, exn>>
          \/ hash \notin store /\ Readable(p) /\ CopyFile(hash, ws[p].data) /\ UNCHANGED exn
          \/ hash \notin store /\ ~Readable(p) /\ exn' = TRUE /\ UNCHANGED <<store, held, mixed>>
    /\ UNCHANGED <<userVars, saved, known, cmd, pc, scan, nodes, root, i, j, bounds>>

\* Mutant: a tree that is missing from the cache is not written again.
DirtyOnly(k) == nodes[k].type = "dir" /\ nodes[k].hash = NoHash

\* dirty_dirs
DirtyDir(k) == nodes[k].type = "dir" /\ (nodes[k].hash = NoHash \/ nodes[k].hash \notin store)

\* When the jobs are over.  That a directory is dirty is known before.
EndAdd ==
    /\ pc = "add" /\ todo = {}
    /\ IF exn THEN Fail
       ELSE /\ todo' = {nodes[k].path : k \in {k \in DOMAIN nodes : DirtyDir(k)}}
            /\ pc' = "trees"
            /\ UNCHANGED <<quiet, cmd, scan, nodes, root, exn, i, j>>
    /\ UNCHANGED <<ws, ignored, clock, saved, cacheVars, bounds>>

\* The directories from the last to the first.
WriteDirectory(p) ==
    /\ pc = "trees" /\ p \in todo
    /\ \A q \in todo : Rank[q] <= Rank[p]
    /\ todo' = todo \ {p}
    /\ nodes' = Written(nodes, Position(p))
    /\ store' = store \cup {nodes'[Position(p)].hash}
    /\ UNCHANGED <<userVars, saved, held, mixed, known, cmd, pc, scan, root, exn, i, j, bounds>>

WriteRoot ==
    /\ pc = "trees" /\ todo = {}
    /\ root' = TreeHash({Line(n) : n \in ChildrenOf(nodes, Root)})
    /\ store' = store \cup {root'}
    /\ pc' = "save"
    /\ UNCHANGED <<userVars, saved, held, mixed, known, cmd, scan, todo, nodes, exn, i, j, bounds>>

\* Mutant: the times are read when the index is saved.
SaveLate ==
    /\ pc = "save"
    /\ saved' = [k \in DOMAIN nodes |->
                    LET n == nodes[k] IN
                    IF n.path \in DOMAIN ws THEN [n EXCEPT !.time = ws[n.path].time] ELSE n]
    /\ known' = known \cup {root}
    /\ pc' = "returned"
    /\ Forget
    /\ UNCHANGED <<userVars, store, held, mixed, cmd, root, bounds>>

\* index::save, and the digest is printed.
Save ==
    /\ pc = "save"
    /\ saved' = nodes
    /\ known' = known \cup {root}
    /\ pc' = "returned"
    /\ Forget
    /\ UNCHANGED <<userVars, store, held, mixed, cmd, root, bounds>>

-----------------------------------------------------------------------------
(* The environment. *)

\* The process ends before it saves the index.
Kill ==
    /\ pc \notin Idle
    /\ Fail
    /\ "kill" \in Faults
    /\ UNCHANGED <<ws, ignored, clock, saved, cacheVars, bounds>>

\* The directory d of disk has other entries than before.
Touched(disk, d, time) == IF d \in DOMAIN disk THEN [disk EXCEPT ![d].time = time] ELSE disk

\* The user edits the workspace.  What a command has returned is of the past.
Edited(disk) ==
    /\ events < MaxEvents
    /\ ws' = disk
    /\ clock' = clock + 1
    /\ events' = events + 1
    /\ IF pc \in Idle THEN Fail
       ELSE quiet' = FALSE /\ UNCHANGED <<cmd, pc, scan, todo, nodes, root, exn, i, j>>
    /\ UNCHANGED <<ignored, saved, cacheVars, runs>>

\* A file is written in place.
WriteFile(p) ==
    \E s \in Shapes[p] :
        /\ p \in DOMAIN ws /\ ws[p].type = "file" /\ s.type = "file"
        /\ s.data # ws[p].data
        /\ Edited([ws EXCEPT ![p].data = s.data, ![p].time = clock + 1])

\* Its permissions change, and not its time.
Chmod(p) ==
    \E s \in Shapes[p] :
        /\ p \in DOMAIN ws /\ ws[p].type = s.type
        /\ s.mode # ws[p].mode
        /\ Edited([ws EXCEPT ![p].mode = s.mode])

\* During a checkout nobody creates or deletes entries.
Create(p) ==
    \E s \in Shapes[p] :
        /\ pc \in Idle \/ cmd = "write"
        /\ p \notin DOMAIN ws
        /\ Parent[p] = Root \/ (Parent[p] \in DOMAIN ws /\ ws[Parent[p]].type = "dir")
        /\ LET entry == [type |-> s.type, data |-> s.data, mode |-> s.mode, time |-> clock + 1]
           IN  Edited(Touched(Put(ws, p, entry), Parent[p], clock + 1))

Delete(p) ==
    /\ pc \in Idle \/ cmd = "write"
    /\ p \in DOMAIN ws
    /\ \A q \in DOMAIN ws : Parent[q] # p
    /\ Edited(Touched([q \in DOMAIN ws \ {p} |-> ws[q]], Parent[p], clock + 1))

\* An eviction removes what no command has used within the retention period.
Evict ==
    /\ "evict" \in Faults
    /\ pc \in Idle \/ cmd = "checkout"
    /\ events < MaxEvents
    /\ \E h \in store :
          /\ store' = store \ {h}
          /\ held' = [g \in DOMAIN held \ {h} |-> held[g]]
    /\ events' = events + 1
    /\ UNCHANGED <<userVars, saved, mixed, known, cmd, pc, scan, todo, nodes, root, exn, i, j, runs>>

Environment ==
    \/ Kill
    \/ \E p \in DOMAIN Shapes : WriteFile(p) \/ Chmod(p) \/ Create(p) \/ Delete(p)
    \/ Evict

WriteStep ==
    \/ StartWrite
    \/ \E d \in Paths \cup {Root} : ReadDirectory(d)
    \/ Refresh
    \/ \E p \in Paths : HashFile(p) \/ AddFile(p)
    \/ EndAdd
    \/ \E p \in Paths : WriteDirectory(p)
    \/ WriteRoot
    \/ Save
=============================================================================
