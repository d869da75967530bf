----------------------------- MODULE ObjectCache -----------------------------
(***************************************************************************)
(* The directory of objects that all fstree processes of a user share      *)
(* (src/src/cache.cpp): jobs of cache::add store files under their digest, *)
(* create_dirtree stores trees, pull_object and pull_tree download either, *)
(* and evict_subdir removes what was not used within the retention period. *)
(* One subdirectory of objects is modelled; the others share only the lock.*)
(*                                                                         *)
(* A digest stands for the content it is the digest of.  The job of a      *)
(* thread is over within the retention period.                             *)
(***************************************************************************)
EXTENDS Naturals, FiniteSets

CONSTANTS
    Procs, Threads,     \* processes, and the threads of their pools
    ProcOf,             \* the process of each thread
    Does,               \* what each thread is used for
    Paths,              \* files of the workspace
    Files, Trees,       \* digests
    Limit,              \* _max_size_slice, in objects
    Faults,             \* what may go wrong: "copy", "crash", "edit", "download"
    Watched,            \* the kinds of jobs whose claims are looked at
    NoProc, NoHash, NoPath

Objects == Files \cup Trees
Kinds == {"add", "tree", "pull", "evict"}

\* What the file of an object may hold instead of its content.
Holes == {"absent", "partial", "torn", "other"}

ASSUME CacheAssumption ==
    /\ ProcOf \in [Threads -> Procs] /\ NoProc \notin Procs
    /\ Does \in [Threads -> SUBSET Kinds]
    /\ NoPath \notin Paths
    /\ IsFiniteSet(Objects) /\ Files \cap Trees = {} /\ NoHash \notin Objects
    /\ Objects \cap Holes = {}
    /\ Limit \in Nat \ {0}
    /\ Faults \subseteq {"copy", "crash", "edit", "download"}
    /\ Watched \subseteq Kinds

VARIABLES
    work,               \* the content of each file of the workspace
    disk,               \* what the file of each object holds
    recent,             \* the objects whose mtime is within the retention period
    owner,              \* the process that holds the flock
    pc, job,            \* what each thread does next, and in which operation
    path, hash,         \* the file its job adds, the digest it works on
    linked,             \* the threads whose open file still has the object's name
    listing, size,      \* of evict_subdir: the entries to visit, their size
    claims              \* the objects that watched jobs have said are in the cache

locals == <<path, hash, linked, listing, size>>
vars == <<work, disk, recent, owner, pc, job, locals, claims>>

Labels == {"idle", "lock", "has", "create", "copy", "unlock", "abort",
           "probe", "exists", "download", "rename",
           "next", "elock", "lstat", "remove", "eunlock"}

TypeOK ==
    /\ work \in [Paths -> Files]
    /\ disk \in [Objects -> Objects \cup Holes]
    /\ recent \subseteq Objects
    /\ owner \in Procs \cup {NoProc}
    /\ pc \in [Threads -> Labels]
    /\ job \in [Threads -> Kinds \cup {"none"}]
    /\ path \in [Threads -> Paths \cup {NoPath}]
    /\ hash \in [Threads -> Objects \cup {NoHash}]
    /\ linked \subseteq Threads
    /\ listing \in [Threads -> SUBSET Objects]
    /\ size \in [Threads -> 0..Cardinality(Objects)]
    /\ claims \subseteq Objects

Present == {h \in Objects : disk[h] # "absent"}

-----------------------------------------------------------------------------

\* The cache is empty at first.
Init ==
    /\ work \in [Paths -> Files]
    /\ disk = [h \in Objects |-> "absent"]
    /\ recent = {}
    /\ owner = NoProc
    /\ pc = [t \in Threads |-> "idle"]
    /\ job = [t \in Threads |-> "none"]
    /\ path = [t \in Threads |-> NoPath]
    /\ hash = [t \in Threads |-> NoHash]
    /\ linked = {}
    /\ listing = [t \in Threads |-> {}]
    /\ size = [t \in Threads |-> 0]
    /\ claims = {}

Goto(t, from, to) == pc[t] = from /\ pc' = [pc EXCEPT ![t] = to]

\* The thread takes a job of kind k on the object h.
Take(t, k, h, label) ==
    /\ Goto(t, "idle", label)
    /\ k \in Does[t]
    /\ job' = [job EXCEPT ![t] = k]
    /\ hash' = [hash EXCEPT ![t] = h]

\* The job is over: what it was about is forgotten.
Forget(t) ==
    /\ job' = [job EXCEPT ![t] = "none"]
    /\ path' = [path EXCEPT ![t] = NoPath]
    /\ hash' = [hash EXCEPT ![t] = NoHash]
    /\ linked' = linked \ {t}
    /\ listing' = [listing EXCEPT ![t] = {}]
    /\ size' = [size EXCEPT ![t] = 0]

\* It says that its object is in the cache.
Claim(t) == claims' = IF job[t] \in Watched THEN claims \cup {hash[t]} ELSE claims

\* fstree::touch, which opens the file and sets its mtime.
Touch(h) == recent' = recent \cup (Present \cap {h})

\* The name h is taken from the files that are open for writing.
Unlink(h) == linked' = {u \in linked : hash[u] # h}

-----------------------------------------------------------------------------
(* lock_file.                                                              *)

\* flock(LOCK_EX): the lock belongs to the file that the process has opened,
\* so that a process which has it does not wait for its own threads.
Lock(t, from, to) ==
    /\ Goto(t, from, to)
    /\ owner \in {NoProc, ProcOf[t]}
    /\ owner' = ProcOf[t]

\* flock(LOCK_UN), by any thread of the process.
Release(t) == owner' = IF owner = ProcOf[t] THEN NoProc ELSE owner

-----------------------------------------------------------------------------
(* The job of cache::add for a file.                                       *)

\* The digest is that of the file when it was hashed.
BeginAdd(t, p) ==
    /\ Take(t, "add", work[p], "lock")
    /\ path' = [path EXCEPT ![t] = p]
    /\ UNCHANGED <<work, disk, recent, owner, linked, listing, size, claims>>

\* Mutant: the lock is not taken.
AddWithoutLock(t) ==
    /\ Goto(t, "lock", "has")
    /\ UNCHANGED <<work, disk, recent, owner, job, locals, claims>>

LockAdd(t) ==
    /\ Lock(t, "lock", "has")
    /\ UNCHANGED <<work, disk, recent, job, locals, claims>>

\* Mutant: the lock is held for the lookup only.
HasObjectReleases(t) ==
    /\ Goto(t, "has", IF hash[t] \in Present THEN "unlock" ELSE "create")
    /\ Touch(hash[t])
    /\ Release(t)
    /\ UNCHANGED <<work, disk, job, locals, claims>>

HasObject(t) ==
    /\ Goto(t, "has", IF hash[t] \in Present THEN "unlock" ELSE "create")
    /\ Touch(hash[t])
    /\ UNCHANGED <<work, disk, owner, job, locals, claims>>

\* create_file opens the object.  If somebody has created it since, it is
\* left alone, unless the file of the workspace has been written later.
CreateFile(t) ==
    \/ /\ Goto(t, "create", "copy")
       /\ hash[t] \in Present => "edit" \in Faults
       /\ disk' = [disk EXCEPT ![hash[t]] = "partial"]
       /\ recent' = recent \cup {hash[t]}
       /\ linked' = linked \cup {t}
       /\ UNCHANGED <<work, owner, job, path, hash, listing, size, claims>>
    \/ /\ Goto(t, "create", "unlock")
       /\ hash[t] \in Present
       /\ UNCHANGED <<work, disk, recent, owner, job, locals, claims>>

\* What a complete copy of the file, as it is now, leaves in the object.
Copied(t) == IF work[path[t]] = hash[t] THEN hash[t] ELSE "other"

CopyFile(t) ==
    /\ Goto(t, "copy", "unlock")
    /\ IF t \in linked
       THEN /\ disk' = [disk EXCEPT ![hash[t]] = Copied(t)]
            /\ recent' = recent \cup {hash[t]}
       ELSE UNCHANGED <<disk, recent>>
    /\ UNCHANGED <<work, owner, job, locals, claims>>

\* The file cannot be opened or read, or the disk is full: create_file throws
\* and leaves what it has written.
CopyFails(t) ==
    /\ "copy" \in Faults
    /\ \/ Goto(t, "create", "abort") /\ UNCHANGED disk
       \/ /\ Goto(t, "copy", "abort")
          /\ disk' = IF t \in linked THEN [disk EXCEPT ![hash[t]] = "torn"] ELSE disk
    /\ UNCHANGED <<work, recent, owner, job, locals, claims>>

FinishAdd(t) ==
    /\ Goto(t, "unlock", "idle")
    /\ Release(t)
    /\ Claim(t)
    /\ Forget(t)
    /\ UNCHANGED <<work, disk, recent>>

\* The destructor of the lock's context, when create_file has thrown.
AbortAdd(t) ==
    /\ Goto(t, "abort", "idle")
    /\ Release(t)
    /\ Forget(t)
    /\ UNCHANGED <<work, disk, recent, claims>>

-----------------------------------------------------------------------------
(* Trees of cache::add, and pulls: neither takes the lock.                 *)

\* A directory that is not dirty is looked up first; the others and the root
\* are written at once.
BeginTree(t, h) ==
    /\ \E label \in {"probe", "exists"} : Take(t, "tree", h, label)
    /\ UNCHANGED <<work, disk, recent, owner, path, linked, listing, size, claims>>

BeginPull(t, h) ==
    /\ Take(t, "pull", h, "probe")
    /\ UNCHANGED <<work, disk, recent, owner, path, linked, listing, size, claims>>

\* has_tree or has_object: when it is there, nothing else is done.
Probe(t) ==
    /\ Touch(hash[t])
    /\ IF hash[t] \in Present
       THEN Goto(t, "probe", "idle") /\ Claim(t) /\ Forget(t)
       ELSE /\ Goto(t, "probe", IF job[t] = "tree" THEN "exists" ELSE "download")
            /\ UNCHANGED <<job, locals, claims>>
    /\ UNCHANGED <<work, disk, owner>>

\* create_dirtree has written a temporary file and hashed it.  If the tree
\* exists, the temporary file is removed, and the tree is not touched.
TreeExists(t) ==
    /\ IF hash[t] \in Present
       THEN Goto(t, "exists", "idle") /\ Claim(t) /\ Forget(t)
       ELSE Goto(t, "exists", "rename") /\ UNCHANGED <<job, locals, claims>>
    /\ UNCHANGED <<work, disk, recent, owner>>

\* read_object has written a temporary file, or throws and has removed it.
Download(t) ==
    /\ \/ Goto(t, "download", "rename") /\ UNCHANGED <<job, locals>>
       \/ "download" \in Faults /\ Goto(t, "download", "idle") /\ Forget(t)
    /\ UNCHANGED <<work, disk, recent, owner, claims>>

\* Mutant: the tree is written under its name.
WriteInPlace(t) ==
    /\ Goto(t, "rename", "idle")
    /\ disk' = [disk EXCEPT ![hash[t]] = "partial"]
    /\ recent' = recent \cup {hash[t]}
    /\ Claim(t)
    /\ Forget(t)
    /\ UNCHANGED <<work, owner>>

\* The temporary file becomes the object, in place of what had its name.
Rename(t) ==
    /\ Goto(t, "rename", "idle")
    /\ disk' = [disk EXCEPT ![hash[t]] = hash[t]]
    /\ recent' = recent \cup {hash[t]}
    /\ Claim(t)
    /\ job' = [job EXCEPT ![t] = "none"]
    /\ hash' = [hash EXCEPT ![t] = NoHash]
    /\ Unlink(hash[t])
    /\ UNCHANGED <<work, owner, path, listing, size>>

-----------------------------------------------------------------------------
(* cache::evict_subdir.                                                    *)

\* The objects are listed; their order is that of their times, which is any.
BeginEvict(t) ==
    /\ Goto(t, "idle", "next")
    /\ "evict" \in Does[t]
    /\ job' = [job EXCEPT ![t] = "evict"]
    /\ listing' = [listing EXCEPT ![t] = Present]
    /\ size' = [size EXCEPT ![t] = Cardinality(Present)]
    /\ UNCHANGED <<work, disk, recent, owner, path, hash, linked, claims>>

EvictNext(t) ==
    /\ size[t] >= Limit
    /\ Goto(t, "next", "elock")
    /\ \E h \in listing[t] :
        /\ hash' = [hash EXCEPT ![t] = h]
        /\ listing' = [listing EXCEPT ![t] = @ \ {h}]
    /\ UNCHANGED <<work, disk, recent, owner, job, path, linked, size, claims>>

EvictDone(t) ==
    /\ size[t] < Limit \/ listing[t] = {}
    /\ Goto(t, "next", "idle")
    /\ Forget(t)
    /\ UNCHANGED <<work, disk, recent, owner, claims>>

LockEvict(t) ==
    /\ Lock(t, "elock", "lstat")
    /\ UNCHANGED <<work, disk, recent, job, locals, claims>>

\* What has been removed or used since is left alone.
Lstat(t) ==
    /\ Goto(t, "lstat", IF hash[t] \in Present \ recent THEN "remove" ELSE "eunlock")
    /\ UNCHANGED <<work, disk, recent, owner, job, locals, claims>>

\* Mutant: the size is not updated.
RemoveUncounted(t) ==
    /\ Goto(t, "remove", "eunlock")
    /\ disk' = [disk EXCEPT ![hash[t]] = "absent"]
    /\ Unlink(hash[t])
    /\ UNCHANGED <<work, recent, owner, job, path, hash, listing, size, claims>>

\* Mutant: the size grows.
RemoveAdds(t) ==
    /\ Goto(t, "remove", "eunlock")
    /\ disk' = [disk EXCEPT ![hash[t]] = "absent"]
    /\ Unlink(hash[t])
    /\ size' = [size EXCEPT ![t] = @ + 1]
    /\ UNCHANGED <<work, recent, owner, job, path, hash, listing, claims>>

\* An object that is gone by then is no error, and counts as removed.
Remove(t) ==
    /\ Goto(t, "remove", "eunlock")
    /\ disk' = [disk EXCEPT ![hash[t]] = "absent"]
    /\ Unlink(hash[t])
    /\ size' = [size EXCEPT ![t] = @ - 1]
    /\ UNCHANGED <<work, recent, owner, job, path, hash, listing, claims>>

\* The lock's context is destroyed at the end of each round of the loop.
UnlockEvict(t) ==
    /\ Goto(t, "eunlock", "next")
    /\ Release(t)
    /\ hash' = [hash EXCEPT ![t] = NoHash]
    /\ UNCHANGED <<work, disk, recent, job, path, linked, listing, size, claims>>

-----------------------------------------------------------------------------
(* The environment.                                                        *)

\* The file p is written; while a job adds it only if "edit" may happen.
Edit(p, c) ==
    /\ work[p] # c
    /\ "edit" \in Faults \/ \A t \in Threads : path[t] # p
    /\ work' = [work EXCEPT ![p] = c]
    /\ UNCHANGED <<disk, recent, owner, pc, job, locals, claims>>

\* The retention period of h ends: no job has used it for that long.
Age(h) ==
    /\ h \in recent
    /\ \A t \in Threads : hash[t] = h => job[t] = "evict"
    /\ recent' = recent \ {h}
    /\ claims' = claims \ {h}
    /\ UNCHANGED <<work, disk, owner, pc, job, locals>>

\* The process p is killed.  The kernel closes its files, which unlocks them.
Crash(p) ==
    /\ "crash" \in Faults
    /\ LET dead == {t \in Threads : ProcOf[t] = p}
           cut == {t \in dead \cap linked : pc[t] = "copy"}
           Keep(f, none) == [t \in Threads |-> IF t \in dead THEN none ELSE f[t]]
       IN  /\ \E t \in dead : pc[t] # "idle"
           /\ disk' = [h \in Objects |-> IF \E t \in cut : hash[t] = h THEN "torn" ELSE disk[h]]
           /\ pc' = Keep(pc, "idle")
           /\ job' = Keep(job, "none")
           /\ path' = Keep(path, NoPath)
           /\ hash' = Keep(hash, NoHash)
           /\ linked' = linked \ dead
           /\ listing' = Keep(listing, {})
           /\ size' = Keep(size, 0)
    /\ owner' = IF owner = p THEN NoProc ELSE owner
    /\ UNCHANGED <<work, recent, claims>>

-----------------------------------------------------------------------------

Begin(t) ==
    \/ \E p \in Paths : BeginAdd(t, p)
    \/ \E h \in Trees : BeginTree(t, h)
    \/ \E h \in Objects : BeginPull(t, h)
    \/ BeginEvict(t)

AddStep(t) ==
    \/ LockAdd(t)
    \/ HasObject(t)
    \/ CreateFile(t)
    \/ CopyFile(t)
    \/ CopyFails(t)
    \/ FinishAdd(t)
    \/ AbortAdd(t)

PullStep(t) ==
    \/ Probe(t)
    \/ TreeExists(t)
    \/ Download(t)
    \/ Rename(t)

EvictStep(t) ==
    \/ EvictNext(t)
    \/ EvictDone(t)
    \/ LockEvict(t)
    \/ Lstat(t)
    \/ Remove(t)
    \/ UnlockEvict(t)

Next ==
    \/ \E t \in Threads : Begin(t) \/ AddStep(t) \/ PullStep(t) \/ EvictStep(t)
    \/ \E p \in Paths, c \in Files : Edit(p, c)
    \/ \E h \in Objects : Age(h)
    \/ \E p \in Procs : Crash(p)

Spec == Init /\ [][Next]_vars

-----------------------------------------------------------------------------

\* What a job said is in the cache stays there until it was not used for a
\* retention period, whatever others evict, pull and add meanwhile.  This is
\* so of the files of cache::add in processes of one thread.
ClaimedIsPresent == claims \subseteq Present

\* And it is the content that was hashed, unless a copy was cut short.
ClaimedIsComplete == \A h \in claims : disk[h] \in {h, "torn"}

\* A tree, which is renamed into place, is never seen in part.
TreesAreWhole == \A h \in Trees : disk[h] \in {h, "absent"}

\* When one process evicts, it removes nothing that is not in excess of the
\* limit, although it counts what it saw when it began.
EvictsExcessOnly ==
    [][\A h \in Objects : disk[h] # "absent" /\ disk'[h] = "absent" =>
            Cardinality(Present) >= Limit]_vars

\* What the lock is for: nobody else is between lock and unlock.
Critical == {"has", "create", "copy", "unlock", "abort", "lstat", "remove", "eunlock"}
LockExcludes == \A t, u \in Threads : pc[t] \in Critical /\ pc[u] \in Critical => t = u

\* What was said to be in the cache is whole.
ClaimedIsWhole == \A h \in claims : disk[h] = h
=============================================================================
