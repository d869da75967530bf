-------------------------- MODULE ObjectCacheProofs --------------------------
(***************************************************************************)
(* Proofs about the object cache for any number of processes, objects and  *)
(* files.  Trees are never seen in part.  When each process has one thread *)
(* and only the claims of cache::add are watched, what was claimed is not  *)
(* evicted within its retention period, and is complete unless a copy was  *)
(* cut short.  When one thread evicts, it removes only what is in excess.  *)
(***************************************************************************)
EXTENDS ObjectCache, FiniteSetTheorems, TLAPS

\* flock excludes threads only when they are of different processes.
OneThread == \A t, u \in Threads : ProcOf[t] = ProcOf[u] => t = u

AddLabels == {"lock", "has", "create", "copy", "unlock", "abort"}
PullLabels == {"probe", "exists", "download", "rename"}
EvictLabels == {"elock", "lstat", "remove", "eunlock"}

\* The types that the arguments below need.
Typed ==
    /\ work \in [Paths -> Files]
    /\ disk \in [Objects -> Objects \cup Holes]
    /\ recent \subseteq Objects
    /\ pc \in [Threads -> Labels]
    /\ job \in [Threads -> Kinds \cup {"none"}]
    /\ path \in [Threads -> Paths \cup {NoPath}]
    /\ hash \in [Threads -> Objects \cup {NoHash}]
    /\ listing \in [Threads -> SUBSET Objects]
    /\ claims \subseteq Objects

\* What the place of a thread says of its job.
JobInv ==
    \A t \in Threads :
        /\ pc[t] \in AddLabels => job[t] = "add" /\ hash[t] \in Files /\ path[t] \in Paths
        /\ pc[t] \in PullLabels => job[t] \in {"tree", "pull"} /\ hash[t] \in Objects
        /\ pc[t] \in EvictLabels => job[t] = "evict" /\ hash[t] \in Objects
        /\ pc[t] = "next" => job[t] = "evict" /\ hash[t] = NoHash
        /\ pc[t] = "idle" => hash[t] = NoHash

BaseInv == Typed /\ JobInv

\* It holds at first.
LEMMA BaseInit == Init => BaseInv
<1> SUFFICES ASSUME Init PROVE BaseInv
    OBVIOUS
<1>1. Typed
    <2>1. pc \in [Threads -> Labels]
        BY DEF Init, Labels
    <2>2. job \in [Threads -> Kinds \cup {"none"}]
        BY DEF Init
    <2>3. disk \in [Objects -> Objects \cup Holes]
        BY DEF Init, Holes
    <2>4. path \in [Threads -> Paths \cup {NoPath}] /\ hash \in [Threads -> Objects \cup {NoHash}]
        BY DEF Init
    <2>5. listing \in [Threads -> SUBSET Objects]
        BY DEF Init
    <2>6. work \in [Paths -> Files] /\ recent \subseteq Objects /\ claims \subseteq Objects
        BY DEF Init
    <2> QED
        BY <2>1, <2>2, <2>3, <2>4, <2>5, <2>6 DEF Typed
<1>2. JobInv
    BY DEF Init, JobInv, AddLabels, PullLabels, EvictLabels
<1> QED
    BY <1>1, <1>2 DEF BaseInv

\* Every step of a thread keeps the types.
LEMMA TypedStep ==
    ASSUME BaseInv, [Next]_vars PROVE Typed'
<1> USE DEF BaseInv, Typed, locals, Goto, Labels
<1>1. ASSUME NEW t \in Threads, NEW p \in Paths, BeginAdd(t, p) PROVE Typed'
    BY <1>1 DEF BeginAdd, Take, Kinds, Objects
<1>2. ASSUME NEW t \in Threads, NEW h \in Objects, BeginTree(t, h) \/ BeginPull(t, h) PROVE Typed'
    BY <1>2 DEF BeginTree, BeginPull, Take, Kinds
<1>3. ASSUME NEW t \in Threads, BeginEvict(t) PROVE Typed'
    BY <1>3 DEF BeginEvict, Kinds, Present
<1>4. ASSUME NEW t \in Threads, AddStep(t) PROVE Typed'
    <2>0. pc[t] \in AddLabels => hash[t] \in Objects /\ path[t] \in Paths
        BY DEF JobInv, Objects
    <2>1. CASE LockAdd(t)
        BY <2>1 DEF LockAdd, Lock
    <2>2. CASE HasObject(t)
        BY <2>2 DEF HasObject, Touch, Present
    <2>3. CASE CreateFile(t)
        BY <2>0, <2>3 DEF CreateFile, Holes, AddLabels
    <2>4. CASE CopyFile(t)
        <3>1. hash[t] \in Objects /\ path[t] \in Paths /\ Copied(t) \in Objects \cup Holes
            BY <2>0, <2>4 DEF CopyFile, AddLabels, Copied, Holes
        <3> QED
            BY <2>4, <3>1 DEF CopyFile
    <2>5. CASE CopyFails(t)
        BY <2>0, <2>5 DEF CopyFails, Holes, AddLabels
    <2>6. CASE FinishAdd(t)
        <3>1. hash[t] \in Objects
            BY <2>0, <2>6 DEF FinishAdd, AddLabels
        <3> QED
            BY <2>6, <3>1 DEF FinishAdd, Claim, Forget
    <2>7. CASE AbortAdd(t)
        BY <2>7 DEF AbortAdd, Forget
    <2> QED
        BY <1>4, <2>1, <2>2, <2>3, <2>4, <2>5, <2>6, <2>7 DEF AddStep
<1>5. ASSUME NEW t \in Threads, PullStep(t) PROVE Typed'
    <2>0. pc[t] \in PullLabels => hash[t] \in Objects
        BY DEF JobInv
    <2>1. CASE Probe(t)
        <3>1. hash[t] \in Objects
            BY <2>0, <2>1 DEF Probe, PullLabels
        <3> QED
            BY <2>1, <3>1 DEF Probe, Claim, Forget, Touch, Present
    <2>2. CASE TreeExists(t)
        <3>1. hash[t] \in Objects
            BY <2>0, <2>2 DEF TreeExists, PullLabels
        <3> QED
            BY <2>2, <3>1 DEF TreeExists, Claim, Forget
    <2>3. CASE Download(t)
        BY <2>3 DEF Download, Forget
    <2>4. CASE Rename(t)
        <3>1. hash[t] \in Objects
            BY <2>0, <2>4 DEF Rename, PullLabels
        <3> QED
            BY <2>4, <3>1 DEF Rename, Claim
    <2> QED
        BY <1>5, <2>1, <2>2, <2>3, <2>4 DEF PullStep
<1>6. ASSUME NEW t \in Threads, EvictStep(t) PROVE Typed'
    <2>1. CASE EvictNext(t)
        BY <2>1 DEF EvictNext
    <2>2. CASE EvictDone(t)
        BY <2>2 DEF EvictDone, Forget
    <2>3. CASE LockEvict(t)
        BY <2>3 DEF LockEvict, Lock
    <2>4. CASE Lstat(t)
        BY <2>4 DEF Lstat
    <2>5. CASE Remove(t)
        BY <2>5 DEF Remove, Holes
    <2>6. CASE UnlockEvict(t)
        BY <2>6 DEF UnlockEvict
    <2> QED
        BY <1>6, <2>1, <2>2, <2>3, <2>4, <2>5, <2>6 DEF EvictStep
<1>7. ASSUME NEW p \in Paths, NEW c \in Files, Edit(p, c) PROVE Typed'
    BY <1>7 DEF Edit
<1>8. ASSUME NEW h \in Objects, Age(h) PROVE Typed'
    BY <1>8 DEF Age
<1>9. ASSUME NEW p \in Procs, Crash(p) PROVE Typed'
    BY <1>9 DEF Crash, Holes
<1>10. CASE UNCHANGED vars
    BY <1>10 DEF vars
<1> QED
    BY <1>1, <1>2, <1>3, <1>4, <1>5, <1>6, <1>7, <1>8, <1>9, <1>10 DEF Next, Begin, Objects

\* Every step keeps what is said of the jobs.
LEMMA JobStep ==
    ASSUME BaseInv, [Next]_vars PROVE JobInv'
<1> USE DEF BaseInv, Typed, JobInv, locals, Goto, Labels, AddLabels, PullLabels, EvictLabels
<1>1. ASSUME NEW t \in Threads, NEW p \in Paths, BeginAdd(t, p) PROVE JobInv'
    BY <1>1 DEF BeginAdd, Take
<1>2. ASSUME NEW t \in Threads, NEW h \in Objects, BeginTree(t, h) \/ BeginPull(t, h) PROVE JobInv'
    BY <1>2 DEF BeginTree, BeginPull, Take
<1>3. ASSUME NEW t \in Threads, BeginEvict(t) PROVE JobInv'
    BY <1>3 DEF BeginEvict
<1>4. ASSUME NEW t \in Threads, AddStep(t) PROVE JobInv'
    <2>1. CASE LockAdd(t) \/ HasObject(t) \/ CreateFile(t)
        BY <2>1 DEF LockAdd, Lock, HasObject, CreateFile
    <2>2. CASE CopyFile(t) \/ CopyFails(t)
        BY <2>2 DEF CopyFile, CopyFails
    <2>3. CASE FinishAdd(t) \/ AbortAdd(t)
        BY <2>3 DEF FinishAdd, AbortAdd, Forget
    <2> QED
        BY <1>4, <2>1, <2>2, <2>3 DEF AddStep
<1>5. ASSUME NEW t \in Threads, PullStep(t) PROVE JobInv'
    <2>1. CASE Probe(t)
        BY <2>1 DEF Probe, Forget
    <2>2. CASE TreeExists(t)
        BY <2>2 DEF TreeExists, Forget
    <2>3. CASE Download(t)
        BY <2>3 DEF Download, Forget
    <2>4. CASE Rename(t)
        BY <2>4 DEF Rename
    <2> QED
        BY <1>5, <2>1, <2>2, <2>3, <2>4 DEF PullStep
<1>6. ASSUME NEW t \in Threads, EvictStep(t) PROVE JobInv'
    <2>1. CASE EvictNext(t)
        BY <2>1 DEF EvictNext
    <2>2. CASE EvictDone(t)
        BY <2>2 DEF EvictDone, Forget
    <2>3. CASE LockEvict(t) \/ Lstat(t) \/ Remove(t)
        BY <2>3 DEF LockEvict, Lock, Lstat, Remove
    <2>4. CASE UnlockEvict(t)
        BY <2>4 DEF UnlockEvict
    <2> QED
        BY <1>6, <2>1, <2>2, <2>3, <2>4 DEF EvictStep
<1>7. ASSUME NEW p \in Paths, NEW c \in Files, Edit(p, c) PROVE JobInv'
    BY <1>7 DEF Edit
<1>8. ASSUME NEW h \in Objects, Age(h) PROVE JobInv'
    BY <1>8 DEF Age
<1>9. ASSUME NEW p \in Procs, Crash(p) PROVE JobInv'
    BY <1>9 DEF Crash
<1>10. CASE UNCHANGED vars
    BY <1>10 DEF vars
<1> QED
    BY <1>1, <1>2, <1>3, <1>4, <1>5, <1>6, <1>7, <1>8, <1>9, <1>10 DEF Next, Begin, Objects

\* Types and places hold of every reachable state.
LEMMA BaseStep ==
    ASSUME BaseInv, [Next]_vars PROVE BaseInv'
BY TypedStep, JobStep DEF BaseInv

\* The steps that change what the files of objects hold.
LEMMA DiskStep ==
    ASSUME BaseInv, [Next]_vars
    PROVE  \/ UNCHANGED disk
           \/ \E t \in Threads : CreateFile(t) \/ CopyFile(t) \/ CopyFails(t) \/ Rename(t) \/ Remove(t)
           \/ \E p \in Procs : Crash(p)
BY DEF Next, Begin, AddStep, PullStep, EvictStep, vars, BeginAdd, BeginTree, BeginPull, BeginEvict,
       LockAdd, HasObject, FinishAdd, AbortAdd, Probe, TreeExists, Download, EvictNext, EvictDone,
       LockEvict, Lstat, UnlockEvict, Edit, Age

\* A tree is absent or whole: it comes to its name by a rename only, whatever
\* fails, whoever is killed, and however many threads there are.
THEOREM TreesAreWholeTheorem == Spec => []TreesAreWhole
<1> DEFINE Inv == BaseInv /\ TreesAreWhole
<1>1. Init => Inv
    BY BaseInit DEF Init, TreesAreWhole, Objects
<1>2. ASSUME Inv, [Next]_vars PROVE Inv'
    <2>1. BaseInv'
        BY <1>2, BaseStep
    <2> SUFFICES ASSUME NEW h \in Trees PROVE disk'[h] \in {h, "absent"}
        BY <2>1 DEF TreesAreWhole
    <2>2. h \in Objects /\ h \notin Files /\ disk[h] \in {h, "absent"}
        BY <1>2, CacheAssumption DEF TreesAreWhole, Objects
    <2>3. \A t \in Threads : pc[t] \in AddLabels => hash[t] # h
        BY <1>2, <2>2 DEF BaseInv, JobInv
    <2>4. ASSUME NEW t \in Threads, CreateFile(t) \/ CopyFile(t) \/ CopyFails(t)
          PROVE  disk'[h] = disk[h]
        <3>1. hash[t] # h
            BY <2>3, <2>4 DEF CreateFile, CopyFile, CopyFails, Goto, AddLabels
        <3> QED
            BY <1>2, <2>2, <2>4, <3>1 DEF CreateFile, CopyFile, CopyFails, BaseInv, Typed, locals
    <2>5. ASSUME NEW t \in Threads, Rename(t) \/ Remove(t) PROVE disk'[h] \in {disk[h], h, "absent"}
        BY <1>2, <2>2, <2>5 DEF Rename, Remove, BaseInv, Typed
    <2>6. ASSUME NEW p \in Procs, Crash(p) PROVE disk'[h] = disk[h]
        BY <2>2, <2>3, <2>6 DEF Crash, AddLabels
    <2> QED
        BY <1>2, <2>2, <2>4, <2>5, <2>6, DiskStep
<1> QED
    BY <1>1, <1>2, PTL DEF Spec

-----------------------------------------------------------------------------
(* The lock.                                                               *)

\* A thread between lock and unlock has the lock for its process.
LockInv == \A t \in Threads : pc[t] \in Critical => owner = ProcOf[t]

\* When processes have one thread, nobody else is between lock and unlock.
LEMMA Alone ==
    ASSUME OneThread, LockInv, NEW t \in Threads, NEW u \in Threads,
           pc[t] \in Critical, pc[u] \in Critical
    PROVE  t = u
BY DEF OneThread, LockInv

\* Every step keeps that, as flock and the end of a process do.
LEMMA LockStep ==
    ASSUME OneThread, BaseInv, LockInv, [Next]_vars PROVE LockInv'
<1> USE DEF LockInv, Critical, Typed, BaseInv, Goto, locals
<1>0. \A t \in Threads : ProcOf[t] \in Procs
    BY CacheAssumption
<1>1. ASSUME NEW t \in Threads, Begin(t) PROVE LockInv'
    BY <1>1 DEF Begin, BeginAdd, BeginTree, BeginPull, BeginEvict, Take
<1>2. ASSUME NEW t \in Threads, LockAdd(t) \/ LockEvict(t) PROVE LockInv'
    <2>1. owner \in {NoProc, ProcOf[t]} /\ owner' = ProcOf[t] /\ pc[t] \notin Critical
        BY <1>2 DEF LockAdd, LockEvict, Lock
    <2>2. \A u \in Threads \ {t} : pc'[u] = pc[u] /\ pc[u] \notin Critical
        BY <1>0, <1>2, <2>1, CacheAssumption DEF OneThread, LockAdd, LockEvict, Lock
    <2> QED
        BY <2>1, <2>2
<1>3. ASSUME NEW t \in Threads, FinishAdd(t) \/ AbortAdd(t) \/ UnlockEvict(t) PROVE LockInv'
    <2>1. pc[t] \in Critical /\ pc'[t] \notin Critical
        BY <1>3 DEF FinishAdd, AbortAdd, UnlockEvict
    <2>2. \A u \in Threads \ {t} : pc'[u] = pc[u] /\ pc[u] \notin Critical
        BY <1>3, <2>1, Alone DEF FinishAdd, AbortAdd, UnlockEvict
    <2> QED
        BY <2>1, <2>2
<1>4. ASSUME NEW t \in Threads, HasObject(t) \/ CreateFile(t) \/ CopyFile(t) \/ CopyFails(t)
                                  \/ Lstat(t) \/ Remove(t)
      PROVE LockInv'
    BY <1>4 DEF HasObject, CreateFile, CopyFile, CopyFails, Lstat, Remove
<1>5. ASSUME NEW t \in Threads, PullStep(t) \/ EvictNext(t) \/ EvictDone(t) PROVE LockInv'
    <2>1. owner' = owner /\ pc'[t] \notin Critical /\ \A u \in Threads \ {t} : pc'[u] = pc[u]
        BY <1>5 DEF PullStep, Probe, TreeExists, Download, Rename, EvictNext, EvictDone, Labels
    <2> QED
        BY <2>1
<1>6. ASSUME NEW p \in Paths, NEW c \in Files, Edit(p, c) PROVE LockInv'
    BY <1>6 DEF Edit
<1>7. ASSUME NEW h \in Objects, Age(h) PROVE LockInv'
    BY <1>7 DEF Age
<1>8. ASSUME NEW p \in Procs, Crash(p) PROVE LockInv'
    BY <1>8 DEF Crash
<1>9. CASE UNCHANGED vars
    BY <1>9 DEF vars
<1> QED
    BY <1>1, <1>2, <1>3, <1>4, <1>5, <1>6, <1>7, <1>8, <1>9 DEF Next, AddStep, EvictStep

-----------------------------------------------------------------------------
(* What cache::add claims is kept.                                         *)

\* A claimed object is there and its time is recent; so is the object of a
\* job that is about to claim it, and nobody is about to remove a claimed one.
KeptInv ==
    /\ claims \subseteq Present \cap recent
    /\ \A t \in Threads : pc[t] \in {"copy", "unlock"} => hash[t] \in Present \cap recent
    /\ \A t \in Threads : pc[t] = "create" /\ hash[t] \in Present => hash[t] \in recent
    /\ \A t \in Threads : pc[t] = "remove" => hash[t] \notin claims

\* Only the jobs of cache::add for files make claims.
AddWatched == Watched \subseteq {"add"}

\* Every step keeps it.
LEMMA KeptStep ==
    ASSUME OneThread, AddWatched, BaseInv, LockInv, KeptInv, [Next]_vars
    PROVE  KeptInv'
<1> USE DEF KeptInv, BaseInv, Typed, Goto, locals, Labels
<1>0. Holes = {"absent", "partial", "torn", "other"} /\ Objects \cap Holes = {}
    BY CacheAssumption DEF Holes
<1>1. ASSUME NEW t \in Threads, Begin(t) PROVE KeptInv'
    BY <1>1 DEF Begin, BeginAdd, BeginTree, BeginPull, BeginEvict, Take, Present
<1>2. ASSUME NEW t \in Threads, LockAdd(t) \/ HasObject(t) PROVE KeptInv'
    BY <1>2 DEF LockAdd, Lock, HasObject, Touch, Present
<1>3. ASSUME NEW t \in Threads, CreateFile(t) PROVE KeptInv'
    <2>1. pc[t] = "create" /\ hash[t] \in Objects
        BY <1>3 DEF CreateFile, JobInv, AddLabels, Objects
    <2>2. CASE disk' = [disk EXCEPT ![hash[t]] = "partial"] /\ recent' = recent \cup {hash[t]}
        <3>1. Present' = Present \cup {hash[t]}
            BY <2>1, <2>2 DEF Present
        <3> QED
            BY <1>3, <2>1, <2>2, <3>1 DEF CreateFile
    <2>3. CASE hash[t] \in Present /\ UNCHANGED <<disk, recent>> /\ pc' = [pc EXCEPT ![t] = "unlock"]
        <3>1. Present' = Present
            BY <2>3 DEF Present
        <3> QED
            BY <1>3, <2>1, <2>3, <3>1 DEF CreateFile
    <2> QED
        BY <1>3, <2>2, <2>3 DEF CreateFile
<1>4. ASSUME NEW t \in Threads, CopyFile(t) \/ CopyFails(t) PROVE KeptInv'
    <2>1. pc[t] \in {"create", "copy"} /\ pc'[t] \in {"unlock", "abort"} /\ hash' = hash /\ claims' = claims
        BY <1>4 DEF CopyFile, CopyFails
    <2>2. \A u \in Threads \ {t} : pc'[u] = pc[u]
        BY <1>4 DEF CopyFile, CopyFails
    <2>3. hash[t] \in Objects /\ Copied(t) # "absent"
        BY <1>0, <2>1 DEF JobInv, AddLabels, Objects, Copied
    <2>4. pc[t] = "copy" => hash[t] \in Present \cap recent
        BY <1>4
    <2>5. disk' = disk \/ (pc[t] = "copy" /\ \E v : v # "absent" /\ disk' = [disk EXCEPT ![hash[t]] = v])
        BY <1>4, <2>3 DEF CopyFile, CopyFails
    <2>6. Present' = Present
        BY <2>3, <2>4, <2>5 DEF Present
    <2>7. recent' = recent \/ (pc[t] = "copy" /\ recent' = recent \cup {hash[t]})
        BY <1>4 DEF CopyFile, CopyFails
    <2>8. recent' = recent
        BY <2>4, <2>7
    <2>9. pc'[t] = "unlock" => pc[t] = "copy"
        BY <1>4 DEF CopyFile, CopyFails
    <2> QED
        BY <2>1, <2>2, <2>4, <2>6, <2>8, <2>9
<1>5. ASSUME NEW t \in Threads, FinishAdd(t) PROVE KeptInv'
    <2>1. \A u \in Threads : pc[u] # "remove"
        <3>1. pc[t] = "unlock"
            BY <1>5 DEF FinishAdd
        <3> QED
            BY <3>1, Alone DEF Critical
    <2>2. hash[t] \in Present \cap recent /\ Present' = Present
        BY <1>5 DEF FinishAdd, Present
    <2>3. claims' \subseteq claims \cup {hash[t]} /\ recent' = recent
        BY <1>5 DEF FinishAdd, Claim
    <2>4. \A u \in Threads \ {t} : pc'[u] = pc[u] /\ hash'[u] = hash[u]
        BY <1>5 DEF FinishAdd, Forget
    <2>5. pc'[t] = "idle"
        BY <1>5 DEF FinishAdd
    <2> QED
        BY <2>1, <2>2, <2>3, <2>4, <2>5
<1>6. ASSUME NEW t \in Threads, AbortAdd(t) PROVE KeptInv'
    BY <1>6 DEF AbortAdd, Forget, Present
<1>7. ASSUME NEW t \in Threads, PullStep(t) PROVE KeptInv'
    <2>1. pc[t] \in PullLabels /\ hash[t] \in Objects /\ job[t] \notin Watched
        BY <1>7 DEF PullStep, Probe, TreeExists, Download, Rename, PullLabels, JobInv, AddWatched
    <2>2. claims' = claims
        BY <1>7, <2>1 DEF PullStep, Probe, TreeExists, Download, Rename, Claim
    <2>3. pc'[t] \in {"idle", "exists", "download", "rename"}
        BY <1>7 DEF PullStep, Probe, TreeExists, Download, Rename
    <2>4. \A u \in Threads \ {t} : pc'[u] = pc[u] /\ hash'[u] = hash[u]
        BY <1>7 DEF PullStep, Probe, TreeExists, Download, Rename, Forget
    <2>5. CASE Probe(t) \/ TreeExists(t) \/ Download(t)
        <3>1. Present' = Present /\ recent \subseteq recent'
            BY <2>5 DEF Probe, TreeExists, Download, Touch, Present
        <3> QED
            BY <2>2, <2>3, <2>4, <3>1
    <2>6. CASE Rename(t)
        <3>1. Present' = Present \cup {hash[t]} /\ recent' = recent \cup {hash[t]}
            BY <1>0, <2>1, <2>6 DEF Rename, Present
        <3> QED
            BY <2>2, <2>3, <2>4, <3>1
    <2> QED
        BY <1>7, <2>5, <2>6 DEF PullStep
<1>8. ASSUME NEW t \in Threads, EvictNext(t) \/ EvictDone(t) \/ LockEvict(t) \/ UnlockEvict(t) PROVE KeptInv'
    BY <1>8 DEF EvictNext, EvictDone, LockEvict, Lock, UnlockEvict, Forget, Present
<1>9. ASSUME NEW t \in Threads, Lstat(t) PROVE KeptInv'
    BY <1>9 DEF Lstat, Present
<1>10. ASSUME NEW t \in Threads, Remove(t) PROVE KeptInv'
    <2>1. \A u \in Threads : pc[u] \notin {"copy", "unlock", "create"}
        <3>1. pc[t] = "remove"
            BY <1>10 DEF Remove
        <3> QED
            BY <3>1, Alone DEF Critical
    <2>2. hash[t] \notin claims /\ Present' = Present \ {hash[t]}
        BY <1>10 DEF Remove, Present
    <2>3. recent' = recent /\ claims' = claims /\ hash' = hash /\ pc' = [pc EXCEPT ![t] = "eunlock"]
        BY <1>10 DEF Remove
    <2> QED
        BY <2>1, <2>2, <2>3
<1>11. ASSUME NEW p \in Paths, NEW c \in Files, Edit(p, c) PROVE KeptInv'
    BY <1>11 DEF Edit, Present
<1>12. ASSUME NEW h \in Objects, Age(h) PROVE KeptInv'
    <2>1. \A t \in Threads : pc[t] \in AddLabels => hash[t] # h
        BY <1>12 DEF Age, JobInv
    <2> QED
        BY <1>12, <2>1 DEF Age, Present, AddLabels
<1>13. ASSUME NEW p \in Procs, Crash(p) PROVE KeptInv'
    <2>1. Present \subseteq Present'
        BY <1>13 DEF Crash, Present
    <2>2. \A h \in Present' : h \in Present \/ h \in recent
        BY <1>13 DEF Crash, Present
    <2>3. recent' = recent /\ claims' = claims
        BY <1>13 DEF Crash
    <2>4. \A t \in Threads : pc'[t] = "idle" \/ (pc'[t] = pc[t] /\ hash'[t] = hash[t])
        BY <1>13 DEF Crash
    <2> QED
        BY <2>1, <2>2, <2>3, <2>4
<1>14. CASE UNCHANGED vars
    BY <1>14 DEF vars, Present
<1> QED
    BY <1>1, <1>2, <1>3, <1>4, <1>5, <1>6, <1>7, <1>8, <1>9, <1>10, <1>11, <1>12, <1>13, <1>14
    DEF Next, AddStep, EvictStep

\* What cache::add said it stored is not removed before it was unused for a
\* retention period, whatever other processes evict, pull, add or fail at.
THEOREM ClaimedIsPresentTheorem ==
    OneThread /\ AddWatched => (Spec => []ClaimedIsPresent)
<1> DEFINE Inv == BaseInv /\ LockInv /\ KeptInv
<1>1. Init => Inv
    BY BaseInit DEF Init, LockInv, Critical, KeptInv
<1>2. OneThread /\ AddWatched /\ Inv /\ [Next]_vars => Inv'
    BY BaseStep, LockStep, KeptStep
<1>3. Inv => ClaimedIsPresent
    BY DEF KeptInv, ClaimedIsPresent
<1>4. SUFFICES ASSUME OneThread, AddWatched PROVE Spec => []ClaimedIsPresent
    OBVIOUS
<1>5. Inv /\ [Next]_vars => Inv'
    BY <1>2, <1>4
<1> QED
    BY <1>1, <1>3, <1>5, PTL DEF Spec

-----------------------------------------------------------------------------
(* What cache::add claims is complete.                                     *)

\* The file of an object is absent, whole, torn, or being copied by a job
\* that has it open under its name; a job adds what it has hashed.
CopyInv ==
    /\ \A h \in Objects : disk[h] \in {h, "absent", "torn", "partial"}
    /\ \A h \in Objects : disk[h] = "partial" =>
           \E t \in Threads : t \in linked /\ pc[t] = "copy" /\ hash[t] = h
    /\ \A t \in Threads : pc[t] \in AddLabels => work[path[t]] = hash[t]

\* A claimed object is not being copied.
ClaimInv == \A h \in claims : disk[h] # "partial"

\* No job is between the two reads of a file that is written.
NoEdit == "edit" \notin Faults

\* Every step keeps both.
LEMMA CopyStep ==
    ASSUME OneThread, AddWatched, NoEdit, BaseInv, LockInv, KeptInv, CopyInv, ClaimInv, [Next]_vars
    PROVE  CopyInv' /\ ClaimInv'
<1> USE DEF CopyInv, ClaimInv, BaseInv, Typed, Goto, locals, Labels, AddLabels, NoEdit
<1>0. Holes = {"absent", "partial", "torn", "other"} /\ Objects \cap Holes = {}
    BY CacheAssumption DEF Holes
<1>1. ASSUME NEW t \in Threads, NEW p \in Paths, BeginAdd(t, p) PROVE CopyInv' /\ ClaimInv'
    BY <1>1 DEF BeginAdd, Take
<1>2. ASSUME NEW t \in Threads,
             (\E h \in Objects : BeginTree(t, h) \/ BeginPull(t, h)) \/ BeginEvict(t)
      PROVE CopyInv' /\ ClaimInv'
    BY <1>2 DEF BeginTree, BeginPull, BeginEvict, Take
<1>3. ASSUME NEW t \in Threads, LockAdd(t) \/ HasObject(t) PROVE CopyInv' /\ ClaimInv'
    BY <1>3 DEF LockAdd, Lock, HasObject
<1>4. ASSUME NEW t \in Threads, CreateFile(t) PROVE CopyInv' /\ ClaimInv'
    <2>1. CASE /\ hash[t] \notin Present
               /\ disk' = [disk EXCEPT ![hash[t]] = "partial"]
               /\ linked' = linked \cup {t} /\ pc' = [pc EXCEPT ![t] = "copy"]
               /\ UNCHANGED <<work, path, hash, claims>>
        BY <1>4, <2>1 DEF KeptInv, CreateFile
    <2>2. CASE pc' = [pc EXCEPT ![t] = "unlock"] /\ UNCHANGED <<disk, work, locals, claims>>
        BY <1>4, <2>2 DEF CreateFile
    <2> QED
        BY <1>4, <2>1, <2>2 DEF CreateFile
<1>5. ASSUME NEW t \in Threads, CopyFile(t) \/ CopyFails(t) PROVE CopyInv' /\ ClaimInv'
    <2>1. \A u \in Threads \ {t} : pc[u] # "copy"
        <3>1. pc[t] \in Critical
            BY <1>5 DEF CopyFile, CopyFails, Critical
        <3> QED
            BY <3>1, Alone DEF Critical
    <2>2. hash[t] \in Objects /\ Copied(t) = hash[t]
        BY <1>5 DEF CopyFile, CopyFails, JobInv, Objects, Copied
    <2>3. CASE t \in linked /\ pc[t] = "copy"
        <3>1. \E v \in {hash[t], "torn"} : disk' = [disk EXCEPT ![hash[t]] = v]
            BY <1>5, <2>2, <2>3 DEF CopyFile, CopyFails
        <3>2. hash[t] # "partial"
            BY <1>0, <2>2
        <3>3. \A h \in Objects : disk'[h] # "partial"
            BY <2>1, <3>1, <3>2
        <3>4. \A h \in Objects : disk'[h] \in {h, "absent", "torn", "partial"}
            BY <2>2, <3>1
        <3> QED
            BY <1>5, <3>3, <3>4 DEF CopyFile, CopyFails
    <2>4. CASE t \notin linked \/ pc[t] # "copy"
        <3>1. disk' = disk
            BY <1>5, <2>4 DEF CopyFile, CopyFails
        <3>2. \A h \in Objects : disk[h] # "partial"
            BY <2>1, <2>4
        <3> QED
            BY <1>5, <3>1, <3>2 DEF CopyFile, CopyFails
    <2> QED
        BY <2>3, <2>4
<1>6. ASSUME NEW t \in Threads, FinishAdd(t) \/ AbortAdd(t) PROVE CopyInv' /\ ClaimInv'
    <2>1. \A u \in Threads : pc[u] # "copy"
        <3>1. pc[t] \in Critical /\ pc[t] # "copy"
            BY <1>6 DEF FinishAdd, AbortAdd, Critical
        <3> QED
            BY <3>1, Alone DEF Critical
    <2>2. disk' = disk /\ \A h \in Objects : disk[h] # "partial"
        BY <1>6, <2>1 DEF FinishAdd, AbortAdd
    <2>3. claims' \subseteq Objects
        BY <1>6, TypedStep DEF BaseInv
    <2>4. \A u \in Threads : pc'[u] \in AddLabels =>
              u # t /\ pc'[u] = pc[u] /\ path'[u] = path[u] /\ hash'[u] = hash[u]
        BY <1>6 DEF FinishAdd, AbortAdd, Forget
    <2>5. work' = work
        BY <1>6 DEF FinishAdd, AbortAdd
    <2> QED
        BY <2>2, <2>3, <2>4, <2>5
<1>7. ASSUME NEW t \in Threads, PullStep(t) PROVE CopyInv' /\ ClaimInv'
    <2>1. pc[t] \in PullLabels /\ hash[t] \in Objects /\ job[t] \notin Watched
        BY <1>7 DEF PullStep, Probe, TreeExists, Download, Rename, PullLabels, JobInv, AddWatched
    <2>2. claims' = claims /\ work' = work
        BY <1>7, <2>1 DEF PullStep, Probe, TreeExists, Download, Rename, Claim
    <2>3. pc'[t] \in {"idle", "exists", "download", "rename"} /\ pc[t] # "copy"
        BY <1>7 DEF PullStep, Probe, TreeExists, Download, Rename
    <2>4. \A u \in Threads \ {t} : pc'[u] = pc[u] /\ hash'[u] = hash[u] /\ path'[u] = path[u]
        BY <1>7 DEF PullStep, Probe, TreeExists, Download, Rename, Forget
    <2>5. CASE Probe(t) \/ TreeExists(t) \/ Download(t)
        <3>1. disk' = disk /\ linked \ {t} \subseteq linked'
            BY <2>5 DEF Probe, TreeExists, Download, Forget
        <3> QED
            BY <2>2, <2>3, <2>4, <3>1
    <2>6. CASE Rename(t)
        <3>1. disk' = [disk EXCEPT ![hash[t]] = hash[t]] /\ linked' = {u \in linked : hash[u] # hash[t]}
            BY <2>6 DEF Rename, Unlink
        <3>2. hash[t] # "partial"
            BY <1>0, <2>1
        <3> QED
            BY <2>1, <2>2, <2>3, <2>4, <3>1, <3>2
    <2> QED
        BY <1>7, <2>5, <2>6 DEF PullStep
<1>8. ASSUME NEW t \in Threads, EvictNext(t) \/ EvictDone(t) \/ LockEvict(t) \/ Lstat(t) \/ UnlockEvict(t)
      PROVE CopyInv' /\ ClaimInv'
    <2>1. pc[t] \in EvictLabels \cup {"next"} /\ pc'[t] \notin AddLabels
        BY <1>8 DEF EvictNext, EvictDone, LockEvict, Lock, Lstat, UnlockEvict, EvictLabels
    <2>2. UNCHANGED <<disk, work, claims>>
        BY <1>8 DEF EvictNext, EvictDone, LockEvict, Lstat, UnlockEvict
    <2>3. \A u \in Threads \ {t} : pc'[u] = pc[u] /\ hash'[u] = hash[u] /\ path'[u] = path[u]
        BY <1>8 DEF EvictNext, EvictDone, LockEvict, Lock, Lstat, UnlockEvict, Forget
    <2>4. linked \ {t} \subseteq linked'
        BY <1>8 DEF EvictNext, EvictDone, LockEvict, Lstat, UnlockEvict, Forget
    <2>5. pc[t] # "copy"
        BY <2>1 DEF EvictLabels
    <2> QED
        BY <2>1, <2>2, <2>3, <2>4, <2>5
<1>9. ASSUME NEW t \in Threads, Remove(t) PROVE CopyInv' /\ ClaimInv'
    <2>1. pc[t] = "remove" /\ hash[t] \in Objects
        BY <1>9 DEF Remove, JobInv, EvictLabels
    <2>2. disk' = [disk EXCEPT ![hash[t]] = "absent"] /\ linked' = {u \in linked : hash[u] # hash[t]}
        BY <1>9 DEF Remove, Unlink
    <2>3. UNCHANGED <<work, path, hash, claims>> /\ pc' = [pc EXCEPT ![t] = "eunlock"]
        BY <1>9 DEF Remove
    <2> QED
        BY <2>1, <2>2, <2>3
<1>10. ASSUME NEW p \in Paths, NEW c \in Files, Edit(p, c) PROVE CopyInv' /\ ClaimInv'
    BY <1>10 DEF Edit, JobInv
<1>11. ASSUME NEW h \in Objects, Age(h) PROVE CopyInv' /\ ClaimInv'
    BY <1>11 DEF Age
<1>12. ASSUME NEW p \in Procs, Crash(p) PROVE CopyInv' /\ ClaimInv'
    <2>1. \A h \in Objects : disk'[h] = disk[h] \/ disk'[h] = "torn"
        BY <1>12 DEF Crash
    <2>2. \A h \in Objects : disk'[h] = "partial" =>
              \E t \in Threads : t \in linked /\ pc[t] = "copy" /\ hash[t] = h /\ ProcOf[t] # p
        BY <1>12 DEF Crash
    <2>3. \A t \in Threads : ProcOf[t] # p =>
              pc'[t] = pc[t] /\ path'[t] = path[t] /\ hash'[t] = hash[t] /\ (t \in linked => t \in linked')
        BY <1>12 DEF Crash
    <2>4. \A t \in Threads : ProcOf[t] = p => pc'[t] = "idle"
        BY <1>12 DEF Crash
    <2>5. work' = work /\ claims' = claims
        BY <1>12 DEF Crash
    <2> QED
        BY <2>1, <2>2, <2>3, <2>4, <2>5
<1>13. CASE UNCHANGED vars
    BY <1>13 DEF vars
<1> QED
    BY <1>1, <1>2, <1>3, <1>4, <1>5, <1>6, <1>7, <1>8, <1>9, <1>10, <1>11, <1>12, <1>13
    DEF Next, Begin, AddStep, EvictStep, Objects

\* When files are not written while they are added, what add said it stored is
\* the content it hashed, or the part of it that a copy cut short has left.
THEOREM ClaimedIsCompleteTheorem ==
    OneThread /\ AddWatched /\ NoEdit => (Spec => []ClaimedIsComplete)
<1> DEFINE Inv == BaseInv /\ LockInv /\ KeptInv /\ CopyInv /\ ClaimInv
<1>1. Init => Inv
    <2>1. Init => CopyInv /\ ClaimInv
        BY DEF Init, CopyInv, ClaimInv, AddLabels
    <2> QED
        BY <2>1, BaseInit DEF Init, LockInv, Critical, KeptInv
<1>2. OneThread /\ AddWatched /\ NoEdit /\ Inv /\ [Next]_vars => Inv'
    BY BaseStep, LockStep, KeptStep, CopyStep
<1>3. Inv => ClaimedIsComplete
    BY DEF KeptInv, CopyInv, ClaimInv, Present, ClaimedIsComplete
<1>4. SUFFICES ASSUME OneThread, AddWatched, NoEdit PROVE Spec => []ClaimedIsComplete
    OBVIOUS
<1>5. Inv /\ [Next]_vars => Inv'
    BY <1>2, <1>4
<1> QED
    BY <1>1, <1>3, <1>5, PTL DEF Spec

-----------------------------------------------------------------------------
(* The rest of the types: an eviction never subtracts more than it has     *)
(* listed, whoever else removes objects meanwhile.                         *)

\* The entry an eviction has taken from its listing and may yet remove.
Held(t) == IF pc[t] \in {"elock", "lstat", "remove"} THEN 1 ELSE 0

\* What an eviction may still remove is part of the size it counts.
SizeInv ==
    /\ size \in [Threads -> 0..Cardinality(Objects)]
    /\ \A t \in Threads : Cardinality(listing[t]) + Held(t) =< size[t]

RestInv == SizeInv /\ owner \in Procs \cup {NoProc} /\ linked \subseteq Threads

\* Any set of objects is counted by a number.
LEMMA CountOf ==
    ASSUME NEW S, S \subseteq Objects
    PROVE  Cardinality(S) \in 0..Cardinality(Objects)
<1>1. IsFiniteSet(Objects) /\ IsFiniteSet(S)
    BY CacheAssumption, FS_Subset
<1>2. Cardinality(S) =< Cardinality(Objects) /\ Cardinality(S) \in Nat /\ Cardinality(Objects) \in Nat
    BY <1>1, FS_Subset, FS_CardinalityType
<1> QED
    BY <1>2

\* The steps of a thread that leave its listing and size alone.
LEMMA SizeKept ==
    ASSUME BaseInv, SizeInv, NEW t \in Threads, NEW m \in Labels,
           pc' = [pc EXCEPT ![t] = m], UNCHANGED <<listing, size>>,
           m \in {"elock", "lstat", "remove"} => Held(t) = 1
    PROVE  SizeInv'
<1>1. \A u \in Threads : Held(u)' \in {0, 1} /\ Held(u) \in {0, 1} /\ (Held(u)' = 1 => Held(u) = 1)
    BY DEF Held, BaseInv, Typed
<1>2. \A u \in Threads : Cardinality(listing[u]) \in Nat /\ size[u] \in Nat
    BY CountOf DEF BaseInv, Typed, SizeInv
<1>3. ASSUME NEW u \in Threads PROVE Cardinality(listing[u])' + Held(u)' =< size'[u]
    BY <1>1, <1>2 DEF SizeInv
<1> QED
    BY <1>3 DEF SizeInv

\* The end of a job.
LEMMA SizeForgotten ==
    ASSUME BaseInv, SizeInv, NEW t \in Threads, Forget(t),
           pc' = [pc EXCEPT ![t] = "idle"]
    PROVE  SizeInv'
<1>1. Cardinality({}) = 0 /\ Cardinality(Objects) \in Nat
    BY CacheAssumption, FS_EmptySet, FS_CardinalityType
<1>2. size' \in [Threads -> 0..Cardinality(Objects)]
    BY <1>1 DEF Forget, SizeInv
<1>3. ASSUME NEW u \in Threads PROVE Cardinality(listing[u])' + Held(u)' =< size'[u]
    <2>1. CASE u = t
        BY <1>1, <2>1 DEF Forget, Held, BaseInv, Typed, SizeInv
    <2>2. CASE u # t
        BY <2>2 DEF Forget, Held, BaseInv, Typed, SizeInv
    <2> QED
        BY <2>1, <2>2
<1> QED
    BY <1>2, <1>3 DEF SizeInv

\* The steps of an eviction.
LEMMA SizeEvict ==
    ASSUME BaseInv, SizeInv, NEW t \in Threads, BeginEvict(t) \/ EvictStep(t)
    PROVE  SizeInv'
<1> USE DEF BaseInv, Typed, Goto, locals
<1>0. \A u \in Threads : listing[u] \subseteq Objects
    OBVIOUS
<1>1. CASE BeginEvict(t)
    <2>1. Cardinality(Present) \in 0..Cardinality(Objects)
        BY CountOf DEF Present
    <2>2. size' \in [Threads -> 0..Cardinality(Objects)]
        BY <1>1, <2>1 DEF BeginEvict, SizeInv
    <2>3. ASSUME NEW u \in Threads PROVE Cardinality(listing[u])' + Held(u)' =< size'[u]
        <3>1. CASE u = t
            BY <1>1, <2>1, <3>1 DEF BeginEvict, Held, SizeInv
        <3>2. CASE u # t
            BY <1>1, <3>2 DEF BeginEvict, Held, SizeInv
        <3> QED
            BY <3>1, <3>2
    <2> QED
        BY <2>2, <2>3 DEF SizeInv
<1>2. CASE EvictNext(t)
    <2>1. PICK h \in listing[t] : listing' = [listing EXCEPT ![t] = @ \ {h}]
        BY <1>2 DEF EvictNext
    <2>2. Cardinality(listing[t] \ {h}) = Cardinality(listing[t]) - 1 /\ Cardinality(listing[t]) \in Nat
        BY <1>0, <2>1, CacheAssumption, FS_Subset, FS_RemoveElement, FS_CardinalityType
    <2>3. size' = size /\ pc[t] = "next" /\ pc' = [pc EXCEPT ![t] = "elock"]
        BY <1>2 DEF EvictNext
    <2>4. ASSUME NEW u \in Threads PROVE Cardinality(listing[u])' + Held(u)' =< size'[u]
        <3>1. CASE u = t
            <4>1. Held(t) = 0 /\ Held(t)' = 1 /\ listing'[t] = listing[t] \ {h}
                BY <2>1, <2>3 DEF Held
            <4>2. size[t] \in Nat /\ Cardinality(listing[t]) + 0 =< size[t]
                BY <4>1 DEF SizeInv
            <4> QED
                BY <2>2, <2>3, <3>1, <4>1, <4>2
        <3>2. CASE u # t
            BY <2>1, <2>3, <3>2 DEF Held, SizeInv
        <3> QED
            BY <3>1, <3>2
    <2> QED
        BY <2>3, <2>4 DEF SizeInv
<1>3. CASE EvictDone(t)
    BY <1>3, SizeForgotten DEF EvictDone
<1>4. CASE LockEvict(t)
    BY <1>4, SizeKept DEF LockEvict, Lock, Held, Labels
<1>5. CASE Lstat(t)
    BY <1>5, SizeKept DEF Lstat, Held, Labels
<1>6. CASE Remove(t)
    <2>1. size' = [size EXCEPT ![t] = @ - 1] /\ listing' = listing
        BY <1>6 DEF Remove
    <2>2. pc[t] = "remove" /\ pc' = [pc EXCEPT ![t] = "eunlock"]
        BY <1>6 DEF Remove
    <2>3. Held(t) = 1 /\ Held(t)' = 0
        BY <2>2 DEF Held
    <2>4. Cardinality(listing[t]) \in Nat /\ size[t] \in 0..Cardinality(Objects)
          /\ Cardinality(Objects) \in Nat /\ Cardinality(listing[t]) + 1 =< size[t]
        BY <1>0, <2>3, CountOf, CacheAssumption, FS_CardinalityType DEF SizeInv
    <2>5. size' \in [Threads -> 0..Cardinality(Objects)]
        BY <2>1, <2>4 DEF SizeInv
    <2>6. ASSUME NEW u \in Threads PROVE Cardinality(listing[u])' + Held(u)' =< size'[u]
        <3>1. CASE u = t
            <4>1. size'[t] = size[t] - 1
                BY <2>1 DEF SizeInv
            <4> QED
                BY <2>1, <2>3, <2>4, <3>1, <4>1
        <3>2. CASE u # t
            BY <2>1, <2>2, <3>2 DEF Held, SizeInv
        <3> QED
            BY <3>1, <3>2
    <2> QED
        BY <2>5, <2>6 DEF SizeInv
<1>7. CASE UnlockEvict(t)
    BY <1>7, SizeKept DEF UnlockEvict, Held, Labels
<1> QED
    BY <1>1, <1>2, <1>3, <1>4, <1>5, <1>6, <1>7 DEF EvictStep

\* Every step keeps the sizes.
LEMMA SizeStep ==
    ASSUME BaseInv, SizeInv, [Next]_vars PROVE SizeInv'
<1> USE DEF Goto, locals
<1>1. ASSUME NEW t \in Threads, NEW p \in Paths, BeginAdd(t, p) PROVE SizeInv'
    BY <1>1, SizeKept DEF BeginAdd, Take, Labels
<1>2. ASSUME NEW t \in Threads, NEW h \in Objects, BeginTree(t, h) PROVE SizeInv'
    BY <1>2, SizeKept DEF BeginTree, Take, Labels
<1>3. ASSUME NEW t \in Threads, NEW h \in Objects, BeginPull(t, h) PROVE SizeInv'
    BY <1>3, SizeKept DEF BeginPull, Take, Labels
<1>4. ASSUME NEW t \in Threads, AddStep(t) PROVE SizeInv'
    <2>1. CASE LockAdd(t)
        BY <2>1, SizeKept DEF LockAdd, Lock, Labels
    <2>2. CASE HasObject(t)
        BY <2>2, SizeKept DEF HasObject, Labels
    <2>3. CASE CreateFile(t)
        BY <2>3, SizeKept DEF CreateFile, Labels
    <2>4. CASE CopyFile(t)
        BY <2>4, SizeKept DEF CopyFile, Labels
    <2>5. CASE CopyFails(t)
        BY <2>5, SizeKept DEF CopyFails, Labels
    <2>6. CASE FinishAdd(t) \/ AbortAdd(t)
        BY <2>6, SizeForgotten DEF FinishAdd, AbortAdd
    <2> QED
        BY <1>4, <2>1, <2>2, <2>3, <2>4, <2>5, <2>6 DEF AddStep
<1>5. ASSUME NEW t \in Threads, PullStep(t) PROVE SizeInv'
    <2>1. CASE Probe(t)
        BY <2>1, SizeKept, SizeForgotten DEF Probe, Labels
    <2>2. CASE TreeExists(t)
        BY <2>2, SizeKept, SizeForgotten DEF TreeExists, Labels
    <2>3. CASE Download(t)
        BY <2>3, SizeKept, SizeForgotten DEF Download, Labels
    <2>4. CASE Rename(t)
        BY <2>4, SizeKept DEF Rename, Labels
    <2> QED
        BY <1>5, <2>1, <2>2, <2>3, <2>4 DEF PullStep
<1>6. ASSUME NEW t \in Threads, BeginEvict(t) \/ EvictStep(t) PROVE SizeInv'
    BY <1>6, SizeEvict
<1>7. CASE UNCHANGED <<pc, listing, size>>
    BY <1>7 DEF SizeInv, Held
<1>8. ASSUME NEW p \in Procs, Crash(p) PROVE SizeInv'
    <2>1. Cardinality({}) = 0 /\ Cardinality(Objects) \in Nat
        BY CacheAssumption, FS_EmptySet, FS_CardinalityType
    <2>2. /\ pc' = [u \in Threads |-> IF ProcOf[u] = p THEN "idle" ELSE pc[u]]
          /\ listing' = [u \in Threads |-> IF ProcOf[u] = p THEN {} ELSE listing[u]]
          /\ size' = [u \in Threads |-> IF ProcOf[u] = p THEN 0 ELSE size[u]]
        BY <1>8 DEF Crash
    <2>3. size' \in [Threads -> 0..Cardinality(Objects)]
        BY <2>1, <2>2 DEF SizeInv
    <2>4. ASSUME NEW u \in Threads PROVE Cardinality(listing[u])' + Held(u)' =< size'[u]
        <3>1. CASE ProcOf[u] = p
            BY <2>1, <2>2, <3>1 DEF Held
        <3>2. CASE ProcOf[u] # p
            BY <2>2, <3>2 DEF Held, SizeInv
        <3> QED
            BY <3>1, <3>2
    <2> QED
        BY <2>3, <2>4 DEF SizeInv
<1>9. ASSUME NEW p \in Paths, NEW c \in Files, Edit(p, c) PROVE SizeInv'
    BY <1>7, <1>9 DEF Edit
<1>10. ASSUME NEW h \in Objects, Age(h) PROVE SizeInv'
    BY <1>7, <1>10 DEF Age
<1>11. CASE UNCHANGED vars
    BY <1>7, <1>11 DEF vars
<1> QED
    BY <1>1, <1>2, <1>3, <1>4, <1>5, <1>6, <1>8, <1>9, <1>10, <1>11 DEF Next, Begin, Objects

\* Every step keeps the owner of the lock a process and the files open for
\* writing those of threads.
LEMMA RestStep ==
    ASSUME RestInv, BaseInv, [Next]_vars PROVE RestInv'
<1>1. SizeInv'
    BY SizeStep DEF RestInv
<1>2. \A t \in Threads : ProcOf[t] \in Procs
    BY CacheAssumption
<1>3. owner' \in Procs \cup {NoProc}
    BY <1>2 DEF RestInv, Next, Begin, AddStep, PullStep, EvictStep, vars, BeginAdd, BeginTree,
       BeginPull, BeginEvict, LockAdd, HasObject, CreateFile, CopyFile, CopyFails, FinishAdd,
       AbortAdd, Probe, TreeExists, Download, Rename, EvictNext, EvictDone, LockEvict, Lstat,
       Remove, UnlockEvict, Edit, Age, Crash, Lock, Release
<1>4. linked' \subseteq Threads
    BY DEF RestInv, Next, Begin, AddStep, PullStep, EvictStep, vars, locals, BeginAdd, BeginTree,
       BeginPull, BeginEvict, Take, LockAdd, HasObject, CreateFile, CopyFile, CopyFails, FinishAdd,
       AbortAdd, Probe, TreeExists, Download, Rename, EvictNext, EvictDone, LockEvict, Lstat,
       Remove, UnlockEvict, Edit, Age, Crash, Forget, Unlink
<1> QED
    BY <1>1, <1>3, <1>4 DEF RestInv

\* The type invariant of the cache, for any threads, processes and faults:
\* the size that evict_subdir counts down neither wraps nor grows, although
\* others remove and add objects after it has listed them.
THEOREM CacheTyped == Spec => []TypeOK
<1> DEFINE Inv == BaseInv /\ RestInv
<1>1. Init => Inv
    <2> SUFFICES ASSUME Init PROVE Inv
        OBVIOUS
    <2>1. Cardinality({}) = 0 /\ Cardinality(Objects) \in Nat
        BY CacheAssumption, FS_EmptySet, FS_CardinalityType
    <2>2. SizeInv
        BY <2>1 DEF Init, SizeInv, Held
    <2> QED
        BY <2>2, BaseInit DEF Init, RestInv
<1>2. Inv /\ [Next]_vars => Inv'
    BY BaseStep, RestStep
<1>3. Inv => TypeOK
    BY DEF BaseInv, Typed, RestInv, SizeInv, TypeOK
<1> QED
    BY <1>1, <1>2, <1>3, PTL DEF Spec

-----------------------------------------------------------------------------
(* What an eviction removes is in excess of the limit.                     *)

\* One thread evicts.
OneEvictor == \A t, u \in Threads : "evict" \in Does[t] /\ "evict" \in Does[u] => t = u

Evicting == {"next", "elock", "lstat", "remove", "eunlock"}

\* The size that an eviction counts is no more than what there is, and it has
\* reached the limit when an entry is taken.
ExcessInv ==
    \A t \in Threads :
        /\ pc[t] \in Evicting => "evict" \in Does[t] /\ size[t] =< Cardinality(Present)
        /\ pc[t] \in {"elock", "lstat", "remove"} => Limit =< size[t]
        /\ pc[t] = "remove" => hash[t] \in Present

\* Only an eviction takes the name of an object away.
LEMMA PresentStep ==
    ASSUME BaseInv, [Next]_vars, \A t \in Threads : ~Remove(t)
    PROVE  Present \subseteq Present'
<1> USE DEF BaseInv, Typed, Goto
<1>0. Holes = {"absent", "partial", "torn", "other"} /\ Objects \cap Holes = {}
    BY CacheAssumption DEF Holes
<1>1. ASSUME NEW t \in Threads, CreateFile(t) PROVE Present \subseteq Present'
    BY <1>1 DEF CreateFile, Present
<1>2. ASSUME NEW t \in Threads, CopyFile(t) PROVE Present \subseteq Present'
    <2>1. hash[t] \in Objects
        BY <1>2 DEF CopyFile, JobInv, AddLabels, Objects
    <2>2. Copied(t) # "absent"
        BY <1>0, <2>1 DEF Copied
    <2> QED
        BY <1>2, <2>2 DEF CopyFile, Present
<1>3. ASSUME NEW t \in Threads, CopyFails(t) PROVE Present \subseteq Present'
    BY <1>3 DEF CopyFails, Present
<1>4. ASSUME NEW t \in Threads, Rename(t) PROVE Present \subseteq Present'
    <2>1. hash[t] \in Objects
        BY <1>4 DEF Rename, JobInv, PullLabels
    <2> QED
        BY <1>0, <1>4, <2>1 DEF Rename, Present
<1>5. ASSUME NEW p \in Procs, Crash(p) PROVE Present \subseteq Present'
    BY <1>5 DEF Crash, Present
<1>6. CASE UNCHANGED disk
    BY <1>6 DEF Present
<1> QED
    BY <1>1, <1>2, <1>3, <1>4, <1>5, <1>6, DiskStep

\* The objects there are can be counted.
LEMMA PresentFinite == IsFiniteSet(Present) /\ Cardinality(Present) \in Nat
<1>1. IsFiniteSet(Present)
    BY CacheAssumption, FS_Subset DEF Present
<1> QED
    BY <1>1, FS_CardinalityType

\* Steps that do not remove keep the invariant of a thread that does not move.
LEMMA ExcessOthers ==
    ASSUME BaseInv, ExcessInv, SizeInv, [Next]_vars, \A t \in Threads : ~Remove(t),
           NEW u \in Threads, pc'[u] = pc[u], size'[u] = size[u], hash'[u] = hash[u]
    PROVE  /\ pc'[u] \in Evicting => "evict" \in Does[u] /\ size'[u] =< Cardinality(Present')
           /\ pc'[u] \in {"elock", "lstat", "remove"} => Limit =< size'[u]
           /\ pc'[u] = "remove" => hash'[u] \in Present'
<1>1. Present \subseteq Present'
    BY PresentStep
<1>2. IsFiniteSet(Present')
    BY CacheAssumption, FS_Subset DEF Present, Objects
<1>3. Cardinality(Present) =< Cardinality(Present') /\ Cardinality(Present) \in Nat
      /\ Cardinality(Present') \in Nat
    BY <1>1, <1>2, FS_Subset, FS_CardinalityType
<1>4. size[u] \in Nat
    BY CacheAssumption, FS_CardinalityType DEF SizeInv
<1> QED
    BY <1>1, <1>3, <1>4 DEF ExcessInv

\* Every step keeps it, when nobody else removes.
LEMMA ExcessStep ==
    ASSUME OneEvictor, BaseInv, SizeInv, ExcessInv, [Next]_vars
    PROVE  ExcessInv'
<1> USE DEF Goto, locals
<1> DEFINE Excess(u) ==
        /\ pc[u] \in Evicting => "evict" \in Does[u] /\ size[u] =< Cardinality(Present)
        /\ pc[u] \in {"elock", "lstat", "remove"} => Limit =< size[u]
        /\ pc[u] = "remove" => hash[u] \in Present
<1>0. Cardinality(Present) \in Nat /\ \A u \in Threads : size[u] \in Nat
    BY PresentFinite, CacheAssumption, FS_CardinalityType DEF SizeInv
<1>1. ASSUME NEW t \in Threads, Remove(t) PROVE ExcessInv'
    <2>1. pc[t] = "remove" /\ hash[t] \in Present /\ size[t] =< Cardinality(Present)
        BY <1>1 DEF Remove, ExcessInv, Evicting
    <2>2. Present' = Present \ {hash[t]}
        BY <1>1, <2>1 DEF Remove, Present, BaseInv, Typed
    <2>3. Cardinality(Present') = Cardinality(Present) - 1
        BY <2>1, <2>2, PresentFinite, FS_RemoveElement
    <2>4. pc' = [pc EXCEPT ![t] = "eunlock"] /\ size' = [size EXCEPT ![t] = @ - 1] /\ hash' = hash
        BY <1>1 DEF Remove
    <2>5. "evict" \in Does[t]
        BY <2>1 DEF ExcessInv, Evicting
    <2>6. ASSUME NEW u \in Threads PROVE Excess(u)'
        <3>1. CASE u = t
            <4>1. pc'[t] = "eunlock" /\ size'[t] = size[t] - 1
                BY <2>4 DEF BaseInv, Typed, SizeInv
            <4> QED
                BY <1>0, <2>1, <2>3, <2>5, <3>1, <4>1
        <3>2. CASE u # t
            <4>1. pc'[u] \notin Evicting
                BY <2>4, <2>5, <3>2 DEF ExcessInv, OneEvictor, BaseInv, Typed
            <4> QED
                BY <4>1 DEF Evicting
        <3> QED
            BY <3>1, <3>2
    <2> QED
        BY <2>6 DEF ExcessInv
<1>2. ASSUME \A t \in Threads : ~Remove(t) PROVE ExcessInv'
    <2>1. \A u \in Threads : pc'[u] = pc[u] /\ size'[u] = size[u] /\ hash'[u] = hash[u] => Excess(u)'
        BY <1>2, ExcessOthers
    <2>2. \A u \in Threads : pc'[u] \notin Evicting => Excess(u)'
        BY DEF Evicting
    <2> HIDE DEF Excess
    <2>3. ASSUME NEW t \in Threads, EvictNext(t) PROVE Excess(t)'
        <3>1. /\ pc[t] = "next" /\ pc'[t] = "elock" /\ size'[t] = size[t]
              /\ Limit =< size[t] /\ disk' = disk
            BY <2>3, CacheAssumption, <1>0 DEF EvictNext, BaseInv, Typed
        <3>2. Present' = Present
            BY <3>1 DEF Present
        <3> QED
            BY <3>1, <3>2 DEF Excess, ExcessInv, Evicting
    <2>4. ASSUME NEW t \in Threads, LockEvict(t) \/ Lstat(t) \/ UnlockEvict(t) PROVE Excess(t)'
        <3>1. Present' = Present
            BY <2>4 DEF LockEvict, Lstat, UnlockEvict, Present
        <3> QED
            BY <2>4, <3>1 DEF LockEvict, Lock, Lstat, UnlockEvict, Excess, ExcessInv, Evicting,
               BaseInv, Typed
    <2>5. ASSUME NEW t \in Threads, BeginEvict(t) PROVE Excess(t)'
        <3>1. Present' = Present
            BY <2>5 DEF BeginEvict, Present
        <3>2. size'[t] = Cardinality(Present) /\ pc'[t] = "next" /\ "evict" \in Does[t]
            BY <2>5 DEF BeginEvict, BaseInv, Typed, SizeInv
        <3> QED
            BY <1>0, <3>1, <3>2 DEF Excess
    <2> HIDE DEF OneEvictor, ExcessInv
    <2> USE DEF BaseInv, Typed, SizeInv
    <2>6. ASSUME NEW t \in Threads,
                 \/ \E p \in Paths : BeginAdd(t, p)
                 \/ \E h \in Objects : BeginTree(t, h) \/ BeginPull(t, h)
                 \/ AddStep(t) \/ PullStep(t) \/ EvictDone(t)
          PROVE  /\ pc'[t] \notin Evicting
                 /\ \A u \in Threads \ {t} : pc'[u] = pc[u] /\ size'[u] = size[u] /\ hash'[u] = hash[u]
        BY <2>6 DEF Evicting, BeginAdd, BeginTree, BeginPull, Take, AddStep, PullStep, EvictDone,
           LockAdd, Lock, HasObject, CreateFile, CopyFile, CopyFails, FinishAdd, AbortAdd,
           Probe, TreeExists, Download, Rename, Forget
    <2>7. ASSUME NEW t \in Threads, BeginEvict(t) \/ (EvictStep(t) /\ ~EvictDone(t))
          PROVE  \A u \in Threads \ {t} : pc'[u] = pc[u] /\ size'[u] = size[u] /\ hash'[u] = hash[u]
        BY <1>2, <2>7 DEF BeginEvict, EvictStep, EvictNext, LockEvict, Lock, Lstat, UnlockEvict
    <2>8. ASSUME NEW p \in Procs, Crash(p) PROVE \A u \in Threads : Excess(u)'
        <3>1. \A u \in Threads :
                 \/ pc'[u] \notin Evicting
                 \/ pc'[u] = pc[u] /\ size'[u] = size[u] /\ hash'[u] = hash[u]
            BY <2>8 DEF Crash, Evicting
        <3> QED
            BY <2>1, <2>2, <3>1
    <2>9. CASE UNCHANGED <<pc, size, hash>>
        BY <2>1, <2>9 DEF ExcessInv, Excess
    <2>10. ASSUME NEW t \in Threads, Begin(t) \/ AddStep(t) \/ PullStep(t) \/ EvictStep(t)
           PROVE  \A u \in Threads : Excess(u)'
        <3>1. CASE BeginEvict(t) \/ (EvictStep(t) /\ ~EvictDone(t))
            BY <1>2, <2>1, <2>3, <2>4, <2>5, <2>7, <3>1 DEF EvictStep
        <3>2. CASE ~(BeginEvict(t) \/ (EvictStep(t) /\ ~EvictDone(t)))
            BY <2>1, <2>2, <2>6, <2>10, <3>2 DEF Begin, EvictStep, Objects
        <3> QED
            BY <3>1, <3>2
    <2>11. CASE Next
        <3>1. ASSUME NEW p \in Paths, NEW c \in Files, Edit(p, c) PROVE ExcessInv'
            BY <2>9, <3>1 DEF Edit
        <3>2. ASSUME NEW h \in Objects, Age(h) PROVE ExcessInv'
            BY <2>9, <3>2 DEF Age
        <3> QED
            BY <2>8, <2>10, <2>11, <3>1, <3>2 DEF Next, ExcessInv, Excess
    <2>12. CASE UNCHANGED vars
        BY <2>9, <2>12 DEF vars
    <2> QED
        BY <2>11, <2>12
<1> QED
    BY <1>1, <1>2

\* When one thread evicts, it removes nothing that is not in excess of the
\* limit, although the others store objects after it has listed them, fail
\* and are killed.
THEOREM EvictsExcessOnlyTheorem == OneEvictor => (Spec => EvictsExcessOnly)
<1> DEFINE Inv == BaseInv /\ SizeInv /\ ExcessInv
           Step == \A h \in Objects : disk[h] # "absent" /\ disk'[h] = "absent" =>
                       Cardinality(Present) >= Limit
<1>1. Init => Inv
    <2>1. Init => SizeInv
        <3>1. Cardinality({}) = 0 /\ Cardinality(Objects) \in Nat
            BY CacheAssumption, FS_EmptySet, FS_CardinalityType
        <3> QED
            BY <3>1 DEF Init, SizeInv, Held
    <2> QED
        BY <2>1, BaseInit DEF Init, ExcessInv, Evicting
<1>2. OneEvictor /\ Inv /\ [Next]_vars => Inv'
    BY BaseStep, SizeStep, ExcessStep
<1>3. Inv /\ [Next]_vars => [Step]_vars
    <2> SUFFICES ASSUME Inv, [Next]_vars, NEW h \in Objects,
                        disk[h] # "absent", disk'[h] = "absent"
                 PROVE  Cardinality(Present) >= Limit
        OBVIOUS
    <2>1. PICK t \in Threads : Remove(t)
        BY PresentStep DEF Present
    <2>2. Limit =< size[t] /\ size[t] =< Cardinality(Present)
        BY <2>1 DEF Remove, Goto, ExcessInv, Evicting
    <2>3. Cardinality(Present) \in Nat /\ size[t] \in Nat /\ Limit \in Nat
        BY PresentFinite, CacheAssumption, FS_CardinalityType DEF SizeInv
    <2> QED
        BY <2>2, <2>3
<1>4. ASSUME OneEvictor PROVE Inv /\ [Next]_vars => Inv'
    BY <1>2, <1>4
<1> HIDE DEF Inv, Step
<1>5. ASSUME OneEvictor PROVE Spec => [][Step]_vars
    BY <1>1, <1>3, <1>4, <1>5, PTL DEF Spec
<1> QED
    BY <1>5 DEF EvictsExcessOnly, Step
=============================================================================
