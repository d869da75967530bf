----------------------------- MODULE PullProofs -----------------------------
(***************************************************************************)
(* Proofs about cache::pull and index_from_tree for every tree, every pool *)
(* and every content of the cache: the wait group counts the jobs, no job  *)
(* outlives the call, and the jobs implement Download.                     *)
(***************************************************************************)
EXTENDS Pull, FiniteSetTheorems, SequenceTheorems, TLAPS

-----------------------------------------------------------------------------
(* The inductive invariant.                                                *)

Objects == Trees \cup Files
Kinds == {"tree", "read", "list", "file"}

Typed ==
    /\ op \in {"pull", "index_from_tree"}
    /\ pc \in {"enqueue", "wait", "asleep", "returned", "threw"}
    /\ phase \in {"tree", "read", "list"}
    /\ trees \subseteq Trees /\ left \subseteq trees /\ newTrees \subseteq Trees
    /\ count \in Int
    /\ exn \in BOOLEAN
    /\ queue \in Seq(Kinds \X Objects)
    /\ step \in [Workers -> Steps]
    /\ task \in [Workers -> Objects \cup {NoNode}]
    /\ rest \in [Workers -> SUBSET Inodes]
    /\ index \in [Inodes -> Nat]
    /\ local \subseteq Digests /\ used \subseteq Digests /\ looked \subseteq local

\* The jobs that may be in the queue in the phase of the level.
IsJob(k, n) ==
    IF op = "pull"
    THEN IF phase = "tree" THEN k = "tree" /\ n \in Trees
         ELSE (k = "list" /\ n \in Trees) \/ (k = "file" /\ n \in Files)
    ELSE k = "read" /\ n \in Trees

\* What a worker does next, and of which inode, agrees with the phase.
IsStep(w) ==
    /\ step[w] = "tree" => task[w] \in Trees /\ phase = "tree"
    /\ step[w] = "read" => task[w] \in Trees /\ phase = FirstPhase
    /\ step[w] \in {"file", "add", "enqueue"} => task[w] \in Files /\ phase = "list"
    /\ step[w] = "download" =>
          IF phase = "tree" THEN task[w] \in Trees ELSE phase = "list" /\ task[w] \in Files
    /\ step[w] = "list" => phase # "tree"
    /\ rest[w] # {} => step[w] \in {"list", "add", "enqueue"}

JobInv ==
    /\ phase \in IF op = "pull" THEN {"tree", "list"} ELSE {"read"}
    /\ \A x \in 1..Len(queue) : IsJob(queue[x][1], queue[x][2])
    /\ \A w \in Workers : IsStep(w)

\* What the place of the caller says of the level.
PlaceInv ==
    /\ pc # "enqueue" => left = {}
    /\ pc \in Over => count = 0
    /\ pc = "returned" => ~exn /\ trees = {}
    /\ phase = "tree" \/ pc = "returned" => newTrees = {}

\* The job that reads the inodes of a tree for the list.
ListJob == IF op = "pull" THEN "list" ELSE "read"

\* The trees whose inodes have still to be listed: those of the next level,
\* those of this one without a job, those in the queue, and those that a
\* worker is about to read.
OfLevel == IF phase = "tree" THEN trees ELSE left
Queued == {t \in Trees : \E x \in 1..Len(queue) : queue[x] = <<ListJob, t>>}
Reading(w) == op # "pull" /\ step[w] = "read"
Unlisted == newTrees \cup OfLevel \cup Queued \cup {task[w] : w \in {w \in Workers : Reading(w)}}

\* Each of them is there once.
QueuedOnce ==
    \A x, y \in 1..Len(queue) : queue[x] = queue[y] /\ queue[x][1] = ListJob => x = y

OnceInv ==
    /\ newTrees \cap OfLevel = {}
    /\ (newTrees \cup OfLevel) \cap Queued = {}
    /\ QueuedOnce
    /\ \A w \in Workers : Reading(w) => task[w] \notin newTrees \cup OfLevel \cup Queued
    /\ \A v, w \in Workers : Reading(v) /\ Reading(w) /\ task[v] = task[w] => v = w

Listed(n) == n = Root \/ index[n] = 1

\* An inode is listed once, after its tree was, and before what is in it.
ListInv ==
    /\ \A n \in Inodes : index[n] \in {0, 1}
    /\ \A t \in Unlisted : Listed(t)
    /\ \A n \in Inodes : Parent[n] \in Unlisted => index[n] = 0 /\ \A w \in Workers : n \notin rest[w]
    /\ \A w \in Workers : \A n \in rest[w] : index[n] = 0 /\ Listed(Parent[n])
    /\ \A n \in Inodes : index[n] = 1 => Listed(Parent[n])
    /\ \A v, w \in Workers : v # w => rest[v] \cap rest[w] = {}

Hurt == exn \/ \E w \in Workers : step[w] = "exception"

\* None is forgotten.
FoundInv ==
    ~Hurt => \A n \in Inodes : index[n] = 0 =>
        \/ \E w \in Workers : n \in rest[w]
        \/ Parent[n] \in Unlisted
        \/ ~Listed(Parent[n])

\* The inodes that have still to be fetched.
Fetches == {"tree", "file", "add", "enqueue", "download"}
ToFetch ==
    {n \in Objects : \E x \in 1..Len(queue) : queue[x][1] \in {"tree", "file"} /\ queue[x][2] = n}
Pending ==
    newTrees \cup (IF phase = "tree" THEN left ELSE {}) \cup ToFetch
        \cup {task[w] : w \in {w \in Workers : step[w] \in Fetches}}

\* What a pull has listed it has touched, or it will.
UsedInv ==
    op = "pull" /\ ~Hurt => \A n \in Objects : Listed(n) => Digest[n] \in used \/ n \in Pending

CountInv == Typed /\ JobInv /\ PlaceInv /\ CountsJobs
Listing == OnceInv /\ ListInv /\ FoundInv
PullInv == CountInv /\ Listing /\ UsedInv

-----------------------------------------------------------------------------
(* Sequences.                                                              *)

\* What a sequence has in each place when a member is added at its end.
LEMMA AppendPlaces ==
    ASSUME NEW S, NEW s \in Seq(S), NEW e \in S, NEW r, r = Append(s, e)
    PROVE  /\ Len(s) \in Nat /\ Len(r) = Len(s) + 1
           /\ \A x \in 1..Len(s) : x \in 1..Len(r) /\ r[x] = s[x]
           /\ Len(s) + 1 \in 1..Len(r) /\ r[Len(s) + 1] = e
           /\ \A x \in 1..Len(r) : x \in 1..Len(s) \/ x = Len(s) + 1
<1>1. Len(s) \in Nat /\ Len(r) = Len(s) + 1
    OBVIOUS
<1>2. \A x \in 1..Len(s) : r[x] = s[x]
    OBVIOUS
<1>3. r[Len(s) + 1] = e
    OBVIOUS
<1> QED
    BY <1>1, <1>2, <1>3

\* What it has in each place when its first member is taken.
LEMMA TailPlaces ==
    ASSUME NEW S, NEW s \in Seq(S), s # <<>>
    PROVE  /\ Len(s) \in Nat \ {0} /\ s[1] = Head(s) /\ 1 \in 1..Len(s)
           /\ \A r : r = Tail(s) =>
                 /\ Len(r) = Len(s) - 1
                 /\ \A x \in 1..Len(r) : x + 1 \in 1..Len(s) /\ r[x] = s[x + 1]
                 /\ \A x \in 1..Len(s) : x # 1 => x - 1 \in 1..Len(r) /\ r[x - 1] = s[x]
<1> DEFINE Shifted(r) == Len(r) = Len(s) - 1 /\ \A x \in 1..Len(r) : r[x] = s[x + 1]
           Places(r) == /\ \A x \in 1..Len(r) : x + 1 \in 1..Len(s) /\ r[x] = s[x + 1]
                        /\ \A x \in 1..Len(s) : x # 1 => x - 1 \in 1..Len(r) /\ r[x - 1] = s[x]
<1>1. Len(s) \in Nat \ {0} /\ s[1] = Head(s) /\ Shifted(Tail(s))
    BY EmptySeq, HeadTailProperties
<1>2. ASSUME NEW r, Shifted(r) PROVE Len(r) = Len(s) - 1 /\ Places(r)
    <2>1. \A x \in 1..Len(r) : x + 1 \in 1..Len(s)
        BY <1>1, <1>2
    <2>2. \A x \in 1..Len(s) : x # 1 => x - 1 \in 1..Len(r) /\ x = (x - 1) + 1
        BY <1>1, <1>2
    <2> QED
        BY <1>2, <2>1, <2>2
<1>3. 1 \in 1..Len(s)
    BY <1>1
<1> HIDE DEF Shifted, Places
<1>4. \A r : r = Tail(s) => Len(r) = Len(s) - 1 /\ Places(r)
    BY <1>1, <1>2
<1> QED
    BY <1>1, <1>3, <1>4 DEF Places

-----------------------------------------------------------------------------
(* The jobs are counted.                                                   *)

Adding == {w \in Workers : step[w] = "enqueue"}

LEMMA WorkersFinite ==
    /\ IsFiniteSet(Busy) /\ Cardinality(Busy) \in Nat
    /\ IsFiniteSet(Adding) /\ Cardinality(Adding) \in Nat
<1>1. Busy \subseteq Workers /\ Adding \subseteq Workers
    BY DEF Busy, Adding
<1> QED
    BY <1>1, PullAssumption, FS_Subset, FS_CardinalityType

\* When the wait group counts nothing, there is no job.
LEMMA Quiet ==
    ASSUME Typed, CountsJobs, count = 0
    PROVE  queue = <<>> /\ Busy = {} /\ \A w \in Workers : step[w] = "idle"
<1>1. Len(queue) \in Nat /\ (Len(queue) = 0 => queue = <<>>)
    BY EmptySeq DEF Typed
<1>2. Len(queue) = 0 /\ Cardinality(Busy) = 0
    BY <1>1, WorkersFinite DEF CountsJobs, Adding
<1>3. Busy = {}
    BY <1>2, WorkersFinite, FS_EmptySet
<1> QED
    BY <1>1, <1>2, <1>3 DEF Busy

LEMMA CountInit == Init => CountInv
<1> SUFFICES ASSUME Init PROVE CountInv
    OBVIOUS
<1>1. Typed
    <2>1. queue \in Seq(Kinds \X Objects) /\ index \in [Inodes -> Nat]
        BY DEF Init
    <2>6. exn \in BOOLEAN
        BY DEF Init
    <2>2. step \in [Workers -> Steps]
        BY DEF Init, Steps
    <2>3. rest \in [Workers -> SUBSET Inodes] /\ task \in [Workers -> Objects \cup {NoNode}]
        BY DEF Init
    <2>4. phase \in {"tree", "read", "list"} /\ local \subseteq Digests /\ used \subseteq Digests /\ looked = {}
        BY DEF Init, FirstPhase
    <2>5. /\ op \in {"pull", "index_from_tree"} /\ pc = "enqueue" /\ count = 0
          /\ trees = {Root} /\ left = {Root} /\ newTrees = {} /\ Root \in Trees
        BY PullAssumption DEF Init
    <2> QED
        BY <2>1, <2>2, <2>3, <2>4, <2>5, <2>6 DEF Typed
<1>2. JobInv
    BY DEF JobInv, IsStep, Init, FirstPhase
<1>3. PlaceInv
    BY DEF PlaceInv, Init, Over
<1>4. CountsJobs
    <2>1. Busy = {} /\ Adding = {}
        BY DEF Busy, Adding, Init
    <2>2. Cardinality(Busy) = 0 /\ Cardinality(Adding) = 0
        BY <2>1, FS_EmptySet
    <2>3. Len(queue) = 0 /\ count = 0
        BY DEF Init
    <2> QED
        BY <2>2, <2>3 DEF CountsJobs, Adding
<1> QED
    BY <1>1, <1>2, <1>3, <1>4 DEF CountInv

LEMMA ChildrenTyped == \A t : ChildrenOf(t) \subseteq Inodes
BY DEF ChildrenOf

\* A worker in a job has an inode of the right kind.
LEMMA TaskTyped ==
    ASSUME Typed, JobInv, NEW w \in Workers, step[w] \in Fetches \cup {"read"}
    PROVE  task[w] \in Objects /\ Digest[task[w]] \in Digests
BY DEF Typed, JobInv, IsStep, Fetches, Objects, Digests

LEMMA TypedStep ==
    ASSUME Typed, JobInv, [Next]_vars
    PROVE  Typed'
<1> USE DEF Typed, mainVars, sharedVars, cacheVars
<1>1. ASSUME NEW t \in Trees, EnqueueJob(t) PROVE Typed'
    <2>1. queue' \in Seq(Kinds \X Objects)
        BY <1>1 DEF EnqueueJob, Kinds, Objects
    <2> QED
        BY <1>1, <2>1 DEF EnqueueJob
<1>2. CASE AllEnqueued \/ Block \/ SpuriousWake
    BY <1>2 DEF AllEnqueued, Block, SpuriousWake
<1>3. CASE WaitRethrow
    BY <1>3 DEF WaitRethrow, FirstPhase
<1>4. ASSUME NEW w \in Workers, TakeJob(w) PROVE Typed'
    <2>1. Head(queue) \in Kinds \X Objects /\ Tail(queue) \in Seq(Kinds \X Objects)
        BY <1>4 DEF TakeJob
    <2>2. Head(queue)[1] \in Steps /\ Head(queue)[2] \in Objects
        BY <2>1 DEF Kinds, Steps
    <2>3. rest' \in [Workers -> SUBSET Inodes]
        BY <1>4, ChildrenTyped DEF TakeJob
    <2> QED
        BY <1>4, <2>1, <2>2, <2>3 DEF TakeJob
<1>5. ASSUME NEW w \in Workers, Probe(w) \/ Download(w) \/ DownloadFails(w) PROVE Typed'
    <2>1. Digest[task[w]] \in Digests
        BY <1>5, TaskTyped DEF Probe, Download, DownloadFails, Fetches
    <2>2. CASE Probe(w)
        BY <2>1, <2>2 DEF Probe, Present, Steps
    <2>3. CASE Download(w)
        BY <2>1, <2>3 DEF Download, Present, Steps
    <2>4. CASE DownloadFails(w)
        BY <2>4 DEF DownloadFails, Steps
    <2> QED
        BY <1>5, <2>2, <2>3, <2>4
<1>6. ASSUME NEW w \in Workers, ReadTree(w) PROVE Typed'
    <2>1. rest' = rest \/ rest' = [rest EXCEPT ![w] = ChildrenOf(task[w])]
        BY <1>6 DEF ReadTree
    <2>3. rest' \in [Workers -> SUBSET Inodes]
        BY <2>1, ChildrenTyped
    <2>2. step' \in [Workers -> Steps]
        BY <1>6 DEF ReadTree, Steps
    <2> QED
        BY <1>6, <2>2, <2>3 DEF ReadTree
<1>7. ASSUME NEW w \in Workers, NEW n \in Inodes, ListNode(w, n) PROVE Typed'
    <2>1. step' \in [Workers -> Steps] /\ task' \in [Workers -> Objects \cup {NoNode}]
        BY <1>7 DEF ListNode, Steps, Objects
    <2>2. rest' \in [Workers -> SUBSET Inodes] /\ index' \in [Inodes -> Nat]
        BY <1>7 DEF ListNode
    <2> QED
        BY <1>7, <2>1, <2>2 DEF ListNode
<1>8. ASSUME NEW w \in Workers, AddJob(w) PROVE Typed'
    BY <1>8 DEF AddJob, Steps
<1>9. ASSUME NEW w \in Workers, EnqueueFile(w) PROVE Typed'
    <2>1. task[w] \in Objects
        BY <1>9, TaskTyped DEF EnqueueFile, Fetches
    <2>2. queue' \in Seq(Kinds \X Objects)
        BY <1>9, <2>1 DEF EnqueueFile, Kinds
    <2> QED
        BY <1>9, <2>2 DEF EnqueueFile, Steps
<1>10. ASSUME NEW w \in Workers, AllListed(w) PROVE Typed'
    BY <1>10 DEF AllListed, Steps
<1>11. ASSUME NEW w \in Workers, Done(w) PROVE Typed'
    BY <1>11 DEF Done, CountDown, Steps
<1>12. ASSUME NEW w \in Workers, Exception(w) PROVE Typed'
    BY <1>12 DEF Exception, CountDown, Steps
<1>13. ASSUME NEW h \in Digests, Look(h) \/ Evict(h) PROVE Typed'
    BY <1>13 DEF Look, Evict
<1>14. CASE UNCHANGED vars
    BY <1>14 DEF vars
<1> QED
    BY <1>1, <1>2, <1>3, <1>4, <1>5, <1>6, <1>7, <1>8, <1>9, <1>10, <1>11, <1>12, <1>13, <1>14
    DEF Next, MainStep, WorkerStep, Terminated

\* The queue has jobs of the phase after an append, too.
LEMMA JobAppended ==
    ASSUME Typed, JobInv, op' = op, phase' = phase, NEW e \in Kinds \X Objects,
           IsJob(e[1], e[2]), queue' = Append(queue, e)
    PROVE  (\A x \in 1..Len(queue) : IsJob(queue[x][1], queue[x][2]))'
<1>1. /\ \A x \in 1..Len(queue) : x \in 1..Len(queue') /\ queue'[x] = queue[x]
      /\ queue'[Len(queue) + 1] = e
      /\ \A x \in 1..Len(queue') : x \in 1..Len(queue) \/ x = Len(queue) + 1
    BY AppendPlaces DEF Typed
<1>2. \A x \in 1..Len(queue') : IsJob(queue'[x][1], queue'[x][2])
    BY <1>1 DEF JobInv
<1> QED
    BY <1>2 DEF IsJob

LEMMA JobStep ==
    ASSUME Typed, JobInv, CountsJobs, [Next]_vars
    PROVE  JobInv'
<1> USE DEF Typed, mainVars, sharedVars, cacheVars
<1>0. ASSUME op' = op, phase' = phase, queue' = queue, \A w \in Workers : IsStep(w)'
      PROVE  JobInv'
    BY <1>0 DEF JobInv, IsJob
<1>1. ASSUME NEW t \in Trees, EnqueueJob(t) PROVE JobInv'
    <2>1. <<phase, t>> \in Kinds \X Objects /\ IsJob(phase, t)
        BY DEF Kinds, Objects, IsJob, JobInv
    <2>2. (\A x \in 1..Len(queue) : IsJob(queue[x][1], queue[x][2]))'
        BY <1>1, <2>1, JobAppended DEF EnqueueJob
    <2> QED
        BY <1>1, <2>2 DEF EnqueueJob, JobInv, IsStep, FirstPhase
<1>2. CASE AllEnqueued \/ Block \/ SpuriousWake
    BY <1>0, <1>2 DEF AllEnqueued, Block, SpuriousWake, JobInv, IsStep, FirstPhase
<1>3. CASE WaitRethrow
    <2>1. queue = <<>> /\ \A w \in Workers : step[w] = "idle"
        BY <1>3, Quiet DEF WaitRethrow
    <2>2. \A w \in Workers : IsStep(w)'
        BY <1>3, <2>1 DEF WaitRethrow, JobInv, IsStep
    <2>3. phase' \in IF op' = "pull" THEN {"tree", "list"} ELSE {"read"}
        BY <1>3 DEF WaitRethrow, JobInv, FirstPhase
    <2> QED
        BY <1>3, <2>1, <2>2, <2>3 DEF WaitRethrow, JobInv
<1>4. ASSUME NEW w \in Workers, TakeJob(w) PROVE JobInv'
    <2>1. /\ queue[1] = Head(queue) /\ 1 \in 1..Len(queue)
          /\ \A x \in 1..Len(queue') : x + 1 \in 1..Len(queue) /\ queue'[x] = queue[x + 1]
        BY <1>4, TailPlaces DEF TakeJob
    <2>2. IsJob(Head(queue)[1], Head(queue)[2])
        BY <2>1 DEF JobInv
    <2>3. (\A x \in 1..Len(queue) : IsJob(queue[x][1], queue[x][2]))'
        <3>1. \A x \in 1..Len(queue') : IsJob(queue'[x][1], queue'[x][2])
            BY <2>1 DEF JobInv
        <3> QED
            BY <1>4, <3>1 DEF IsJob, TakeJob
    <2>4. IsStep(w)'
        <3>1. /\ step'[w] = Head(queue)[1] /\ task'[w] = Head(queue)[2]
              /\ op' = op /\ phase' = phase
              /\ rest'[w] = {} \/ step'[w] = "list"
            BY <1>4 DEF TakeJob
        <3> QED
            BY <2>2, <3>1 DEF IsStep, IsJob, FirstPhase, JobInv
    <2>5. \A v \in Workers : v # w => IsStep(v)'
        BY <1>4 DEF TakeJob, IsStep, FirstPhase, JobInv
    <2> QED
        BY <1>4, <2>3, <2>4, <2>5 DEF TakeJob, JobInv
<1>5. ASSUME NEW w \in Workers,
             Probe(w) \/ Download(w) \/ DownloadFails(w) \/ AllListed(w) \/ Done(w) \/ Exception(w)
      PROVE  JobInv'
    <2>1. \A v \in Workers : v # w => IsStep(v)'
        BY <1>5 DEF IsStep, FirstPhase, JobInv, Probe, Download, DownloadFails, AllListed, Done, Exception
    <2>2. IsStep(w)'
        <3>1. CASE Probe(w)
            <4>1. /\ step'[w] = "download" \/ step'[w] = Present(task[w])
                  /\ step[w] \in {"tree", "file"} /\ UNCHANGED <<op, phase, task, rest>>
                BY <3>1 DEF Probe
            <4> QED
                BY <4>1, PullAssumption DEF Present, IsStep, FirstPhase, JobInv
        <3>2. CASE Download(w)
            BY <3>2, PullAssumption DEF Download, Present, IsStep, FirstPhase, JobInv
        <3>3. CASE DownloadFails(w) \/ AllListed(w) \/ Done(w) \/ Exception(w)
            BY <3>3 DEF DownloadFails, AllListed, Done, Exception, IsStep, JobInv
        <3> QED
            BY <1>5, <3>1, <3>2, <3>3
    <2>3. op' = op /\ phase' = phase /\ queue' = queue
        BY <1>5 DEF Probe, Download, DownloadFails, AllListed, Done, Exception
    <2> QED
        BY <1>0, <2>1, <2>2, <2>3
<1>6. ASSUME NEW w \in Workers, ReadTree(w) PROVE JobInv'
    BY <1>0, <1>6 DEF ReadTree, IsStep, FirstPhase, JobInv
<1>7. ASSUME NEW w \in Workers, NEW n \in Inodes, ListNode(w, n) PROVE JobInv'
    <2>1. \A v \in Workers : v # w => IsStep(v)'
        BY <1>7 DEF ListNode, IsStep, FirstPhase, JobInv
    <2>2. IsStep(w)'
        BY <1>7 DEF ListNode, IsStep, JobInv
    <2> QED
        BY <1>0, <1>7, <2>1, <2>2 DEF ListNode
<1>8. ASSUME NEW w \in Workers, AddJob(w) PROVE JobInv'
    BY <1>0, <1>8 DEF AddJob, IsStep, FirstPhase, JobInv
<1>9. ASSUME NEW w \in Workers, EnqueueFile(w) PROVE JobInv'
    <2>1. <<"file", task[w]>> \in Kinds \X Objects /\ IsJob("file", task[w])
        BY <1>9 DEF EnqueueFile, JobInv, IsStep, IsJob, Kinds, Objects
    <2>2. (\A x \in 1..Len(queue) : IsJob(queue[x][1], queue[x][2]))'
        BY <1>9, <2>1, JobAppended DEF EnqueueFile
    <2> QED
        BY <1>9, <2>2 DEF EnqueueFile, JobInv, IsStep, FirstPhase
<1>10. ASSUME NEW h \in Digests, Look(h) \/ Evict(h) PROVE JobInv'
    BY <1>0, <1>10 DEF Look, Evict, IsStep, FirstPhase, JobInv
<1>11. CASE UNCHANGED vars
    BY <1>0, <1>11 DEF vars, IsStep, FirstPhase, JobInv
<1> QED
    BY <1>1, <1>2, <1>3, <1>4, <1>5, <1>6, <1>7, <1>8, <1>9, <1>10, <1>11
    DEF Next, MainStep, WorkerStep, Terminated

LEMMA PlaceStep ==
    ASSUME CountInv, [Next]_vars
    PROVE  PlaceInv'
<1> USE DEF CountInv, Typed, PlaceInv, mainVars, sharedVars, cacheVars
<1>0. ASSUME NEW w \in Workers, step[w] # "idle" PROVE pc \notin Over
    BY <1>0, Quiet DEF PlaceInv
<1>1. ASSUME NEW t \in Trees, EnqueueJob(t) PROVE PlaceInv'
    BY <1>1 DEF EnqueueJob, Over
<1>2. CASE AllEnqueued \/ Block \/ SpuriousWake
    BY <1>2 DEF AllEnqueued, Block, SpuriousWake, Over
<1>3. CASE WaitRethrow
    BY <1>3 DEF WaitRethrow, FirstPhase, JobInv, Over
<1>4. ASSUME NEW w \in Workers, Done(w) \/ Exception(w) PROVE PlaceInv'
    BY <1>0, <1>4 DEF Done, Exception, CountDown, Over
<1>5. ASSUME NEW w \in Workers, AddJob(w) PROVE PlaceInv'
    BY <1>0, <1>5 DEF AddJob, Over
<1>6. ASSUME NEW w \in Workers, NEW n \in Inodes, ListNode(w, n) PROVE PlaceInv'
    <2>1. phase # "tree"
        BY <1>6 DEF ListNode, JobInv, IsStep
    <2> QED
        BY <1>0, <1>6, <2>1 DEF ListNode, Over
<1>7. ASSUME UNCHANGED <<mainVars, count, exn, newTrees>> PROVE PlaceInv'
    BY <1>7
<1>8. ASSUME NEW w \in Workers,
             \/ TakeJob(w) \/ Probe(w) \/ Download(w) \/ DownloadFails(w) \/ ReadTree(w)
             \/ EnqueueFile(w) \/ AllListed(w)
      PROVE  PlaceInv'
    BY <1>7, <1>8 DEF TakeJob, Probe, Download, DownloadFails, ReadTree, EnqueueFile, AllListed
<1>9. ASSUME NEW h \in Digests, Look(h) \/ Evict(h) PROVE PlaceInv'
    BY <1>7, <1>9 DEF Look, Evict
<1>10. CASE UNCHANGED vars
    BY <1>7, <1>10 DEF vars
<1> QED
    BY <1>1, <1>2, <1>3, <1>4, <1>5, <1>6, <1>8, <1>9, <1>10
    DEF Next, MainStep, WorkerStep, Terminated

LEMMA CountStep ==
    ASSUME Typed, CountsJobs, JobInv, [Next]_vars
    PROVE  CountsJobs'
<1> USE DEF Typed, mainVars, sharedVars, cacheVars
<1>0. /\ IsFiniteSet(Busy) /\ Cardinality(Busy) \in Nat /\ Len(queue) \in Nat
      /\ IsFiniteSet(Adding) /\ Cardinality(Adding) \in Nat
      /\ count = Len(queue) + Cardinality(Busy) + Cardinality(Adding)
    BY WorkersFinite DEF CountsJobs, Adding
<1>a. ASSUME count' = Len(queue') + Cardinality(Busy') + Cardinality(Adding') PROVE CountsJobs'
    BY <1>a DEF CountsJobs, Adding
<1>1. ASSUME Busy' = Busy, Adding' = Adding, queue' = queue, count' = count PROVE CountsJobs'
    BY <1>0, <1>1, <1>a
<1>2. CASE AllEnqueued \/ Block \/ SpuriousWake \/ WaitRethrow
    BY <1>1, <1>2 DEF Busy, Adding, AllEnqueued, Block, SpuriousWake, WaitRethrow
<1>3. ASSUME NEW t \in Trees, EnqueueJob(t) PROVE CountsJobs'
    <2>1. Busy' = Busy /\ Adding' = Adding /\ count' = count + 1
        BY <1>3 DEF Busy, Adding, EnqueueJob
    <2>2. Len(queue') = Len(queue) + 1
        BY <1>3 DEF EnqueueJob
    <2> QED
        BY <1>0, <1>a, <2>1, <2>2
<1>4. ASSUME NEW w \in Workers, TakeJob(w) PROVE CountsJobs'
    <2>0. Head(queue)[1] \in Kinds /\ Len(queue') = Len(queue) - 1
        BY <1>4 DEF TakeJob
    <2>1. Busy' = Busy \cup {w} /\ w \notin Busy /\ Adding' = Adding /\ count' = count
        BY <1>4, <2>0 DEF Busy, Adding, TakeJob, Kinds
    <2>2. Cardinality(Busy') = Cardinality(Busy) + 1
        BY <1>0, <2>1, FS_AddElement
    <2> QED
        BY <1>0, <1>a, <2>0, <2>1, <2>2
<1>5. ASSUME NEW w \in Workers,
             Probe(w) \/ Download(w) \/ DownloadFails(w) \/ ReadTree(w) \/ AllListed(w)
      PROVE  CountsJobs'
    <2>1. Busy' = Busy /\ Adding' = Adding
        BY <1>5 DEF Busy, Adding, Probe, Present, Download, DownloadFails, ReadTree, AllListed
    <2>2. queue' = queue /\ count' = count
        BY <1>5 DEF Probe, Download, DownloadFails, ReadTree, AllListed
    <2> QED
        BY <1>1, <2>1, <2>2
<1>6. ASSUME NEW w \in Workers, NEW n \in Inodes, ListNode(w, n) PROVE CountsJobs'
    BY <1>1, <1>6 DEF Busy, Adding, ListNode
<1>7. ASSUME NEW w \in Workers, AddJob(w) PROVE CountsJobs'
    <2>1. Adding' = Adding \cup {w} /\ w \notin Adding /\ Busy' = Busy
        BY <1>7 DEF Busy, Adding, AddJob
    <2>2. queue' = queue /\ count' = count + 1
        BY <1>7 DEF AddJob
    <2>3. Cardinality(Adding') = Cardinality(Adding) + 1
        BY <1>0, <2>1, FS_AddElement
    <2> QED
        BY <1>0, <1>a, <2>1, <2>2, <2>3
<1>8. ASSUME NEW w \in Workers, EnqueueFile(w) PROVE CountsJobs'
    <2>1. Adding' = Adding \ {w} /\ w \in Adding /\ Busy' = Busy /\ count' = count
        BY <1>8 DEF Busy, Adding, EnqueueFile
    <2>2. Len(queue') = Len(queue) + 1
        <3>1. <<"file", task[w]>> \in Kinds \X Objects
            BY <1>8 DEF EnqueueFile, JobInv, IsStep, Kinds, Objects
        <3> QED
            BY <1>8, <3>1 DEF EnqueueFile
    <2>3. Cardinality(Adding') = Cardinality(Adding) - 1
        BY <1>0, <2>1, FS_RemoveElement
    <2> QED
        BY <1>0, <1>a, <2>1, <2>2, <2>3
<1>9. ASSUME NEW w \in Workers, Done(w) \/ Exception(w) PROVE CountsJobs'
    <2>1. Busy' = Busy \ {w} /\ w \in Busy /\ Adding' = Adding
        BY <1>9 DEF Busy, Adding, Done, Exception
    <2>2. queue' = queue /\ count' = count - 1
        BY <1>9 DEF Done, Exception, CountDown
    <2>3. Cardinality(Busy') = Cardinality(Busy) - 1
        BY <1>0, <2>1, FS_RemoveElement
    <2> QED
        BY <1>0, <1>a, <2>1, <2>2, <2>3
<1>10. ASSUME NEW h \in Digests, Look(h) \/ Evict(h) PROVE CountsJobs'
    BY <1>1, <1>10 DEF Busy, Adding, Look, Evict
<1>11. CASE UNCHANGED vars
    BY <1>1, <1>11 DEF Busy, Adding, vars
<1> QED
    BY <1>2, <1>3, <1>4, <1>5, <1>6, <1>7, <1>8, <1>9, <1>10, <1>11
    DEF Next, MainStep, WorkerStep, Terminated

LEMMA CountInvStep ==
    ASSUME CountInv, [Next]_vars
    PROVE  CountInv'
BY TypedStep, JobStep, PlaceStep, CountStep DEF CountInv

-----------------------------------------------------------------------------
(* Each inode is listed once.                                              *)

\* What an append does to the jobs that list.
LEMMA QueueAppended ==
    ASSUME Typed, QueuedOnce, op' = op, NEW e \in Kinds \X Objects, queue' = Append(queue, e),
           e[1] = ListJob => e[2] \in Trees \ Queued
    PROVE  /\ Queued' = Queued \cup (IF e[1] = ListJob THEN {e[2]} ELSE {})
           /\ QueuedOnce'
<1>1. /\ \A x \in 1..Len(queue) : x \in 1..Len(queue') /\ queue'[x] = queue[x]
      /\ Len(queue) + 1 \in 1..Len(queue') /\ queue'[Len(queue) + 1] = e
      /\ \A x \in 1..Len(queue') : x \in 1..Len(queue) \/ x = Len(queue) + 1
    BY AppendPlaces DEF Typed
<1>2. ListJob' = ListJob
    BY DEF ListJob
<1>3. e = <<e[1], e[2]>> /\ \A x \in 1..Len(queue) : queue[x] = <<queue[x][1], queue[x][2]>>
    BY DEF Typed
<1>4. Queued' = Queued \cup (IF e[1] = ListJob THEN {e[2]} ELSE {})
    <2>1. \A t \in Queued : t \in Queued'
        BY <1>1, <1>2 DEF Queued
    <2>2. e[1] = ListJob => e[2] \in Queued'
        BY <1>1, <1>2, <1>3 DEF Queued
    <2>3. \A t \in Queued' : t \in Queued \/ (e[1] = ListJob /\ t = e[2])
        <3> SUFFICES ASSUME NEW t \in Queued' PROVE t \in Queued \/ (e[1] = ListJob /\ t = e[2])
            OBVIOUS
        <3>1. t \in Trees /\ \E x \in 1..Len(queue') : queue'[x] = <<ListJob, t>>
            BY <1>2 DEF Queued
        <3>2. PICK x \in 1..Len(queue') : queue'[x] = <<ListJob, t>>
            BY <3>1
        <3> QED
            BY <1>1, <3>1, <3>2 DEF Queued
    <2> QED
        BY <2>1, <2>2, <2>3
<1>5. QueuedOnce'
    <2>1. \A x \in 1..Len(queue) : queue[x] = e /\ e[1] = ListJob => FALSE
        BY <1>3 DEF Queued
    <2>2. \A x, y \in 1..Len(queue') : queue'[x] = queue'[y] /\ queue'[x][1] = ListJob => x = y
        BY <1>1, <2>1 DEF QueuedOnce
    <2> QED
        BY <1>2, <2>2 DEF QueuedOnce
<1> QED
    BY <1>4, <1>5

\* What the taking of a job does to them.
LEMMA QueueTaken ==
    ASSUME Typed, JobInv, QueuedOnce, op' = op, queue # <<>>, queue' = Tail(queue),
           NEW e, e = Head(queue)
    PROVE  /\ e \in Kinds \X Objects /\ IsJob(e[1], e[2])
           /\ e[1] = ListJob => e[2] \in Queued
           /\ Queued' = Queued \ (IF e[1] = ListJob THEN {e[2]} ELSE {})
           /\ QueuedOnce'
<1>1. /\ queue[1] = e /\ 1 \in 1..Len(queue)
      /\ \A x \in 1..Len(queue') : x + 1 \in 1..Len(queue) /\ queue'[x] = queue[x + 1]
      /\ \A x \in 1..Len(queue) : x # 1 => x - 1 \in 1..Len(queue') /\ queue'[x - 1] = queue[x]
      /\ Len(queue') = Len(queue) - 1 /\ Len(queue) \in Nat
    BY TailPlaces DEF Typed
<1>2. ListJob' = ListJob
    BY DEF ListJob
<1>3. e \in Kinds \X Objects /\ IsJob(e[1], e[2])
    BY <1>1 DEF Typed, JobInv
<1>4. e[1] = ListJob => e[2] \in Trees
    BY <1>3 DEF ListJob, IsJob
<1>5. e = <<e[1], e[2]>>
    BY <1>3
<1>6. e[1] = ListJob => e[2] \in Queued
    BY <1>1, <1>4, <1>5 DEF Queued
<1>7. \A t \in Trees : (\E x \in 1..Len(queue') : queue'[x] = <<ListJob, t>>) => t \in Queued
    BY <1>1 DEF Queued
<1>8. \A x \in 1..Len(queue') : queue'[x] = e /\ e[1] = ListJob => FALSE
    <2> SUFFICES ASSUME NEW x \in 1..Len(queue'), queue'[x] = e, e[1] = ListJob PROVE FALSE
        OBVIOUS
    <2>1. x + 1 \in 1..Len(queue) /\ queue[x + 1] = e
        BY <1>1
    <2>2. x + 1 = 1
        BY <1>1, <2>1 DEF QueuedOnce
    <2> QED
        BY <2>2, <1>1
<1>9. \A t \in Queued : t \in Queued' \/ <<ListJob, t>> = e
    <2> SUFFICES ASSUME NEW t \in Queued PROVE t \in Queued' \/ <<ListJob, t>> = e
        OBVIOUS
    <2>1. PICK x \in 1..Len(queue) : queue[x] = <<ListJob, t>>
        BY DEF Queued
    <2>2. CASE x = 1
        BY <1>1, <2>1, <2>2
    <2>3. CASE x # 1
        BY <1>1, <1>2, <2>1, <2>3 DEF Queued
    <2> QED
        BY <2>2, <2>3
<1>10. Queued' = Queued \ (IF e[1] = ListJob THEN {e[2]} ELSE {})
    <2>1. \A t \in Queued' : t \in Queued
        BY <1>2, <1>7 DEF Queued
    <2>2. e[1] = ListJob => e[2] \notin Queued'
        BY <1>2, <1>5, <1>8 DEF Queued
    <2> QED
        BY <1>5, <1>9, <2>1, <2>2
<1>11. QueuedOnce'
    <2> SUFFICES ASSUME NEW x \in 1..Len(queue'), NEW y \in 1..Len(queue'),
                        queue'[x] = queue'[y], queue'[x][1] = ListJob
                 PROVE  x = y
        BY <1>2 DEF QueuedOnce
    <2>1. x + 1 = y + 1
        BY <1>1 DEF QueuedOnce
    <2> QED
        BY <1>1, <2>1
<1> QED
    BY <1>3, <1>6, <1>10, <1>11

\* What is said of the list stays when no tree is added and no inode listed.
LEMMA ListKept ==
    ASSUME ListInv, Unlisted' \subseteq Unlisted, index' = index, rest' = rest
    PROVE  ListInv'
BY DEF ListInv, Listed

LEMMA FoundKept ==
    ASSUME FoundInv, Unlisted \subseteq Unlisted', index' = index, rest' = rest, Hurt => Hurt'
    PROVE  FoundInv'
BY DEF FoundInv, Listed

\* It stays when a worker starts to list the inodes of a tree.
LEMMA ListOpened ==
    ASSUME Typed, ListInv, NEW w \in Workers, NEW t \in Unlisted, rest[w] = {},
           Unlisted' = Unlisted \ {t}, index' = index,
           rest' = [rest EXCEPT ![w] = ChildrenOf(t)]
    PROVE  ListInv'
<1>1. \A v \in Workers : rest'[v] = IF v = w THEN ChildrenOf(t) ELSE rest[v]
    BY DEF Typed
<1>2. \A n \in Inodes : n \in ChildrenOf(t) <=> Parent[n] = t
    BY DEF ChildrenOf
<1>3. \A n : Listed(n)' <=> Listed(n)
    BY DEF Listed
<1>4. ChildrenOf(t) \subseteq Inodes
    BY ChildrenTyped
<1>5. \A n \in Inodes : Parent[n] \in Unlisted' => index'[n] = 0 /\ \A v \in Workers : n \notin rest'[v]
    BY <1>1, <1>2 DEF ListInv
<1>6. \A v \in Workers : \A n \in rest'[v] : index'[n] = 0 /\ Listed(Parent[n])
    BY <1>1, <1>2, <1>4 DEF ListInv
<1>7. \A u, v \in Workers : u # v => rest'[u] \cap rest'[v] = {}
    BY <1>1, <1>2, <1>4 DEF ListInv
<1>8. \A n \in Inodes : index'[n] \in {0, 1}
    BY DEF ListInv
<1>9. \A x \in Unlisted' : Listed(x)
    BY DEF ListInv
<1>10. \A n \in Inodes : index'[n] = 1 => Listed(Parent[n])
    BY DEF ListInv
<1> QED
    BY <1>3, <1>5, <1>6, <1>7, <1>8, <1>9, <1>10 DEF ListInv

LEMMA FoundOpened ==
    ASSUME Typed, FoundInv, NEW w \in Workers, NEW t \in Unlisted, rest[w] = {},
           Unlisted' = Unlisted \ {t}, index' = index, Hurt => Hurt',
           rest' = [rest EXCEPT ![w] = ChildrenOf(t)]
    PROVE  FoundInv'
<1>1. \A v \in Workers : rest'[v] = IF v = w THEN ChildrenOf(t) ELSE rest[v]
    BY DEF Typed
<1>2. \A n \in Inodes : n \in ChildrenOf(t) <=> Parent[n] = t
    BY DEF ChildrenOf
<1> QED
    BY <1>1, <1>2 DEF FoundInv, Listed

\* It stays when an inode is listed, and a tree is then to be listed.
LEMMA ListAdded ==
    ASSUME Typed, ListInv, Unlisted \subseteq Trees, NEW w \in Workers, NEW n \in rest[w],
           Unlisted' = Unlisted \cup ({n} \cap Trees), index' = [index EXCEPT ![n] = @ + 1],
           rest' = [rest EXCEPT ![w] = @ \ {n}]
    PROVE  ListInv'
<1>0. n \in Inodes /\ n # Root /\ index[n] = 0
    BY DEF Typed, ListInv, Inodes
<1>1. \A v \in Workers : rest'[v] = IF v = w THEN rest[v] \ {n} ELSE rest[v]
    BY DEF Typed
<1>2. \A m \in Inodes : index'[m] = IF m = n THEN 1 ELSE index[m]
    BY <1>0 DEF Typed
<1>3. \A v \in Workers : rest[v] \subseteq Inodes
    BY DEF Typed
<1>4. Parent \in [Inodes -> Trees] /\ Trees \subseteq Inodes \cup {Root}
    BY PullAssumption DEF Inodes, Nodes
<1>5. \A m \in Inodes \cup {Root} : Listed(m)' <=> Listed(m) \/ m = n
    BY <1>0, <1>2 DEF Listed, Inodes
<1>6. \A m \in Inodes : index'[m] \in {0, 1}
    BY <1>2 DEF ListInv
<1>7. \A x \in Unlisted' : Listed(x)'
    BY <1>0, <1>4, <1>5 DEF ListInv
<1>8. ASSUME NEW m \in Inodes, Parent[m] \in Unlisted'
      PROVE  index'[m] = 0 /\ \A v \in Workers : m \notin rest'[v]
    <2>1. index[m] = 0 /\ \A v \in Workers : m \notin rest[v]
        <3>1. CASE Parent[m] \in Unlisted
            BY <3>1 DEF ListInv
        <3>2. CASE Parent[m] = n
            BY <1>0, <3>2 DEF ListInv, Listed
        <3> QED
            BY <1>8, <3>1, <3>2
    <2> QED
        BY <1>1, <1>2, <2>1
<1>9. \A v \in Workers : \A m \in rest'[v] : index'[m] = 0 /\ Listed(Parent[m])'
    <2> SUFFICES ASSUME NEW v \in Workers, NEW m \in rest'[v]
                 PROVE  index'[m] = 0 /\ Listed(Parent[m])'
        OBVIOUS
    <2>1. m \in rest[v] /\ m \in Inodes /\ m # n
        BY <1>1, <1>3 DEF ListInv
    <2>2. index[m] = 0 /\ Listed(Parent[m]) /\ Parent[m] \in Inodes \cup {Root}
        BY <1>4, <2>1 DEF ListInv
    <2> QED
        BY <1>2, <1>5, <2>1, <2>2
<1>10. \A m \in Inodes : index'[m] = 1 => Listed(Parent[m])'
    <2> SUFFICES ASSUME NEW m \in Inodes, index'[m] = 1 PROVE Listed(Parent[m])'
        OBVIOUS
    <2>1. Listed(Parent[m]) /\ Parent[m] \in Inodes \cup {Root}
        BY <1>2, <1>4 DEF ListInv
    <2> QED
        BY <1>5, <2>1
<1>11. \A u, v \in Workers : u # v => rest'[u] \cap rest'[v] = {}
    BY <1>1 DEF ListInv
<1> QED
    BY <1>6, <1>7, <1>8, <1>9, <1>10, <1>11 DEF ListInv

LEMMA FoundAdded ==
    ASSUME Typed, ListInv, FoundInv, NEW w \in Workers, NEW n \in rest[w], Hurt => Hurt',
           Unlisted' = Unlisted \cup ({n} \cap Trees), index' = [index EXCEPT ![n] = @ + 1],
           rest' = [rest EXCEPT ![w] = @ \ {n}]
    PROVE  FoundInv'
<1> SUFFICES ASSUME ~Hurt', NEW m \in Inodes, index'[m] = 0
             PROVE  \/ \E v \in Workers : m \in rest'[v]
                    \/ Parent[m] \in Unlisted'
                    \/ ~Listed(Parent[m])'
    BY DEF FoundInv
<1>1. n \in Inodes /\ n # Root /\ index[n] = 0
    BY DEF Typed, ListInv, Inodes
<1>2. m # n /\ index[m] = 0 /\ Parent[m] \in Trees
    <2>1. \A k \in Inodes : index'[k] = IF k = n THEN 1 ELSE index[k]
        BY <1>1 DEF Typed
    <2> QED
        BY <2>1, PullAssumption
<1>3. CASE Parent[m] = n
    BY <1>2, <1>3
<1>4. CASE Parent[m] # n
    <2>1. Listed(Parent[m])' <=> Listed(Parent[m])
        <3>1. Parent[m] = Root \/ Parent[m] \in Inodes
            BY <1>2 DEF Inodes, Nodes
        <3> QED
            BY <1>1, <1>4, <3>1 DEF Listed, Typed
    <2>2. \A v \in Workers : m \in rest[v] => m \in rest'[v]
        BY <1>2 DEF Typed
    <2> QED
        BY <1>2, <2>1, <2>2 DEF FoundInv
<1> QED
    BY <1>3, <1>4

LEMMA ListingInit == Init => Listing
<1> SUFFICES ASSUME Init PROVE Listing
    OBVIOUS
<1>1. queue = <<>> /\ \A w \in Workers : step[w] = "idle" /\ rest[w] = {}
    BY DEF Init
<1>2. \A n \in Inodes : index[n] = 0 /\ n # Root /\ Parent[n] \in Trees
    BY PullAssumption DEF Init, Inodes
<1>3. Len(queue) = 0
    BY <1>1
<1>4. Queued = {} /\ QueuedOnce /\ \A w \in Workers : ~Reading(w)
    BY <1>1, <1>3 DEF Queued, QueuedOnce, Reading
<1>5. newTrees = {} /\ OfLevel = {Root}
    BY DEF Init, OfLevel
<1>6. Unlisted = {Root}
    BY <1>4, <1>5 DEF Unlisted
<1>7. OnceInv
    BY <1>4, <1>5 DEF OnceInv
<1>8. ListInv
    BY <1>1, <1>2, <1>6 DEF ListInv, Listed
<1>9. FoundInv
    <2>1. ASSUME NEW t \in Trees PROVE t = Root \/ (t \in Inodes /\ index[t] = 0)
        BY <1>2 DEF Inodes, Nodes
    <2> QED
        BY <1>2, <1>6, <2>1 DEF FoundInv, Listed
<1> QED
    BY <1>7, <1>8, <1>9 DEF Listing

LEMMA UnlistedTrees ==
    ASSUME Typed, JobInv PROVE Unlisted \subseteq Trees
BY DEF Typed, JobInv, IsStep, Unlisted, OfLevel, Queued, Reading

\* A step that moves no tree, or drops one and fails.
LEMMA NothingListed ==
    ASSUME Typed, Listing, UNCHANGED <<op, newTrees, queue, index, rest>>, OfLevel' = OfLevel,
           \A w \in Workers : Reading(w)' => Reading(w) /\ task'[w] = task[w],
           Hurt => Hurt', Hurt' \/ \A w \in Workers : Reading(w) => Reading(w)'
    PROVE  Listing'
<1>1. Queued' = Queued /\ QueuedOnce' = QueuedOnce
    BY DEF Queued, QueuedOnce, ListJob
<1>2. Unlisted' \subseteq Unlisted
    BY <1>1 DEF Unlisted
<1>3. OnceInv'
    BY <1>1 DEF Listing, OnceInv
<1>4. ListInv'
    BY <1>2, ListKept DEF Listing
<1>5. FoundInv'
    <2>1. CASE Hurt'
        BY <2>1 DEF FoundInv
    <2>2. CASE \A w \in Workers : Reading(w) => Reading(w)'
        <3>1. Unlisted \subseteq Unlisted'
            BY <1>1, <2>2 DEF Unlisted
        <3> QED
            BY <3>1, FoundKept DEF Listing
    <2> QED
        BY <2>1, <2>2
<1> QED
    BY <1>3, <1>4, <1>5 DEF Listing

\* The thread that called pull only moves trees on.
LEMMA ListingMain ==
    ASSUME CountInv, Listing, MainStep \/ SpuriousWake
    PROVE  Listing'
<1> USE DEF mainVars, sharedVars, cacheVars
<1>0. Typed /\ JobInv /\ PlaceInv /\ CountsJobs /\ OnceInv /\ ListInv /\ FoundInv
    BY DEF CountInv, Listing
<1>1. CASE AllEnqueued \/ Block \/ SpuriousWake
    BY <1>0, <1>1, NothingListed DEF AllEnqueued, Block, SpuriousWake, OfLevel, Reading, Hurt
<1>2. ASSUME OnceInv', Unlisted' = Unlisted, index' = index, rest' = rest, Hurt => Hurt'
      PROVE  Listing'
    BY <1>0, <1>2, ListKept, FoundKept DEF Listing
<1>3. CASE WaitRethrow
    <2>1. queue = <<>> /\ \A w \in Workers : step[w] = "idle"
        BY <1>0, <1>3, Quiet DEF WaitRethrow
    <2>2. Len(queue) = 0 /\ left = {} /\ (phase = "tree" => newTrees = {})
        BY <1>0, <1>3, <2>1 DEF PlaceInv, WaitRethrow
    <2>3. Queued = {} /\ \A w \in Workers : ~Reading(w)
        BY <2>1, <2>2 DEF Queued, Reading
    <2>4. Queued' = {} /\ QueuedOnce' /\ \A w \in Workers : ~Reading(w)'
        BY <1>3, <2>1, <2>2 DEF Queued, QueuedOnce, Reading, WaitRethrow
    <2>5. newTrees' \cup OfLevel' = newTrees \cup OfLevel /\ newTrees' \cap OfLevel' = {}
        BY <1>0, <1>3, <2>2 DEF WaitRethrow, OfLevel, OnceInv
    <2>6. Unlisted' = Unlisted /\ OnceInv'
        BY <2>3, <2>4, <2>5 DEF Unlisted, OnceInv
    <2> QED
        BY <1>2, <1>3, <2>6 DEF WaitRethrow, Hurt
<1>4. ASSUME NEW t \in Trees, EnqueueJob(t) PROVE Listing'
    <2> DEFINE e == <<phase, t>>
    <2>1. e \in Kinds \X Objects /\ (phase # "tree" => phase = ListJob) /\ "tree" # ListJob
        BY <1>0 DEF Kinds, Objects, JobInv, ListJob
    <2>2. OfLevel' = IF phase = "tree" THEN OfLevel ELSE OfLevel \ {t}
        BY <1>4 DEF EnqueueJob, OfLevel
    <2>3. e[1] = ListJob => t \in OfLevel \ Queued
        BY <1>0, <1>4, <2>1 DEF EnqueueJob, OfLevel, OnceInv
    <2>4. Queued' = Queued \cup (IF phase = ListJob THEN {t} ELSE {}) /\ QueuedOnce'
        BY <1>0, <1>4, <2>1, <2>3, QueueAppended DEF EnqueueJob, OnceInv
    <2>5. \A w \in Workers : Reading(w)' = Reading(w) /\ task'[w] = task[w]
        BY <1>4 DEF EnqueueJob, Reading
    <2>6. newTrees' = newTrees
        BY <1>4 DEF EnqueueJob
    <2>7. Unlisted' = Unlisted
        BY <2>1, <2>2, <2>3, <2>4, <2>5, <2>6 DEF Unlisted
    <2>8. OnceInv'
        BY <1>0, <2>1, <2>2, <2>3, <2>4, <2>5, <2>6 DEF OnceInv, Unlisted
    <2> QED
        BY <1>2, <1>4, <2>7, <2>8 DEF EnqueueJob, Hurt
<1> QED
    BY <1>1, <1>3, <1>4 DEF MainStep

\* A worker that takes a job starts to list a tree, or only moves it on.
LEMMA ListingTake ==
    ASSUME CountInv, Listing, NEW w \in Workers, TakeJob(w)
    PROVE  Listing'
<1> DEFINE e == Head(queue)
           t == e[2]
<1> USE DEF mainVars, sharedVars, cacheVars
<1>0. Typed /\ JobInv /\ OnceInv /\ ListInv /\ FoundInv
    BY DEF CountInv, Listing
<1>1. /\ e \in Kinds \X Objects /\ IsJob(e[1], t)
      /\ e[1] = ListJob => t \in Queued
      /\ Queued' = Queued \ (IF e[1] = ListJob THEN {t} ELSE {})
      /\ QueuedOnce'
    BY <1>0, QueueTaken DEF TakeJob, OnceInv
<1>2. /\ step' = [step EXCEPT ![w] = e[1]] /\ task' = [task EXCEPT ![w] = t]
      /\ rest' = [rest EXCEPT ![w] = IF e[1] = "list" THEN ChildrenOf(t) ELSE {}]
      /\ step[w] = "idle" /\ rest[w] = {}
      /\ UNCHANGED <<op, newTrees, exn, index>>
    BY <1>0 DEF TakeJob, JobInv, IsStep
<1>3. OfLevel' = OfLevel
    BY DEF TakeJob, OfLevel
<1>4. Hurt => Hurt'
    BY <1>0, <1>2 DEF Hurt, Typed
<1>5. e[1] = ListJob => t \in Unlisted /\ t \notin newTrees \cup OfLevel
    BY <1>0, <1>1 DEF Unlisted, OnceInv
<1>6. CASE op = "pull"
    <2>1. \A v \in Workers : ~Reading(v) /\ ~Reading(v)'
        BY <1>2, <1>6 DEF Reading
    <2>2. ListJob = "list"
        BY <1>6 DEF ListJob
    <2>3. OnceInv'
        BY <1>0, <1>1, <1>2, <1>3, <2>1 DEF OnceInv
    <2>4. Unlisted' = Unlisted \ (IF e[1] = ListJob THEN {t} ELSE {})
        BY <1>1, <1>2, <1>3, <1>5, <2>1 DEF Unlisted
    <2>5. CASE e[1] = "list"
        BY <1>0, <1>2, <1>4, <1>5, <2>2, <2>3, <2>4, <2>5, ListOpened, FoundOpened DEF Listing
    <2>6. CASE e[1] # "list"
        <3>1. rest' = rest
            BY <1>0, <1>2, <2>6 DEF Typed
        <3> QED
            BY <1>0, <1>2, <1>4, <2>2, <2>3, <2>4, <2>6, <3>1, ListKept, FoundKept DEF Listing
    <2> QED
        BY <2>5, <2>6
<1>7. CASE op # "pull"
    <2>1. e[1] = "read" /\ ListJob = "read"
        BY <1>1, <1>7 DEF IsJob, ListJob
    <2>2. rest' = rest
        BY <1>0, <1>2, <2>1 DEF Typed
    <2>3. \A v \in Workers : /\ Reading(v)' <=> Reading(v) \/ v = w
                             /\ task'[v] = IF v = w THEN t ELSE task[v]
        BY <1>0, <1>2, <1>7, <2>1 DEF Reading, Typed
    <2>4. ~Reading(w)
        BY <1>2 DEF Reading
    <2>5. t \in Queued /\ Queued' = Queued \ {t}
        BY <1>1, <2>1
    <2> HIDE DEF e, t
    <2>6. Unlisted' = Unlisted
        <3>1. \A x \in Unlisted : x \in Unlisted'
            BY <1>2, <1>3, <2>3, <2>4, <2>5 DEF Unlisted
        <3>2. \A x \in Unlisted' : x \in Unlisted
            BY <1>2, <1>3, <2>3, <2>4, <2>5 DEF Unlisted
        <3> QED
            BY <3>1, <3>2
    <2>7. OnceInv'
        <3>1. \A v \in Workers : Reading(v) => task[v] # t
            BY <1>0, <2>5 DEF OnceInv
        <3>2. t \notin newTrees \cup OfLevel
            BY <1>5, <2>1
        <3> QED
            BY <1>0, <1>1, <1>2, <1>3, <2>3, <2>4, <2>5, <3>1, <3>2 DEF OnceInv
    <2> QED
        BY <1>0, <1>2, <1>4, <2>2, <2>6, <2>7, ListKept, FoundKept DEF Listing
<1> QED
    BY <1>6, <1>7

\* index_from_tree reads a tree and starts to list it.
LEMMA ListingRead ==
    ASSUME CountInv, Listing, NEW w \in Workers, ReadTree(w)
    PROVE  Listing'
<1> USE DEF mainVars, sharedVars, cacheVars
<1>0. Typed /\ JobInv /\ OnceInv /\ ListInv /\ FoundInv
    BY DEF CountInv, Listing
<1>1. OfLevel' = OfLevel
    BY DEF ReadTree, OfLevel
<1>2. Hurt => Hurt'
    BY <1>0 DEF ReadTree, Hurt, Typed
<1>3. \A v \in Workers : v # w => (Reading(v)' <=> Reading(v))
    BY <1>0 DEF ReadTree, Reading, Typed
<1>4. ~Reading(w)' /\ task' = task /\ UNCHANGED <<op, newTrees, queue, index>>
    BY <1>0 DEF ReadTree, Reading, Typed
<1>5. CASE op = "pull" \/ Digest[task[w]] \notin local
    <2>1. rest' = rest
        BY <1>5 DEF ReadTree
    <2>2. Hurt' \/ \A v \in Workers : Reading(v) => Reading(v)'
        BY <1>0, <1>5 DEF ReadTree, Hurt, Reading, Typed
    <2> QED
        BY <1>0, <1>1, <1>2, <1>3, <1>4, <2>1, <2>2, NothingListed
<1>6. CASE op # "pull" /\ Digest[task[w]] \in local
    <2>1. /\ rest' = [rest EXCEPT ![w] = ChildrenOf(task[w])]
          /\ rest[w] = {} /\ Reading(w)
        BY <1>0, <1>6 DEF ReadTree, JobInv, IsStep, Reading
    <2>2. Queued' = Queued /\ QueuedOnce' = QueuedOnce
        BY <1>4 DEF Queued, QueuedOnce, ListJob
    <2>3. task[w] \in Unlisted
        BY <2>1 DEF Unlisted
    <2>4. Unlisted' = Unlisted \ {task[w]}
        <3>1. \A x \in Unlisted' : x \in Unlisted /\ x # task[w]
            BY <1>0, <1>1, <1>3, <1>4, <2>1, <2>2 DEF Unlisted, OnceInv
        <3>2. \A x \in Unlisted : x \in Unlisted' \/ x = task[w]
            BY <1>1, <1>3, <1>4, <2>2 DEF Unlisted
        <3> QED
            BY <3>1, <3>2
    <2>5. OnceInv'
        BY <1>0, <1>1, <1>3, <1>4, <2>2 DEF OnceInv
    <2> QED
        BY <1>0, <1>2, <1>4, <2>1, <2>3, <2>4, <2>5, ListOpened, FoundOpened DEF Listing
<1> QED
    BY <1>5, <1>6

\* An inode is listed; a tree is then one of the next level.
LEMMA ListingNode ==
    ASSUME CountInv, Listing, NEW w \in Workers, NEW n \in Inodes, ListNode(w, n)
    PROVE  Listing'
<1> USE DEF mainVars, sharedVars, cacheVars
<1>0. Typed /\ JobInv /\ OnceInv /\ ListInv /\ FoundInv
    BY DEF CountInv, Listing
<1>1. /\ n \in rest[w] /\ rest' = [rest EXCEPT ![w] = @ \ {n}]
      /\ index' = [index EXCEPT ![n] = @ + 1]
      /\ newTrees' = newTrees \cup ({n} \cap Trees)
      /\ UNCHANGED <<op, queue, exn>>
    BY DEF ListNode
<1>2. n \notin Unlisted
    BY <1>0, <1>1 DEF ListInv, Listed, Inodes
<1>3. Queued' = Queued /\ QueuedOnce' = QueuedOnce /\ OfLevel' = OfLevel
    BY DEF ListNode, Queued, QueuedOnce, ListJob, OfLevel
<1>4. \A v \in Workers : /\ Reading(v)' <=> Reading(v)
                         /\ Reading(v) => task'[v] = task[v]
    BY <1>0 DEF ListNode, Reading, Typed
<1>5. Unlisted' = Unlisted \cup ({n} \cap Trees)
    BY <1>1, <1>3, <1>4 DEF Unlisted
<1>6. OnceInv'
    BY <1>0, <1>1, <1>2, <1>3, <1>4 DEF OnceInv, Unlisted
<1>7. Hurt => Hurt'
    BY <1>0 DEF ListNode, Hurt, Typed
<1> QED
    BY <1>0, <1>1, <1>5, <1>6, <1>7, UnlistedTrees, ListAdded, FoundAdded DEF Listing

LEMMA ListingStep ==
    ASSUME CountInv, Listing, [Next]_vars
    PROVE  Listing'
<1> USE DEF mainVars, sharedVars, cacheVars
<1>0. Typed /\ JobInv /\ OnceInv /\ ListInv /\ FoundInv
    BY DEF CountInv, Listing
<1>1. ASSUME NEW w \in Workers,
             Probe(w) \/ Download(w) \/ DownloadFails(w) \/ AddJob(w) \/ AllListed(w) \/ Done(w)
      PROVE  Listing'
    <2>1. step[w] \in {"tree", "download"} /\ step'[w] = "read" => op = "pull"
        BY <1>0, <1>1, PullAssumption
        DEF Probe, Download, DownloadFails, AddJob, AllListed, Done, Present, JobInv, IsStep, Typed
    <2>2. Reading(w)' <=> Reading(w)
        BY <1>0, <1>1, <2>1, PullAssumption
        DEF Probe, Download, DownloadFails, AddJob, AllListed, Done, Present, Reading, JobInv, IsStep, Typed
    <2>3. \A v \in Workers : v # w => (Reading(v)' <=> Reading(v))
        BY <1>0, <1>1
        DEF Probe, Download, DownloadFails, AddJob, AllListed, Done, Reading, Typed
    <2>4. UNCHANGED <<op, phase, trees, left, newTrees, queue, index, rest, task, exn>>
        BY <1>1 DEF Probe, Download, DownloadFails, AddJob, AllListed, Done
    <2>5. Hurt => Hurt'
        BY <1>0, <1>1, <2>4
        DEF Probe, Download, DownloadFails, AddJob, AllListed, Done, Hurt, Typed
    <2> QED
        BY <1>0, <2>2, <2>3, <2>4, <2>5, NothingListed DEF OfLevel
<1>2. ASSUME NEW w \in Workers, Exception(w) PROVE Listing'
    <2>1. \A v \in Workers : Reading(v)' => Reading(v)
        BY <1>0, <1>2 DEF Exception, Reading, Typed
    <2> QED
        BY <1>0, <1>2, <2>1, NothingListed DEF Exception, CountDown, OfLevel, Hurt
<1>3. ASSUME NEW w \in Workers, EnqueueFile(w) PROVE Listing'
    <2> DEFINE e == <<"file", task[w]>>
    <2>1. e \in Kinds \X Objects /\ e[1] # ListJob
        BY <1>0, <1>3 DEF EnqueueFile, JobInv, IsStep, Kinds, Objects, ListJob
    <2>2. Queued' = Queued /\ QueuedOnce'
        BY <1>0, <1>3, <2>1, QueueAppended DEF EnqueueFile, OnceInv
    <2>3. \A v \in Workers : Reading(v)' <=> Reading(v)
        BY <1>0, <1>3 DEF EnqueueFile, Reading, Typed
    <2>4. UNCHANGED <<op, phase, trees, left, newTrees, index, rest, task, exn>>
        BY <1>3 DEF EnqueueFile
    <2>5. OfLevel' = OfLevel /\ (Hurt => Hurt')
        BY <1>0, <1>3, <2>4 DEF EnqueueFile, OfLevel, Hurt, Typed
    <2>6. Unlisted' = Unlisted /\ OnceInv'
        BY <1>0, <2>2, <2>3, <2>4, <2>5 DEF Unlisted, OnceInv
    <2> QED
        BY <1>0, <2>4, <2>5, <2>6, ListKept, FoundKept DEF Listing
<1>4. ASSUME NEW h \in Digests, Look(h) \/ Evict(h) PROVE Listing'
    BY <1>0, <1>4, NothingListed DEF Look, Evict, OfLevel, Reading, Hurt
<1>5. CASE UNCHANGED vars
    BY <1>0, <1>5, NothingListed DEF vars, OfLevel, Reading, Hurt
<1> QED
    BY <1>1, <1>2, <1>3, <1>4, <1>5, ListingMain, ListingTake, ListingRead, ListingNode
    DEF Next, MainStep, WorkerStep, Terminated

-----------------------------------------------------------------------------
(* What a pull has listed is fetched.                                      *)

\* The jobs that fetch, after an append and after the taking of one.
LEMMA FetchAppended ==
    ASSUME Typed, NEW e \in Kinds \X Objects, queue' = Append(queue, e)
    PROVE  ToFetch \cup (IF e[1] \in {"tree", "file"} THEN {e[2]} ELSE {}) \subseteq ToFetch'
<1>1. /\ \A x \in 1..Len(queue) : x \in 1..Len(queue') /\ queue'[x] = queue[x]
      /\ Len(queue) + 1 \in 1..Len(queue') /\ queue'[Len(queue) + 1] = e
    BY AppendPlaces DEF Typed
<1>2. e[2] \in Objects
    OBVIOUS
<1> QED
    BY <1>1, <1>2 DEF ToFetch

LEMMA FetchTaken ==
    ASSUME Typed, queue # <<>>, queue' = Tail(queue), NEW e, e = Head(queue)
    PROVE  ToFetch \subseteq ToFetch' \cup (IF e[1] \in {"tree", "file"} THEN {e[2]} ELSE {})
<1>1. /\ queue[1] = e
      /\ \A x \in 1..Len(queue) : x # 1 => x - 1 \in 1..Len(queue') /\ queue'[x - 1] = queue[x]
    BY TailPlaces DEF Typed
<1> SUFFICES ASSUME NEW n \in ToFetch
             PROVE  n \in ToFetch' \/ (e[1] \in {"tree", "file"} /\ n = e[2])
    OBVIOUS
<1>2. PICK x \in 1..Len(queue) : queue[x][1] \in {"tree", "file"} /\ queue[x][2] = n
    BY DEF ToFetch
<1>3. n \in Objects
    BY DEF ToFetch
<1>4. CASE x = 1
    BY <1>1, <1>2, <1>4
<1>5. CASE x # 1
    BY <1>1, <1>2, <1>3, <1>5 DEF ToFetch
<1> QED
    BY <1>4, <1>5

\* It stays when what is no longer pending has been touched.
LEMMA UsedKept ==
    ASSUME UsedInv, op' = op, index' = index, used \subseteq used',
           op = "pull" /\ ~Hurt' => /\ ~Hurt
                                   /\ \A n \in Pending : n \in Pending' \/ Digest[n] \in used'
    PROVE  UsedInv'
BY DEF UsedInv, Listed

LEMMA UsedInit == Init => UsedInv
<1> SUFFICES ASSUME Init PROVE UsedInv
    OBVIOUS
<1>1. op = "pull" => Root \in Pending
    BY DEF Init, Pending, FirstPhase
<1>2. \A n \in Objects : Listed(n) => n = Root
    BY DEF Init, Listed, Objects, Inodes, Nodes
<1> QED
    BY <1>1, <1>2 DEF Init, UsedInv

LEMMA UsedStep ==
    ASSUME CountInv, UsedInv, [Next]_vars
    PROVE  UsedInv'
<1> USE DEF mainVars, sharedVars, cacheVars
<1>0. Typed /\ JobInv /\ PlaceInv /\ CountsJobs
    BY DEF CountInv
<1>1. CASE AllEnqueued \/ Block \/ SpuriousWake
    BY <1>0, <1>1, UsedKept DEF AllEnqueued, Block, SpuriousWake, Pending, ToFetch, Hurt
<1>2. ASSUME NEW t \in Trees, EnqueueJob(t) PROVE UsedInv'
    <2>1. <<phase, t>> \in Kinds \X Objects
        BY <1>0 DEF Kinds, Objects, JobInv
    <2>2. ToFetch \cup (IF phase \in {"tree", "file"} THEN {t} ELSE {}) \subseteq ToFetch'
        BY <1>0, <1>2, <2>1, FetchAppended DEF EnqueueJob
    <2>3. Pending \subseteq Pending'
        BY <1>2, <2>2 DEF EnqueueJob, Pending
    <2> QED
        BY <1>0, <1>2, <2>3, UsedKept DEF EnqueueJob, Hurt
<1>3. CASE WaitRethrow
    <2>1. queue = <<>> /\ left = {} /\ \A w \in Workers : step[w] = "idle"
        BY <1>0, <1>3, Quiet DEF WaitRethrow, PlaceInv
    <2>2. Len(queue) = 0
        BY <2>1
    <2>3. Pending = newTrees
        BY <2>1, <2>2 DEF Pending, ToFetch, Fetches
    <2>4. op = "pull" => newTrees \subseteq Pending' \/ Hurt'
        BY <1>3 DEF WaitRethrow, Pending, FirstPhase, Hurt
    <2> QED
        BY <1>0, <1>3, <2>3, <2>4, UsedKept DEF WaitRethrow, Hurt
<1>4. ASSUME NEW w \in Workers, TakeJob(w) PROVE UsedInv'
    <2> DEFINE e == Head(queue)
    <2>1. ToFetch \subseteq ToFetch' \cup (IF e[1] \in {"tree", "file"} THEN {e[2]} ELSE {})
        BY <1>0, <1>4, FetchTaken DEF TakeJob
    <2>2. /\ \A v \in Workers : step'[v] = IF v = w THEN e[1] ELSE step[v]
          /\ \A v \in Workers : task'[v] = IF v = w THEN e[2] ELSE task[v]
          /\ step[w] = "idle"
          /\ UNCHANGED <<op, phase, left, newTrees, exn, index, used>>
        BY <1>0, <1>4 DEF TakeJob, Typed
    <2> HIDE DEF e
    <2>3. \A n \in Pending : n \in Pending'
        <3>1. e[1] \in {"tree", "file"} => e[2] \in Pending'
            BY <2>2 DEF Pending, Fetches
        <3>2. \A v \in Workers : step[v] \in Fetches => task[v] \in Pending'
            BY <2>2 DEF Pending, Fetches
        <3> QED
            BY <2>1, <2>2, <3>1, <3>2 DEF Pending
    <2>4. Hurt => Hurt'
        BY <2>2 DEF Hurt
    <2> QED
        BY <1>0, <2>2, <2>3, <2>4, UsedKept
<1>5. ASSUME NEW w \in Workers, UNCHANGED <<op, phase, left, newTrees, queue, task, exn, index>>,
             \A v \in Workers : v # w => step'[v] = step[v],
             step[w] # "exception", used \subseteq used',
             \/ step'[w] \in Fetches \/ step'[w] = "exception"
             \/ step[w] \in Fetches => Digest[task[w]] \in used'
      PROVE  UsedInv'
    <2>1. Hurt => Hurt'
        BY <1>5 DEF Hurt
    <2>2. ToFetch' = ToFetch
        BY <1>5 DEF ToFetch
    <2>3. ~Hurt' => \A v \in Workers : step[v] \in Fetches => task[v] \in Pending' \/ Digest[task[v]] \in used'
        BY <1>5 DEF Pending, Hurt
    <2>4. ~Hurt' => \A n \in Pending : n \in Pending' \/ Digest[n] \in used'
        BY <1>5, <2>2, <2>3 DEF Pending
    <2> QED
        BY <1>5, <2>1, <2>4, UsedKept
<1>6. ASSUME NEW w \in Workers,
             \/ Probe(w) \/ Download(w) \/ DownloadFails(w) \/ ReadTree(w)
             \/ AddJob(w) \/ AllListed(w) \/ Done(w)
      PROVE  UsedInv'
    <2>1. UNCHANGED <<op, phase, left, newTrees, queue, task, exn, index>>
        BY <1>6 DEF Probe, Download, DownloadFails, ReadTree, AddJob, AllListed, Done
    <2>2. /\ \A v \in Workers : v # w => step'[v] = step[v]
          /\ step[w] # "exception"
        BY <1>0, <1>6 DEF Probe, Download, DownloadFails, ReadTree, AddJob, AllListed, Done, Typed
    <2>3. used \subseteq used'
        BY <1>0, <1>6 DEF Probe, Download, DownloadFails, ReadTree, AddJob, AllListed, Done
    <2>4. \/ step'[w] \in Fetches \/ step'[w] = "exception"
          \/ step[w] \in Fetches => Digest[task[w]] \in used'
        <3>1. CASE Probe(w)
            BY <1>0, <3>1 DEF Probe, Fetches, Typed
        <3>2. CASE Download(w)
            BY <1>0, <3>2 DEF Download
        <3>3. CASE DownloadFails(w) \/ ReadTree(w) \/ AddJob(w) \/ AllListed(w) \/ Done(w)
            BY <1>0, <3>3 DEF DownloadFails, ReadTree, AddJob, AllListed, Done, Fetches, Typed
        <3> QED
            BY <1>6, <3>1, <3>2, <3>3
    <2> QED
        BY <1>5, <2>1, <2>2, <2>3, <2>4
<1>7. ASSUME NEW w \in Workers, NEW n \in Inodes, ListNode(w, n) PROVE UsedInv'
    <2>1. /\ UNCHANGED <<op, phase, left, queue, exn, used>>
          /\ newTrees' = newTrees \cup ({n} \cap Trees)
          /\ \A m : Listed(m)' => Listed(m) \/ m = n
          /\ \A v \in Workers : v # w => step'[v] = step[v] /\ task'[v] = task[v]
          /\ step[w] = "list" /\ step'[w] # "exception"
          /\ n \in Files /\ op = "pull" => step'[w] = "add" /\ task'[w] = n
        BY <1>0, <1>7 DEF ListNode, Typed, Listed
    <2>2. ToFetch' = ToFetch
        BY <2>1 DEF ToFetch
    <2>3. \A m \in Pending : m \in Pending'
        BY <2>1, <2>2 DEF Pending, Fetches
    <2>4. op = "pull" /\ n \in Objects => n \in Pending'
        BY <2>1 DEF Pending, Fetches, Objects
    <2>5. Hurt => Hurt'
        BY <2>1 DEF Hurt
    <2> QED
        BY <1>0, <2>1, <2>3, <2>4, <2>5 DEF UsedInv
<1>8. ASSUME NEW w \in Workers, EnqueueFile(w) PROVE UsedInv'
    <2>1. <<"file", task[w]>> \in Kinds \X Objects
        BY <1>0, <1>8 DEF EnqueueFile, JobInv, IsStep, Kinds, Objects
    <2>2. ToFetch \cup {task[w]} \subseteq ToFetch'
        BY <1>0, <1>8, <2>1, FetchAppended DEF EnqueueFile
    <2>3. /\ UNCHANGED <<op, phase, left, newTrees, task, exn, index, used>>
          /\ \A v \in Workers : v # w => step'[v] = step[v]
          /\ step[w] # "exception"
        BY <1>0, <1>8 DEF EnqueueFile, Typed
    <2>4. \A n \in Pending : n \in Pending'
        BY <2>2, <2>3 DEF Pending
    <2>5. Hurt => Hurt'
        BY <2>3 DEF Hurt
    <2> QED
        BY <1>0, <2>3, <2>4, <2>5, UsedKept
<1>9. ASSUME NEW w \in Workers, Exception(w) PROVE UsedInv'
    BY <1>0, <1>9, UsedKept DEF Exception, Hurt
<1>10. ASSUME NEW h \in Digests, Look(h) \/ Evict(h) PROVE UsedInv'
    BY <1>0, <1>10, UsedKept DEF Look, Evict, Pending, ToFetch, Hurt
<1>11. CASE UNCHANGED vars
    BY <1>0, <1>11, UsedKept DEF vars, Pending, ToFetch, Hurt
<1> QED
    BY <1>1, <1>2, <1>3, <1>4, <1>6, <1>7, <1>8, <1>9, <1>10, <1>11
    DEF Next, MainStep, WorkerStep, Terminated

-----------------------------------------------------------------------------
(* What follows.                                                           *)

\* The invariant of every reachable state.
THEOREM PullInvariant == Spec => []PullInv
<1>1. Init => PullInv
    BY CountInit, ListingInit, UsedInit DEF PullInv
<1>2. PullInv /\ [Next]_vars => PullInv'
    BY CountInvStep, ListingStep, UsedStep DEF PullInv
<1> QED
    BY <1>1, <1>2, PTL DEF Spec

\* Every variable keeps its type; the count stays natural.
THEOREM PullTyped == Spec => []TypeOK
<1>1. PullInv => TypeOK
    <2> SUFFICES ASSUME PullInv PROVE TypeOK
        OBVIOUS
    <2>1. Typed /\ CountsJobs
        BY DEF PullInv, CountInv
    <2>2. Len(queue) \in Nat
        BY <2>1 DEF Typed
    <2>3. count \in Nat
        BY <2>1, <2>2, WorkersFinite DEF CountsJobs, Adding
    <2>4. rest \in [Workers -> SUBSET Nodes]
        <3>1. SUBSET Inodes \subseteq SUBSET Nodes
            BY DEF Inodes
        <3> QED
            BY <2>1, <3>1 DEF Typed
    <2> QED
        BY <2>1, <2>3, <2>4 DEF Typed, TypeOK, Kinds, Objects, Over
<1> QED
    BY <1>1, PullInvariant, PTL

\* One wait group counts the jobs of a level and the jobs that these enqueue,
\* for any tree and any number of workers.
THEOREM PullCounts == Spec => []CountsJobs
<1>1. PullInv => CountsJobs
    BY DEF PullInv, CountInv
<1> QED
    BY <1>1, PullInvariant, PTL

\* When pull is over, also when it throws, no job is queued or running.
THEOREM PullQuiet == Spec => []QuietWhenOver
<1>1. PullInv => QuietWhenOver
    BY Quiet DEF PullInv, CountInv, PlaceInv, QuietWhenOver
<1> QED
    BY <1>1, PullInvariant, PTL

\* When the jobs of the last level have reported and none has failed, all is
\* listed, and all has been fetched.
LEMMA AllListedFetched ==
    ASSUME PullInv, count = 0, ~exn, left = {}, newTrees = {}, phase = "tree" => trees = {}
    PROVE  /\ \A n \in Inodes : index[n] = 1
           /\ op = "pull" => Digests \subseteq used
<1>1. Typed /\ JobInv /\ CountsJobs /\ ListInv /\ FoundInv /\ UsedInv
    BY DEF PullInv, CountInv, Listing
<1>2. queue = <<>> /\ \A w \in Workers : step[w] = "idle" /\ rest[w] = {}
    BY <1>1, Quiet DEF JobInv, IsStep
<1>3. Len(queue) = 0 /\ ~Hurt
    BY <1>2 DEF Hurt
<1>4. Unlisted = {} /\ Pending = {}
    BY <1>2, <1>3 DEF Unlisted, OfLevel, Queued, Reading, Pending, ToFetch, Fetches
<1>5. \A n \in Inodes : index[n] = 1
    <2> DEFINE S == {n \in Inodes : index[n] # 1}
    <2>1. \A n \in S : Parent[n] \in S
        <3> SUFFICES ASSUME NEW n \in S PROVE Parent[n] \in S
            OBVIOUS
        <3>1. index[n] = 0
            BY <1>1 DEF ListInv
        <3>2. ~Listed(Parent[n])
            BY <1>1, <1>2, <1>3, <1>4, <3>1 DEF FoundInv
        <3>3. Parent[n] \in Inodes
            BY <3>2, PullAssumption DEF Listed, Inodes, Nodes
        <3> QED
            BY <3>2, <3>3 DEF Listed
    <2>2. S = {}
        <3>1. S \in SUBSET Inodes
            OBVIOUS
        <3> HIDE DEF S
        <3> QED
            BY <2>1, <3>1, PullAssumption
    <2> QED
        BY <2>2
<1>6. op = "pull" => Digests \subseteq used
    <2>1. \A n \in Objects : Listed(n)
        BY <1>5 DEF Listed, Objects, Inodes, Nodes
    <2> QED
        BY <1>1, <1>3, <1>4, <2>1 DEF UsedInv, Digests, Objects
<1> QED
    BY <1>5, <1>6

LEMMA StepsFetch ==
    ASSUME PullInv, [Next]_vars
    PROVE  [Fetching!Next]_(Fetching!vars)
<1> USE DEF mainVars, sharedVars, cacheVars
<1>1. Typed /\ JobInv /\ PlaceInv /\ CountsJobs /\ ListInv /\ UsedInv
    BY DEF PullInv, CountInv, Listing
<1>2. ASSUME op' = op, UNCHANGED <<local, used, looked>>, index' = index, exn' = exn,
             pc' = pc \/ (pc \notin Over /\ pc' \notin Over)
      PROVE  UNCHANGED Fetching!vars
    BY <1>2 DEF Over, Fetching!vars
<1>3. ASSUME NEW w \in Workers, step[w] # "idle" PROVE pc \notin Over
    BY <1>1, <1>3, Quiet DEF PlaceInv
<1>4. CASE AllEnqueued \/ Block \/ SpuriousWake
    BY <1>2, <1>4 DEF AllEnqueued, Block, SpuriousWake, Over
<1>5. ASSUME NEW t \in Trees, EnqueueJob(t) PROVE UNCHANGED Fetching!vars
    BY <1>2, <1>5 DEF EnqueueJob
<1>6. CASE WaitRethrow
    <2>1. CASE exn
        <3>1. Fetching!Throw
            BY <1>6, <2>1 DEF WaitRethrow, Fetching!Throw, Over
        <3> QED
            BY <3>1 DEF Fetching!Next
    <2>2. CASE ~exn /\ (phase = "tree" \/ newTrees # {})
        BY <1>2, <1>6, <2>2 DEF WaitRethrow, Over
    <2>3. CASE ~exn /\ phase # "tree" /\ newTrees = {}
        <3>1. /\ \A n \in Inodes : index[n] = 1
              /\ op = "pull" => Digests \subseteq used
            BY <1>1, <1>6, <2>3, AllListedFetched DEF WaitRethrow, PlaceInv
        <3>2. (IF op = "pull" THEN Digests ELSE {}) \subseteq used
            BY <3>1
        <3>3. Fetching!Return
            BY <1>6, <2>3, <3>1, <3>2 DEF WaitRethrow, Fetching!Return, Over
        <3> QED
            BY <3>3 DEF Fetching!Next
    <2> QED
        BY <2>1, <2>2, <2>3
<1>7. ASSUME NEW w \in Workers,
             \/ TakeJob(w) \/ DownloadFails(w) \/ ReadTree(w)
             \/ AddJob(w) \/ EnqueueFile(w) \/ AllListed(w)
      PROVE  UNCHANGED Fetching!vars
    BY <1>2, <1>7 DEF TakeJob, DownloadFails, ReadTree, AddJob, EnqueueFile, AllListed
<1>8. ASSUME NEW w \in Workers, Probe(w) \/ Download(w) PROVE [Fetching!Next]_(Fetching!vars)
    <2>1. PICK h : h = Digest[task[w]]
        OBVIOUS
    <2>2. op = "pull" /\ h \in Digests
        BY <1>1, <1>8, <2>1, TaskTyped DEF Probe, Download, Fetches, JobInv, IsStep
    <2>3. pc \notin Over
        BY <1>3, <1>8 DEF Probe, Download
    <2>4. CASE Probe(w) /\ h \notin local
        BY <1>2, <2>1, <2>4 DEF Probe
    <2>5. CASE Probe(w) /\ h \in local
        <3>1. Fetching!Use(h) /\ used' = used \cup {h} /\ UNCHANGED <<op, pc, looked, index, exn>>
            BY <2>1, <2>5 DEF Probe, Fetching!Use
        <3>2. Fetching!Provide(h)
            BY <2>2, <2>3, <3>1 DEF Fetching!Provide, Over
        <3> QED
            BY <2>2, <3>2 DEF Fetching!Next
    <2>6. CASE Download(w)
        <3>1. Fetching!Fetch(h) /\ used' = used \cup {h} /\ UNCHANGED <<op, pc, looked, index, exn>>
            BY <2>1, <2>6 DEF Download, Fetching!Fetch
        <3>2. Fetching!Provide(h)
            BY <2>2, <2>3, <3>1 DEF Fetching!Provide, Over
        <3> QED
            BY <2>2, <3>2 DEF Fetching!Next
    <2> QED
        BY <1>8, <2>4, <2>5, <2>6
<1>9. ASSUME NEW w \in Workers, NEW n \in Inodes, ListNode(w, n) PROVE Fetching!Next
    <2>1. index[n] = 0 /\ index' = [index EXCEPT ![n] = 1]
        <3>1. index[n] = 0
            BY <1>1, <1>9 DEF ListNode, ListInv
        <3>2. index' = [index EXCEPT ![n] = index[n] + 1]
            BY <1>9 DEF ListNode
        <3> QED
            BY <3>1, <3>2
    <2>2. Fetching!List(n)
        BY <1>3, <1>9, <2>1 DEF ListNode, Fetching!List, Over
    <2> QED
        BY <2>2 DEF Fetching!Next
<1>10. ASSUME NEW w \in Workers, Done(w) PROVE UNCHANGED Fetching!vars
    BY <1>2, <1>10 DEF Done, CountDown, Over
<1>11. ASSUME NEW w \in Workers, Exception(w) PROVE Fetching!Next
    <2>1. Fetching!Fail
        BY <1>3, <1>11 DEF Exception, CountDown, Fetching!Fail, Over
    <2> QED
        BY <2>1 DEF Fetching!Next
<1>12. ASSUME NEW h \in Digests, Look(h) \/ Evict(h) PROVE Fetching!Next
    <2>1. Fetching!Look(h) \/ Fetching!Evict(h)
        BY <1>12 DEF Look, Evict, Fetching!Look, Fetching!Evict
    <2> QED
        BY <2>1 DEF Fetching!Next
<1>13. CASE UNCHANGED vars
    BY <1>2, <1>13 DEF vars
<1> QED
    BY <1>4, <1>5, <1>6, <1>7, <1>8, <1>9, <1>10, <1>11, <1>12, <1>13
    DEF Next, MainStep, WorkerStep, Terminated

\* The jobs of all levels together list every inode once, and when a pull
\* returns every object was in the cache when a job of it touched it, and is
\* removed by no eviction that looks at it after that: whatever was there before
\* and in whatever order the jobs run.  That a touched object stays is not so:
\* an eviction that looked before the touch may still remove it (Pull.Evict).
THEOREM PullImplementsDownload == Spec => ImplementsDownload
<1>1. Init => Fetching!Init
    BY DEF Init, Fetching!Init, Over
<1>2. PullInv /\ [Next]_vars => [Fetching!Next]_(Fetching!vars)
    BY StepsFetch
<1> QED
    BY <1>1, <1>2, PullInvariant, PTL DEF Spec, Fetching!Spec, ImplementsDownload
=============================================================================
