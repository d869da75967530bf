-------------------------------- MODULE Pull --------------------------------
(***************************************************************************)
(* cache::pull and cache::index_from_tree (src/src/cache.cpp): the inodes  *)
(* of a tree are listed level by level.                                    *)
(*                                                                         *)
(* The thread that calls pull enqueues a job for each tree of a level,     *)
(* which pulls and reads it, waits, enqueues a job for each tree again,    *)
(* which lists its inodes and enqueues a job for each file, and waits for  *)
(* all of these.  index_from_tree has one job for each tree, which reads   *)
(* and lists it.  One wait group counts the jobs of all levels.            *)
(*                                                                         *)
(* The pool is that of Push.  Other processes evict: evict_subdir looks at *)
(* the time of an object, which has_tree and has_object of this one renew, *)
(* and removes it in a later step.  A pull takes no lock on POSIX, so that *)
(* what it touches in between is lost.  The command is shorter than the    *)
(* retention period.                                                       *)
(***************************************************************************)
EXTENDS Naturals, Sequences, FiniteSets

CONSTANTS
    Workers,            \* the threads of the pool
    Trees, Files, Links,\* the inodes
    Root,               \* the tree that is pulled
    Parent,             \* the tree each other inode is in
    Digest,             \* the digest of each tree and file
    NoNode,             \* stands for no inode
    Faults              \* what may go wrong: "read_object", "evict"

Nodes == Trees \cup Files \cup Links
Inodes == Nodes \ {Root}
Digests == {Digest[n] : n \in Trees \cup Files}
ChildrenOf(t) == {n \in Inodes : Parent[n] = t}

ASSUME PullAssumption ==
    /\ IsFiniteSet(Workers) /\ Workers # {}
    /\ IsFiniteSet(Nodes) /\ NoNode \notin Nodes
    /\ Trees \cap Files = {} /\ Trees \cap Links = {} /\ Files \cap Links = {}
    /\ Root \in Trees
    /\ Parent \in [Inodes -> Trees]
    /\ \A S \in SUBSET Inodes : S # {} => \E n \in S : Parent[n] \notin S
    /\ DOMAIN Digest = Trees \cup Files
    /\ Faults \subseteq {"read_object", "evict"}

VARIABLES
    op,                 \* "pull" or "index_from_tree"
    pc,                 \* what the thread that called it does next
    phase,              \* what the jobs it enqueues do first
    trees,              \* the trees of the level
    left,               \* those for which it has no job enqueued yet
    newTrees,           \* new_trees
    count, exn,         \* wg: _count, _exception is set
    queue,              \* the jobs no worker has taken
    step,               \* what each worker does next
    task,               \* the inode of its job
    rest,               \* the inodes its job has still to list
    index,              \* how often each inode is in the index
    local,              \* the digests the cache has
    used,               \* those that the command has touched
    looked              \* those that an eviction has found to be old, and is
                        \* about to remove

mainVars == <<pc, phase, trees, left>>
sharedVars == <<newTrees, count, exn, index>>
cacheVars == <<local, used, looked>>
vars == <<op, mainVars, sharedVars, queue, step, task, rest, cacheVars>>

Over == {"returned", "threw"}
Steps == {"idle", "tree", "file", "read", "list", "add", "enqueue", "download", "done", "exception"}

TypeOK ==
    /\ op \in {"pull", "index_from_tree"}
    /\ pc \in {"enqueue", "wait", "asleep"} \cup Over
    /\ phase \in {"tree", "read", "list"}
    /\ trees \subseteq Trees /\ left \subseteq trees /\ newTrees \subseteq Trees
    /\ count \in Nat
    /\ exn \in BOOLEAN
    /\ queue \in Seq({"tree", "read", "list", "file"} \X (Trees \cup Files))
    /\ step \in [Workers -> Steps]
    /\ task \in [Workers -> Trees \cup Files \cup {NoNode}]
    /\ rest \in [Workers -> SUBSET Nodes]
    /\ index \in [Inodes -> Nat]
    /\ local \subseteq Digests /\ used \subseteq Digests /\ looked \subseteq local

\* The first job of a level.
FirstPhase == IF op = "pull" THEN "tree" ELSE "read"

\* The cache may have any part of the tree.
Init ==
    /\ op \in {"pull", "index_from_tree"}
    /\ pc = "enqueue"
    /\ phase = FirstPhase
    /\ trees = {Root} /\ left = {Root} /\ newTrees = {}
    /\ count = 0
    /\ exn = FALSE
    /\ queue = <<>>
    /\ step = [w \in Workers |-> "idle"]
    /\ task = [w \in Workers |-> NoNode]
    /\ rest = [w \in Workers |-> {}]
    /\ index = [n \in Inodes |-> 0]
    /\ local \in SUBSET Digests
    /\ used = {} /\ looked = {}

-----------------------------------------------------------------------------
(* The thread that called pull. *)

\* wg.add(1) and enqueue, for a tree of the level.
EnqueueJob(t) ==
    /\ pc = "enqueue"
    /\ t \in left
    /\ left' = left \ {t}
    /\ count' = count + 1
    /\ queue' = Append(queue, <<phase, t>>)
    /\ UNCHANGED <<op, pc, phase, trees, newTrees, exn, index, step, task, rest, cacheVars>>

AllEnqueued ==
    /\ pc = "enqueue"
    /\ left = {}
    /\ pc' = "wait"
    /\ UNCHANGED <<op, phase, trees, left, sharedVars, queue, step, task, rest, cacheVars>>

Block ==
    /\ pc = "wait"
    /\ count > 0
    /\ pc' = "asleep"
    /\ UNCHANGED <<op, phase, trees, left, sharedVars, queue, step, task, rest, cacheVars>>

SpuriousWake ==
    /\ pc = "asleep"
    /\ pc' = "wait"
    /\ UNCHANGED <<op, phase, trees, left, sharedVars, queue, step, task, rest, cacheVars>>

\* Mutant: the jobs are not waited for.
RethrowOnly ==
    /\ pc = "wait"
    /\ IF exn
       THEN pc' = "threw" /\ UNCHANGED <<phase, trees, left, newTrees>>
       ELSE IF phase = "tree"
       THEN pc' = "enqueue" /\ phase' = "list" /\ left' = trees /\ UNCHANGED <<trees, newTrees>>
       ELSE /\ pc' = IF newTrees = {} THEN "returned" ELSE "enqueue"
            /\ phase' = FirstPhase
            /\ trees' = newTrees /\ left' = newTrees /\ newTrees' = {}
    /\ UNCHANGED <<op, count, exn, index, queue, step, task, rest, cacheVars>>

\* Mutant: the trees of the level stay.
RethrowSameTrees ==
    /\ pc = "wait"
    /\ count = 0
    /\ IF exn
       THEN pc' = "threw" /\ UNCHANGED <<phase, trees, left, newTrees>>
       ELSE IF phase = "tree"
       THEN pc' = "enqueue" /\ phase' = "list" /\ left' = trees /\ UNCHANGED <<trees, newTrees>>
       ELSE /\ pc' = IF newTrees = {} THEN "returned" ELSE "enqueue"
            /\ phase' = FirstPhase
            /\ trees' = trees /\ left' = newTrees /\ newTrees' = {}
    /\ UNCHANGED <<op, count, exn, index, queue, step, task, rest, cacheVars>>

\* wg.wait_rethrow(), and what follows it: the next phase, or the next level.
WaitRethrow ==
    /\ pc = "wait"
    /\ count = 0
    /\ IF exn
       THEN pc' = "threw" /\ UNCHANGED <<phase, trees, left, newTrees>>
       ELSE IF phase = "tree"
       THEN pc' = "enqueue" /\ phase' = "list" /\ left' = trees /\ UNCHANGED <<trees, newTrees>>
       ELSE /\ pc' = IF newTrees = {} THEN "returned" ELSE "enqueue"
            /\ phase' = FirstPhase
            /\ trees' = newTrees /\ left' = newTrees /\ newTrees' = {}
    /\ UNCHANGED <<op, count, exn, index, queue, step, task, rest, cacheVars>>

-----------------------------------------------------------------------------
(* The jobs. *)

TakeJob(w) ==
    /\ step[w] = "idle"
    /\ queue # <<>>
    /\ queue' = Tail(queue)
    /\ step' = [step EXCEPT ![w] = Head(queue)[1]]
    /\ task' = [task EXCEPT ![w] = Head(queue)[2]]
    /\ rest' = [rest EXCEPT ![w] = IF Head(queue)[1] = "list" THEN ChildrenOf(Head(queue)[2]) ELSE {}]
    /\ UNCHANGED <<op, mainVars, sharedVars, cacheVars>>

\* What a job does when the object is in the cache.
Present(n) == IF n \in Trees THEN "read" ELSE "done"

\* Mutant: the object is not touched.
ProbeUntouched(w) ==
    /\ step[w] \in {"tree", "file"}
    /\ step' = [step EXCEPT ![w] = IF Digest[task[w]] \in local THEN Present(task[w]) ELSE "download"]
    /\ UNCHANGED <<op, mainVars, sharedVars, queue, task, rest, cacheVars>>

\* has_tree and has_object, which touch what they find.
Probe(w) ==
    /\ step[w] \in {"tree", "file"}
    /\ LET h == Digest[task[w]] IN
       IF h \in local
       THEN used' = used \cup {h} /\ step' = [step EXCEPT ![w] = Present(task[w])]
       ELSE step' = [step EXCEPT ![w] = "download"] /\ UNCHANGED used
    /\ UNCHANGED <<op, mainVars, sharedVars, queue, task, rest, local, looked>>

\* remote::read_object: the object appears whole, by a rename.
Download(w) ==
    /\ step[w] = "download"
    /\ local' = local \cup {Digest[task[w]]}
    /\ used' = used \cup {Digest[task[w]]}
    /\ step' = [step EXCEPT ![w] = Present(task[w])]
    /\ UNCHANGED <<op, mainVars, sharedVars, queue, task, rest, looked>>

DownloadFails(w) ==
    /\ "read_object" \in Faults
    /\ step[w] = "download"
    /\ step' = [step EXCEPT ![w] = "exception"]
    /\ UNCHANGED <<op, mainVars, sharedVars, queue, task, rest, cacheVars>>

\* read_tree: in index_from_tree the job goes on to list the inodes.
ReadTree(w) ==
    /\ step[w] = "read"
    /\ LET t == task[w] IN
       IF Digest[t] \notin local
       THEN step' = [step EXCEPT ![w] = "exception"] /\ UNCHANGED rest
       ELSE IF op = "pull"
       THEN step' = [step EXCEPT ![w] = "done"] /\ UNCHANGED rest
       ELSE /\ step' = [step EXCEPT ![w] = "list"]
            /\ rest' = [rest EXCEPT ![w] = ChildrenOf(t)]
    /\ UNCHANGED <<op, mainVars, sharedVars, queue, task, cacheVars>>

\* push_back to the index, and a directory to new_trees, each with the mutex
\* held: no other thread looks at them before the job is done.
ListNode(w, n) ==
    /\ step[w] = "list" /\ n \in rest[w]
    /\ rest' = [rest EXCEPT ![w] = @ \ {n}]
    /\ index' = [index EXCEPT ![n] = @ + 1]
    /\ newTrees' = newTrees \cup ({n} \cap Trees)
    /\ step' = [step EXCEPT ![w] = IF n \in Files /\ op = "pull" THEN "add" ELSE "list"]
    /\ task' = [task EXCEPT ![w] = IF n \in Files /\ op = "pull" THEN n ELSE @]
    /\ UNCHANGED <<op, mainVars, count, exn, queue, cacheVars>>

\* Mutant: the job of a file is not counted.
AddNothing(w) ==
    /\ step[w] = "add"
    /\ step' = [step EXCEPT ![w] = "enqueue"]
    /\ UNCHANGED <<op, mainVars, sharedVars, queue, task, rest, cacheVars>>

\* wg.add(1) for the file, by a job that is itself counted.
AddJob(w) ==
    /\ step[w] = "add"
    /\ count' = count + 1
    /\ step' = [step EXCEPT ![w] = "enqueue"]
    /\ UNCHANGED <<op, mainVars, newTrees, exn, index, queue, task, rest, cacheVars>>

EnqueueFile(w) ==
    /\ step[w] = "enqueue"
    /\ queue' = Append(queue, <<"file", task[w]>>)
    /\ step' = [step EXCEPT ![w] = "list"]
    /\ UNCHANGED <<op, mainVars, sharedVars, task, rest, cacheVars>>

AllListed(w) ==
    /\ step[w] = "list" /\ rest[w] = {}
    /\ step' = [step EXCEPT ![w] = "done"]
    /\ UNCHANGED <<op, mainVars, sharedVars, queue, task, rest, cacheVars>>

\* What wait_group::done and exception do under the group's mutex.
CountDown ==
    /\ count' = count - 1
    /\ pc' = IF pc = "asleep" THEN "wait" ELSE pc

\* Mutant: nobody is notified.
DoneSilently(w) ==
    /\ step[w] = "done"
    /\ count' = count - 1
    /\ step' = [step EXCEPT ![w] = "idle"]
    /\ UNCHANGED <<op, mainVars, newTrees, exn, index, queue, task, rest, cacheVars>>

Done(w) ==
    /\ step[w] = "done"
    /\ CountDown
    /\ step' = [step EXCEPT ![w] = "idle"]
    /\ UNCHANGED <<op, phase, trees, left, newTrees, exn, index, queue, task, rest, cacheVars>>

Exception(w) ==
    /\ step[w] = "exception"
    /\ CountDown
    /\ exn' = TRUE
    /\ step' = [step EXCEPT ![w] = "idle"]
    /\ UNCHANGED <<op, phase, trees, left, newTrees, index, queue, task, rest, cacheVars>>

-----------------------------------------------------------------------------

\* evict_subdir of another process: lstat.  What this one has touched is skipped.
Look(h) ==
    /\ "evict" \in Faults
    /\ h \in local \ (used \cup looked)
    /\ looked' = looked \cup {h}
    /\ UNCHANGED <<op, mainVars, sharedVars, queue, step, task, rest, local, used>>

\* The removal, also of what this one has touched since.
Evict(h) ==
    /\ h \in looked
    /\ local' = local \ {h} /\ looked' = looked \ {h}
    /\ UNCHANGED <<op, mainVars, sharedVars, queue, step, task, rest, used>>

Terminated ==
    /\ pc \in Over
    /\ queue = <<>>
    /\ \A w \in Workers : step[w] = "idle"
    /\ UNCHANGED vars

MainStep ==
    \/ \E t \in Trees : EnqueueJob(t)
    \/ AllEnqueued
    \/ Block
    \/ WaitRethrow

WorkerStep(w) ==
    \/ TakeJob(w)
    \/ Probe(w)
    \/ Download(w)
    \/ DownloadFails(w)
    \/ ReadTree(w)
    \/ \E n \in Inodes : ListNode(w, n)
    \/ AddJob(w)
    \/ EnqueueFile(w)
    \/ AllListed(w)
    \/ Done(w)
    \/ Exception(w)

Next ==
    \/ MainStep
    \/ \E w \in Workers : WorkerStep(w)
    \/ \E h \in Digests : Look(h) \/ Evict(h)
    \/ SpuriousWake
    \/ Terminated

Spec == Init /\ [][Next]_vars

\* Each thread that can take a step eventually does: it is scheduled, and the
\* remote answers its requests, if only with a failure.
FairSpec == Spec /\ WF_vars(MainStep) /\ \A w \in Workers : WF_vars(WorkerStep(w))

-----------------------------------------------------------------------------

Busy == {w \in Workers : step[w] # "idle"}

\* The wait group counts the jobs that have not reported yet, those that other
\* jobs enqueue included, and the file that is counted before it is enqueued.
CountsJobs ==
    count = Len(queue) + Cardinality(Busy) + Cardinality({w \in Workers : step[w] = "enqueue"})

\* When pull is over, also when it throws, no job is left that refers to the
\* vectors, the mutex and the wait group on its stack.
QuietWhenOver == pc \in Over => queue = <<>> /\ Busy = {}

\* When the command returns, each inode is in the index once, and after a pull
\* everything that they need was in the cache when a job touched it: from then
\* on nothing removes it but an eviction that had looked at it before.  That is
\* so however much was there before and however the jobs of a level interleave.
Fetching == INSTANCE Download WITH
                wanted <- IF op = "pull" THEN Digests ELSE {},
                listed <- index,
                failed <- exn,
                result <- IF pc \in Over THEN pc ELSE "running"

ImplementsDownload == Fetching!Spec

\* has_tree and has_object touch what they find so that the eviction spares it
\* (cache.cpp:316-319): all of the tree would be in the cache when a pull returns.
\* It is not, if an eviction had looked before; no theorem and no run has this.
PulledIsCached == pc = "returned" /\ op = "pull" => Digests \subseteq local

\* The command ends, whatever is missing and whatever fails.
PullEnds == <>(pc \in Over)
=============================================================================
