-------------------------------- MODULE Push --------------------------------
(***************************************************************************)
(* cache::push (src/src/cache.cpp): the trees and objects below Root that  *)
(* the remote lacks are sent to it by jobs of the thread pool.             *)
(*                                                                         *)
(* The thread that calls push takes a tree from the list check_trees, asks *)
(* the remote what is missing below it and enqueues a job for each digest  *)
(* it names.  A job that has sent a tree adds the tree to check_trees: the *)
(* remote could not tell what was missing below a tree it did not have.    *)
(*                                                                         *)
(* The pool is the queue of ThreadPool without the sleep of its workers:   *)
(* a worker that is not busy takes the front job.                          *)
(***************************************************************************)
EXTENDS Naturals, Sequences, FiniteSets

CONSTANTS
    Workers,            \* the threads of the pool
    Trees,              \* digests of trees
    Objects,            \* digests of files
    Root,               \* the tree that is pushed
    Children,           \* the digests each tree lists
    NoHash,             \* stands for no digest
    NoWorker,           \* stands for no worker
    Faults              \* what may go wrong: "check", "write", "head"

Hashes == Trees \cup Objects

ASSUME PushAssumption ==
    /\ IsFiniteSet(Workers) /\ Workers # {} /\ NoWorker \notin Workers
    /\ IsFiniteSet(Hashes) /\ NoHash \notin Hashes
    /\ Trees \cap Objects = {}
    /\ Root \in Trees
    /\ Children \in [Trees -> SUBSET Hashes]
    /\ Faults \subseteq {"check", "write", "head"}

VARIABLES
    api,                \* the remote answers HasTree ("jolt") or does not ("http")
    pc,                 \* what the thread that called push does next
    tree,               \* tree_hash
    missing,            \* missing_objects and missing_trees, not yet enqueued
    checks,             \* check_trees
    holder,             \* the worker that holds check_trees_mutex
    count, exn,         \* wg: _count, _exception is set
    queue,              \* the jobs no worker has taken
    step,               \* what each worker does next
    task,               \* the digest its job sends
    remote              \* the digests the remote has

mainVars == <<pc, tree, missing>>
sharedVars == <<checks, holder, count, exn>>
workerVars == <<step, task>>
vars == <<api, mainVars, sharedVars, queue, workerVars, remote>>

TypeOK ==
    /\ api \in {"jolt", "http"}
    /\ pc \in {"pop", "check", "enqueue", "test", "wait", "asleep",
              "returned", "threw"}
    /\ tree \in Trees
    /\ missing \subseteq Hashes
    /\ checks \in Seq(Trees)
    /\ holder \in Workers \cup {NoWorker}
    /\ count \in Nat
    /\ exn \in BOOLEAN
    /\ queue \in Seq(Hashes)
    /\ step \in [Workers -> {"idle", "write", "append", "done", "exception", "unlock"}]
    /\ task \in [Workers -> Hashes \cup {NoHash}]
    /\ remote \subseteq Hashes

-----------------------------------------------------------------------------
(* What a walk of the remote finds.                                        *)

Closed(S, present) == \A t \in S \cap present \cap Trees : Children[t] \subseteq S

\* The digests met from r when only the trees in present can be read.
Reach(r, present) ==
    {h \in Hashes : \A S \in SUBSET Hashes : r \in S /\ Closed(S, present) => h \in S}

\* The pushed tree and all that is below it.
Content == Reach(Root, Trees)

\* HasTree: the server walks from t through the trees it has.
HasTree(t) == Reach(t, remote) \ remote

\* Mutant: all that the cache has is asked for.
HasObjectsOfCache(t) == Hashes \ remote

\* has_object for t and then for each inode of the index, Root not included.
HasObjects(t) == ((Content \ {Root}) \cup {t}) \ remote

Missing(t) == IF api = "jolt" THEN HasTree(t) ELSE HasObjects(t)

-----------------------------------------------------------------------------

\* The remote may have anything, what an earlier push that was interrupted
\* has sent included.
Init ==
    /\ api \in {"jolt", "http"}
    /\ pc = "pop"
    /\ tree = Root
    /\ missing = {}
    /\ checks = <<Root>>
    /\ holder = NoWorker
    /\ count = 0
    /\ exn = FALSE
    /\ queue = <<>>
    /\ step = [w \in Workers |-> "idle"]
    /\ task = [w \in Workers |-> NoHash]
    /\ remote \in SUBSET Hashes

(* The thread that called push. *)

\* check_trees.back() and pop_back(), with the mutex held.
PopTree ==
    /\ pc = "pop"
    /\ holder = NoWorker
    /\ tree' = checks[Len(checks)]
    /\ checks' = SubSeq(checks, 1, Len(checks) - 1)
    /\ pc' = "check"
    /\ UNCHANGED <<api, missing, holder, count, exn, queue, workerVars, remote>>

\* The remote says what it lacks.  The list of an HTTP remote also has the
\* digests whose HEAD request failed, or was answered by another status.  Its
\* requests, one for each digest, are one step here, and the list is a set: a
\* digest that comes between two requests is sent again or it is not, as here
\* one that comes before or after the step.
CheckTree ==
    /\ pc = "check"
    /\ \/ missing' = Missing(tree)
       \/ /\ "head" \in Faults /\ api = "http"
          /\ missing' = Missing(tree) \cup Content
    /\ pc' = "enqueue"
    /\ UNCHANGED <<api, tree, sharedVars, queue, workerVars, remote>>

\* HasTree fails: the exception leaves push.
CheckFails ==
    /\ "check" \in Faults
    /\ pc = "check"
    /\ api = "jolt"
    /\ pc' = "threw"
    /\ UNCHANGED <<api, tree, missing, sharedVars, queue, workerVars, remote>>

\* Mutant: wg.add is left out.
EnqueueUncounted(h) ==
    /\ pc = "enqueue"
    /\ h \in missing
    /\ h \in Trees => missing \subseteq Trees
    /\ missing' = missing \ {h}
    /\ queue' = Append(queue, h)
    /\ UNCHANGED <<api, pc, tree, sharedVars, workerVars, remote>>

\* wg.add(1) and enqueue: the objects first, then the trees.
EnqueueJob(h) ==
    /\ pc = "enqueue"
    /\ h \in missing
    /\ h \in Trees => missing \subseteq Trees
    /\ missing' = missing \ {h}
    /\ count' = count + 1
    /\ queue' = Append(queue, h)
    /\ UNCHANGED <<api, pc, tree, checks, holder, exn, workerVars, remote>>

AllEnqueued ==
    /\ pc = "enqueue"
    /\ missing = {}
    /\ pc' = "test"
    /\ UNCHANGED <<api, tree, missing, sharedVars, queue, workerVars, remote>>

\* With the mutex held: a tree to check is checked before the jobs are waited
\* for.  The condition of the loop, which continue evaluates without the
\* mutex, agrees: no other thread takes from the list.
TestChecks ==
    /\ pc = "test"
    /\ holder = NoWorker
    /\ pc' = IF checks # <<>> THEN "pop" ELSE "wait"
    /\ UNCHANGED <<api, tree, missing, sharedVars, queue, workerVars, remote>>

\* wait_group::wait: the caller blocks while jobs are counted, until one of
\* them notifies, or for no reason.
Block ==
    /\ pc = "wait"
    /\ count > 0
    /\ pc' = "asleep"
    /\ UNCHANGED <<api, tree, missing, sharedVars, queue, workerVars, remote>>

SpuriousWake ==
    /\ pc = "asleep"
    /\ pc' = "wait"
    /\ UNCHANGED <<api, tree, missing, sharedVars, queue, workerVars, remote>>

\* What push does when it has waited: rethrow, and then the condition of the
\* loop, without the mutex.
AfterWait == IF exn THEN "threw" ELSE IF checks # <<>> THEN "pop" ELSE "returned"

\* Mutant: rethrow without wait.
RethrowOnly ==
    /\ pc = "wait"
    /\ pc' = AfterWait
    /\ UNCHANGED <<api, tree, missing, sharedVars, queue, workerVars, remote>>

\* wg.wait_rethrow()
WaitRethrow ==
    /\ pc = "wait"
    /\ count = 0
    /\ pc' = AfterWait
    /\ UNCHANGED <<api, tree, missing, sharedVars, queue, workerVars, remote>>

-----------------------------------------------------------------------------
(* The jobs. *)

TakeJob(w) ==
    /\ step[w] = "idle"
    /\ queue # <<>>
    /\ queue' = Tail(queue)
    /\ task' = [task EXCEPT ![w] = Head(queue)]
    /\ step' = [step EXCEPT ![w] = "write"]
    /\ UNCHANGED <<api, mainVars, sharedVars, remote>>

\* push_object or push_tree.
WriteObject(w) ==
    /\ step[w] = "write"
    /\ remote' = remote \cup {task[w]}
    /\ step' = [step EXCEPT ![w] = IF task[w] \in Trees THEN "append" ELSE "done"]
    /\ UNCHANGED <<api, mainVars, sharedVars, queue, task>>

\* write_object throws: the object is gone from the local cache, or the
\* request failed, before or after the remote had stored it.
WriteFails(w) ==
    /\ "write" \in Faults
    /\ step[w] = "write"
    /\ remote' \in {remote, remote \cup {task[w]}}
    /\ step' = [step EXCEPT ![w] = "exception"]
    /\ UNCHANGED <<api, mainVars, sharedVars, queue, task>>

\* Mutant: the tree that was sent is not added to the list.
AppendNothing(w) ==
    /\ step[w] = "append"
    /\ holder = NoWorker
    /\ holder' = w
    /\ step' = [step EXCEPT ![w] = "done"]
    /\ UNCHANGED <<api, mainVars, checks, count, exn, queue, task, remote>>

\* The mutex is locked, check_trees.push_back.
AppendTree(w) ==
    /\ step[w] = "append"
    /\ holder = NoWorker
    /\ holder' = w
    /\ checks' = Append(checks, task[w])
    /\ step' = [step EXCEPT ![w] = "done"]
    /\ UNCHANGED <<api, mainVars, count, exn, queue, task, remote>>

\* Mutant: nobody is notified.
CountDownSilently ==
    /\ count' = count - 1
    /\ UNCHANGED pc

\* What wait_group::done and exception do under the group's mutex.
CountDown ==
    /\ count' = count - 1
    /\ pc' = IF pc = "asleep" THEN "wait" ELSE pc

\* wg.done(): the job of a tree still holds the mutex.
Done(w) ==
    /\ step[w] = "done"
    /\ CountDown
    /\ step' = [step EXCEPT ![w] = IF holder = w THEN "unlock" ELSE "idle"]
    /\ UNCHANGED <<api, tree, missing, checks, holder, exn, queue, task, remote>>

UnlockChecks(w) ==
    /\ step[w] = "unlock"
    /\ holder' = NoWorker
    /\ step' = [step EXCEPT ![w] = "idle"]
    /\ UNCHANGED <<api, mainVars, checks, count, exn, queue, task, remote>>

\* wg.exception(e)
Exception(w) ==
    /\ step[w] = "exception"
    /\ CountDown
    /\ exn' = TRUE
    /\ step' = [step EXCEPT ![w] = "idle"]
    /\ UNCHANGED <<api, tree, missing, checks, holder, queue, task, remote>>

-----------------------------------------------------------------------------

\* Another client of the remote sends h.
OtherClient(h) ==
    /\ h \notin remote
    /\ remote' = remote \cup {h}
    /\ UNCHANGED <<api, mainVars, sharedVars, queue, workerVars>>

Over == {"returned", "threw"}

\* push is over and the pool has nothing left to do.
Terminated ==
    /\ pc \in Over
    /\ queue = <<>>
    /\ \A w \in Workers : step[w] = "idle"
    /\ UNCHANGED vars

MainStep ==
    \/ PopTree
    \/ CheckTree
    \/ CheckFails
    \/ \E h \in Hashes : EnqueueJob(h)
    \/ AllEnqueued
    \/ TestChecks
    \/ Block
    \/ WaitRethrow

WorkerStep(w) ==
    \/ TakeJob(w)
    \/ WriteObject(w)
    \/ WriteFails(w)
    \/ AppendTree(w)
    \/ Done(w)
    \/ UnlockChecks(w)
    \/ Exception(w)

Next ==
    \/ MainStep
    \/ \E w \in Workers : WorkerStep(w)
    \/ \E h \in Hashes : OtherClient(h)
    \/ SpuriousWake
    \/ Terminated

Spec == Init /\ [][Next]_vars

\* Each thread that can take a step eventually does: it is scheduled, and the
\* remote answers its requests, if only with a failure.
FairSpec == Spec /\ WF_vars(MainStep) /\ \A w \in Workers : WF_vars(WorkerStep(w))

-----------------------------------------------------------------------------

Busy(steps) == {w \in Workers : step[w] \in steps}

\* The wait group counts the jobs that have not reported yet, whatever they
\* send and whatever fails: push neither returns early nor waits for ever.
CountsJobs ==
    count = Len(queue) + Cardinality(Busy({"write", "append", "done", "exception"}))

\* The digests that are about to be sent, and the trees about to be checked.
Jobs == missing \cup {queue[i] : i \in 1..Len(queue)} \cup {task[w] : w \in Busy({"write"})}
ToCheck ==
    {checks[i] : i \in 1..Len(checks)} \cup {task[w] : w \in Busy({"append"})}
        \cup (IF pc = "check" THEN {tree} ELSE {})

\* Everything that a check of Root would find missing now will be sent by a
\* job, or found by the check of a tree that a job sends or has sent.  So no
\* part of the tree is forgotten, although the remote sees only below the
\* trees it has, checks overlap with transfers, and others send trees too.
MissingIsPending ==
    pc # "threw" /\ ~exn /\ Busy({"exception"}) = {} =>
        \A h \in Missing(Root) :
            \/ \E x \in Jobs : h \in IF api = "jolt" THEN Reach(x, remote) ELSE {x}
            \/ \E t \in ToCheck : h \in Missing(t)

\* When push returns, no thread will touch what was on its stack: the wait
\* group, the list and its mutex, which a job unlocks after it has reported.
QuietWhenReturned ==
    pc = "returned" => queue = <<>> /\ holder = NoWorker /\ \A w \in Workers : step[w] = "idle"

\* The transfers that are under way.
Sending == {<<w, task[w]>> : w \in Busy({"write"})}

\* The push as its caller and the remote see it.
Transfer == INSTANCE Upload WITH
                Senders <- Workers,
                sending <- Sending,
                failed <- exn \/ pc = "threw" \/ Busy({"exception"}) # {},
                result <- IF pc \in Over THEN pc ELSE "running"

\* The parallel push sends only what the pushed tree is made of, reports every
\* transfer that fails, has sent everything when it returns, and sends nothing
\* afterwards, whatever other clients send.
ImplementsUpload == Transfer!Spec

\* push ends, whatever was missing and whatever fails.
PushEnds == <>(pc \in Over)
=============================================================================
