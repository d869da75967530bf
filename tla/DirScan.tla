------------------------------ MODULE DirScan -------------------------------
(***************************************************************************)
(* The recursive scan of a directory tree on the thread pool:              *)
(* sorted_directory_iterator::read_directory                               *)
(* (src/src/directory_iterator_posix.cpp) and the wait group each of its   *)
(* calls keeps on its stack.                                               *)
(*                                                                         *)
(* The thread Main, which is not one of the pool, reads Root.  A call that *)
(* meets a subdirectory hands it to enqueue_or_run: the pool reads it, as  *)
(* a job, or, when the pool is saturated, the calling thread does, in a    *)
(* nested call.  Each directory is read by one call, so the state of a     *)
(* call is indexed by its directory, and the stack of a thread is the      *)
(* chain of the parents from cur[t] up to the directory of its job.        *)
(***************************************************************************)
EXTENDS ThreadPool

CONSTANTS
    Main,               \* the thread that constructs the iterator
    Nodes,              \* the directories, files and symlinks of the tree
    Dirs,               \* those that are directories
    Root,               \* the directory that is scanned
    Parent,             \* the directory each other node is in
    NoDir,              \* stands for no directory
    Faults              \* what may go wrong: "skip", "opendir", "readlink"

ASSUME ScanAssumption ==
    /\ Main \notin Workers
    /\ IsFiniteSet(Nodes)
    /\ Dirs \subseteq Nodes
    /\ Root \in Dirs
    /\ Parent \in [Nodes \ {Root} -> Dirs]
    /\ \A S \in SUBSET Nodes :           \* every node is below Root
        /\ Root \in S
        /\ \A n \in Nodes \ {Root} : Parent[n] \in S => n \in S
        => S = Nodes
    /\ NoDir \notin Nodes
    /\ Faults \subseteq {"skip", "opendir", "readlink"}

VARIABLES
    pc,                 \* what each thread does next
    cur,                \* the directory whose call is on top of its stack
    sub,                \* the subdirectory it is handing to the pool
    todo,               \* entries readdir has still to return to the call
    count, exn,         \* the call's wait group: _count, _exception is set
    job,                \* the directory whose job, on whose thread, reads it
    done,               \* directories whose call is over
    threw,              \* those whose call ended with an exception
    found,              \* _inodes
    skipped             \* entries that were left out

threadVars == <<pc, cur, sub>>
callVars == <<count, exn, job, done, threw>>
listVars == <<todo, found, skipped>>
vars == <<poolVars, threadVars, callVars, listVars>>

Threads == Workers \cup {Main}
Entries(d) == {n \in Nodes \ {Root} : Parent[n] = d}

Label == {"off", "open", "read", "submit", "push", "signal", "wait", "release",
          "returned", "threw", "stopping", "join", "exited"}

TypeOK ==
    /\ PoolTypeOK(Dirs)
    /\ pc \in [Threads -> Label]
    /\ cur \in [Threads -> Dirs]
    /\ sub \in [Threads -> Dirs]
    /\ todo \in [Dirs -> SUBSET Nodes]
    /\ count \in [Dirs -> Nat]
    /\ exn \in [Dirs -> BOOLEAN]
    /\ job \in [Dirs -> Dirs \cup {NoDir}]
    /\ done \subseteq Dirs
    /\ threw \subseteq Dirs
    /\ found \subseteq Nodes
    /\ skipped \subseteq Nodes

Init ==
    /\ PoolInit
    /\ pc = [t \in Threads |-> IF t = Main THEN "open" ELSE "off"]
    /\ cur = [t \in Threads |-> Root]
    /\ sub = [t \in Threads |-> Root]
    /\ todo = [d \in Dirs |-> Entries(d)]
    /\ count = [d \in Dirs |-> 0]
    /\ exn = [d \in Dirs |-> FALSE]
    /\ job = [d \in Dirs |-> IF d = Root THEN Root ELSE NoDir]
    /\ done = {}
    /\ threw = {}
    /\ found = {}
    /\ skipped = {}

At(t, label) == pc[t] = label
Goto(t, label) == pc' = [pc EXCEPT ![t] = label]

-----------------------------------------------------------------------------
(* The call for cur[t] ends, with an exception if err: the caller sees it  *)
(* when the directory is Root; otherwise the lambda of read_directory      *)
(* reports to the wait group of the parent, with done() or exception(),    *)
(* and the thread goes back to the call it was nested in, or to the pool.  *)

\* Mutant: exception() counts the job but drops its exception.
ReportSilently(d, err) ==
    /\ count' = [count EXCEPT ![d] = @ - 1]
    /\ UNCHANGED exn

\* wait_group::exception (err) and done of the wait group of d.
Report(d, err) ==
    /\ count' = [count EXCEPT ![d] = @ - 1]
    /\ exn' = [exn EXCEPT ![d] = @ \/ err]

Leave(t, err) ==
    LET d == cur[t] IN
    /\ done' = done \cup {d}
    /\ threw' = IF err THEN threw \cup {d} ELSE threw
    /\ IF d = Root THEN UNCHANGED <<count, exn>> ELSE Report(Parent[d], err)
    /\ IF job[d] # d
       THEN Goto(t, "read") /\ cur' = [cur EXCEPT ![t] = Parent[d]]
       ELSE /\ Goto(t, IF t # Main THEN "release" ELSE IF err THEN "threw" ELSE "returned")
            /\ UNCHANGED cur
    /\ UNCHANGED <<sub, job, listVars, poolVars>>

OpenDir(t) ==
    /\ At(t, "open")
    /\ Goto(t, "read")
    /\ UNCHANGED <<cur, sub, callVars, listVars, poolVars>>

\* opendir fails: no wait group yet.
OpenFails(t) ==
    /\ "opendir" \in Faults
    /\ At(t, "open")
    /\ Leave(t, TRUE)

\* readdir returns the entry n.
ReadEntry(t, n) ==
    /\ At(t, "read")
    /\ n \in todo[cur[t]]
    /\ todo' = [todo EXCEPT ![cur[t]] = @ \ {n}]

\* The entry is ignored, of another type, or gone when lstat looks at it.
SkipEntry(t, n) ==
    /\ "skip" \in Faults
    /\ ReadEntry(t, n)
    /\ skipped' = skipped \cup {n}
    /\ UNCHANGED <<found, threadVars, callVars, poolVars>>

\* The entry is added to _inodes; a subdirectory is then submitted.
AddEntry(t, n) ==
    /\ ReadEntry(t, n)
    /\ found' = found \cup {n}
    /\ IF n \in Dirs
       THEN Goto(t, "submit") /\ sub' = [sub EXCEPT ![t] = n]
       ELSE UNCHANGED <<pc, sub>>
    /\ UNCHANGED <<cur, skipped, callVars, poolVars>>

\* read_symlink throws in the middle of the loop: wg is destroyed, whoever
\* still refers to it.
ReadLinkThrows(t) ==
    /\ "readlink" \in Faults
    /\ At(t, "read")
    /\ \E n \in todo[cur[t]] \ Dirs : TRUE
    /\ Leave(t, TRUE)

-----------------------------------------------------------------------------
(* enqueue_or_run: wg.add(1), then try_wait decides who reads sub[t].      *)

\* Mutant: wg.add is left out.
EnlistUncounted(t) ==
    /\ At(t, "submit")
    /\ UNCHANGED count

Enlist(t) ==
    /\ At(t, "submit")
    /\ count' = [count EXCEPT ![cur[t]] = @ + 1]

Submit(t) ==
    /\ Enlist(t)
    /\ TryWait
    /\ Goto(t, "push")
    /\ UNCHANGED <<cur, sub, exn, job, done, threw, listVars>>

RunInline(t) ==
    /\ Enlist(t)
    /\ Saturated
    /\ job' = [job EXCEPT ![sub[t]] = job[cur[t]]]
    /\ cur' = [cur EXCEPT ![t] = sub[t]]
    /\ Goto(t, "open")
    /\ UNCHANGED <<sub, exn, done, threw, listVars, poolVars>>

PushJob(t) ==
    /\ At(t, "push")
    /\ Push(sub[t])
    /\ Goto(t, "signal")
    /\ UNCHANGED <<cur, sub, callVars, listVars>>

Signal(t) ==
    /\ At(t, "signal")
    /\ NotifyOne
    /\ Goto(t, "read")
    /\ UNCHANGED <<cur, sub, callVars, listVars>>

\* readdir returns null.
EndOfDir(t) ==
    /\ At(t, "read")
    /\ todo[cur[t]] = {}
    /\ Goto(t, "wait")
    /\ UNCHANGED <<cur, sub, callVars, listVars, poolVars>>

\* Mutant: rethrow without wait.
RethrowOnly(t) ==
    /\ At(t, "wait")
    /\ Leave(t, exn[cur[t]])

\* wait_rethrow
WaitRethrow(t) ==
    /\ At(t, "wait")
    /\ count[cur[t]] = 0
    /\ Leave(t, exn[cur[t]])

-----------------------------------------------------------------------------
(* The workers, and the end of the process: the pool is a static object,   *)
(* stopped by its destructor once main has returned.                       *)

TakeJob(w) ==
    /\ Take(w)
    /\ Goto(w, "open")
    /\ cur' = [cur EXCEPT ![w] = Head(queue)]
    /\ job' = [job EXCEPT ![Head(queue)] = Head(queue)]
    /\ UNCHANGED <<sub, count, exn, done, threw, listVars>>

ReleaseJob(w) ==
    /\ At(w, "release")
    /\ Release(w)
    /\ Goto(w, "off")
    /\ UNCHANGED <<cur, sub, callVars, listVars>>

Idle(w) == (Sleep(w) \/ Exit(w)) /\ UNCHANGED <<threadVars, callVars, listVars>>

Spurious(w) == SpuriousWake(w) /\ UNCHANGED <<threadVars, callVars, listVars>>

BeginStop ==
    /\ pc[Main] \in {"returned", "threw"}
    /\ SetStop
    /\ Goto(Main, "stopping")
    /\ UNCHANGED <<cur, sub, callVars, listVars>>

WakeAll ==
    /\ At(Main, "stopping")
    /\ NotifyAll
    /\ Goto(Main, "join")
    /\ UNCHANGED <<cur, sub, callVars, listVars>>

Join ==
    /\ At(Main, "join")
    /\ Joined
    /\ Goto(Main, "exited")
    /\ UNCHANGED <<cur, sub, callVars, listVars, poolVars>>

\* The process is over.
Terminated == At(Main, "exited") /\ UNCHANGED vars

-----------------------------------------------------------------------------

ScanStep(t) ==
    \/ OpenDir(t)
    \/ OpenFails(t)
    \/ \E n \in Nodes : SkipEntry(t, n) \/ AddEntry(t, n)
    \/ ReadLinkThrows(t)
    \/ Submit(t)
    \/ RunInline(t)
    \/ PushJob(t)
    \/ Signal(t)
    \/ EndOfDir(t)
    \/ WaitRethrow(t)

WorkerStep(w) == TakeJob(w) \/ ReleaseJob(w) \/ Idle(w) \/ ScanStep(w)

MainStep == BeginStop \/ WakeAll \/ Join \/ ScanStep(Main)

Next ==
    \/ \E w \in Workers : WorkerStep(w) \/ Spurious(w)
    \/ MainStep
    \/ Terminated

Spec == Init /\ [][Next]_vars

\* Every thread that can take a step eventually does: the operating system
\* schedules each of them, and no critical section blocks.
Fairness == WF_vars(MainStep) /\ \A w \in Workers : WF_vars(WorkerStep(w))

FairSpec == Spec /\ Fairness

-----------------------------------------------------------------------------
Running(label) == {t \in Threads : pc[t] = label}

\* A permit is held for each job from try_wait until the worker that ran it
\* gives the permit back: no permit is lost or returned twice, whoever reads
\* a directory and however its reading ends.
PermitsConserved ==
    permits + Cardinality(Running("push")) + Len(queue) + Cardinality(In("busy"))
        = Cardinality(Workers)

\* No wakeup is lost: every job in the queue will be met by a worker that is
\* about to test the predicate, or by one that a thread past its push is
\* about to notify, although enqueue notifies outside the critical section.
QueuedJobHasWaker ==
    ~stopping => Len(queue) =< Cardinality(In("idle")) + Cardinality(Running("signal"))

\* The wait group on the stack of a call is destroyed when the call is over.
\* By then every job that was given a reference to it has reported.
WaitGroupOutlivesJobs ==
    \A d \in done : \A n \in Entries(d) \cap Dirs : n \in found => n \in done

\* The scan as its caller sees it.
Scan == INSTANCE TreeScan WITH
            failed <- threw # {},
            result <- IF Root \notin done THEN "running"
                      ELSE IF Root \in threw THEN "threw" ELSE "returned"

\* The parallel scan behaves like a sequential one.
ImplementsTreeScan == Scan!Spec

\* Whatever fails, the constructor ends, the pool drains and main returns.
ScanEnds == <>At(Main, "exited")
=============================================================================
