----------------------------- MODULE PushProofs -----------------------------
(***************************************************************************)
(* Proofs about cache::push for every tree, every pool, every content of   *)
(* the remote and every set of faults: the wait group counts the jobs,     *)
(* nothing that is missing is forgotten, and push implements Upload.       *)
(***************************************************************************)
EXTENDS Push, FiniteSetTheorems, SequenceTheorems, TLAPS

-----------------------------------------------------------------------------
(* Walks.                                                                  *)

\* A walk meets the digest it starts from.
LEMMA ReachSelf ==
    ASSUME NEW r \in Hashes, NEW P PROVE r \in Reach(r, P)
BY DEF Reach

\* A walk reads every tree it meets and can read.
LEMMA ReachClosed ==
    ASSUME NEW r, NEW P PROVE Closed(Reach(r, P), P)
<1>1. SUFFICES ASSUME NEW t \in Reach(r, P) \cap P \cap Trees, NEW c \in Children[t],
                      NEW S \in SUBSET Hashes, r \in S, Closed(S, P)
               PROVE  c \in S
    BY PushAssumption DEF Closed, Reach, Hashes
<1>2. t \in S
    BY <1>1 DEF Reach
<1> QED
    BY <1>1, <1>2 DEF Closed

\* It meets nothing else.
LEMMA ReachLeast ==
    ASSUME NEW r, NEW P, NEW S \in SUBSET Hashes, r \in S, Closed(S, P)
    PROVE  Reach(r, P) \subseteq S
BY DEF Reach

\* With more trees to read, a walk meets no less.
LEMMA ReachMono ==
    ASSUME NEW r, NEW P, NEW Q, P \subseteq Q
    PROVE  Reach(r, P) \subseteq Reach(r, Q)
<1>1. \A S \in SUBSET Hashes : Closed(S, Q) => Closed(S, P)
    BY DEF Closed
<1> QED
    BY <1>1 DEF Reach

\* A walk from a digest that another one meets meets no more.
LEMMA ReachTrans ==
    ASSUME NEW r, NEW P, NEW x \in Reach(r, P)
    PROVE  Reach(x, P) \subseteq Reach(r, P)
BY ReachClosed, ReachLeast DEF Reach

\* What a walk meets once x can be read is what it met before, or below x if
\* it met x.
LEMMA ReachGrow ==
    ASSUME NEW r \in Hashes, NEW P, NEW x \in Hashes
    PROVE  \/ Reach(r, P \cup {x}) \subseteq Reach(r, P)
           \/ /\ x \in Reach(r, P)
              /\ Reach(r, P \cup {x}) \subseteq Reach(r, P) \cup Reach(x, P \cup {x})
<1> DEFINE Q == P \cup {x}
           A == Reach(r, P)
           B == Reach(x, Q)
<1>1. A \subseteq Hashes /\ B \subseteq Hashes /\ r \in A /\ x \in B
    BY ReachSelf DEF Reach
<1>2. Closed(A, P) /\ Closed(B, Q)
    BY ReachClosed
<1>3. CASE x \notin A
    <2>1. Closed(A, Q)
        BY <1>2, <1>3 DEF Closed
    <2> QED
        BY <1>1, <2>1, ReachLeast
<1>4. CASE x \in A
    <2>1. Closed(A \cup B, Q)
        BY <1>1, <1>2 DEF Closed
    <2>2. A \cup B \in SUBSET Hashes /\ r \in A \cup B
        BY <1>1
    <2>3. Reach(r, Q) \subseteq A \cup B
        BY <2>1, <2>2, ReachLeast
    <2> QED
        BY <1>4, <2>3
<1> QED
    BY <1>3, <1>4

\* A file has nothing below it.
LEMMA ReachObject ==
    ASSUME NEW x \in Objects, NEW P PROVE Reach(x, P) = {x}
<1>1. x \in Hashes /\ x \notin Trees
    BY PushAssumption DEF Hashes
<1>2. Closed({x}, P)
    BY <1>1 DEF Closed
<1> QED
    BY <1>1, <1>2, ReachLeast, ReachSelf

\* A walk from a digest of the pushed tree stays in it.
LEMMA ReachContent ==
    ASSUME NEW r \in Content, NEW P PROVE Reach(r, P) \subseteq Content
<1>1. Content \subseteq Hashes /\ Closed(Content, Trees)
    BY ReachClosed DEF Content, Reach
<1>2. Closed(Content, P)
    BY <1>1 DEF Closed
<1> QED
    BY <1>1, <1>2, ReachLeast

\* When a walk from Root meets only what it can read, it has met everything.
LEMMA AllPresent ==
    ASSUME NEW P, Reach(Root, P) \subseteq P
    PROVE  Content \subseteq P
<1>1. Root \in Hashes
    BY PushAssumption DEF Hashes
<1>2. Closed(Reach(Root, P), Trees)
    BY ReachClosed DEF Closed
<1>3. Content \subseteq Reach(Root, P)
    BY <1>1, <1>2, ReachLeast, ReachSelf DEF Content, Reach
<1> QED
    BY <1>3

-----------------------------------------------------------------------------
(* The inductive invariant.                                                *)

Unreported == {"write", "append", "done", "exception"}

Typed ==
    /\ api \in {"jolt", "http"}
    /\ pc \in {"pop", "check", "enqueue", "test", "wait", "asleep", "returned", "threw"}
    /\ tree \in Trees \cap Content
    /\ missing \subseteq Content
    /\ checks \in Seq(Trees \cap Content)
    /\ holder \in Workers \cup {NoWorker}
    /\ count \in Int
    /\ exn \in BOOLEAN
    /\ queue \in Seq(Content)
    /\ step \in [Workers -> {"idle", "write", "append", "done", "exception", "unlock"}]
    /\ task \in [Workers -> Hashes \cup {NoHash}]
    /\ remote \subseteq Hashes

\* A worker that is in a job has its digest, which is of the pushed tree; the
\* list is not empty while a job holds its mutex, because the job has added
\* to it and push cannot take from it.
JobInv ==
    /\ \A w \in Workers : step[w] # "idle" => task[w] \in Content
    /\ \A w \in Workers : step[w] = "append" => task[w] \in Trees
    /\ \A w \in Workers : holder = w => step[w] \in {"done", "unlock"}
    /\ \A w \in Workers : step[w] = "unlock" => holder = w
    /\ holder # NoWorker => checks # <<>>

\* What the place of the caller says of the lists.
PlaceInv ==
    /\ pc = "pop" => checks # <<>>
    /\ pc # "enqueue" => missing = {}
    /\ pc = "returned" => count = 0 /\ ~exn /\ checks = <<>>

PushInv == Typed /\ JobInv /\ PlaceInv /\ CountsJobs /\ MissingIsPending

\* The workers in a job are finitely many.
LEMMA BusyFinite ==
    ASSUME NEW steps PROVE IsFiniteSet(Busy(steps)) /\ Cardinality(Busy(steps)) \in Nat
<1>1. Busy(steps) \subseteq Workers
    BY DEF Busy
<1> QED
    BY <1>1, PushAssumption, FS_Subset, FS_CardinalityType

\* When the wait group counts nothing, there is no job.
LEMMA NoJobs ==
    ASSUME Typed, CountsJobs, count = 0
    PROVE  queue = <<>> /\ Busy(Unreported) = {}
<1>1. Len(queue) \in Nat /\ (Len(queue) = 0 => queue = <<>>)
    BY EmptySeq DEF Typed
<1>2. Len(queue) = 0 /\ Cardinality(Busy(Unreported)) = 0
    BY <1>1, BusyFinite DEF CountsJobs, Unreported
<1> QED
    BY <1>1, <1>2, BusyFinite, FS_EmptySet

\* Once push has returned, the workers are idle and the mutex is free.
LEMMA Quiet ==
    ASSUME PushInv PROVE QuietWhenReturned
<1> SUFFICES ASSUME pc = "returned"
             PROVE  queue = <<>> /\ holder = NoWorker /\ \A w \in Workers : step[w] = "idle"
    BY DEF QuietWhenReturned
<1>1. count = 0 /\ checks = <<>> /\ queue = <<>> /\ Busy(Unreported) = {}
    BY NoJobs DEF PushInv, PlaceInv
<1>2. holder = NoWorker
    BY <1>1 DEF PushInv, JobInv
<1>3. \A w \in Workers : step[w] # "unlock"
    BY <1>2, PushAssumption DEF PushInv, JobInv
<1> QED
    BY <1>1, <1>2, <1>3 DEF Busy, Unreported, PushInv, Typed

-----------------------------------------------------------------------------
(* What is pending, as a relation of the jobs J, the trees to check T and   *)
(* the content R of the remote.                                            *)

PendingJolt(J, T, R) ==
    \A h \in Reach(Root, R) \ R : \E y \in J \cup T : h \in Reach(y, R)

PendingHttp(J, T, R) ==
    \A h \in Content \ R : h \in J \/ \E t \in T : h = t \/ h # Root

Pending(J, T, R) == IF api = "jolt" THEN PendingJolt(J, T, R) ELSE PendingHttp(J, T, R)

Unhurt == pc # "threw" /\ ~exn /\ Busy({"exception"}) = {}

\* The invariant of Push, said with that relation.
LEMMA SaidWithPending ==
    MissingIsPending <=> (Unhurt => Pending(Jobs, ToCheck, remote))
<1>1. Root \in Content
    BY ReachSelf, PushAssumption DEF Content, Hashes
<1>2. CASE api = "jolt"
    BY <1>2 DEF MissingIsPending, Unhurt, Pending, PendingJolt, Missing, HasTree
<1>3. CASE api # "jolt"
    BY <1>1, <1>3 DEF MissingIsPending, Unhurt, Pending, PendingHttp, Missing, HasObjects
<1> QED
    BY <1>2, <1>3

\* What is pending stays so when there are more jobs and more trees to check.
LEMMA PendingMono ==
    ASSUME NEW J, NEW T, NEW J2, NEW T2, NEW R, J \subseteq J2, T \subseteq T2,
           Pending(J, T, R)
    PROVE  Pending(J2, T2, R)
BY DEF Pending, PendingJolt, PendingHttp

\* It stays so when x was sent and, if it is a tree, is to be checked.
LEMMA PendingSend ==
    ASSUME NEW J, NEW T, NEW J2, NEW T2, NEW R, NEW x \in Hashes,
           J \cup T \subseteq Hashes, J \subseteq J2 \cup {x}, T \subseteq T2,
           x \in Trees => x \in T2, Pending(J, T, R)
    PROVE  Pending(J2, T2, R \cup {x})
<1> DEFINE Q == R \cup {x}
<1>1. ASSUME api = "jolt" PROVE PendingJolt(J2, T2, Q)
    <2> SUFFICES ASSUME NEW h \in Reach(Root, Q) \ Q
                 PROVE  \E y \in J2 \cup T2 : h \in Reach(y, Q)
        BY DEF PendingJolt
    <2>1. ASSUME h \in Reach(x, Q) PROVE x \in T2
        <3>1. CASE x \in Objects
            BY <2>1, <3>1, ReachObject
        <3> QED
            BY <3>1 DEF Hashes
    <2>2. CASE h \in Reach(Root, R)
        <3>1. PICK y \in J \cup T : h \in Reach(y, R)
            BY <1>1, <2>2 DEF Pending, PendingJolt
        <3>2. h \in Reach(y, Q)
            BY <3>1, ReachMono
        <3> QED
            BY <2>1, <3>2
    <2>3. CASE h \in Reach(x, Q)
        BY <2>1, <2>3
    <2>4. Root \in Hashes
        BY PushAssumption DEF Hashes
    <2> QED
        BY <2>2, <2>3, <2>4, ReachGrow
<1>2. ASSUME api # "jolt" PROVE PendingHttp(J2, T2, Q)
    BY <1>2 DEF Pending, PendingHttp
<1> QED
    BY <1>1, <1>2 DEF Pending

\* It stays so when someone else sends x.
LEMMA PendingOther ==
    ASSUME NEW J, NEW T, NEW R, NEW x \in Hashes, x \notin R, Pending(J, T, R)
    PROVE  Pending(J, T, R \cup {x})
<1> DEFINE Q == R \cup {x}
<1>1. ASSUME api = "jolt" PROVE PendingJolt(J, T, Q)
    <2> SUFFICES ASSUME NEW h \in Reach(Root, Q) \ Q
                 PROVE  \E y \in J \cup T : h \in Reach(y, Q)
        BY DEF PendingJolt
    <2>1. ASSUME NEW g \in Reach(Root, R), g \notin R
          PROVE  \E y \in J \cup T : g \in Reach(y, Q)
        <3>1. PICK y \in J \cup T : g \in Reach(y, R)
            BY <1>1, <2>1 DEF Pending, PendingJolt
        <3> QED
            BY <3>1, ReachMono
    <2>2. CASE h \in Reach(Root, R)
        BY <2>1, <2>2
    <2>3. CASE x \in Reach(Root, R) /\ h \in Reach(x, Q)
        <3>1. PICK y \in J \cup T : x \in Reach(y, Q)
            BY <2>1, <2>3
        <3> QED
            BY <2>3, <3>1, ReachTrans
    <2>4. Root \in Hashes
        BY PushAssumption DEF Hashes
    <2> QED
        BY <2>2, <2>3, <2>4, ReachGrow
<1>2. ASSUME api # "jolt" PROVE PendingHttp(J, T, Q)
    BY <1>2 DEF Pending, PendingHttp
<1> QED
    BY <1>1, <1>2 DEF Pending

\* It stays so when the tree t is checked, and what is missing gets a job.
LEMMA PendingCheck ==
    ASSUME NEW J, NEW T, NEW J2, NEW T2, NEW t,
           J \subseteq J2, T \subseteq T2 \cup {t}, Missing(t) \subseteq J2,
           J2 \subseteq Hashes, Pending(J, T, remote)
    PROVE  Pending(J2, T2, remote)
<1>1. ASSUME api = "jolt" PROVE PendingJolt(J2, T2, remote)
    <2> SUFFICES ASSUME NEW h \in Reach(Root, remote) \ remote
                 PROVE  \E y \in J2 \cup T2 : h \in Reach(y, remote)
        BY DEF PendingJolt
    <2>1. PICK y \in J \cup T : h \in Reach(y, remote)
        BY <1>1 DEF Pending, PendingJolt
    <2>2. CASE y = t
        <3>1. h \in J2
            BY <1>1, <2>1, <2>2 DEF Missing, HasTree
        <3> QED
            BY <3>1, ReachSelf
    <2> QED
        BY <2>1, <2>2
<1>2. ASSUME api # "jolt" PROVE PendingHttp(J2, T2, remote)
    BY <1>2 DEF Pending, PendingHttp, Missing, HasObjects
<1> QED
    BY <1>1, <1>2 DEF Pending

-----------------------------------------------------------------------------
(* The invariant is inductive.                                             *)

\* It holds at first: Root is to be checked and nothing else is under way.
LEMMA PushInit == Init => PushInv
<1> SUFFICES ASSUME Init PROVE PushInv
    OBVIOUS
<1>1. Root \in Trees \cap Content
    BY ReachSelf, PushAssumption DEF Content, Hashes
<1>2. Typed
    <2>1. checks \in Seq(Trees \cap Content) /\ queue \in Seq(Content)
        BY <1>1 DEF Init
    <2>2. step \in [Workers -> {"idle", "write", "append", "done", "exception", "unlock"}]
        BY DEF Init
    <2>3. task \in [Workers -> Hashes \cup {NoHash}]
        BY DEF Init
    <2>4. /\ api \in {"jolt", "http"} /\ pc = "pop"
          /\ tree = Root /\ missing = {} /\ holder = NoWorker
          /\ count \in Int /\ remote \subseteq Hashes
        BY DEF Init
    <2>5. exn \in BOOLEAN
        BY DEF Init
    <2> QED
        BY <1>1, <2>1, <2>2, <2>3, <2>4, <2>5 DEF Typed
<1>3. JobInv
    BY PushAssumption DEF JobInv, Init
<1>4. PlaceInv
    BY DEF PlaceInv, Init
<1>5. CountsJobs
    <2>1. Busy({"write", "append", "done", "exception"}) = {}
        BY DEF Busy, Init
    <2>2. Cardinality(Busy({"write", "append", "done", "exception"})) = 0
        BY <2>1, FS_EmptySet
    <2>3. Len(queue) = 0 /\ count = 0
        BY DEF Init
    <2> QED
        BY <2>2, <2>3 DEF CountsJobs
<1>6. Root \in ToCheck
    BY DEF ToCheck, Init
<1>7. Pending(Jobs, ToCheck, remote)
    BY <1>6 DEF Pending, PendingJolt, PendingHttp, Content, Reach
<1> QED
    BY <1>2, <1>3, <1>4, <1>5, <1>7, SaidWithPending DEF PushInv

\* What the remote is said to lack is of the pushed tree.
LEMMA MissingContent ==
    ASSUME NEW t \in Content PROVE Missing(t) \subseteq Content
BY ReachContent DEF Missing, HasTree, HasObjects

\* Every step keeps the types and the places.
LEMMA TypedStep ==
    ASSUME Typed, JobInv, PlaceInv, CountsJobs, [Next]_vars
    PROVE  Typed'
<1> USE DEF Typed, sharedVars, mainVars, workerVars
<1> Content \subseteq Hashes
    BY DEF Content, Reach
<1>1. CASE PopTree
    BY <1>1 DEF PopTree, PlaceInv
<1>2. CASE CheckTree
    BY <1>2, MissingContent DEF CheckTree
<1>3. CASE CheckFails
    BY <1>3 DEF CheckFails
<1>4. ASSUME NEW h \in Hashes, EnqueueJob(h) PROVE Typed'
    BY <1>4 DEF EnqueueJob
<1>5. CASE AllEnqueued \/ TestChecks \/ Block \/ SpuriousWake \/ WaitRethrow
    BY <1>5 DEF AllEnqueued, TestChecks, Block, SpuriousWake, WaitRethrow, AfterWait
<1>6. ASSUME NEW w \in Workers, TakeJob(w) PROVE Typed'
    BY <1>6 DEF TakeJob
<1>7. ASSUME NEW w \in Workers, WriteObject(w) \/ WriteFails(w) PROVE Typed'
    <2>1. task[w] \in Content
        BY <1>7 DEF JobInv, WriteObject, WriteFails
    <2>2. CASE WriteObject(w)
        BY <2>1, <2>2 DEF WriteObject
    <2>3. CASE WriteFails(w)
        BY <2>1, <2>3 DEF WriteFails
    <2> QED
        BY <1>7, <2>2, <2>3
<1>8. ASSUME NEW w \in Workers, AppendTree(w) PROVE Typed'
    <2>1. task[w] \in Trees \cap Content
        BY <1>8 DEF JobInv, AppendTree
    <2> QED
        BY <1>8, <2>1 DEF AppendTree
<1>9. ASSUME NEW w \in Workers, Done(w) \/ UnlockChecks(w) \/ Exception(w) PROVE Typed'
    <2>1. CASE Done(w)
        BY <2>1 DEF Done, CountDown
    <2>2. CASE UnlockChecks(w)
        BY <2>2 DEF UnlockChecks
    <2>3. CASE Exception(w)
        BY <2>3 DEF Exception, CountDown
    <2> QED
        BY <1>9, <2>1, <2>2, <2>3
<1>10. ASSUME NEW h \in Hashes, OtherClient(h) PROVE Typed'
    BY <1>10 DEF OtherClient
<1>11. CASE UNCHANGED vars
    BY <1>11 DEF vars
<1> QED
    BY <1>1, <1>2, <1>3, <1>4, <1>5, <1>6, <1>7, <1>8, <1>9, <1>10, <1>11
    DEF Next, MainStep, WorkerStep, Terminated

\* Every step keeps what is said of the jobs.
LEMMA JobStep ==
    ASSUME Typed, JobInv, PlaceInv, [Next]_vars
    PROVE  JobInv'
<1> USE DEF Typed, JobInv, sharedVars, mainVars, workerVars
<1> Content \subseteq Hashes
    BY DEF Content, Reach
<1>1. CASE PopTree
    BY <1>1, PushAssumption DEF PopTree
<1>2. CASE CheckTree \/ CheckFails \/ AllEnqueued \/ TestChecks \/ Block \/ SpuriousWake \/ WaitRethrow
    BY <1>2 DEF CheckTree, CheckFails, AllEnqueued, TestChecks, Block, SpuriousWake, WaitRethrow
<1>4. ASSUME NEW h \in Hashes, EnqueueJob(h) PROVE JobInv'
    BY <1>4 DEF EnqueueJob
<1>6. ASSUME NEW w \in Workers, TakeJob(w) PROVE JobInv'
    <2>1. Head(queue) \in Content
        BY <1>6 DEF TakeJob
    <2> QED
        BY <1>6, <2>1 DEF TakeJob
<1>7. ASSUME NEW w \in Workers, WriteObject(w) \/ WriteFails(w) PROVE JobInv'
    BY <1>7 DEF WriteObject, WriteFails
<1>8. ASSUME NEW w \in Workers, AppendTree(w) PROVE JobInv'
    <2>1. task[w] \in Trees \cap Content
        BY <1>8 DEF AppendTree
    <2>2. checks' # <<>>
        BY <1>8, <2>1 DEF AppendTree
    <2> QED
        BY <1>8, <2>2, PushAssumption DEF AppendTree
<1>9. ASSUME NEW w \in Workers, Done(w) \/ UnlockChecks(w) \/ Exception(w) PROVE JobInv'
    BY <1>9, PushAssumption DEF Done, UnlockChecks, Exception
<1>10. ASSUME NEW h \in Hashes, OtherClient(h) PROVE JobInv'
    BY <1>10 DEF OtherClient
<1>11. CASE UNCHANGED vars
    BY <1>11 DEF vars
<1> QED
    BY <1>1, <1>2, <1>4, <1>6, <1>7, <1>8, <1>9, <1>10, <1>11
    DEF Next, MainStep, WorkerStep, Terminated

\* Every step keeps what the place of the caller says.
LEMMA PlaceStep ==
    ASSUME PushInv, [Next]_vars
    PROVE  PlaceInv'
<1> USE DEF PushInv, Typed, PlaceInv, sharedVars, mainVars, workerVars
<1>1. CASE PopTree
    BY <1>1 DEF PopTree
<1>2. CASE CheckTree \/ CheckFails \/ AllEnqueued \/ TestChecks \/ Block \/ SpuriousWake
    BY <1>2 DEF CheckTree, CheckFails, AllEnqueued, TestChecks, Block, SpuriousWake
<1>3. CASE WaitRethrow
    BY <1>3 DEF WaitRethrow, AfterWait
<1>4. ASSUME NEW h \in Hashes, EnqueueJob(h) PROVE PlaceInv'
    BY <1>4 DEF EnqueueJob
<1>5. ASSUME NEW w \in Workers, WorkerStep(w) PROVE PlaceInv'
    <2>1. CASE TakeJob(w) \/ WriteObject(w) \/ WriteFails(w) \/ UnlockChecks(w)
        BY <2>1 DEF TakeJob, WriteObject, WriteFails, UnlockChecks
    <2>2. ASSUME step[w] # "idle" PROVE pc # "returned"
        BY <2>2, Quiet DEF QuietWhenReturned
    <2>3. CASE AppendTree(w)
        <3>1. checks' # <<>>
            BY <2>3 DEF AppendTree, JobInv
        <3> QED
            BY <2>2, <2>3, <3>1 DEF AppendTree
    <2>4. CASE Done(w)
        BY <2>2, <2>4 DEF Done, CountDown
    <2>5. CASE Exception(w)
        BY <2>2, <2>5 DEF Exception, CountDown
    <2> QED
        BY <1>5, <2>1, <2>3, <2>4, <2>5 DEF WorkerStep
<1>6. ASSUME NEW h \in Hashes, OtherClient(h) PROVE PlaceInv'
    BY <1>6 DEF OtherClient
<1>7. CASE UNCHANGED vars
    BY <1>7 DEF vars
<1> QED
    BY <1>1, <1>2, <1>3, <1>4, <1>5, <1>6, <1>7 DEF Next, MainStep, Terminated

\* Every step keeps the wait group's count right.
LEMMA CountStep ==
    ASSUME Typed, CountsJobs, [Next]_vars
    PROVE  CountsJobs'
<1> DEFINE U == Busy({"write", "append", "done", "exception"})
<1> USE DEF Typed, sharedVars, mainVars, workerVars
<1>0. IsFiniteSet(U) /\ Cardinality(U) \in Nat /\ Len(queue) \in Nat /\ count = Len(queue) + Cardinality(U)
    BY BusyFinite DEF CountsJobs
<1>1. ASSUME U' = U, Len(queue') = Len(queue), count' = count PROVE CountsJobs'
    BY <1>0, <1>1 DEF CountsJobs
<1>2. CASE PopTree \/ CheckTree \/ CheckFails \/ AllEnqueued \/ TestChecks \/ Block \/ SpuriousWake \/ WaitRethrow
    BY <1>1, <1>2 DEF Busy, PopTree, CheckTree, CheckFails, AllEnqueued, TestChecks, Block, SpuriousWake, WaitRethrow
<1>3. ASSUME NEW h \in Hashes, EnqueueJob(h) PROVE CountsJobs'
    <2>1. U' = U /\ count' = count + 1
        BY <1>3 DEF Busy, EnqueueJob
    <2>2. Len(queue') = Len(queue) + 1
        BY <1>3 DEF EnqueueJob
    <2> QED
        BY <1>0, <2>1, <2>2 DEF CountsJobs
<1>4. ASSUME NEW w \in Workers, TakeJob(w) PROVE CountsJobs'
    <2>1. U' = U \cup {w} /\ w \notin U /\ count' = count
        BY <1>4 DEF Busy, TakeJob
    <2>2. Len(queue') = Len(queue) - 1
        BY <1>4 DEF TakeJob
    <2>3. Cardinality(U') = Cardinality(U) + 1
        BY <1>0, <2>1, FS_AddElement
    <2> QED
        BY <1>0, <2>1, <2>2, <2>3 DEF CountsJobs
<1>5. ASSUME NEW w \in Workers, WriteObject(w) \/ WriteFails(w) \/ AppendTree(w) \/ UnlockChecks(w)
      PROVE CountsJobs'
    <2>1. U' = U
        BY <1>5 DEF Busy, WriteObject, WriteFails, AppendTree, UnlockChecks
    <2>2. queue' = queue /\ count' = count
        BY <1>5 DEF WriteObject, WriteFails, AppendTree, UnlockChecks
    <2> QED
        BY <1>1, <2>1, <2>2
<1>6. ASSUME NEW w \in Workers, Done(w) \/ Exception(w) PROVE CountsJobs'
    <2>1. U' = U \ {w} /\ w \in U
        BY <1>6 DEF Busy, Done, Exception
    <2>2. queue' = queue /\ count' = count - 1
        BY <1>6 DEF Done, Exception, CountDown
    <2>3. Cardinality(U') = Cardinality(U) - 1
        BY <1>0, <2>1, FS_RemoveElement
    <2> QED
        BY <1>0, <2>2, <2>3 DEF CountsJobs
<1>7. ASSUME NEW h \in Hashes, OtherClient(h) PROVE CountsJobs'
    BY <1>1, <1>7 DEF Busy, OtherClient
<1>8. CASE UNCHANGED vars
    BY <1>1, <1>8 DEF Busy, vars
<1> QED
    BY <1>2, <1>3, <1>4, <1>5, <1>6, <1>7, <1>8 DEF Next, MainStep, WorkerStep, Terminated

\* What is left to show of a step that keeps api.
LEMMA PendingNext ==
    ASSUME api' = api, Unhurt' => Pending(Jobs', ToCheck', remote')
    PROVE  MissingIsPending'
<1>1. (MissingIsPending <=> (Unhurt => Pending(Jobs, ToCheck, remote)))'
    BY SaidWithPending, PTL
<1>2. Pending(Jobs', ToCheck', remote') => Pending(Jobs, ToCheck, remote)'
    BY DEF Pending, PendingJolt, PendingHttp
<1> QED
    BY <1>1, <1>2

\* What a sequence holds when a member is added at its end.
LEMMA AppendHolds ==
    ASSUME NEW S, NEW s \in Seq(S), NEW e \in S, NEW r, r = Append(s, e)
    PROVE  {s[i] : i \in 1..Len(s)} \cup {e} \subseteq {r[i] : i \in 1..Len(r)}
<1>1. Len(s) \in Nat /\ Len(r) = Len(s) + 1
    OBVIOUS
<1>2. \A i \in 1..Len(s) : r[i] = s[i]
    OBVIOUS
<1>3. r[Len(s) + 1] = e
    OBVIOUS
<1>4. \A i \in 1..Len(s) : i \in 1..Len(r)
    BY <1>1
<1>5. Len(s) + 1 \in 1..Len(r)
    BY <1>1
<1>6. \A i \in 1..Len(s) : s[i] \in {r[j] : j \in 1..Len(r)}
    BY <1>2, <1>4
<1>7. e \in {r[j] : j \in 1..Len(r)}
    BY <1>3, <1>5
<1> QED
    BY <1>6, <1>7

\* How the tail of a sequence relates to it.
LEMMA TailShifts ==
    ASSUME NEW S, NEW s \in Seq(S), s # <<>>
    PROVE  /\ Len(s) \in Nat \ {0}
           /\ Len(Tail(s)) = Len(s) - 1
           /\ \A i \in 1..Len(Tail(s)) : Tail(s)[i] = s[i + 1]
           /\ Head(s) = s[1]
BY EmptySeq, HeadTailProperties

\* What a sequence holds when its first member is taken.
LEMMA TailHolds ==
    ASSUME NEW S, NEW s \in Seq(S), s # <<>>
    PROVE  \A r : r = Tail(s) =>
             {s[i] : i \in 1..Len(s)} \subseteq {r[i] : i \in 1..Len(r)} \cup {Head(s)}
<1> DEFINE Holds(r) == {s[i] : i \in 1..Len(s)} \subseteq {r[i] : i \in 1..Len(r)} \cup {Head(s)}
           Shifted(r) == /\ Len(r) = Len(s) - 1
                         /\ \A i \in 1..Len(r) : r[i] = s[i + 1]
<1>1. Len(s) \in Nat \ {0} /\ s[1] = Head(s)
    BY TailShifts
<1>2. ASSUME NEW r, Shifted(r)
      PROVE  Holds(r)
    <2>1. ASSUME NEW i \in 1..Len(s), i # 1
          PROVE  s[i] \in {r[j] : j \in 1..Len(r)}
        <3>1. PICK j \in 1..Len(r) : i = j + 1
            <4>1. i - 1 \in 1..Len(r)
                BY <1>1, <1>2, <2>1
            <4> QED
                BY <4>1
        <3> QED
            BY <1>2, <3>1
    <2> QED
        BY <1>1, <2>1
<1>3. Shifted(Tail(s))
    BY TailShifts
<1> HIDE DEF Holds, Shifted
<1>4. \A r : r = Tail(s) => Holds(r)
    BY <1>2, <1>3
<1> QED
    BY <1>4 DEF Holds

\* What a sequence holds when its last member is taken.
LEMMA BackHolds ==
    ASSUME NEW S, NEW s \in Seq(S), s # <<>>, NEW r, r = SubSeq(s, 1, Len(s) - 1)
    PROVE  {s[i] : i \in 1..Len(s)} \subseteq {r[i] : i \in 1..Len(r)} \cup {s[Len(s)]}
<1>1. PICK n \in Nat : Len(s) = n + 1
    <2>1. Len(s) \in Nat \ {0}
        BY EmptySeq
    <2>2. Len(s) - 1 \in Nat /\ Len(s) = (Len(s) - 1) + 1
        BY <2>1
    <2> QED
        BY <2>2
<1>2. r = SubSeq(s, 1, n)
    BY <1>1
<1>3. \A i \in 1..n : s[i] \in S
    BY <1>1
<1>4. Len(r) = n /\ \A i \in 1..n : r[i] = s[i]
    BY <1>2, <1>3, SubSeqProperties
<1>5. ASSUME NEW i \in 1..Len(s), i # Len(s)
      PROVE  s[i] \in {r[j] : j \in 1..Len(r)}
    <2>1. i \in 1..n
        BY <1>1, <1>5
    <2> QED
        BY <1>4, <2>1
<1> QED
    BY <1>5

\* What is pending is made of digests.
LEMMA JobsTyped ==
    ASSUME Typed, JobInv PROVE Jobs \cup ToCheck \subseteq Hashes
<1>1. Content \subseteq Hashes
    BY DEF Content, Reach
<1>2. \A i \in 1..Len(queue) : queue[i] \in Content
    BY DEF Typed
<1>3. \A i \in 1..Len(checks) : checks[i] \in Content
    BY DEF Typed
<1>4. \A w \in Busy({"write"}) \cup Busy({"append"}) : task[w] \in Content
    BY DEF Busy, JobInv
<1> QED
    BY <1>1, <1>2, <1>3, <1>4 DEF Jobs, ToCheck, Typed

\* Nothing that is missing is forgotten by a step.
LEMMA PendingStep ==
    ASSUME PushInv, [Next]_vars
    PROVE  MissingIsPending'
<1> USE DEF sharedVars, mainVars, workerVars
<1>1. Typed /\ JobInv /\ PlaceInv /\ (Unhurt => Pending(Jobs, ToCheck, remote))
    BY SaidWithPending DEF PushInv
<1>2. api' = api
    BY DEF Next, MainStep, WorkerStep, PopTree, CheckTree, CheckFails, EnqueueJob, AllEnqueued,
           TestChecks, Block, WaitRethrow, SpuriousWake, TakeJob, WriteObject, WriteFails,
           AppendTree, Done, UnlockChecks, Exception, OtherClient, Terminated, vars
<1>3. ASSUME Unhurt' => Unhurt, remote' = remote, Jobs \subseteq Jobs', ToCheck \subseteq ToCheck'
      PROVE  MissingIsPending'
    BY <1>1, <1>2, <1>3, PendingMono, PendingNext
<1>4. ASSUME ~Unhurt' PROVE MissingIsPending'
    BY <1>2, <1>4, PendingNext
<1>5. CASE PopTree
    <2>1. {checks[i] : i \in 1..Len(checks)} \subseteq {checks'[i] : i \in 1..Len(checks')} \cup {tree'}
        BY <1>1, <1>5, BackHolds DEF PopTree, Typed, PlaceInv
    <2>2. ToCheck \subseteq ToCheck'
        BY <1>5, <2>1 DEF PopTree, ToCheck, Busy
    <2> QED
        BY <1>3, <1>5, <2>2 DEF PopTree, Jobs, Unhurt, Busy
<1>6. CASE CheckTree
    <2>1. missing = {} /\ Missing(tree) \subseteq missing'
        BY <1>1, <1>6 DEF CheckTree, PlaceInv
    <2>2. Jobs \subseteq Jobs' /\ Missing(tree) \subseteq Jobs'
        BY <1>6, <2>1 DEF CheckTree, Jobs, Busy
    <2>3. ToCheck \subseteq ToCheck' \cup {tree}
        BY <1>6 DEF CheckTree, ToCheck, Busy
    <2>4. Unhurt' => Unhurt
        BY <1>6 DEF CheckTree, Unhurt, Busy
    <2>5. Jobs' \subseteq Hashes
        <3>1. Jobs' \subseteq Jobs \cup missing'
            BY <1>6 DEF CheckTree, Jobs, Busy
        <3>2. missing' \subseteq Hashes
            BY <1>1, TypedStep DEF PushInv, Typed, Content, Reach
        <3> QED
            BY <1>1, <3>1, <3>2, JobsTyped
    <2>6. remote' = remote
        BY <1>6 DEF CheckTree
    <2> QED
        BY <1>1, <1>2, <2>2, <2>3, <2>4, <2>5, <2>6, PendingCheck, PendingNext
<1>7. CASE CheckFails
    BY <1>4, <1>7 DEF CheckFails, Unhurt
<1>8. ASSUME NEW h \in Hashes, EnqueueJob(h) PROVE MissingIsPending'
    <2>1. {queue[i] : i \in 1..Len(queue)} \cup {h} \subseteq {queue'[i] : i \in 1..Len(queue')}
        BY <1>1, <1>8, AppendHolds DEF EnqueueJob, Typed
    <2>2. Jobs \subseteq Jobs'
        BY <1>8, <2>1 DEF EnqueueJob, Jobs, Busy
    <2> QED
        BY <1>3, <1>8, <2>2 DEF EnqueueJob, ToCheck, Unhurt, Busy
<1>9. CASE AllEnqueued \/ TestChecks \/ Block \/ SpuriousWake
    BY <1>3, <1>9 DEF AllEnqueued, TestChecks, Block, SpuriousWake, Jobs, ToCheck, Unhurt, Busy
<1>10. CASE WaitRethrow
    BY <1>3, <1>10 DEF WaitRethrow, AfterWait, Jobs, ToCheck, Unhurt, Busy
<1>11. ASSUME NEW w \in Workers, TakeJob(w) PROVE MissingIsPending'
    <2>1. {queue[i] : i \in 1..Len(queue)} \subseteq {queue'[i] : i \in 1..Len(queue')} \cup {task'[w]}
        <3>1. task'[w] = Head(queue)
            BY <1>1, <1>11 DEF TakeJob, Typed
        <3>2. queue \in Seq(Content) /\ queue # <<>> /\ queue' = Tail(queue)
            BY <1>1, <1>11 DEF TakeJob, Typed
        <3> QED
            BY <3>1, <3>2, TailHolds
    <2>2. Busy({"write"})' = Busy({"write"}) \cup {w} /\ w \notin Busy({"write"})
        BY <1>1, <1>11 DEF TakeJob, Typed, Busy
    <2>3. \A v \in Workers \ {w} : task'[v] = task[v]
        BY <1>1, <1>11 DEF TakeJob, Typed
    <2>4. Jobs \subseteq Jobs'
        BY <1>11, <2>1, <2>2, <2>3 DEF TakeJob, Jobs, Busy
    <2>5. Busy({"append"})' = Busy({"append"}) /\ w \notin Busy({"append"})
        BY <1>1, <1>11 DEF TakeJob, Typed, Busy
    <2>6. ToCheck \subseteq ToCheck'
        BY <1>11, <2>3, <2>5 DEF TakeJob, ToCheck, Busy
    <2>7. Unhurt' => Unhurt
        BY <1>1, <1>11 DEF TakeJob, Typed, Unhurt, Busy
    <2> QED
        BY <1>3, <1>11, <2>4, <2>6, <2>7 DEF TakeJob
<1>12. ASSUME NEW w \in Workers, WriteObject(w) PROVE MissingIsPending'
    <2> DEFINE x == task[w]
    <2>1. x \in Hashes
        BY <1>1, <1>12 DEF WriteObject, JobInv, Content, Reach
    <2>2. Jobs \subseteq Jobs' \cup {x}
        BY <1>1, <1>12 DEF WriteObject, Jobs, Busy, Typed
    <2>3. ToCheck \subseteq ToCheck' /\ (x \in Trees => x \in ToCheck')
        BY <1>1, <1>12 DEF WriteObject, ToCheck, Busy, Typed
    <2>4. Unhurt' => Unhurt
        BY <1>1, <1>12 DEF WriteObject, Typed, Unhurt, Busy
    <2>5. remote' = remote \cup {x}
        BY <1>12 DEF WriteObject
    <2> HIDE DEF x
    <2> QED
        BY <1>1, <1>2, <2>1, <2>2, <2>3, <2>4, <2>5, JobsTyped, PendingSend, PendingNext
<1>13. ASSUME NEW w \in Workers, WriteFails(w) PROVE MissingIsPending'
    BY <1>1, <1>4, <1>13 DEF WriteFails, Typed, Unhurt, Busy
<1>14. ASSUME NEW w \in Workers, AppendTree(w) PROVE MissingIsPending'
    <2>1. {checks[i] : i \in 1..Len(checks)} \cup {task[w]} \subseteq {checks'[i] : i \in 1..Len(checks')}
        BY <1>1, <1>14, AppendHolds DEF AppendTree, Typed, JobInv
    <2>2. \A v \in Workers \ {w} : step'[v] = step[v]
        BY <1>1, <1>14 DEF AppendTree, Typed
    <2>3. ToCheck \subseteq ToCheck'
        BY <1>14, <2>1, <2>2 DEF AppendTree, ToCheck, Busy
    <2>4. Jobs \subseteq Jobs'
        BY <1>14, <2>2 DEF AppendTree, Jobs, Busy
    <2>5. Unhurt' => Unhurt
        BY <1>1, <1>14 DEF AppendTree, Typed, Unhurt, Busy
    <2> QED
        BY <1>3, <1>14, <2>3, <2>4, <2>5 DEF AppendTree
<1>15. ASSUME NEW w \in Workers, Done(w) \/ UnlockChecks(w) PROVE MissingIsPending'
    <2>1. Busy({"write"})' = Busy({"write"}) /\ Busy({"append"})' = Busy({"append"})
        BY <1>1, <1>15 DEF Done, UnlockChecks, Busy, Typed
    <2>2. Jobs' = Jobs /\ ToCheck' = ToCheck
        BY <1>15, <2>1 DEF Done, CountDown, UnlockChecks, Jobs, ToCheck
    <2>3. Unhurt' => Unhurt
        BY <1>1, <1>15 DEF Done, CountDown, UnlockChecks, Typed, Unhurt, Busy
    <2>4. remote' = remote
        BY <1>15 DEF Done, UnlockChecks
    <2> QED
        BY <1>3, <2>2, <2>3, <2>4
<1>16. ASSUME NEW w \in Workers, Exception(w) PROVE MissingIsPending'
    BY <1>4, <1>16 DEF Exception, Unhurt
<1>17. ASSUME NEW h \in Hashes, OtherClient(h) PROVE MissingIsPending'
    <2>1. Jobs' = Jobs /\ ToCheck' = ToCheck /\ Unhurt' = Unhurt
        BY <1>17 DEF OtherClient, Jobs, ToCheck, Unhurt, Busy
    <2>2. remote' = remote \cup {h} /\ h \notin remote
        BY <1>17 DEF OtherClient
    <2> QED
        BY <1>1, <1>2, <2>1, <2>2, PendingOther, PendingNext
<1>18. CASE UNCHANGED vars
    BY <1>3, <1>18 DEF vars, Jobs, ToCheck, Unhurt, Busy
<1> QED
    BY <1>5, <1>6, <1>7, <1>8, <1>9, <1>10, <1>11, <1>12, <1>13, <1>14, <1>15, <1>16, <1>17, <1>18
    DEF Next, MainStep, WorkerStep, Terminated

\* The invariant of every reachable state.
THEOREM PushInvariant == Spec => []PushInv
<1>1. Init => PushInv
    BY PushInit
<1>2. PushInv /\ [Next]_vars => PushInv'
    BY TypedStep, JobStep, PlaceStep, CountStep, PendingStep DEF PushInv
<1> QED
    BY <1>1, <1>2, PTL DEF Spec

\* Every variable keeps its type.
THEOREM PushTyped == Spec => []TypeOK
<1>1. PushInv => TypeOK
    <2> SUFFICES ASSUME PushInv PROVE TypeOK
        OBVIOUS
    <2>1. Content \subseteq Hashes
        BY DEF Content, Reach
    <2>2. Len(queue) \in Nat
        BY DEF PushInv, Typed
    <2>3. count \in Nat
        BY <2>2, BusyFinite DEF PushInv, CountsJobs
    <2>4. checks \in Seq(Trees) /\ queue \in Seq(Hashes)
        BY <2>1 DEF PushInv, Typed
    <2> QED
        BY <2>1, <2>3, <2>4 DEF PushInv, Typed, TypeOK
<1> QED
    BY <1>1, PushInvariant, PTL

\* The wait group counts the jobs that have not reported, as enqueue, done and
\* exception interleave on any number of workers.
THEOREM PushCounts == Spec => []CountsJobs
<1>1. PushInv => CountsJobs
    BY DEF PushInv
<1> QED
    BY <1>1, PushInvariant, PTL

\* What a check of the pushed tree would find missing is always the work of a
\* job, or below a tree that is to be checked.
THEOREM PushForgetsNothing == Spec => []MissingIsPending
<1>1. PushInv => MissingIsPending
    BY DEF PushInv
<1> QED
    BY <1>1, PushInvariant, PTL

\* When push returns, no worker uses what was on its stack.
THEOREM PushReturnsQuiet == Spec => []QuietWhenReturned
<1>1. PushInv => QuietWhenReturned
    BY Quiet
<1> QED
    BY <1>1, PushInvariant, PTL

-----------------------------------------------------------------------------
(* push implements Upload.                                                 *)

\* When the jobs have all reported, none has failed and there is nothing to
\* check, the remote has the whole tree.
LEMMA AllSent ==
    ASSUME PushInv, pc = "wait", count = 0, ~exn, checks = <<>>
    PROVE  Content \subseteq remote
<1>1. queue = <<>> /\ Busy(Unreported) = {}
    BY NoJobs DEF PushInv
<1>2. Busy({"write"}) = {} /\ Busy({"append"}) = {} /\ Busy({"exception"}) = {}
    BY <1>1 DEF Busy, Unreported
<1>3. Jobs = {} /\ ToCheck = {}
    BY <1>1, <1>2 DEF Jobs, ToCheck, PushInv, PlaceInv
<1>4. Pending({}, {}, remote)
    BY <1>2, <1>3, SaidWithPending DEF Unhurt, PushInv
<1>5. CASE api = "jolt"
    <2>1. Reach(Root, remote) \subseteq remote
        BY <1>4, <1>5 DEF Pending, PendingJolt
    <2> QED
        BY <2>1, AllPresent
<1>6. CASE api # "jolt"
    BY <1>4, <1>6 DEF Pending, PendingHttp
<1> QED
    BY <1>5, <1>6

\* What Upload sees as failed.
Failed == exn \/ pc = "threw" \/ Busy({"exception"}) # {}

\* Where a step of a worker leads that takes no job.
Reached == {"append", "done", "unlock", "idle", "exception"}

\* What a step of one worker does to the transfers.
LEMMA SendingIs ==
    ASSUME NEW w \in Workers, Typed, NEW s \in Reached,
           step' = [step EXCEPT ![w] = s], task' = task
    PROVE  /\ step[w] = "write" => Sending' = Sending \ {<<w, task[w]>>}
           /\ step[w] # "write" => Sending' = Sending
<1>0. s # "write"
    BY DEF Reached
<1>1. \A v \in Workers : step'[v] = IF v = w THEN s ELSE step[v]
    BY DEF Typed
<1>2. Sending = {<<v, task[v]>> : v \in {v \in Workers : step[v] = "write"}}
    BY DEF Sending, Busy
<1>3. Sending' = {<<v, task[v]>> : v \in {v \in Workers : step'[v] = "write"}}
    BY DEF Sending, Busy
<1> QED
    BY <1>0, <1>1, <1>2, <1>3

LEMMA SendingSame ==
    ASSUME step' = step, task' = task
    PROVE  Sending' = Sending /\ Busy({"exception"})' = Busy({"exception"})
BY DEF Sending, Busy

\* What a step of one worker does to the failures.
LEMMA FailedIs ==
    ASSUME NEW w \in Workers, Typed, NEW s, step' = [step EXCEPT ![w] = s],
           s # "exception", step[w] # "exception"
    PROVE  Busy({"exception"})' = Busy({"exception"})
<1>1. \A v \in Workers : step'[v] = IF v = w THEN s ELSE step[v]
    BY DEF Typed
<1> QED
    BY <1>1 DEF Busy

\* A step of push is a step of Upload, or changes nothing that Upload sees.
LEMMA StepsTransfer ==
    ASSUME PushInv, PushInv', [Next]_vars
    PROVE  [Transfer!Next]_(Transfer!vars)
<1> USE DEF sharedVars, mainVars, workerVars
<1>1. Typed /\ JobInv /\ Typed' /\ JobInv'
    BY DEF PushInv
<1>2. ASSUME remote' = remote, Sending' = Sending, Failed' = Failed,
             pc' = pc \/ (pc \notin Over /\ pc' \notin Over)
      PROVE  UNCHANGED Transfer!vars
    BY <1>2 DEF Over, Transfer!vars, Failed
<1>3. CASE PopTree \/ CheckTree \/ AllEnqueued \/ TestChecks \/ Block \/ SpuriousWake
    <2>1. /\ remote' = remote /\ exn' = exn /\ step' = step /\ task' = task
          /\ pc \notin Over /\ pc' \notin Over
        BY <1>3 DEF PopTree, CheckTree, AllEnqueued, TestChecks, Block, SpuriousWake, Over
    <2>2. Sending' = Sending /\ Failed' = Failed
        BY <2>1, SendingSame DEF Failed, Over
    <2> QED BY <1>2, <2>1, <2>2
<1>4. CASE CheckFails
    <2>1. Sending' = Sending
        BY <1>4, SendingSame DEF CheckFails
    <2>2. Transfer!Throw
        BY <1>4, <2>1 DEF CheckFails, Transfer!Throw, Over
    <2> QED
        BY <2>2 DEF Transfer!Next
<1>5. ASSUME NEW h \in Hashes, EnqueueJob(h) PROVE UNCHANGED Transfer!vars
    <2>1. /\ remote' = remote /\ exn' = exn /\ step' = step /\ task' = task /\ pc' = pc
        BY <1>5 DEF EnqueueJob
    <2> QED BY <1>2, <2>1, SendingSame DEF Failed
<1>6. CASE WaitRethrow
    <2>0. /\ remote' = remote /\ exn' = exn /\ step' = step /\ task' = task
          /\ Sending' = Sending /\ pc = "wait" /\ pc' = AfterWait /\ count = 0
          /\ Busy({"exception"})' = Busy({"exception"})
        BY <1>6, SendingSame DEF WaitRethrow
    <2>1. CASE exn
        <3>1. Transfer!Throw
            BY <2>0, <2>1 DEF AfterWait, Transfer!Throw, Over
        <3> QED
            BY <3>1 DEF Transfer!Next
    <2>2. CASE ~exn /\ checks # <<>>
        <3>1. pc' = "pop"
            BY <2>0, <2>2 DEF AfterWait
        <3> QED BY <1>2, <2>0, <3>1 DEF Over, Failed
    <2>3. CASE ~exn /\ checks = <<>>
        <3>1. Content \subseteq remote
            BY <2>0, <2>3, AllSent
        <3>2. Busy(Unreported) = {}
            BY <1>1, <2>0, NoJobs DEF PushInv
        <3>3. Sending = {} /\ Busy({"exception"}) = {}
            BY <3>2 DEF Sending, Busy, Unreported
        <3>4. Transfer!Return
            BY <2>0, <2>3, <3>1, <3>3 DEF AfterWait, Transfer!Return, Over
        <3> QED
            BY <3>4 DEF Transfer!Next
    <2> QED
        BY <2>1, <2>2, <2>3
<1>7. ASSUME NEW w \in Workers, step[w] # "idle" PROVE pc # "returned" /\ task[w] \in Content
    BY <1>1, <1>7, Quiet DEF QuietWhenReturned, JobInv
<1>8. ASSUME NEW w \in Workers, AppendTree(w) \/ UnlockChecks(w)
      PROVE  UNCHANGED Transfer!vars
    <2>0. \/ step[w] = "append" /\ step' = [step EXCEPT ![w] = "done"]
          \/ step[w] = "unlock" /\ step' = [step EXCEPT ![w] = "idle"]
        BY <1>8 DEF AppendTree, UnlockChecks
    <2>1. PICK s \in Reached : /\ step' = [step EXCEPT ![w] = s] /\ s # "exception"
                              /\ step[w] \notin {"write", "exception"}
        BY <2>0 DEF Reached
    <2>2. remote' = remote /\ exn' = exn /\ task' = task /\ pc' = pc
        BY <1>8 DEF AppendTree, UnlockChecks
    <2>3. Sending' = Sending /\ Failed' = Failed
        BY <1>1, <2>1, <2>2, SendingIs, FailedIs DEF Failed
    <2> QED BY <1>2, <2>2, <2>3
<1>9. ASSUME NEW w \in Workers, TakeJob(w) PROVE Transfer!Next
    <2>1. /\ step[w] = "idle" /\ queue # <<>> /\ step' = [step EXCEPT ![w] = "write"]
          /\ task' = [task EXCEPT ![w] = Head(queue)]
          /\ remote' = remote /\ exn' = exn /\ pc' = pc
        BY <1>9 DEF TakeJob
    <2>2. Head(queue) \in Content
        BY <1>1, <2>1 DEF Typed
    <2>3. pc # "returned"
        BY <2>1, Quiet DEF QuietWhenReturned
    <2>4. \A v \in Workers : /\ step'[v] = IF v = w THEN "write" ELSE step[v]
                             /\ task'[v] = IF v = w THEN Head(queue) ELSE task[v]
        BY <1>1, <2>1 DEF Typed
    <2>5. Sending' = Sending \cup {<<w, Head(queue)>>}
        <3>1. Sending = {<<v, task[v]>> : v \in {v \in Workers : step[v] = "write"}}
            BY DEF Sending, Busy
        <3>2. Sending' = {<<v, task'[v]>> : v \in {v \in Workers : step'[v] = "write"}}
            BY DEF Sending, Busy
        <3> QED BY <2>1, <2>4, <3>1, <3>2
    <2>6. Busy({"exception"})' = Busy({"exception"})
        BY <1>1, <2>1, FailedIs
    <2>7. Transfer!Begin(w, Head(queue))
        BY <2>1, <2>2, <2>3, <2>5, <2>6 DEF Transfer!Begin, Over
    <2>8. Head(queue) \in Hashes
        BY <2>2 DEF Content, Reach
    <2> QED
        BY <2>7, <2>8 DEF Transfer!Next
<1>10. ASSUME NEW w \in Workers, step[w] = "write" PROVE <<w, task[w]>> \in Sending /\ task[w] \in Hashes
    <2>1. task[w] \in Content
        BY <1>7, <1>10
    <2> QED BY <1>10, <2>1 DEF Sending, Busy, Content, Reach
<1>11. ASSUME NEW w \in Workers, WriteObject(w) PROVE Transfer!Next
    <2>0. \/ step' = [step EXCEPT ![w] = "append"]
          \/ step' = [step EXCEPT ![w] = "done"]
        BY <1>11 DEF WriteObject
    <2>1. PICK s \in Reached : step' = [step EXCEPT ![w] = s] /\ s # "exception"
        BY <2>0 DEF Reached
    <2>2. /\ step[w] = "write" /\ remote' = remote \cup {task[w]}
          /\ exn' = exn /\ pc' = pc /\ task' = task
        BY <1>11 DEF WriteObject
    <2>3. Sending' = Sending \ {<<w, task[w]>>}
        BY <1>1, <2>1, <2>2, SendingIs
    <2>4. Busy({"exception"})' = Busy({"exception"})
        BY <1>1, <2>1, <2>2, FailedIs
    <2>5. Transfer!Deliver(w, task[w])
        BY <1>10, <2>2, <2>3, <2>4 DEF Transfer!Deliver
    <2> QED
        BY <1>10, <2>2, <2>5 DEF Transfer!Next
<1>12. ASSUME NEW w \in Workers, WriteFails(w) PROVE Transfer!Next
    <2>1. /\ step[w] = "write" /\ step' = [step EXCEPT ![w] = "exception"]
          /\ remote' \in {remote, remote \cup {task[w]}}
          /\ exn' = exn /\ pc' = pc /\ task' = task
        BY <1>12 DEF WriteFails
    <2>2. Sending' = Sending \ {<<w, task[w]>>}
        <3>1. "exception" \in Reached
            BY DEF Reached
        <3> QED BY <1>1, <2>1, <3>1, SendingIs
    <2>3. w \in Busy({"exception"})'
        BY <1>1, <2>1 DEF Busy, Typed
    <2>4. Transfer!Fail(w, task[w])
        BY <1>10, <2>1, <2>2, <2>3 DEF Transfer!Fail
    <2> QED
        BY <1>10, <2>1, <2>4 DEF Transfer!Next
<1>13. ASSUME NEW w \in Workers, Done(w) PROVE UNCHANGED Transfer!vars
    <2>0. \/ step' = [step EXCEPT ![w] = "unlock"]
          \/ step' = [step EXCEPT ![w] = "idle"]
        BY <1>13 DEF Done
    <2>1. PICK s \in Reached : step' = [step EXCEPT ![w] = s] /\ s # "exception"
        BY <2>0 DEF Reached
    <2>2. /\ step[w] = "done" /\ remote' = remote /\ exn' = exn /\ task' = task
          /\ pc' = pc \/ (pc = "asleep" /\ pc' = "wait")
        BY <1>13 DEF Done, CountDown
    <2>3. Sending' = Sending /\ Failed' = Failed
        BY <1>1, <2>1, <2>2, SendingIs, FailedIs DEF Failed
    <2> QED BY <1>2, <2>2, <2>3 DEF Over
<1>14. ASSUME NEW w \in Workers, Exception(w) PROVE UNCHANGED Transfer!vars
    <2>1. /\ step[w] = "exception" /\ step' = [step EXCEPT ![w] = "idle"]
          /\ remote' = remote /\ exn' /\ task' = task
          /\ pc' = pc \/ (pc = "asleep" /\ pc' = "wait")
        BY <1>14 DEF Exception, CountDown
    <2>2. Sending' = Sending
        <3>1. "idle" \in Reached
            BY DEF Reached
        <3>2. step[w] # "write" /\ step' = [step EXCEPT ![w] = "idle"]
            BY <2>1
        <3> QED BY <1>1, <2>1, <3>1, <3>2, SendingIs
    <2>3. Busy({"exception"}) # {}
        BY <2>1 DEF Busy
    <2>4. Failed /\ Failed'
        BY <2>1, <2>3 DEF Failed
    <2> QED BY <1>2, <2>1, <2>2, <2>4 DEF Over, Failed
<1>15. ASSUME NEW h \in Hashes, OtherClient(h) PROVE Transfer!Next
    <2>1. /\ remote' = remote \cup {h} /\ exn' = exn /\ pc' = pc
          /\ step' = step /\ task' = task
        BY <1>15 DEF OtherClient
    <2>2. Transfer!Receive(h)
        BY <2>1, SendingSame DEF Transfer!Receive
    <2> QED
        BY <2>2 DEF Transfer!Next
<1>16. CASE UNCHANGED vars
    <2>1. /\ remote' = remote /\ exn' = exn /\ step' = step /\ task' = task /\ pc' = pc
        BY <1>16 DEF vars
    <2> QED BY <1>2, <2>1, SendingSame DEF Failed
<1> QED
    BY <1>3, <1>4, <1>5, <1>6, <1>8, <1>9, <1>11, <1>12, <1>13, <1>14, <1>15, <1>16
    DEF Next, MainStep, WorkerStep, Terminated

\* push sends what the tree is made of and nothing else, throws when a transfer
\* failed, returns when the remote has the whole tree, and sends nothing
\* afterwards, whatever other clients send.
THEOREM PushImplementsUpload == Spec => ImplementsUpload
<1>1. Init => Transfer!Init
    BY DEF Init, Transfer!Init, Over, Sending, Busy
<1>2. PushInv /\ PushInv' /\ [Next]_vars => [Transfer!Next]_(Transfer!vars)
    BY StepsTransfer
<1> QED
    BY <1>1, <1>2, PushInvariant, PTL DEF Spec, Transfer!Spec, ImplementsUpload
=============================================================================
