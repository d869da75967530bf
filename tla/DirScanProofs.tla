---------------------------- MODULE DirScanProofs ---------------------------
(***************************************************************************)
(* Proofs about the scan of a directory on the thread pool, for every      *)
(* tree, every set of workers and every set of faults.                     *)
(*                                                                         *)
(* First the pool, "readlink" included: the permits of enqueue_or_run are  *)
(* conserved and no wakeup of a worker is lost.  Then the calls of         *)
(* read_directory: every directory is read by one call on one thread, the  *)
(* count of a wait group is the number of subdirectories that have been    *)
(* handed out and not reported, and, unless read_symlink throws, no job    *)
(* outlives its wait group.  Last, that under the same condition the scan  *)
(* implements TreeScan: the caller gets a complete list or an exception,   *)
(* and no thread touches the list once it has got either.                  *)
(***************************************************************************)
EXTENDS DirScan, FiniteSetTheorems, SequenceTheorems, TLAPS


-----------------------------------------------------------------------------
(* The pool. *)

\* Types that are inductive by themselves; count \in Nat is not.
TypeInv ==
    /\ queue \in Seq(Dirs \ {Root})
    /\ permits \in Nat
    /\ loop \in [Workers -> LoopState]
    /\ stopping \in BOOLEAN
    /\ pc \in [Threads -> Label]
    /\ cur \in [Threads -> Dirs]
    /\ sub \in [Threads -> Dirs]
    /\ todo \in [Dirs -> SUBSET (Nodes \ {Root})]
    /\ count \in [Dirs -> Int]
    /\ exn \in [Dirs -> BOOLEAN]
    /\ job \in [Dirs -> Dirs \cup {NoDir}]
    /\ done \subseteq Dirs
    /\ threw \subseteq Dirs
    /\ found \subseteq Nodes \ {Root}
    /\ skipped \subseteq Nodes \ {Root}
    /\ job[Root] = Root
    /\ \A t \in Threads : pc[t] \in {"submit", "push"} => sub[t] # Root

\* A thread in one of these states has a call of read_directory on its stack.
CallLabel == {"open", "read", "submit", "push", "signal", "wait"}
Active(t) == pc[t] \in CallLabel

\* What a thread does agrees with its place in the pool.
Roles ==
    /\ \A w \in Workers :
        /\ pc[w] \in CallLabel \cup {"off", "release"}
        /\ loop[w] = "busy" <=> pc[w] # "off"
        /\ loop[w] = "exited" => stopping
    /\ pc[Main] \in CallLabel \cup {"returned", "threw", "stopping", "join", "exited"}
    /\ stopping <=> pc[Main] \in {"stopping", "join", "exited"}

PoolInv == TypeInv /\ Roles /\ PermitsConserved /\ QueuedJobHasWaker

-----------------------------------------------------------------------------
(* The sets that are counted are finite, and a step moves one thread.      *)

\* A new element adds one to the size of a finite set.
LEMMA AddOne ==
    ASSUME NEW S, NEW x, IsFiniteSet(S), x \notin S
    PROVE  Cardinality(S \cup {x}) = Cardinality(S) + 1
BY FS_AddElement

\* Taking an element out of a finite set takes one from its size.
LEMMA RemoveOne ==
    ASSUME NEW S, NEW x \in S, IsFiniteSet(S)
    PROVE  Cardinality(S \ {x}) = Cardinality(S) - 1
BY FS_RemoveElement

\* The scan has finitely many threads.
LEMMA ThreadsFinite == IsFiniteSet(Threads)
BY WorkersAssumption, FS_AddElement DEF Threads

\* The threads at a label are finitely many.
LEMMA RunningFinite ==
    ASSUME NEW l PROVE IsFiniteSet(Running(l)) /\ Cardinality(Running(l)) \in Nat
<1>1. Running(l) \in SUBSET Threads
    BY DEF Running
<1>2. IsFiniteSet(Running(l))
    BY <1>1, ThreadsFinite, FS_Subset
<1> QED
    BY <1>2, FS_CardinalityType

\* The workers in a state of their loop are finitely many.
LEMMA InFinite ==
    ASSUME NEW s PROVE IsFiniteSet(In(s)) /\ Cardinality(In(s)) \in Nat
<1>1. In(s) \in SUBSET Workers
    BY DEF In
<1>2. IsFiniteSet(In(s))
    BY <1>1, WorkersAssumption, FS_Subset
<1> QED
    BY <1>2, FS_CardinalityType

\* The pool has one worker at least: its semaphore starts above zero.
LEMMA WorkersFinite == Cardinality(Workers) \in Nat \ {0}
BY WorkersAssumption, FS_CardinalityType, FS_EmptySet

\* Goto(t, m) leaves Running(l) alone when t is in l neither before nor after.
LEMMA GotoElsewhere ==
    ASSUME TypeInv, NEW t \in Threads, NEW m \in Label, NEW l,
           Goto(t, m), pc[t] # l, m # l
    PROVE  Running(l)' = Running(l)
BY DEF TypeInv, Goto, Running

\* A thread that goes to a label joins those that are there.
LEMMA GotoEnters ==
    ASSUME TypeInv, NEW t \in Threads, NEW m \in Label, Goto(t, m), pc[t] # m
    PROVE  /\ Running(m)' = Running(m) \cup {t}
           /\ t \notin Running(m)
BY DEF TypeInv, Goto, Running

\* A thread that goes elsewhere leaves those that were at its label.
LEMMA GotoLeaves ==
    ASSUME TypeInv, NEW t \in Threads, NEW m \in Label, NEW l,
           Goto(t, m), pc[t] = l, m # l
    PROVE  /\ Running(l)' = Running(l) \ {t}
           /\ t \in Running(l)
BY DEF TypeInv, Goto, Running

\* A worker moves from state s to another one.
LEMMA WorkerMoves ==
    ASSUME TypeInv, NEW w \in Workers, NEW s \in LoopState, NEW r \in LoopState,
           loop[w] = s, r # s, loop' = [loop EXCEPT ![w] = r]
    PROVE  /\ Cardinality(In(s)') = Cardinality(In(s)) - 1
           /\ Cardinality(In(r)') = Cardinality(In(r)) + 1
           /\ \A q \in LoopState \ {r, s} : In(q)' = In(q)
<1>1. In(s)' = In(s) \ {w} /\ w \in In(s)
    BY DEF TypeInv, In
<1>2. In(r)' = In(r) \cup {w} /\ w \notin In(r)
    BY DEF TypeInv, In
<1>3. \A q \in LoopState \ {r, s} : In(q)' = In(q)
    BY DEF TypeInv, In
<1> QED
    BY <1>1, <1>2, <1>3, InFinite, AddOne, RemoveOne

-----------------------------------------------------------------------------
(* Typing.                                                                 *)

\* What the assumption on the tree says of Root and of entries.
LEMMA RootFacts ==
    /\ Root \in Dirs
    /\ \A d \in Dirs \ {Root} : Parent[d] \in Dirs
    /\ Main \in Threads /\ Workers \subseteq Threads
    /\ \A d \in Dirs : Entries(d) \subseteq Nodes \ {Root}
BY ScanAssumption DEF Entries, Threads

\* The end of a call of read_directory keeps the types.
LEMMA LeaveType ==
    ASSUME TypeInv, NEW t \in Threads, NEW err \in BOOLEAN, Leave(t, err)
    PROVE  TypeInv'
<1> DEFINE d == cur[t]
<1>1. d \in Dirs
    BY DEF TypeInv
<1>2. count' \in [Dirs -> Int]
    BY <1>1, RootFacts DEF TypeInv, Leave, Report
<1>3. exn' \in [Dirs -> BOOLEAN]
    <2>1. CASE d = Root
        BY <2>1 DEF TypeInv, Leave
    <2>2. CASE d # Root
        <3>1. exn' = [exn EXCEPT ![Parent[d]] = @ \/ err]
            BY <2>2 DEF Leave, Report
        <3>2. (exn[Parent[d]] \/ err) \in BOOLEAN
            OBVIOUS
        <3> QED
            BY <3>1, <3>2 DEF TypeInv
    <2> QED BY <2>1, <2>2
<1>4. pc' \in [Threads -> Label]
    BY DEF TypeInv, Leave, Goto, Label
<1>5. cur' \in [Threads -> Dirs]
    <2>1. CASE job[d] = d
        BY <2>1 DEF TypeInv, Leave
    <2>2. CASE job[d] # d
        BY <2>2, <1>1, RootFacts DEF TypeInv, Leave
    <2> QED BY <2>1, <2>2
<1>6. done' \subseteq Dirs /\ threw' \subseteq Dirs
    BY <1>1 DEF TypeInv, Leave
<1>7. \A u \in Threads : pc'[u] \in {"submit", "push"} => sub'[u] # Root
    <2>1. pc'[t] \notin {"submit", "push"}
        BY DEF TypeInv, Leave, Goto
    <2>2. sub' = sub /\ \A u \in Threads \ {t} : pc'[u] = pc[u]
        BY DEF TypeInv, Leave, Goto
    <2> QED
        BY <2>1, <2>2 DEF TypeInv
<1> QED
    BY <1>2, <1>3, <1>4, <1>5, <1>6, <1>7 DEF TypeInv, Leave, listVars, poolVars

\* A step of read_directory keeps the types.
LEMMA ScanStepType ==
    ASSUME TypeInv, NEW t \in Threads, ScanStep(t)
    PROVE  TypeInv'
<1>1. CASE OpenDir(t)
    BY <1>1 DEF TypeInv, OpenDir, At, Goto, Label, callVars, listVars, poolVars
<1>2. CASE OpenFails(t)
    BY <1>2, LeaveType DEF OpenFails
<1>3. ASSUME NEW n \in Nodes, SkipEntry(t, n) PROVE TypeInv'
    <2>1. n \in Nodes \ {Root} /\ todo' \in [Dirs -> SUBSET (Nodes \ {Root})]
        BY <1>3 DEF TypeInv, SkipEntry, ReadEntry
    <2> QED
        BY <1>3, <2>1 DEF TypeInv, SkipEntry, threadVars, callVars, poolVars
<1>4. ASSUME NEW n \in Nodes, AddEntry(t, n) PROVE TypeInv'
    <2>1. n \in Nodes \ {Root} /\ todo' \in [Dirs -> SUBSET (Nodes \ {Root})]
        BY <1>4 DEF TypeInv, AddEntry, ReadEntry
    <2>2. pc' \in [Threads -> Label] /\ sub' \in [Threads -> Dirs]
        BY <1>4 DEF TypeInv, AddEntry, Goto, Label
    <2>3. \A u \in Threads : pc'[u] \in {"submit", "push"} => sub'[u] # Root
        <3>1. CASE n \in Dirs
            BY <1>4, <2>1, <3>1 DEF TypeInv, AddEntry, Goto
        <3>2. CASE n \notin Dirs
            BY <1>4, <3>2 DEF TypeInv, AddEntry
        <3> QED BY <3>1, <3>2
    <2> QED
        BY <1>4, <2>1, <2>2, <2>3 DEF TypeInv, AddEntry, callVars, poolVars
<1>5. CASE ReadLinkThrows(t)
    BY <1>5, LeaveType DEF ReadLinkThrows
<1>6. CASE Submit(t)
    <2>1. count' \in [Dirs -> Int] /\ permits' \in Nat
        BY <1>6 DEF TypeInv, Submit, Enlist, TryWait
    <2> QED
        BY <1>6, <2>1 DEF TypeInv, Submit, Enlist, TryWait, At, Goto, Label, listVars
<1>7. CASE RunInline(t)
    <2>1. count' \in [Dirs -> Int] /\ job' \in [Dirs -> Dirs \cup {NoDir}]
        BY <1>7 DEF TypeInv, RunInline, Enlist
    <2>2. job'[Root] = Root
        BY <1>7, RootFacts DEF TypeInv, RunInline, Enlist, At
    <2> QED
        BY <1>7, <2>1, <2>2
        DEF TypeInv, RunInline, Goto, Label, listVars, poolVars
<1>8. CASE PushJob(t)
    <2>1. queue' \in Seq(Dirs \ {Root})
        BY <1>8 DEF TypeInv, PushJob, Push, At
    <2> QED
        BY <1>8, <2>1 DEF TypeInv, PushJob, Push, At, Goto, Label, callVars, listVars
<1>9. CASE Signal(t)
    <2>1. loop' \in [Workers -> LoopState]
        BY <1>9 DEF TypeInv, Signal, NotifyOne, In, LoopState
    <2> QED
        BY <1>9, <2>1 DEF TypeInv, Signal, NotifyOne, At, Goto, Label, callVars, listVars
<1>10. CASE EndOfDir(t)
    BY <1>10 DEF TypeInv, EndOfDir, At, Goto, Label, callVars, listVars, poolVars
<1>11. CASE WaitRethrow(t)
    <2>1. exn[cur[t]] \in BOOLEAN
        BY DEF TypeInv
    <2> QED
        BY <1>11, <2>1, LeaveType DEF WaitRethrow
<1> QED
    BY <1>1, <1>2, <1>3, <1>4, <1>5, <1>6, <1>7, <1>8, <1>9, <1>10, <1>11
    DEF ScanStep

\* Every step keeps the types.
LEMMA NextType ==
    ASSUME TypeInv, [Next]_vars
    PROVE  TypeInv'
<1>1. ASSUME NEW t \in Threads, ScanStep(t) PROVE TypeInv'
    BY <1>1, ScanStepType
<1>2. ASSUME NEW w \in Workers, TakeJob(w) PROVE TypeInv'
    <2>1. queue' \in Seq(Dirs \ {Root}) /\ Head(queue) \in Dirs \ {Root}
        BY <1>2, HeadTailProperties DEF TypeInv, TakeJob, Take
    <2>2. loop' \in [Workers -> LoopState]
        BY <1>2 DEF TypeInv, TakeJob, Take, LoopState
    <2>3. job' \in [Dirs -> Dirs \cup {NoDir}] /\ job'[Root] = Root
        BY <1>2, <2>1, RootFacts DEF TypeInv, TakeJob
    <2>4. cur' \in [Threads -> Dirs] /\ pc' \in [Threads -> Label]
        BY <1>2, <2>1 DEF TypeInv, TakeJob, Goto, Label
    <2>5. \A u \in Threads : pc'[u] \in {"submit", "push"} => sub'[u] # Root
        BY <1>2 DEF TypeInv, TakeJob, Goto
    <2> QED
        BY <1>2, <2>1, <2>2, <2>3, <2>4, <2>5 DEF TypeInv, TakeJob, Take, listVars
<1>3. ASSUME NEW w \in Workers, ReleaseJob(w) PROVE TypeInv'
    <2>1. permits' \in Nat /\ loop' \in [Workers -> LoopState]
        BY <1>3 DEF TypeInv, ReleaseJob, Release, LoopState
    <2> QED
        BY <1>3, <2>1
        DEF TypeInv, ReleaseJob, Release, Goto, Label, callVars, listVars
<1>4. ASSUME NEW w \in Workers, Idle(w) \/ Spurious(w) PROVE TypeInv'
    <2>1. loop' \in [Workers -> LoopState]
        BY <1>4 DEF TypeInv, Idle, Spurious, Sleep, Exit, SpuriousWake, LoopState
    <2> QED
        BY <1>4, <2>1 DEF TypeInv, Idle, Spurious, Sleep, Exit, SpuriousWake,
                          threadVars, callVars, listVars
<1>5. CASE BeginStop
    BY <1>5 DEF TypeInv, BeginStop, SetStop, Goto, Label, callVars, listVars
<1>6. CASE WakeAll
    <2>1. loop' \in [Workers -> LoopState]
        BY <1>6 DEF TypeInv, WakeAll, NotifyAll, LoopState
    <2> QED
        BY <1>6, <2>1 DEF TypeInv, WakeAll, NotifyAll, Goto, Label, callVars, listVars
<1>7. CASE Join
    BY <1>7 DEF TypeInv, Join, Goto, Label, callVars, listVars, poolVars
<1>8. CASE UNCHANGED vars
    BY <1>8 DEF TypeInv, vars, poolVars, threadVars, callVars, listVars
<1> QED
    BY <1>1, <1>2, <1>3, <1>4, <1>5, <1>6, <1>7, <1>8, RootFacts
    DEF Next, WorkerStep, MainStep, Terminated

\* The initial state has the types.
LEMMA InitType ==
    ASSUME Init PROVE TypeInv
<1>1. queue \in Seq(Dirs \ {Root}) /\ permits \in Nat /\ stopping \in BOOLEAN
    BY WorkersFinite, EmptySeq DEF Init, PoolInit
<1>2. loop \in [Workers -> LoopState]
    BY DEF Init, PoolInit, LoopState
<1>3. /\ pc \in [Threads -> Label]
      /\ \A u \in Threads : pc[u] \notin {"submit", "push"}
    BY DEF Init, Label
<1>4. cur \in [Threads -> Dirs] /\ sub \in [Threads -> Dirs]
    BY RootFacts DEF Init
<1>5. todo \in [Dirs -> SUBSET (Nodes \ {Root})]
    BY RootFacts DEF Init
<1>6. /\ count \in [Dirs -> Int]
      /\ exn \in [Dirs -> BOOLEAN]
      /\ job \in [Dirs -> Dirs \cup {NoDir}]
      /\ job[Root] = Root
    BY RootFacts DEF Init
<1> QED
    BY <1>1, <1>2, <1>3, <1>4, <1>5, <1>6 DEF Init, TypeInv

\* Every variable of the scan keeps its type, for any tree and any pool.
THEOREM TypeInvariance == Spec => []TypeInv
BY InitType, NextType, PTL DEF Spec

-----------------------------------------------------------------------------
(* A step inside the calls that neither pushes a job nor signals one.      *)

Counted == {"push", "signal"}

\* A step inside a call that leaves the pool alone keeps the counts of
\* the pool's invariant.
LEMMA LocalStep ==
    ASSUME PoolInv, NEW t \in Threads, NEW m \in Label \ Counted,
           pc[t] \notin Counted, Goto(t, m), UNCHANGED poolVars
    PROVE  PermitsConserved' /\ QueuedJobHasWaker'
<1>1. Running("push")' = Running("push") /\ Running("signal")' = Running("signal")
    BY GotoElsewhere DEF PoolInv, Counted
<1>2. In("busy")' = In("busy") /\ In("idle")' = In("idle")
    BY DEF In, poolVars
<1> QED
    BY <1>1, <1>2 DEF PoolInv, PermitsConserved, QueuedJobHasWaker, poolVars

\* So does a step that changes neither the pool nor the counted threads.
LEMMA SilentStep ==
    ASSUME PoolInv, UNCHANGED <<poolVars, pc>>
    PROVE  Roles' /\ PermitsConserved' /\ QueuedJobHasWaker'
<1>1. Running("push")' = Running("push") /\ Running("signal")' = Running("signal")
    BY DEF Running
<1>2. In("busy")' = In("busy") /\ In("idle")' = In("idle")
    BY DEF In, poolVars
<1>3. Roles'
    BY DEF PoolInv, Roles, poolVars
<1> QED
    BY <1>1, <1>2, <1>3 DEF PoolInv, PermitsConserved, QueuedJobHasWaker, poolVars

\* A thread that has a call on its stack and still has one keeps its role.
LEMMA CallRoles ==
    ASSUME PoolInv, NEW t \in Threads, Active(t), NEW m \in CallLabel,
           Goto(t, m), UNCHANGED <<loop, stopping>>
    PROVE  Roles'
<1>1. pc'[t] = m /\ \A u \in Threads \ {t} : pc'[u] = pc[u]
    BY DEF Goto, PoolInv, TypeInv
<1>2. m \notin {"off", "stopping", "join", "exited"}
    BY DEF CallLabel
<1>3. pc[t] \notin {"off", "stopping", "join", "exited"}
    BY DEF Active, CallLabel
<1> QED
    BY <1>1, <1>2, <1>3, RootFacts DEF PoolInv, Roles

\* The end of a call leaves each thread in the role its loop gives it.
LEMMA LeaveRoles ==
    ASSUME PoolInv, NEW t \in Threads, Active(t), NEW err, Leave(t, err)
    PROVE  Roles'
<1>1. \A u \in Threads \ {t} : pc'[u] = pc[u]
    BY DEF Leave, Goto, PoolInv, TypeInv
<1>2. CASE t = Main
    <2>1. pc'[t] \in {"read", "threw", "returned"}
        BY <1>2 DEF Leave, Goto, PoolInv, TypeInv
    <2> QED
        BY <1>1, <1>2, <2>1, RootFacts, ScanAssumption
        DEF PoolInv, Roles, Leave, poolVars, Active, CallLabel
<1>3. CASE t # Main
    <2>1. pc'[t] \in {"read", "release"}
        BY <1>3 DEF Leave, Goto, PoolInv, TypeInv
    <2> QED
        BY <1>1, <1>3, <2>1, RootFacts, ScanAssumption
        DEF PoolInv, Roles, Leave, poolVars, Active, CallLabel, Threads
<1> QED BY <1>2, <1>3

\* The end of a call keeps the pool's invariant.
LEMMA LeavePool ==
    ASSUME PoolInv, NEW t \in Threads, pc[t] \in {"open", "read", "wait"},
           NEW err, Leave(t, err)
    PROVE  PermitsConserved' /\ QueuedJobHasWaker'
<1>1. PICK m \in {"read", "release", "threw", "returned"} : Goto(t, m)
    BY DEF Leave
<1>2. m \in Label \ Counted /\ pc[t] \notin Counted
    BY DEF Label, Counted
<1>3. UNCHANGED poolVars
    BY DEF Leave
<1> QED
    BY <1>1, <1>2, <1>3, LocalStep

\* A step of read_directory keeps the pool's invariant: enqueue_or_run
\* takes a permit, pushes, and then notifies.
LEMMA ScanStepPool ==
    ASSUME PoolInv, NEW t \in Threads, ScanStep(t)
    PROVE  Roles' /\ PermitsConserved' /\ QueuedJobHasWaker'
<1> USE DEF Label, Counted, CallLabel, Active
<1>1. CASE OpenDir(t)
    BY <1>1, CallRoles, LocalStep DEF OpenDir, At, poolVars
<1>2. CASE OpenFails(t)
    BY <1>2, LeaveRoles, LeavePool DEF OpenFails, At
<1>3. ASSUME NEW n \in Nodes, SkipEntry(t, n)
      PROVE  Roles' /\ PermitsConserved' /\ QueuedJobHasWaker'
    BY <1>3, SilentStep DEF SkipEntry, threadVars
<1>4. ASSUME NEW n \in Nodes, AddEntry(t, n)
      PROVE  Roles' /\ PermitsConserved' /\ QueuedJobHasWaker'
    <2>1. CASE n \in Dirs
        BY <1>4, <2>1, CallRoles, LocalStep DEF AddEntry, ReadEntry, At, poolVars
    <2>2. CASE n \notin Dirs
        BY <1>4, <2>2, SilentStep DEF AddEntry
    <2> QED BY <2>1, <2>2
<1>5. CASE ReadLinkThrows(t)
    BY <1>5, LeaveRoles, LeavePool DEF ReadLinkThrows, At
<1>6. CASE Submit(t)
    <2>1. pc[t] = "submit" /\ Goto(t, "push")
        BY <1>6 DEF Submit, Enlist, At
    <2>2. permits' = permits - 1 /\ UNCHANGED <<queue, loop, stopping>>
        BY <1>6 DEF Submit, TryWait
    <2>3. Cardinality(Running("push")') = Cardinality(Running("push")) + 1
        BY <2>1, GotoEnters, RunningFinite, AddOne DEF PoolInv
    <2>4. Running("signal")' = Running("signal")
        BY <2>1, GotoElsewhere DEF PoolInv
    <2>5. In("busy")' = In("busy") /\ In("idle")' = In("idle")
        BY <2>2 DEF In
    <2>6. PermitsConserved'
        BY <2>2, <2>3, <2>5, RunningFinite, InFinite, LenProperties
        DEF PoolInv, TypeInv, PermitsConserved
    <2>7. QueuedJobHasWaker'
        BY <2>2, <2>4, <2>5 DEF PoolInv, QueuedJobHasWaker
    <2> QED
        BY <2>1, <2>2, <2>6, <2>7, CallRoles
<1>7. CASE RunInline(t)
    BY <1>7, CallRoles, LocalStep DEF RunInline, Enlist, At, poolVars
<1>8. CASE PushJob(t)
    <2>1. pc[t] = "push" /\ Goto(t, "signal")
        BY <1>8 DEF PushJob, At
    <2>2. queue' = Append(queue, sub[t]) /\ UNCHANGED <<permits, loop, stopping>>
        BY <1>8 DEF PushJob, Push
    <2>3. Len(queue') = Len(queue) + 1 /\ Len(queue) \in Nat
        BY <2>1, <2>2, AppendProperties, LenProperties DEF PoolInv, TypeInv
    <2>4. Cardinality(Running("push")') = Cardinality(Running("push")) - 1
        BY <2>1, GotoLeaves, RunningFinite, RemoveOne DEF PoolInv
    <2>5. Cardinality(Running("signal")') = Cardinality(Running("signal")) + 1
        BY <2>1, GotoEnters, RunningFinite, AddOne DEF PoolInv
    <2>6. In("busy")' = In("busy") /\ In("idle")' = In("idle")
        BY <2>2 DEF In
    <2>7. PermitsConserved'
        BY <2>2, <2>3, <2>4, <2>6, RunningFinite, InFinite
        DEF PoolInv, TypeInv, PermitsConserved
    <2>8. QueuedJobHasWaker'
        BY <2>2, <2>3, <2>5, <2>6, RunningFinite, InFinite
        DEF PoolInv, QueuedJobHasWaker
    <2> QED
        BY <2>1, <2>2, <2>7, <2>8, CallRoles
<1>9. CASE Signal(t)
    <2>1. pc[t] = "signal" /\ Goto(t, "read")
        BY <1>9 DEF Signal, At
    <2>2. UNCHANGED <<queue, permits, stopping>>
        BY <1>9 DEF Signal, NotifyOne
    <2>3. Cardinality(Running("signal")') = Cardinality(Running("signal")) - 1
        <3>1. Running("signal")' = Running("signal") \ {t} /\ t \in Running("signal")
            BY <2>1, GotoLeaves DEF PoolInv
        <3> QED
            BY <3>1, RunningFinite, RemoveOne
    <2>4. Running("push")' = Running("push")
        BY <2>1, GotoElsewhere DEF PoolInv
    <2>5. CASE In("asleep") = {} /\ UNCHANGED loop
        <3>1. In("busy")' = In("busy") /\ In("idle")' = In("idle")
            BY <2>5 DEF In
        <3>2. PermitsConserved'
            BY <2>2, <2>4, <3>1 DEF PoolInv, PermitsConserved
        <3>3. ASSUME ~stopping
              PROVE  Len(queue) =< Cardinality(In("idle"))
            <4>1. Workers = In("idle") \cup In("busy") /\ In("idle") \cap In("busy") = {}
                BY <2>5, <3>3 DEF PoolInv, TypeInv, Roles, In, LoopState
            <4>2. Cardinality(Workers) = Cardinality(In("idle")) + Cardinality(In("busy"))
                BY <4>1, FS_Union, FS_EmptySet, InFinite
            <4> QED
                BY <4>2, RunningFinite, InFinite, LenProperties
                DEF PoolInv, TypeInv, PermitsConserved
        <3>4. Cardinality(Running("signal")) \in Nat \ {0}
            BY <2>1, GotoLeaves, RunningFinite, FS_EmptySet DEF PoolInv
        <3>5. QueuedJobHasWaker'
            BY <2>2, <2>3, <3>1, <3>3, <3>4, InFinite, LenProperties
            DEF PoolInv, TypeInv, QueuedJobHasWaker
        <3> QED
            BY <2>1, <2>2, <2>5, <3>2, <3>5, CallRoles
    <2>6. ASSUME NEW w \in In("asleep"), loop' = [loop EXCEPT ![w] = "idle"]
          PROVE  Roles' /\ PermitsConserved' /\ QueuedJobHasWaker'
        <3>1. w \in Workers /\ loop[w] = "asleep"
            BY DEF In
        <3>2. /\ Cardinality(In("idle")') = Cardinality(In("idle")) + 1
              /\ In("busy")' = In("busy")
            BY <2>6, <3>1, WorkerMoves DEF PoolInv, LoopState
        <3>3. PermitsConserved'
            BY <2>2, <2>4, <3>2 DEF PoolInv, PermitsConserved
        <3>4. QueuedJobHasWaker'
            BY <2>2, <2>3, <3>2, RunningFinite, InFinite, LenProperties
            DEF PoolInv, TypeInv, QueuedJobHasWaker
        <3>5. pc'[t] = "read" /\ \A u \in Threads \ {t} : pc'[u] = pc[u]
            BY <2>1 DEF Goto, PoolInv, TypeInv
        <3>6. \A v \in Workers : loop'[v] = IF v = w THEN "idle" ELSE loop[v]
            BY <2>6 DEF PoolInv, TypeInv
        <3>7. Roles'
            <4>1. pc[w] = "off" /\ w # t /\ w # Main
                BY <2>1, <3>1, ScanAssumption DEF PoolInv, Roles
            <4>2. \A v \in Workers :
                      /\ pc'[v] \in CallLabel \cup {"off", "release"}
                      /\ loop'[v] = "busy" <=> pc'[v] # "off"
                      /\ loop'[v] = "exited" => stopping'
                BY <2>1, <2>2, <3>1, <3>5, <3>6, <4>1, RootFacts DEF PoolInv, Roles
            <4>3. /\ pc'[Main] \in CallLabel \cup {"returned", "threw", "stopping", "join", "exited"}
                  /\ stopping' <=> pc'[Main] \in {"stopping", "join", "exited"}
                BY <2>1, <2>2, <3>5, RootFacts DEF PoolInv, Roles
            <4> QED
                BY <4>2, <4>3 DEF Roles
        <3> QED
            BY <3>3, <3>4, <3>7
    <2> QED
        BY <1>9, <2>5, <2>6 DEF Signal, NotifyOne
<1>10. CASE EndOfDir(t)
    BY <1>10, CallRoles, LocalStep DEF EndOfDir, At, poolVars
<1>11. CASE WaitRethrow(t)
    BY <1>11, LeaveRoles, LeavePool DEF WaitRethrow, At
<1> QED
    BY <1>1, <1>2, <1>3, <1>4, <1>5, <1>6, <1>7, <1>8, <1>9, <1>10, <1>11
    DEF ScanStep

-----------------------------------------------------------------------------
(* The steps of the workers' loop and of the end of the process.           *)

\* A step of a worker's loop keeps the pool's invariant.
LEMMA WorkerPool ==
    ASSUME PoolInv, NEW w \in Workers,
           TakeJob(w) \/ ReleaseJob(w) \/ Idle(w) \/ Spurious(w)
    PROVE  Roles' /\ PermitsConserved' /\ QueuedJobHasWaker'
<1> USE DEF Label, Counted, CallLabel
<1>0. w \in Threads /\ w # Main
    BY ScanAssumption DEF Threads
<1>1. CASE TakeJob(w)
    <2>1. loop[w] = "idle" /\ loop' = [loop EXCEPT ![w] = "busy"] /\ Goto(w, "open")
        BY <1>1 DEF TakeJob, Take
    <2>2. queue # <<>> /\ queue' = Tail(queue) /\ UNCHANGED <<permits, stopping>>
        BY <1>1 DEF TakeJob, Take
    <2>3. Len(queue') = Len(queue) - 1 /\ Len(queue) \in Nat
        BY <2>2, HeadTailProperties, LenProperties DEF PoolInv, TypeInv
    <2>4. pc[w] = "off"
        BY <2>1 DEF PoolInv, Roles
    <2>5. Running("push")' = Running("push") /\ Running("signal")' = Running("signal")
        BY <1>0, <2>1, <2>4, GotoElsewhere DEF PoolInv
    <2>6. /\ Cardinality(In("busy")') = Cardinality(In("busy")) + 1
          /\ Cardinality(In("idle")') = Cardinality(In("idle")) - 1
        BY <2>1, WorkerMoves DEF PoolInv, LoopState
    <2>7. PermitsConserved'
        BY <2>2, <2>3, <2>5, <2>6, RunningFinite, InFinite
        DEF PoolInv, TypeInv, PermitsConserved
    <2>8. QueuedJobHasWaker'
        BY <2>2, <2>3, <2>5, <2>6, RunningFinite, InFinite
        DEF PoolInv, QueuedJobHasWaker
    <2>9. Roles'
        BY <1>0, <2>1, <2>2, <2>4, RootFacts DEF PoolInv, TypeInv, Roles, Goto
    <2> QED
        BY <2>7, <2>8, <2>9
<1>2. CASE ReleaseJob(w)
    <2>1. loop[w] = "busy" /\ loop' = [loop EXCEPT ![w] = "idle"] /\ Goto(w, "off")
        BY <1>2 DEF ReleaseJob, Release
    <2>2. permits' = permits + 1 /\ UNCHANGED <<queue, stopping>> /\ pc[w] = "release"
        BY <1>2 DEF ReleaseJob, Release, At
    <2>3. Running("push")' = Running("push") /\ Running("signal")' = Running("signal")
        BY <1>0, <2>1, <2>2, GotoElsewhere DEF PoolInv
    <2>4. /\ Cardinality(In("busy")') = Cardinality(In("busy")) - 1
          /\ Cardinality(In("idle")') = Cardinality(In("idle")) + 1
        BY <2>1, WorkerMoves DEF PoolInv, LoopState
    <2>5. PermitsConserved'
        BY <2>2, <2>3, <2>4, RunningFinite, InFinite, LenProperties
        DEF PoolInv, TypeInv, PermitsConserved
    <2>6. QueuedJobHasWaker'
        BY <2>2, <2>3, <2>4, RunningFinite, InFinite, LenProperties
        DEF PoolInv, TypeInv, QueuedJobHasWaker
    <2>7. Roles'
        BY <1>0, <2>1, <2>2, RootFacts DEF PoolInv, TypeInv, Roles, Goto
    <2> QED
        BY <2>5, <2>6, <2>7
<1>3. CASE Sleep(w) /\ UNCHANGED <<threadVars, callVars, listVars>>
    <2>1. loop[w] = "idle" /\ loop' = [loop EXCEPT ![w] = "asleep"]
        BY <1>3 DEF Sleep
    <2>2. queue = <<>> /\ UNCHANGED <<queue, permits, stopping, pc>>
        BY <1>3 DEF Sleep, threadVars
    <2>3. Running("push")' = Running("push") /\ Running("signal")' = Running("signal")
        BY <2>2 DEF Running
    <2>4. /\ In("busy")' = In("busy")
          /\ Cardinality(In("idle")') = Cardinality(In("idle")) - 1
          /\ Cardinality(In("idle")) # 0
        <3>1. In("idle") # {}
            BY <2>1 DEF In
        <3> QED
            BY <2>1, <3>1, WorkerMoves, InFinite, FS_EmptySet DEF PoolInv, LoopState
    <2>5. PermitsConserved'
        BY <2>2, <2>3, <2>4 DEF PoolInv, PermitsConserved
    <2>6. QueuedJobHasWaker'
        BY <2>2, <2>3, <2>4, RunningFinite, InFinite, EmptySeq
        DEF QueuedJobHasWaker
    <2>7. Roles'
        BY <2>1, <2>2 DEF PoolInv, TypeInv, Roles
    <2> QED
        BY <2>5, <2>6, <2>7
<1>4. CASE Exit(w) /\ UNCHANGED <<threadVars, callVars, listVars>>
    <2>1. loop[w] = "idle" /\ loop' = [loop EXCEPT ![w] = "exited"] /\ stopping
        BY <1>4 DEF Exit
    <2>2. UNCHANGED <<queue, permits, stopping, pc>>
        BY <1>4 DEF Exit, threadVars
    <2>3. Running("push")' = Running("push")
        BY <2>2 DEF Running
    <2>4. In("busy")' = In("busy")
        BY <2>1, WorkerMoves DEF PoolInv, LoopState
    <2>5. PermitsConserved'
        BY <2>2, <2>3, <2>4 DEF PoolInv, PermitsConserved
    <2>6. QueuedJobHasWaker'
        BY <2>1, <2>2 DEF QueuedJobHasWaker
    <2>7. Roles'
        BY <2>1, <2>2 DEF PoolInv, TypeInv, Roles
    <2> QED
        BY <2>5, <2>6, <2>7
<1>5. CASE Spurious(w)
    <2>1. loop[w] = "asleep" /\ loop' = [loop EXCEPT ![w] = "idle"]
        BY <1>5 DEF Spurious, SpuriousWake
    <2>2. UNCHANGED <<queue, permits, stopping, pc>>
        BY <1>5 DEF Spurious, SpuriousWake, threadVars
    <2>3. Running("push")' = Running("push") /\ Running("signal")' = Running("signal")
        BY <2>2 DEF Running
    <2>4. /\ In("busy")' = In("busy")
          /\ Cardinality(In("idle")') = Cardinality(In("idle")) + 1
        BY <2>1, WorkerMoves DEF PoolInv, LoopState
    <2>5. PermitsConserved'
        BY <2>2, <2>3, <2>4 DEF PoolInv, PermitsConserved
    <2>6. QueuedJobHasWaker'
        BY <2>2, <2>3, <2>4, RunningFinite, InFinite, LenProperties
        DEF PoolInv, TypeInv, QueuedJobHasWaker
    <2>7. Roles'
        BY <2>1, <2>2 DEF PoolInv, TypeInv, Roles
    <2> QED
        BY <2>5, <2>6, <2>7
<1> QED
    BY <1>1, <1>2, <1>3, <1>4, <1>5 DEF Idle

\* So does a step of thread_pool::stop.
LEMMA MainPool ==
    ASSUME PoolInv, BeginStop \/ WakeAll \/ Join
    PROVE  Roles' /\ PermitsConserved' /\ QueuedJobHasWaker'
<1> USE DEF Label, Counted, CallLabel
<1>1. /\ Main \in Threads /\ Workers \subseteq Threads \ {Main}
      /\ UNCHANGED <<queue, permits>>
    BY ScanAssumption
    DEF BeginStop, SetStop, WakeAll, NotifyAll, Join, poolVars, Threads
<1>2. PICK m \in {"stopping", "join", "exited"} :
        /\ Goto(Main, m)
        /\ pc[Main] \notin {"push", "signal"}
        /\ stopping'
        /\ pc[Main] \in {"returned", "threw", "stopping", "join", "exited"}
    BY DEF BeginStop, SetStop, WakeAll, NotifyAll, Join, At, poolVars, PoolInv, Roles
<1>3. Running("push")' = Running("push")
    BY <1>1, <1>2, GotoElsewhere DEF PoolInv
<1>4. /\ \A w \in Workers : loop'[w] = "busy" <=> loop[w] = "busy"
      /\ \A w \in Workers : loop'[w] = "exited" <=> loop[w] = "exited"
    BY DEF BeginStop, SetStop, WakeAll, NotifyAll, Join, poolVars, PoolInv, TypeInv
<1>5. In("busy")' = In("busy")
    BY <1>4 DEF In
<1>6. PermitsConserved'
    BY <1>1, <1>3, <1>5 DEF PoolInv, PermitsConserved
<1>7. QueuedJobHasWaker'
    BY <1>2 DEF QueuedJobHasWaker
<1>8. pc'[Main] = m /\ \A w \in Workers : pc'[w] = pc[w]
    BY <1>1, <1>2 DEF PoolInv, TypeInv, Goto
<1>9. Roles'
    BY <1>2, <1>4, <1>8 DEF PoolInv, Roles
<1> QED
    BY <1>6, <1>7, <1>9

\* Every step keeps the pool's invariant.
LEMMA PoolNext ==
    ASSUME PoolInv, [Next]_vars
    PROVE  PoolInv'
<1>1. TypeInv'
    BY NextType DEF PoolInv
<1>2. Roles' /\ PermitsConserved' /\ QueuedJobHasWaker'
    <2>1. ASSUME NEW t \in Threads, ScanStep(t)
          PROVE  Roles' /\ PermitsConserved' /\ QueuedJobHasWaker'
        BY <2>1, ScanStepPool
    <2>2. CASE UNCHANGED vars
        BY <2>2, SilentStep DEF vars, threadVars
    <2> QED
        BY <2>1, <2>2, WorkerPool, MainPool, RootFacts
        DEF Next, WorkerStep, MainStep, Terminated
<1> QED
    BY <1>1, <1>2 DEF PoolInv

\* The initial state satisfies the pool's invariant.
LEMMA InitPool ==
    ASSUME Init PROVE PoolInv
<1>1. Running("push") = {}
    BY DEF Init, Running
<1>2. In("busy") = {}
    BY DEF Init, PoolInit, In
<1>3. Len(queue) = 0
    BY EmptySeq DEF Init, PoolInit
<1>4. PermitsConserved
    <2>1. permits = Cardinality(Workers)
        BY DEF Init, PoolInit
    <2>2. Cardinality(Running("push")) = 0 /\ Cardinality(In("busy")) = 0
        BY <1>1, <1>2, FS_EmptySet
    <2> QED
        BY <2>1, <2>2, <1>3, WorkersFinite DEF PermitsConserved
<1>5. QueuedJobHasWaker
    BY <1>3, RunningFinite, InFinite DEF QueuedJobHasWaker
<1>6. Roles
    BY ScanAssumption DEF Init, PoolInit, Roles, CallLabel, Threads
<1> QED
    BY <1>4, <1>5, <1>6, InitType DEF PoolInv

\* The inductive invariant of the pool: types, roles of the threads,
\* conserved permits and no lost wakeup.
THEOREM PoolInvariance == Spec => []PoolInv
BY InitPool, PoolNext, PTL DEF Spec

\* Permits are conserved for any number of workers and any tree.
THEOREM PermitsConservedTheorem == Spec => []PermitsConserved
BY PoolInvariance, PTL DEF PoolInv

\* No wakeup is lost, although enqueue notifies after it has unlocked.
THEOREM QueuedJobHasWakerTheorem == Spec => []QueuedJobHasWaker
BY PoolInvariance, PTL DEF PoolInv

\* Workers block in wait_rethrow while they hold a permit.  They never all
\* do so with a job left in the queue: one worker is left for each job.
QueuedJobHasWorker == Len(queue) + Cardinality(In("busy")) =< Cardinality(Workers)

\* A queued job always has a worker left to run it.
THEOREM QueuedJobHasWorkerTheorem == Spec => []QueuedJobHasWorker
<1>1. PoolInv => QueuedJobHasWorker
    BY RunningFinite, InFinite, WorkersFinite, LenProperties
    DEF PoolInv, TypeInv, PermitsConserved, QueuedJobHasWorker
<1> QED
    BY <1>1, PoolInvariance, PTL

-----------------------------------------------------------------------------
(* The calls of read_directory. *)

\* A call that runs nested in the call for its parent.
Nested(n) == n \in Dirs \ {Root} /\ n \notin done /\ job[n] \notin {NoDir, n}

\* A job has one thread, and a call has one job.
CallInv ==
    /\ \A t \in Threads : Active(t) => job[cur[t]] # NoDir /\ cur[t] \notin done
    /\ \A t, u \in Threads :
        Active(t) /\ Active(u) /\ job[cur[t]] = job[cur[u]] => t = u
    /\ \A d \in Dirs : job[d] # NoDir => job[job[d]] = job[d]
    /\ \A d \in done : job[d] # NoDir

\* The call a nested one returns to is of the same job, is not over, and is
\* not the one any thread is in; and it has one nested call at most.
NestInv ==
    /\ \A n \in Dirs : Nested(n) =>
        /\ job[Parent[n]] = job[n]
        /\ Parent[n] \notin done
        /\ \A t \in Threads : Active(t) => cur[t] # Parent[n]
    /\ \A n, m \in Dirs : Nested(n) /\ Nested(m) /\ Parent[n] = Parent[m] => n = m

\* A directory is found before it is submitted, submitted before it is read,
\* and in one place only until then.
PlaceInv ==
    /\ \A t \in Threads : pc[t] \in {"submit", "push"} =>
        /\ Parent[sub[t]] = cur[t]
        /\ sub[t] \in found
        /\ job[sub[t]] = NoDir
        /\ \A i \in 1..Len(queue) : queue[i] # sub[t]
    /\ \A i \in 1..Len(queue) : queue[i] \in found /\ job[queue[i]] = NoDir
    /\ \A i, j \in 1..Len(queue) : queue[i] = queue[j] => i = j
    /\ \A d \in Dirs \ {Root} : job[d] # NoDir => d \in found
    /\ \A n \in found : job[Parent[n]] # NoDir

\* readdir returns each entry once.
TodoInv ==
    /\ \A d \in Dirs : todo[d] \subseteq Entries(d) \ found
    /\ \A t \in Threads : pc[t] = "open" => todo[cur[t]] = Entries(cur[t])
    /\ \A d \in Dirs : job[d] = NoDir => todo[d] = Entries(d)

\* The subdirectories of d counted by its wait group.
Outstanding(d) ==
    {n \in Entries(d) \cap Dirs :
        n \in found \ done /\ \A t \in Threads : ~ (pc[t] = "submit" /\ sub[t] = n)}

CountInv == \A d \in Dirs : count[d] = Cardinality(Outstanding(d))

CoreInv == CallInv /\ NestInv /\ PlaceInv /\ TodoInv

IInv == PoolInv /\ CoreInv /\ CountInv

-----------------------------------------------------------------------------
(* Steps that move threads without moving a directory.                     *)

\* A step that moves a thread without changing which directory it reads
\* keeps the invariant of the calls.
LEMMA QuietStep ==
    ASSUME IInv, TypeInv',
           UNCHANGED <<queue, cur, sub, job, done, found, todo, count>>,
           \A t \in Threads : pc'[t] \in CallLabel => pc[t] \in CallLabel,
           \A t \in Threads : pc'[t] \in {"submit", "push"} => pc'[t] = pc[t],
           \A t \in Threads : pc[t] = "submit" => pc'[t] = "submit",
           \A t \in Threads : pc'[t] = "open" => pc[t] = "open"
    PROVE  CoreInv' /\ CountInv'
<1>1. CallInv'
    BY DEF IInv, CoreInv, CallInv, Active
<1>2. NestInv'
    <2>1. \A n \in Dirs : Nested(n)' <=> Nested(n)
        BY DEF Nested
    <2> QED
        BY <2>1 DEF IInv, CoreInv, NestInv, Active
<1>3. PlaceInv'
    BY DEF IInv, CoreInv, PlaceInv
<1>4. TodoInv'
    BY DEF IInv, CoreInv, TodoInv
<1>5. \A d \in Dirs : Outstanding(d)' = Outstanding(d)
    BY DEF Outstanding
<1>6. CountInv'
    BY <1>5 DEF IInv, CountInv
<1> QED
    BY <1>1, <1>2, <1>3, <1>4, <1>6 DEF CoreInv

\* The actions that are such steps.
LEMMA QuietActions ==
    ASSUME IInv, TypeInv',
           \/ UNCHANGED vars
           \/ BeginStop \/ WakeAll \/ Join
           \/ \E t \in Threads : OpenDir(t) \/ EndOfDir(t) \/ Signal(t)
           \/ \E w \in Workers : ReleaseJob(w) \/ Idle(w) \/ Spurious(w)
    PROVE  CoreInv' /\ CountInv'
<1> USE DEF CallLabel
<1>0. Main \in Threads /\ Workers \subseteq Threads /\ TypeInv /\ Roles
    BY RootFacts DEF IInv, PoolInv
<1>1. CASE UNCHANGED vars
    BY <1>1, QuietStep DEF vars, poolVars, threadVars, callVars, listVars
<1>2. CASE BeginStop \/ WakeAll \/ Join
    <2>1. UNCHANGED <<queue, cur, sub, job, done, found, todo, count>>
        BY <1>2 DEF BeginStop, SetStop, WakeAll, NotifyAll, Join, poolVars, callVars, listVars
    <2>2. /\ \A t \in Threads \ {Main} : pc'[t] = pc[t]
          /\ pc'[Main] \in {"stopping", "join", "exited"}
          /\ pc[Main] \in {"returned", "threw", "stopping", "join"}
        BY <1>0, <1>2 DEF BeginStop, WakeAll, Join, Goto, At, TypeInv
    <2> QED
        BY <2>1, <2>2, QuietStep
<1>3. ASSUME NEW t \in Threads, OpenDir(t) \/ EndOfDir(t) \/ Signal(t)
      PROVE  CoreInv' /\ CountInv'
    <2>1. UNCHANGED <<queue, cur, sub, job, done, found, todo, count>>
        BY <1>3 DEF OpenDir, EndOfDir, Signal, NotifyOne, poolVars, callVars, listVars
    <2>2. /\ \A u \in Threads \ {t} : pc'[u] = pc[u]
          /\ pc'[t] \in {"read", "wait"}
          /\ pc[t] \in {"open", "read", "signal"}
        BY <1>0, <1>3 DEF OpenDir, EndOfDir, Signal, Goto, At, TypeInv
    <2> QED
        BY <2>1, <2>2, QuietStep
<1>4. ASSUME NEW w \in Workers, ReleaseJob(w) PROVE CoreInv' /\ CountInv'
    <2>1. UNCHANGED <<queue, cur, sub, job, done, found, todo, count>>
        BY <1>4 DEF ReleaseJob, Release, callVars, listVars
    <2>2. /\ \A u \in Threads \ {w} : pc'[u] = pc[u]
          /\ pc'[w] = "off" /\ pc[w] = "release"
        BY <1>0, <1>4 DEF ReleaseJob, Goto, At, TypeInv
    <2> QED
        BY <2>1, <2>2, QuietStep
<1>5. ASSUME NEW w \in Workers, Idle(w) \/ Spurious(w) PROVE CoreInv' /\ CountInv'
    BY <1>5, QuietStep
    DEF Idle, Spurious, Sleep, Exit, SpuriousWake, threadVars, callVars, listVars
<1> QED
    BY <1>1, <1>2, <1>3, <1>4, <1>5

-----------------------------------------------------------------------------
(* Reading an entry.                                                       *)

\* An entry that is skipped is in no other place.
LEMMA SkipCore ==
    ASSUME IInv, TypeInv', NEW t \in Threads, NEW n \in Nodes, SkipEntry(t, n)
    PROVE  CoreInv' /\ CountInv'
<1>1. /\ UNCHANGED <<queue, pc, cur, sub, job, done, found, count>>
      /\ todo' = [todo EXCEPT ![cur[t]] = @ \ {n}]
      /\ Active(t) /\ pc[t] = "read"
    BY DEF SkipEntry, ReadEntry, At, threadVars, callVars, poolVars, Active, CallLabel
<1>2. CallInv' /\ PlaceInv'
    BY <1>1 DEF IInv, CoreInv, CallInv, PlaceInv, Active
<1>3. NestInv'
    <2>1. \A m \in Dirs : Nested(m)' <=> Nested(m)
        BY <1>1 DEF Nested
    <2> QED
        BY <1>1, <2>1 DEF IInv, CoreInv, NestInv, Active
<1>4. TodoInv'
    <2>1. job[cur[t]] # NoDir /\ cur[t] \in Dirs
        BY <1>1 DEF IInv, PoolInv, TypeInv, CoreInv, CallInv
    <2>2. \A u \in Threads : pc[u] = "open" => cur[u] # cur[t]
        BY <1>1 DEF IInv, CoreInv, CallInv, Active, CallLabel
    <2> QED
        BY <1>1, <2>1, <2>2 DEF IInv, PoolInv, TypeInv, CoreInv, TodoInv
<1>5. \A d \in Dirs : Outstanding(d)' = Outstanding(d)
    BY <1>1 DEF Outstanding
<1>6. CountInv'
    BY <1>1, <1>5 DEF IInv, CountInv
<1> QED
    BY <1>2, <1>3, <1>4, <1>6 DEF CoreInv

\* An entry that is added was in no other place.
LEMMA AddCore ==
    ASSUME IInv, TypeInv', NEW t \in Threads, NEW n \in Nodes, AddEntry(t, n)
    PROVE  CoreInv' /\ CountInv'
<1> DEFINE d == cur[t]
<1>1. /\ UNCHANGED <<queue, cur, job, done, count>>
      /\ todo' = [todo EXCEPT ![d] = @ \ {n}]
      /\ found' = found \cup {n}
      /\ n \in todo[d]
      /\ pc[t] = "read"
    BY DEF AddEntry, ReadEntry, At, callVars, poolVars
<1>2. /\ \A u \in Threads \ {t} : pc'[u] = pc[u] /\ sub'[u] = sub[u]
      /\ n \in Dirs => pc'[t] = "submit" /\ sub'[t] = n
      /\ n \notin Dirs => pc'[t] = "read"
    BY <1>1 DEF AddEntry, Goto, IInv, PoolInv, TypeInv
<1>3. d \in Dirs /\ job[d] # NoDir /\ d \notin done
    BY <1>1 DEF IInv, PoolInv, TypeInv, CoreInv, CallInv, Active, CallLabel
<1>4. n \notin found /\ n \in Nodes \ {Root} /\ Parent[n] = d
    BY <1>1, <1>3 DEF IInv, CoreInv, TodoInv, Entries
<1>5. n \in Dirs => job[n] = NoDir
    BY <1>4 DEF IInv, CoreInv, PlaceInv
<1>6. \A u \in Threads : pc'[u] \in CallLabel <=> pc[u] \in CallLabel
    BY <1>1, <1>2 DEF CallLabel
<1>7. CallInv'
    BY <1>1, <1>6 DEF IInv, CoreInv, CallInv, Active
<1>8. NestInv'
    <2>1. \A m \in Dirs : Nested(m)' <=> Nested(m)
        BY <1>1 DEF Nested
    <2> QED
        BY <1>1, <1>6, <2>1 DEF IInv, CoreInv, NestInv, Active
<1>9. PlaceInv'
    <2>1. \A i \in 1..Len(queue) : queue[i] # n
        BY <1>4 DEF IInv, CoreInv, PlaceInv
    <2>2. ASSUME NEW u \in Threads, pc'[u] \in {"submit", "push"}
          PROVE  /\ Parent[sub'[u]] = cur[u]
                 /\ sub'[u] \in found'
                 /\ job[sub'[u]] = NoDir
                 /\ \A i \in 1..Len(queue) : queue[i] # sub'[u]
        <3>1. CASE u = t
            BY <1>1, <1>2, <1>4, <1>5, <2>1, <2>2, <3>1
        <3>2. CASE u # t
            BY <1>1, <1>2, <2>2, <3>2 DEF IInv, CoreInv, PlaceInv
        <3> QED BY <3>1, <3>2
    <2> QED
        BY <1>1, <1>3, <1>4, <2>2 DEF IInv, CoreInv, PlaceInv
<1>10. TodoInv'
    <2>1. \A u \in Threads : pc'[u] = "open" => pc[u] = "open" /\ cur[u] # d
        BY <1>1, <1>2 DEF IInv, CoreInv, CallInv, Active, CallLabel
    <2>2. \A e \in Dirs \ {d} : n \notin todo[e]
        BY <1>4 DEF IInv, CoreInv, TodoInv, Entries
    <2>3. \A e \in Dirs : todo'[e] = todo[e] \ {n}
        BY <1>1, <2>2 DEF IInv, PoolInv, TypeInv
    <2>4. \A e \in Dirs \ {d} : todo'[e] = todo[e]
        BY <2>2, <2>3
    <2>5. \A e \in Dirs : todo'[e] \subseteq Entries(e) \ found'
        BY <1>1, <2>3 DEF IInv, CoreInv, TodoInv
    <2>6. \A u \in Threads : pc'[u] = "open" => todo'[cur'[u]] = Entries(cur'[u])
        BY <1>1, <2>1, <2>4 DEF IInv, CoreInv, TodoInv, PoolInv, TypeInv
    <2>7. \A e \in Dirs : job'[e] = NoDir => todo'[e] = Entries(e)
        BY <1>1, <1>3, <2>4 DEF IInv, CoreInv, TodoInv
    <2> QED
        BY <2>5, <2>6, <2>7 DEF TodoInv
<1>11. \A e \in Dirs : Outstanding(e)' = Outstanding(e)
    <2>1. ASSUME NEW e \in Dirs, NEW m \in Entries(e) \cap Dirs
          PROVE  m \in Outstanding(e)' <=> m \in Outstanding(e)
        <3>1. CASE m = n
            BY <1>1, <1>2, <1>4, <3>1 DEF Outstanding
        <3>2. CASE m # n
            BY <1>1, <1>2, <3>2 DEF Outstanding
        <3> QED BY <3>1, <3>2
    <2> QED
        BY <2>1 DEF Outstanding
<1>12. CountInv'
    BY <1>1, <1>11 DEF IInv, CountInv
<1> QED
    BY <1>7, <1>8, <1>9, <1>10, <1>12 DEF CoreInv

-----------------------------------------------------------------------------
(* Handing a subdirectory out.                                             *)

\* A wait group counts finitely many subdirectories.
LEMMA OutstandingFinite ==
    ASSUME NEW d PROVE IsFiniteSet(Outstanding(d)) /\ Cardinality(Outstanding(d)) \in Nat
<1>1. Outstanding(d) \in SUBSET Nodes
    BY DEF Outstanding, Entries
<1>2. IsFiniteSet(Outstanding(d))
    BY <1>1, ScanAssumption, FS_Subset
<1> QED
    BY <1>2, FS_CardinalityType

\* No two threads are in the same call, so they submit different directories.
LEMMA OwnSub ==
    ASSUME IInv, NEW t \in Threads, NEW u \in Threads,
           pc[t] \in {"submit", "push"}, pc[u] \in {"submit", "push"}, sub[t] = sub[u]
    PROVE  t = u
<1>1. cur[t] = cur[u]
    BY DEF IInv, CoreInv, PlaceInv
<1> QED
    BY <1>1 DEF IInv, CoreInv, CallInv, Active, CallLabel

\* wg.add and the end of "submit" go together.
LEMMA EnlistCount ==
    ASSUME IInv, NEW t \in Threads, Enlist(t), NEW m \in CallLabel \ {"submit"},
           Goto(t, m), UNCHANGED <<sub, found, done>>
    PROVE  CountInv'
<1>0. PICK d, n : d = cur[t] /\ n = sub[t]
    OBVIOUS
<1>1. /\ pc[t] = "submit" /\ d \in Dirs /\ n \in Dirs \ {Root}
      /\ count' = [count EXCEPT ![d] = @ + 1]
    BY <1>0 DEF Enlist, At, IInv, PoolInv, TypeInv
<1>2. Parent[n] = d /\ n \in found /\ job[n] = NoDir
    BY <1>0, <1>1 DEF IInv, CoreInv, PlaceInv
<1>3. n \notin done
    BY <1>2 DEF IInv, CoreInv, CallInv
<1>4. /\ \A u \in Threads \ {t} : pc'[u] = pc[u]
      /\ pc'[t] # "submit"
    BY DEF Goto, IInv, PoolInv, TypeInv
<1>5. \A u \in Threads : pc[u] = "submit" /\ sub[u] = n <=> u = t
    BY <1>0, <1>1, OwnSub
<1>6. n \in Entries(d) \cap Dirs
    BY <1>1, <1>2, ScanAssumption DEF Entries
<1>7. Outstanding(d)' = Outstanding(d) \cup {n} /\ n \notin Outstanding(d)
    <2>1. n \in Outstanding(d)' /\ n \notin Outstanding(d)
        BY <1>0, <1>1, <1>2, <1>3, <1>4, <1>5, <1>6 DEF Outstanding
    <2>2. ASSUME NEW x \in (Entries(d) \cap Dirs) \ {n}
          PROVE  x \in Outstanding(d)' <=> x \in Outstanding(d)
        BY <1>0, <1>1, <1>4, <1>5, <2>2 DEF Outstanding
    <2> QED
        BY <2>1, <2>2 DEF Outstanding
<1>8. \A e \in Dirs \ {d} : Outstanding(e)' = Outstanding(e)
    BY <1>0, <1>1, <1>2, <1>4 DEF Outstanding, Entries
<1>9. Cardinality(Outstanding(d)') = Cardinality(Outstanding(d)) + 1
    BY <1>7, OutstandingFinite, AddOne
<1> QED
    <2>1. count'[d] = count[d] + 1 /\ \A e \in Dirs \ {d} : count'[e] = count[e]
        BY <1>1 DEF IInv, PoolInv, TypeInv
    <2>2. count[d] = Cardinality(Outstanding(d))
        BY <1>1 DEF IInv, CountInv
    <2>3. count'[d] = Cardinality(Outstanding(d)')
        BY <1>9, <2>1, <2>2
    <2>4. \A e \in Dirs \ {d} : count'[e] = Cardinality(Outstanding(e)')
        BY <1>8, <2>1 DEF IInv, CountInv
    <2> QED
        BY <2>3, <2>4 DEF CountInv

\* wg.add counts the subdirectory that is about to be pushed.
LEMMA SubmitCore ==
    ASSUME IInv, TypeInv', NEW t \in Threads, Submit(t)
    PROVE  CoreInv' /\ CountInv'
<1> USE DEF CallLabel
<1>1. /\ UNCHANGED <<queue, cur, sub, job, done, found, todo>>
      /\ Goto(t, "push") /\ Enlist(t) /\ pc[t] = "submit"
    BY DEF Submit, TryWait, Enlist, At, listVars
<1>2. pc'[t] = "push" /\ \A u \in Threads \ {t} : pc'[u] = pc[u]
    BY <1>1 DEF Goto, IInv, PoolInv, TypeInv
<1>3. CallInv'
    BY <1>1, <1>2 DEF IInv, CoreInv, CallInv, Active
<1>4. NestInv'
    <2>1. \A m \in Dirs : Nested(m)' <=> Nested(m)
        BY <1>1 DEF Nested
    <2> QED
        BY <1>1, <1>2, <2>1 DEF IInv, CoreInv, NestInv, Active
<1>5. PlaceInv'
    BY <1>1, <1>2 DEF IInv, CoreInv, PlaceInv
<1>6. TodoInv'
    BY <1>1, <1>2 DEF IInv, CoreInv, TodoInv
<1>7. CountInv'
    BY <1>1, EnlistCount
<1> QED
    BY <1>3, <1>4, <1>5, <1>6, <1>7 DEF CoreInv

\* wg.add counts the subdirectory whose nested call begins.
LEMMA RunInlineCore ==
    ASSUME IInv, TypeInv', NEW t \in Threads, RunInline(t)
    PROVE  CoreInv' /\ CountInv'
<1> USE DEF CallLabel
<1> DEFINE d == cur[t]
<1> DEFINE n == sub[t]
<1>1. /\ UNCHANGED <<queue, sub, done, found, todo>>
      /\ Goto(t, "open") /\ Enlist(t) /\ pc[t] = "submit"
      /\ job' = [job EXCEPT ![n] = job[d]]
      /\ cur' = [cur EXCEPT ![t] = n]
    BY DEF RunInline, Enlist, At, listVars, poolVars
<1>2. pc'[t] = "open" /\ \A u \in Threads \ {t} : pc'[u] = pc[u] /\ cur'[u] = cur[u]
    BY <1>1 DEF Goto, IInv, PoolInv, TypeInv
<1>3. cur'[t] = n /\ d \in Dirs /\ n \in Dirs \ {Root}
    BY <1>1 DEF IInv, PoolInv, TypeInv
<1>4. /\ Parent[n] = d /\ n \in found /\ job[n] = NoDir
      /\ \A i \in 1..Len(queue) : queue[i] # n
    BY <1>1 DEF IInv, CoreInv, PlaceInv
<1>5. /\ n \notin done
      /\ job[d] # NoDir /\ d \notin done
      /\ \A e \in Dirs : job[e] # n
    <2>1. n # NoDir
        BY <1>3, ScanAssumption
    <2> QED
        BY <1>1, <1>3, <1>4, <2>1 DEF IInv, CoreInv, CallInv, Active
<1>6. \A e \in Dirs : job'[e] = IF e = n THEN job[d] ELSE job[e]
    BY <1>1 DEF IInv, PoolInv, TypeInv
<1>7. /\ \A u \in Threads : Active(u) => cur[u] # n
      /\ \A u \in Threads \ {t} : Active(u) => cur[u] # d
    BY <1>1, <1>4 DEF IInv, CoreInv, CallInv, Active
<1>8. \A u \in Threads : Active(u)' <=> Active(u)
    BY <1>1, <1>2 DEF Active
<1>9. CallInv'
    <2>1. \A u \in Threads : Active(u) => job'[cur'[u]] = job[cur[u]]
        BY <1>2, <1>3, <1>6, <1>7, <1>8, ZenonT(60) DEF IInv, PoolInv, TypeInv
    <2>2. \A u \in Threads : Active(u)' => job'[cur'[u]] # NoDir /\ cur'[u] \notin done
        BY <1>2, <1>3, <1>5, <1>8, <2>1 DEF IInv, CoreInv, CallInv
    <2>3. \A u, v \in Threads :
            Active(u)' /\ Active(v)' /\ job'[cur'[u]] = job'[cur'[v]] => u = v
        BY <1>8, <2>1 DEF IInv, CoreInv, CallInv
    <2>4. \A e \in Dirs : job'[e] # NoDir => job'[job'[e]] = job'[e]
        <3>1. \A e \in Dirs : job[e] # NoDir => job[e] \in Dirs
            BY DEF IInv, PoolInv, TypeInv
        <3>2. ASSUME NEW e \in Dirs, job'[e] # NoDir PROVE job'[job'[e]] = job'[e]
            <4>1. CASE e = n
                BY <1>3, <1>5, <1>6, <3>1, <4>1 DEF IInv, CoreInv, CallInv
            <4>2. CASE e # n
                BY <1>5, <1>6, <3>1, <3>2, <4>2 DEF IInv, CoreInv, CallInv
            <4> QED BY <4>1, <4>2
        <3> QED BY <3>2
    <2>5. \A e \in done : job'[e] # NoDir
        BY <1>5, <1>6 DEF IInv, PoolInv, TypeInv, CoreInv, CallInv
    <2> QED
        BY <1>1, <2>2, <2>3, <2>4, <2>5 DEF CallInv
<1>10. NestInv'
    <2>1. \A m \in Dirs : Nested(m)' <=> Nested(m) \/ m = n
        BY <1>1, <1>3, <1>5, <1>6 DEF Nested
    <2>2. \A m \in Dirs : Nested(m) => m # n /\ Parent[m] # n /\ Parent[m] # d
        <3>1. \A m \in Dirs : Nested(m) => job[m] # NoDir /\ job[Parent[m]] = job[m]
            BY DEF IInv, CoreInv, NestInv, Nested
        <3>2. \A m \in Dirs : Nested(m) => Parent[m] # d
            BY <1>1 DEF IInv, CoreInv, NestInv, Active
        <3> QED
            BY <1>4, <3>1, <3>2
    <2>3. ASSUME NEW m \in Dirs, Nested(m)'
          PROVE  /\ job'[Parent[m]] = job'[m]
                 /\ Parent[m] \notin done'
                 /\ \A u \in Threads : Active(u)' => cur'[u] # Parent[m]
        <3>1. CASE m = n
            <4>1. n # d
                BY <1>4, <1>5
            <4> QED
                BY <1>1, <1>2, <1>3, <1>4, <1>5, <1>6, <1>7, <1>8, <3>1, <4>1
        <3>2. CASE m # n
            <4>1. Nested(m) /\ m \in Dirs \ {Root}
                BY <2>1, <2>3, <3>2 DEF Nested
            <4>2. Parent[m] \in Dirs
                BY <4>1, RootFacts
            <4> QED
                BY <1>1, <1>2, <1>3, <1>6, <1>8, <2>2, <3>2, <4>1, <4>2
                DEF IInv, CoreInv, NestInv
        <3> QED BY <3>1, <3>2
    <2>4. \A m, k \in Dirs : Nested(m)' /\ Nested(k)' /\ Parent[m] = Parent[k] => m = k
        BY <1>4, <2>1, <2>2 DEF IInv, CoreInv, NestInv
    <2> QED
        BY <2>3, <2>4 DEF NestInv
<1>11. PlaceInv'
    <2>1. ASSUME NEW u \in Threads, pc'[u] \in {"submit", "push"}
          PROVE  /\ Parent[sub'[u]] = cur'[u]
                 /\ sub'[u] \in found'
                 /\ job'[sub'[u]] = NoDir
                 /\ \A i \in 1..Len(queue') : queue'[i] # sub'[u]
        <3>1. u # t /\ pc[u] \in {"submit", "push"}
            BY <1>2, <2>1
        <3>2. sub[u] # n /\ sub[u] \in Dirs
            BY <1>1, <3>1, OwnSub DEF IInv, PoolInv, TypeInv
        <3> QED
            BY <1>1, <1>2, <1>6, <3>1, <3>2 DEF IInv, CoreInv, PlaceInv
    <2>2. \A i \in 1..Len(queue) : queue[i] \in Dirs /\ queue[i] # n
        <3>1. queue \in Seq(Dirs \ {Root})
            BY DEF IInv, PoolInv, TypeInv
        <3>2. \A i \in 1..Len(queue) : queue[i] \in Dirs \ {Root}
            BY <3>1, ElementOfSeq
        <3> QED
            BY <1>4, <3>2
    <2>3. \A i \in 1..Len(queue') : queue'[i] \in found' /\ job'[queue'[i]] = NoDir
        BY <1>1, <1>6, <2>2 DEF IInv, CoreInv, PlaceInv
    <2>4. \A e \in Dirs \ {Root} : job'[e] # NoDir => e \in found'
        BY <1>1, <1>4, <1>6 DEF IInv, CoreInv, PlaceInv
    <2>5. \A m \in found' : job'[Parent[m]] # NoDir
        <3>1. \A m \in found : Parent[m] \in Dirs
            BY ScanAssumption DEF IInv, PoolInv, TypeInv
        <3> QED
            BY <1>1, <1>5, <1>6, <3>1 DEF IInv, CoreInv, PlaceInv
    <2> QED
        BY <1>1, <2>1, <2>3, <2>4, <2>5 DEF IInv, CoreInv, PlaceInv
<1>12. TodoInv'
    BY <1>1, <1>2, <1>3, <1>4, <1>5, <1>6 DEF IInv, CoreInv, TodoInv
<1>13. CountInv'
    BY <1>1, EnlistCount
<1> QED
    BY <1>9, <1>10, <1>11, <1>12, <1>13 DEF CoreInv

\* The job that is pushed is the one the caller was submitting.
LEMMA PushCore ==
    ASSUME IInv, TypeInv', NEW t \in Threads, PushJob(t)
    PROVE  CoreInv' /\ CountInv'
<1> USE DEF CallLabel
<1>1. /\ UNCHANGED <<cur, sub, job, done, found, todo, count>>
      /\ queue' = Append(queue, sub[t])
      /\ Goto(t, "signal") /\ pc[t] = "push"
    BY DEF PushJob, Push, At, callVars, listVars
<1>2. pc'[t] = "signal" /\ \A u \in Threads \ {t} : pc'[u] = pc[u]
    BY <1>1 DEF Goto, IInv, PoolInv, TypeInv
<1>3. CallInv'
    BY <1>1, <1>2 DEF IInv, CoreInv, CallInv, Active
<1>4. NestInv'
    <2>1. \A m \in Dirs : Nested(m)' <=> Nested(m)
        BY <1>1 DEF Nested
    <2> QED
        BY <1>1, <1>2, <2>1 DEF IInv, CoreInv, NestInv, Active
<1>5. PlaceInv'
    <2>1. /\ Len(queue') = Len(queue) + 1 /\ Len(queue) \in Nat
          /\ \A i \in 1..Len(queue) : queue'[i] = queue[i]
          /\ queue'[Len(queue) + 1] = sub[t]
        BY <1>1, AppendProperties, LenProperties DEF IInv, PoolInv, TypeInv
    <2>2. \A i \in 1..Len(queue') : i \in 1..Len(queue) \/ i = Len(queue) + 1
        BY <2>1
    <2>3. ASSUME NEW u \in Threads, pc'[u] \in {"submit", "push"}
          PROVE  /\ Parent[sub'[u]] = cur'[u]
                 /\ sub'[u] \in found'
                 /\ job'[sub'[u]] = NoDir
                 /\ \A i \in 1..Len(queue') : queue'[i] # sub'[u]
        <3>1. u # t /\ pc[u] \in {"submit", "push"}
            BY <1>2, <2>3
        <3>2. sub[u] # sub[t]
            BY <1>1, <3>1, OwnSub
        <3> QED
            BY <1>1, <2>1, <2>2, <3>1, <3>2 DEF IInv, CoreInv, PlaceInv
    <2>4. \A i \in 1..Len(queue') : queue'[i] \in found' /\ job'[queue'[i]] = NoDir
        BY <1>1, <2>1, <2>2 DEF IInv, CoreInv, PlaceInv
    <2>5. \A i, j \in 1..Len(queue') : queue'[i] = queue'[j] => i = j
        <3>1. \A i \in 1..Len(queue) : queue[i] # sub[t]
            BY <1>1 DEF IInv, CoreInv, PlaceInv
        <3> QED
            BY <2>1, <2>2, <3>1 DEF IInv, CoreInv, PlaceInv
    <2> QED
        BY <1>1, <2>3, <2>4, <2>5 DEF IInv, CoreInv, PlaceInv
<1>6. TodoInv'
    BY <1>1, <1>2 DEF IInv, CoreInv, TodoInv
<1>7. \A d \in Dirs : Outstanding(d)' = Outstanding(d)
    BY <1>1, <1>2 DEF Outstanding
<1>8. CountInv'
    BY <1>1, <1>7 DEF IInv, CountInv
<1> QED
    BY <1>3, <1>4, <1>5, <1>6, <1>8 DEF CoreInv

\* The job that is taken leaves the queue and gets its thread.
LEMMA TakeCore ==
    ASSUME IInv, TypeInv', NEW w \in Workers, TakeJob(w)
    PROVE  CoreInv' /\ CountInv'
<1> USE DEF CallLabel
<1> DEFINE n == Head(queue)
<1>1. /\ UNCHANGED <<sub, done, found, todo, count>>
      /\ queue # <<>> /\ queue' = Tail(queue)
      /\ cur' = [cur EXCEPT ![w] = n]
      /\ job' = [job EXCEPT ![n] = n]
      /\ Goto(w, "open") /\ loop[w] = "idle"
    BY DEF TakeJob, Take, listVars
<1>2. w \in Threads /\ pc[w] = "off"
    BY <1>1 DEF Threads, IInv, PoolInv, Roles
<1>3. /\ pc'[w] = "open" /\ cur'[w] = n
      /\ \A u \in Threads \ {w} : pc'[u] = pc[u] /\ cur'[u] = cur[u]
    BY <1>1, <1>2 DEF Goto, IInv, PoolInv, TypeInv
<1>4. /\ Len(queue) \in Nat \ {0} /\ n = queue[1] /\ n \in Dirs \ {Root}
      /\ Len(queue') = Len(queue) - 1
      /\ \A i \in 1..Len(queue') : queue'[i] = queue[i + 1]
    BY <1>1, HeadTailProperties, EmptySeq, LenProperties DEF IInv, PoolInv, TypeInv
<1>5. n \in found /\ job[n] = NoDir
    BY <1>4 DEF IInv, CoreInv, PlaceInv
<1>6. n \notin done /\ (\A e \in Dirs : job[e] # n)
    <2>1. n # NoDir
        BY <1>4, ScanAssumption
    <2> QED
        BY <1>4, <1>5, <2>1 DEF IInv, CoreInv, CallInv
<1>7. \A e \in Dirs : job'[e] = IF e = n THEN n ELSE job[e]
    BY <1>1 DEF IInv, PoolInv, TypeInv
<1>8. \A u \in Threads \ {w} : /\ Active(u)' <=> Active(u)
                               /\ Active(u) => cur[u] # n /\ job'[cur'[u]] = job[cur[u]]
    <2>1. \A u \in Threads : Active(u) => cur[u] # n /\ cur[u] \in Dirs
        BY <1>5 DEF IInv, PoolInv, TypeInv, CoreInv, CallInv
    <2>2. \A u \in Threads \ {w} : Active(u)' <=> Active(u)
        BY <1>3 DEF Active
    <2> QED
        BY <1>3, <1>7, <2>1, <2>2
<1>9. NoDir \notin Dirs
    BY ScanAssumption
<1>10. CallInv'
    <2>1. \A u \in Threads : Active(u)' => job'[cur'[u]] # NoDir /\ cur'[u] \notin done
        BY <1>3, <1>4, <1>6, <1>7, <1>8, <1>9 DEF IInv, CoreInv, CallInv
    <2>2. \A u \in Threads \ {w} : Active(u)' => job'[cur'[u]] # job'[cur'[w]]
        BY <1>3, <1>4, <1>6, <1>7, <1>8 DEF IInv, PoolInv, TypeInv
    <2>3. \A u, v \in Threads :
            Active(u)' /\ Active(v)' /\ job'[cur'[u]] = job'[cur'[v]] => u = v
        BY <1>8, <2>2 DEF IInv, CoreInv, CallInv
    <2>4. \A e \in Dirs : job'[e] # NoDir => job'[job'[e]] = job'[e]
        BY <1>4, <1>6, <1>7, ZenonT(60) DEF IInv, PoolInv, TypeInv, CoreInv, CallInv
    <2>5. \A e \in done : job'[e] # NoDir
        BY <1>6, <1>7 DEF IInv, PoolInv, TypeInv, CoreInv, CallInv
    <2> QED
        BY <1>1, <2>1, <2>3, <2>4, <2>5 DEF CallInv
<1>11. NestInv'
    <2>1. \A m \in Dirs : Nested(m)' <=> Nested(m)
        BY <1>1, <1>5, <1>7 DEF Nested
    <2>2. \A m \in Dirs : Nested(m) => m # n /\ Parent[m] # n
        BY <1>5 DEF IInv, CoreInv, NestInv, Nested
    <2>3. \A m \in Dirs : Nested(m) => Parent[m] \in Dirs
        BY RootFacts DEF Nested
    <2> QED
        BY <1>1, <1>3, <1>7, <1>8, <2>1, <2>2, <2>3 DEF IInv, CoreInv, NestInv
<1>12. PlaceInv'
    <2>1. ASSUME NEW u \in Threads, pc'[u] \in {"submit", "push"}
          PROVE  /\ Parent[sub'[u]] = cur'[u]
                 /\ sub'[u] \in found'
                 /\ job'[sub'[u]] = NoDir
                 /\ \A i \in 1..Len(queue') : queue'[i] # sub'[u]
        <3>1. u # w /\ pc[u] \in {"submit", "push"}
            BY <1>3, <2>1
        <3>2. sub[u] \in Dirs /\ sub[u] # n
            BY <1>4, <3>1 DEF IInv, PoolInv, TypeInv, CoreInv, PlaceInv
        <3> QED
            BY <1>1, <1>3, <1>4, <1>7, <3>1, <3>2 DEF IInv, CoreInv, PlaceInv
    <2>2. \A i \in 1..Len(queue') : i + 1 \in 1..Len(queue) /\ i + 1 # 1
        BY <1>4
    <2>3. \A i \in 1..Len(queue') : queue'[i] # n /\ queue'[i] \in Dirs
        <3>1. \A i \in 1..Len(queue) : queue[i] \in Dirs
            BY ElementOfSeq DEF IInv, PoolInv, TypeInv
        <3>2. \A i \in 1..Len(queue) : queue[i] = queue[1] => i = 1
            BY <1>4 DEF IInv, CoreInv, PlaceInv
        <3> QED
            BY <1>4, <2>2, <3>1, <3>2
    <2>4. \A i \in 1..Len(queue') : queue'[i] \in found' /\ job'[queue'[i]] = NoDir
        BY <1>1, <1>4, <1>7, <2>2, <2>3 DEF IInv, CoreInv, PlaceInv
    <2>5. \A i, j \in 1..Len(queue') : queue'[i] = queue'[j] => i = j
        BY <1>4, <2>2 DEF IInv, CoreInv, PlaceInv
    <2>6. \A e \in Dirs \ {Root} : job'[e] # NoDir => e \in found'
        BY <1>1, <1>5, <1>7 DEF IInv, CoreInv, PlaceInv
    <2>7. \A m \in found' : job'[Parent[m]] # NoDir
        <3>1. \A m \in found : Parent[m] \in Dirs
            BY ScanAssumption DEF IInv, PoolInv, TypeInv
        <3> QED
            BY <1>1, <1>4, <1>7, <1>9, <3>1 DEF IInv, CoreInv, PlaceInv
    <2> QED
        BY <2>1, <2>4, <2>5, <2>6, <2>7 DEF PlaceInv
<1>13. TodoInv'
    BY <1>1, <1>3, <1>4, <1>5, <1>7, <1>9 DEF IInv, CoreInv, TodoInv
<1>14. \A d \in Dirs : Outstanding(d)' = Outstanding(d)
    BY <1>1, <1>2, <1>3 DEF Outstanding
<1>15. CountInv'
    BY <1>1, <1>14 DEF IInv, CountInv
<1> QED
    BY <1>10, <1>11, <1>12, <1>13, <1>15 DEF CoreInv

-----------------------------------------------------------------------------
(* The end of a call.                                                      *)

\* The end of a call reports once to the wait group of the parent.
LEMMA LeaveCore ==
    ASSUME IInv, TypeInv', NEW t \in Threads, NEW err, Leave(t, err),
           pc[t] \in {"open", "read", "wait"}
    PROVE  CoreInv' /\ CountInv'
<1> USE DEF CallLabel
<1>1. PICK d : d = cur[t]
    OBVIOUS
<1>2. /\ UNCHANGED <<queue, sub, job, found, todo>>
      /\ done' = done \cup {d}
    BY <1>1 DEF Leave, listVars, poolVars
<1>3. /\ d \in Dirs /\ d \notin done /\ job[d] # NoDir /\ Active(t)
      /\ d # Root => d \in found /\ Parent[d] \in Dirs
    BY <1>1, RootFacts
    DEF IInv, PoolInv, TypeInv, CoreInv, CallInv, PlaceInv, Active
<1>4. \A u \in Threads \ {t} : pc'[u] = pc[u] /\ cur'[u] = cur[u]
    BY <1>1 DEF Leave, Goto, IInv, PoolInv, TypeInv
<1>5. \/ /\ job[d] # d /\ d # Root /\ Nested(d)
         /\ pc'[t] = "read" /\ cur'[t] = Parent[d]
      \/ /\ job[d] = d
         /\ pc'[t] \in {"release", "threw", "returned"} /\ cur'[t] = cur[t]
    <2>1. CASE job[d] # d
        BY <1>1, <1>3, <2>1 DEF Leave, Goto, IInv, PoolInv, TypeInv, Nested
    <2>2. CASE job[d] = d
        BY <1>1, <1>3, <2>2 DEF Leave, Goto, IInv, PoolInv, TypeInv
    <2> QED BY <2>1, <2>2
<1>6. Nested(d) => /\ Parent[d] # d /\ Parent[d] \notin done
                   /\ job[Parent[d]] = job[d]
                   /\ \A u \in Threads : Active(u) => cur[u] # Parent[d]
    BY <1>1, <1>3 DEF IInv, CoreInv, NestInv
<1>7. \A u \in Threads \ {t} : /\ Active(u)' <=> Active(u)
                               /\ Active(u) => cur[u] # d
    BY <1>1, <1>3, <1>4 DEF IInv, CoreInv, CallInv, Active
<1>8. Active(t)' => /\ Nested(d) /\ cur'[t] = Parent[d]
                    /\ job[cur'[t]] = job[cur[t]] /\ cur'[t] \notin done'
    BY <1>1, <1>2, <1>5, <1>6 DEF Active
<1>9. CallInv'
    <2>1. \A u \in Threads : Active(u)' => job'[cur'[u]] # NoDir /\ cur'[u] \notin done'
        BY <1>1, <1>2, <1>3, <1>4, <1>7, <1>8 DEF IInv, CoreInv, CallInv
    <2>2. \A u \in Threads : Active(u)' => Active(u) /\ job'[cur'[u]] = job[cur[u]]
        BY <1>2, <1>3, <1>4, <1>7, <1>8
    <2> QED
        BY <1>2, <1>3, <2>1, <2>2 DEF IInv, CoreInv, CallInv
<1>10. NestInv'
    <2>1. \A m \in Dirs : Nested(m)' <=> Nested(m) /\ m # d
        BY <1>2 DEF Nested
    <2>2. \A m \in Dirs : Nested(m) => Parent[m] # d
        BY <1>1, <1>3 DEF IInv, CoreInv, NestInv
    <2>3. ASSUME NEW m \in Dirs, Nested(m)'
          PROVE  /\ job'[Parent[m]] = job'[m]
                 /\ Parent[m] \notin done'
                 /\ \A u \in Threads : Active(u)' => cur'[u] # Parent[m]
        <3>1. Nested(m) /\ m # d
            BY <2>1, <2>3
        <3>2. Active(t)' => Parent[m] # Parent[d]
            BY <1>3, <1>8, <3>1 DEF IInv, CoreInv, NestInv
        <3> QED
            BY <1>2, <1>4, <1>7, <1>8, <2>2, <3>1, <3>2 DEF IInv, CoreInv, NestInv
    <2> QED
        BY <2>1, <2>3 DEF IInv, CoreInv, NestInv
<1>11. PlaceInv'
    <2>1. \A u \in Threads : pc'[u] \in {"submit", "push"} => u # t
        BY <1>5
    <2> QED
        BY <1>2, <1>4, <2>1 DEF IInv, CoreInv, PlaceInv
<1>12. TodoInv'
    <2>1. \A u \in Threads : pc'[u] = "open" => u # t
        BY <1>5
    <2> QED
        BY <1>2, <1>4, <2>1 DEF IInv, CoreInv, TodoInv
<1>13. \A u \in Threads : pc'[u] = "submit" <=> pc[u] = "submit"
    BY <1>4, <1>5
<1>14. CountInv'
    <2>1. CASE d = Root
        <3>1. \A e \in Dirs : Outstanding(e)' = Outstanding(e)
            BY <1>2, <1>13, <2>1 DEF Outstanding, Entries
        <3>2. count' = count
            BY <1>1, <2>1 DEF Leave
        <3> QED
            BY <3>1, <3>2 DEF IInv, CountInv
    <2>2. CASE d # Root
        <3>1. PICK p : p = Parent[d]
            OBVIOUS
        <3>2. \A u \in Threads : pc[u] = "submit" => sub[u] # d
            BY <1>3 DEF IInv, CoreInv, PlaceInv
        <3>3. d \in Entries(p) \cap Dirs /\ p \in Dirs
            BY <1>3, <2>2, <3>1, ScanAssumption DEF Entries
        <3>4. Outstanding(p)' = Outstanding(p) \ {d} /\ d \in Outstanding(p)
            BY <1>2, <1>3, <1>13, <2>2, <3>2, <3>3 DEF Outstanding
        <3>5. \A e \in Dirs \ {p} : Outstanding(e)' = Outstanding(e)
            BY <1>2, <1>13, <3>1 DEF Outstanding, Entries
        <3>6. Cardinality(Outstanding(p)') = Cardinality(Outstanding(p)) - 1
            BY <3>4, OutstandingFinite, RemoveOne
        <3>7. count'[p] = count[p] - 1 /\ \A e \in Dirs \ {p} : count'[e] = count[e]
            BY <1>1, <2>2, <3>1, <3>3 DEF Leave, Report, IInv, PoolInv, TypeInv
        <3>8. count[p] = Cardinality(Outstanding(p))
            BY <3>3 DEF IInv, CountInv
        <3>9. count'[p] = Cardinality(Outstanding(p)')
            BY <3>6, <3>7, <3>8
        <3>10. \A e \in Dirs \ {p} : count'[e] = Cardinality(Outstanding(e)')
            BY <3>5, <3>7 DEF IInv, CountInv
        <3> QED
            BY <3>9, <3>10 DEF CountInv
    <2> QED BY <2>1, <2>2
<1> QED
    BY <1>9, <1>10, <1>11, <1>12, <1>14 DEF CoreInv

-----------------------------------------------------------------------------

\* Every step keeps the invariant of the scan.
LEMMA IInvNext ==
    ASSUME IInv, [Next]_vars
    PROVE  IInv'
<1>1. PoolInv' /\ TypeInv'
    BY PoolNext DEF IInv, PoolInv
<1>2. ASSUME NEW t \in Threads, ScanStep(t) PROVE CoreInv' /\ CountInv'
    <2>1. CASE OpenDir(t) \/ EndOfDir(t) \/ Signal(t)
        BY <1>1, <2>1, QuietActions
    <2>2. CASE OpenFails(t) \/ ReadLinkThrows(t) \/ WaitRethrow(t)
        BY <1>1, <2>2, LeaveCore DEF OpenFails, ReadLinkThrows, WaitRethrow, At
    <2>3. ASSUME NEW n \in Nodes, SkipEntry(t, n) \/ AddEntry(t, n)
          PROVE  CoreInv' /\ CountInv'
        BY <1>1, <2>3, SkipCore, AddCore
    <2>4. CASE Submit(t) \/ RunInline(t) \/ PushJob(t)
        BY <1>1, <2>4, SubmitCore, RunInlineCore, PushCore
    <2> QED
        BY <1>2, <2>1, <2>2, <2>3, <2>4 DEF ScanStep
<1>3. ASSUME NEW w \in Workers, WorkerStep(w) \/ Spurious(w) PROVE CoreInv' /\ CountInv'
    <2>1. w \in Threads
        BY RootFacts
    <2> QED
        BY <1>1, <1>2, <1>3, <2>1, TakeCore, QuietActions DEF WorkerStep
<1>4. ASSUME MainStep PROVE CoreInv' /\ CountInv'
    <2>1. Main \in Threads
        BY RootFacts
    <2> QED
        BY <1>1, <1>2, <1>4, <2>1, QuietActions DEF MainStep
<1>5. ASSUME UNCHANGED vars PROVE CoreInv' /\ CountInv'
    BY <1>1, <1>5, QuietActions
<1>6. CoreInv' /\ CountInv'
    BY <1>3, <1>4, <1>5 DEF Next, Terminated
<1> QED
    BY <1>1, <1>6 DEF IInv

\* The initial state satisfies it.
LEMMA InitIInv ==
    ASSUME Init PROVE IInv
<1> USE DEF CallLabel
<1>1. PoolInv /\ TypeInv
    BY InitPool DEF PoolInv
<1>2. /\ \A t \in Threads : Active(t) <=> t = Main
      /\ \A t \in Threads : cur[t] = Root
      /\ \A t \in Threads : pc[t] \notin {"submit", "push"}
    BY DEF Init, Active
<1>3. /\ \A d \in Dirs : job[d] = IF d = Root THEN Root ELSE NoDir
      /\ NoDir \notin Dirs /\ Root \in Dirs
      /\ done = {} /\ found = {} /\ Len(queue) = 0
      /\ \A d \in Dirs : todo[d] = Entries(d) /\ count[d] = 0
    BY ScanAssumption, EmptySeq DEF Init, PoolInit
<1>4. CallInv
    BY <1>2, <1>3 DEF CallInv
<1>5. NestInv
    BY <1>3 DEF NestInv, Nested
<1>6. PlaceInv
    BY <1>2, <1>3 DEF PlaceInv
<1>7. TodoInv
    BY <1>2, <1>3 DEF TodoInv
<1>8. CountInv
    <2>1. \A d \in Dirs : Outstanding(d) = {}
        BY <1>3 DEF Outstanding
    <2> QED
        BY <1>3, <2>1, FS_EmptySet DEF CountInv
<1> QED
    BY <1>1, <1>4, <1>5, <1>6, <1>7, <1>8 DEF IInv, CoreInv

\* The inductive invariant of the scan.
THEOREM ScanInvariance == Spec => []IInv
BY InitIInv, IInvNext, PTL DEF Spec

\* Types, with a count that never goes below zero.
THEOREM TypeCorrect == Spec => []TypeOK
<1>1. IInv => TypeOK
    <2> SUFFICES ASSUME IInv PROVE TypeOK
        OBVIOUS
    <2>1. \A d \in Dirs : count[d] \in Nat
        BY OutstandingFinite DEF IInv, CountInv
    <2>2. permits \in 0..Cardinality(Workers)
        BY RunningFinite, InFinite, WorkersFinite, LenProperties
        DEF IInv, PoolInv, TypeInv, PermitsConserved
    <2>3. queue \in Seq(Dirs)
        BY SeqMonotonic DEF IInv, PoolInv, TypeInv
    <2> QED
        BY <2>1, <2>2, <2>3 DEF IInv, PoolInv, TypeInv, TypeOK, PoolTypeOK
<1> QED
    BY <1>1, ScanInvariance, PTL

-----------------------------------------------------------------------------
(* No call ends before the jobs it has handed out, if read_symlink, which  *)
(* throws from the middle of the loop, does not.                           *)

WaitInv == IInv /\ WaitGroupOutlivesJobs

\* A call that ends with nothing outstanding leaves no job behind.
LEMMA LeaveWait ==
    ASSUME WaitInv, NEW t \in Threads, NEW err, Leave(t, err),
           pc[t] \in {"open", "wait"},
           pc[t] = "wait" => count[cur[t]] = 0
    PROVE  WaitGroupOutlivesJobs'
<1>1. PICK d : d = cur[t]
    OBVIOUS
<1>2. found' = found /\ done' = done \cup {d} /\ d \in Dirs
    BY <1>1 DEF Leave, listVars, WaitInv, IInv, PoolInv, TypeInv
<1>3. \A n \in Entries(d) \cap Dirs : n \in found => n \in done
    <2>1. CASE pc[t] = "open"
        BY <1>1, <1>2, <2>1 DEF WaitInv, IInv, CoreInv, TodoInv
    <2>2. CASE pc[t] = "wait"
        <3>1. Outstanding(d) = {}
            BY <1>1, <1>2, <2>2, OutstandingFinite, FS_EmptySet
            DEF WaitInv, IInv, CountInv
        <3>2. ASSUME NEW u \in Threads, pc[u] = "submit"
              PROVE  Parent[sub[u]] # d
            BY <1>1, <2>2, <3>2
            DEF WaitInv, IInv, CoreInv, PlaceInv, CallInv, Active, CallLabel
        <3> QED
            BY <3>1, <3>2 DEF Outstanding, Entries
    <2> QED BY <2>1, <2>2
<1> QED
    BY <1>2, <1>3 DEF WaitInv, WaitGroupOutlivesJobs

\* Every step keeps the wait groups alive, if read_symlink never throws.
LEMMA WaitNext ==
    ASSUME WaitInv, [Next]_vars, "readlink" \notin Faults
    PROVE  WaitInv'
<1>1. IInv'
    BY IInvNext DEF WaitInv
<1>2. ASSUME UNCHANGED <<found, done>> PROVE WaitGroupOutlivesJobs'
    BY <1>2 DEF WaitInv, WaitGroupOutlivesJobs
<1>3. ASSUME NEW t \in Threads, OpenFails(t) \/ WaitRethrow(t)
      PROVE  WaitGroupOutlivesJobs'
    BY <1>3, LeaveWait DEF OpenFails, WaitRethrow, At
<1>4. ASSUME NEW t \in Threads, NEW n \in Nodes, AddEntry(t, n)
      PROVE  WaitGroupOutlivesJobs'
    <2>1. pc[t] = "read" /\ n \in todo[cur[t]] /\ found' = found \cup {n} /\ done' = done
        BY <1>4 DEF AddEntry, ReadEntry, At, callVars
    <2>2. cur[t] \in Dirs \ done /\ n \in Entries(cur[t])
        BY <2>1 DEF WaitInv, IInv, PoolInv, TypeInv, CoreInv, CallInv, TodoInv,
                    Active, CallLabel
    <2>3. \A e \in done : n \notin Entries(e)
        BY <2>2 DEF Entries
    <2> QED
        BY <2>1, <2>3 DEF WaitInv, WaitGroupOutlivesJobs
<1>5. ASSUME NEW t \in Threads, ScanStep(t)
      PROVE  WaitGroupOutlivesJobs'
    <2>1. ~ ReadLinkThrows(t)
        BY DEF ReadLinkThrows
    <2>2. CASE OpenDir(t) \/ EndOfDir(t) \/ Signal(t)
        BY <1>2, <2>2 DEF OpenDir, EndOfDir, Signal, callVars, listVars
    <2>3. CASE Submit(t) \/ RunInline(t) \/ PushJob(t)
        BY <1>2, <2>3 DEF Submit, RunInline, PushJob, callVars, listVars
    <2>4. ASSUME NEW n \in Nodes, SkipEntry(t, n) PROVE WaitGroupOutlivesJobs'
        BY <1>2, <2>4 DEF SkipEntry, callVars
    <2> QED
        BY <1>3, <1>4, <1>5, <2>1, <2>2, <2>3, <2>4 DEF ScanStep
<1>6. ASSUME NEW w \in Workers, WorkerStep(w) \/ Spurious(w)
      PROVE  WaitGroupOutlivesJobs'
    <2>1. CASE ScanStep(w)
        BY <1>5, <2>1, RootFacts
    <2>2. CASE TakeJob(w) \/ ReleaseJob(w) \/ Idle(w) \/ Spurious(w)
        BY <1>2, <2>2 DEF TakeJob, ReleaseJob, Idle, Spurious, callVars, listVars
    <2> QED
        BY <1>6, <2>1, <2>2 DEF WorkerStep
<1>7. ASSUME MainStep PROVE WaitGroupOutlivesJobs'
    <2>1. CASE ScanStep(Main)
        BY <1>5, <2>1, RootFacts
    <2>2. CASE BeginStop \/ WakeAll \/ Join
        BY <1>2, <2>2 DEF BeginStop, WakeAll, Join, callVars, listVars
    <2> QED
        BY <1>7, <2>1, <2>2 DEF MainStep
<1>8. ASSUME UNCHANGED vars PROVE WaitGroupOutlivesJobs'
    BY <1>2, <1>8 DEF vars, callVars, listVars
<1> QED
    BY <1>1, <1>6, <1>7, <1>8 DEF WaitInv, Next, Terminated

\* If read_symlink never throws, every job that got a reference to a wait
\* group of read_directory reports before the group is destroyed.
THEOREM WaitGroupOutlivesJobsTheorem ==
    ASSUME "readlink" \notin Faults
    PROVE  Spec => []WaitGroupOutlivesJobs
<1>1. Init => WaitInv
    BY InitIInv DEF WaitInv, WaitGroupOutlivesJobs, Init
<1>2. WaitInv /\ [Next]_vars => WaitInv'
    BY WaitNext
<1>3. WaitInv => WaitGroupOutlivesJobs
    BY DEF WaitInv
<1> QED
    BY <1>1, <1>2, <1>3, PTL DEF Spec

-----------------------------------------------------------------------------
(* The scan implements TreeScan. *)

\* An entry is still to be read, or was found, or was skipped; a call that
\* did not fail read all of its entries; a failure is passed on to Root.
ListInv ==
    /\ \A d \in Dirs : \A n \in Entries(d) : n \in todo[d] \cup found \cup skipped
    /\ \A d \in Dirs : todo[d] \cap skipped = {}
    /\ \A t \in Threads : pc[t] = "wait" => todo[cur[t]] = {}
    /\ \A d \in done \ threw : todo[d] = {}

ErrorInv ==
    /\ threw \subseteq done
    /\ \A d \in threw \ {Root} : exn[Parent[d]]
    /\ \A d \in done : exn[d] => d \in threw

\* Main, and nobody else, is in the calls that belong to the job of Root.
RootInv == \A t \in Threads : Active(t) => (job[cur[t]] = Root <=> t = Main)

RInv == WaitInv /\ ListInv /\ ErrorInv /\ RootInv

result == IF Root \notin done THEN "running"
          ELSE IF Root \in threw THEN "threw" ELSE "returned"

-----------------------------------------------------------------------------
(* What the tree assumption gives: a property that passes from a directory *)
(* to its entries and holds of Root holds everywhere.                      *)

\* When the call for Root is over, so is that of every found directory.
LEMMA AllDone ==
    ASSUME WaitInv, Root \in done
    PROVE  found \cap Dirs \subseteq done
<1> DEFINE S == {n \in Nodes : n \in found \cap Dirs => n \in done}
<1>1. Root \in S
    BY ScanAssumption
<1>2. ASSUME NEW n \in Nodes \ {Root}, Parent[n] \in S PROVE n \in S
    <2>1. SUFFICES ASSUME n \in found \cap Dirs PROVE n \in done
        OBVIOUS
    <2>2. Parent[n] \in Dirs /\ n \in Entries(Parent[n]) \cap Dirs
        BY <2>1, ScanAssumption DEF Entries
    <2>3. Parent[n] = Root \/ Parent[n] \in found
        BY <2>1, <2>2 DEF WaitInv, IInv, CoreInv, PlaceInv
    <2>4. Parent[n] \in done
        BY <1>2, <2>2, <2>3
    <2> QED
        BY <2>1, <2>2, <2>4 DEF WaitInv, WaitGroupOutlivesJobs
<1>3. S = Nodes
    BY <1>1, <1>2, ScanAssumption
<1> QED
    BY <1>3, ScanAssumption

\* While any thread is in a call, the call for Root is not over.
LEMMA RootOpen ==
    ASSUME WaitInv, NEW t \in Threads, Active(t)
    PROVE  Root \notin done
<1>1. /\ cur[t] \in Dirs /\ cur[t] \notin done
      /\ cur[t] = Root \/ cur[t] \in found
    BY DEF WaitInv, IInv, PoolInv, TypeInv, CoreInv, CallInv, PlaceInv
<1> QED
    BY <1>1, AllDone

Complete == threw = {} /\ \A n \in Nodes \ {Root} :
                Parent[n] \in found \cup {Root} => n \in found \cup skipped

\* When it returned, every entry has been found or skipped.
LEMMA ReturnedComplete == RInv /\ Root \in done \ threw => Complete
<1> SUFFICES ASSUME RInv, Root \in done \ threw PROVE Complete
    OBVIOUS
<1>1. found \cap Dirs \subseteq done
    BY AllDone DEF RInv
<1>2. threw = {}
    <2> DEFINE S == {n \in Nodes : n \notin threw}
    <2>1. Root \in S
        BY ScanAssumption
    <2>2. ASSUME NEW n \in Nodes \ {Root}, Parent[n] \in S PROVE n \in S
        <3>1. SUFFICES ASSUME n \in threw PROVE FALSE
            OBVIOUS
        <3>2. n \in Dirs /\ n \in done /\ exn[Parent[n]]
            BY <2>2, <3>1 DEF RInv, ErrorInv, WaitInv, IInv, PoolInv, TypeInv
        <3>3. n \in found /\ Parent[n] \in Dirs
            BY <2>2, <3>2, RootFacts
            DEF RInv, WaitInv, IInv, CoreInv, CallInv, PlaceInv
        <3>4. Parent[n] = Root \/ Parent[n] \in found
            BY <3>3 DEF RInv, WaitInv, IInv, CoreInv, PlaceInv
        <3>5. Parent[n] \in done
            BY <1>1, <3>3, <3>4
        <3> QED
            BY <2>2, <3>2, <3>5 DEF RInv, ErrorInv
    <2>3. S = Nodes
        BY <2>1, <2>2, ScanAssumption
    <2> QED
        BY <2>3, ScanAssumption DEF RInv, WaitInv, IInv, PoolInv, TypeInv
<1>3. ASSUME NEW n \in Nodes \ {Root}, Parent[n] \in found \cup {Root}
      PROVE  n \in found \cup skipped
    <2>1. Parent[n] \in Dirs /\ n \in Entries(Parent[n])
        BY ScanAssumption DEF Entries
    <2>2. Parent[n] \in done
        BY <1>1, <1>3, <2>1
    <2>3. todo[Parent[n]] = {}
        BY <1>2, <2>2 DEF RInv, ListInv
    <2> QED
        BY <2>1, <2>3 DEF RInv, ListInv
<1> QED
    BY <1>2, <1>3 DEF Complete

-----------------------------------------------------------------------------
(* RInv is inductive.                                                      *)

\* A step that changes neither the lists nor the results of the calls.
Untouched == UNCHANGED <<todo, found, skipped, done, threw, exn>>

\* A step that changes neither entries nor ended calls keeps the invariant.
LEMMA UntouchedStep ==
    ASSUME RInv, Untouched,
           \A t \in Threads : pc'[t] = "wait" =>
              cur'[t] = cur[t] /\ (pc[t] = "wait" \/ todo[cur[t]] = {})
    PROVE  ListInv' /\ ErrorInv'
<1>1. ListInv'
    BY DEF RInv, ListInv, Untouched
<1> QED
    BY <1>1 DEF RInv, ErrorInv, Untouched

\* The actions that are such steps.
LEMMA UntouchedActions ==
    ASSUME RInv,
           \/ UNCHANGED vars
           \/ BeginStop \/ WakeAll \/ Join
           \/ \E w \in Workers : TakeJob(w) \/ ReleaseJob(w) \/ Idle(w) \/ Spurious(w)
           \/ \E t \in Threads : \/ OpenDir(t) \/ Submit(t) \/ RunInline(t)
                               \/ PushJob(t) \/ Signal(t) \/ EndOfDir(t)
    PROVE  ListInv' /\ ErrorInv' /\ Untouched
<1>0. TypeInv /\ Main \in Threads /\ Workers \subseteq Threads
    BY RootFacts DEF RInv, WaitInv, IInv, PoolInv
<1>1. CASE UNCHANGED vars
    BY <1>1, UntouchedStep DEF vars, threadVars, callVars, listVars, Untouched
<1>2. CASE BeginStop \/ WakeAll \/ Join
    <2>1. Untouched
        BY <1>2 DEF BeginStop, WakeAll, Join, callVars, listVars, Untouched
    <2>2. \A t \in Threads : pc'[t] = "wait" => pc[t] = "wait" /\ cur'[t] = cur[t]
        BY <1>0, <1>2 DEF BeginStop, WakeAll, Join, Goto, TypeInv
    <2> QED
        BY <2>1, <2>2, UntouchedStep
<1>3. ASSUME NEW w \in Workers, TakeJob(w) \/ ReleaseJob(w) \/ Idle(w) \/ Spurious(w)
      PROVE  ListInv' /\ ErrorInv' /\ Untouched
    <2>1. Untouched
        BY <1>3 DEF TakeJob, ReleaseJob, Idle, Spurious, callVars, listVars, Untouched
    <2>2. \A t \in Threads : pc'[t] = "wait" => pc[t] = "wait" /\ cur'[t] = cur[t]
        BY <1>0, <1>3 DEF TakeJob, ReleaseJob, Idle, Spurious, threadVars, Goto, TypeInv
    <2> QED
        BY <2>1, <2>2, UntouchedStep
<1>4. ASSUME NEW t \in Threads,
             \/ OpenDir(t) \/ Submit(t) \/ RunInline(t)
             \/ PushJob(t) \/ Signal(t) \/ EndOfDir(t)
      PROVE  ListInv' /\ ErrorInv' /\ Untouched
    <2>1. Untouched
        BY <1>4 DEF OpenDir, Submit, RunInline, PushJob, Signal, EndOfDir,
                    callVars, listVars, Untouched
    <2>2. ASSUME NEW u \in Threads, pc'[u] = "wait"
          PROVE  cur'[u] = cur[u] /\ (pc[u] = "wait" \/ todo[cur[u]] = {})
        <3>1. CASE EndOfDir(t)
            BY <1>0, <2>2, <3>1 DEF EndOfDir, Goto, TypeInv
        <3>2. CASE RunInline(t)
            BY <1>0, <2>2, <3>2 DEF RunInline, Goto, TypeInv
        <3>3. CASE OpenDir(t) \/ Submit(t) \/ PushJob(t) \/ Signal(t)
            BY <1>0, <2>2, <3>3 DEF OpenDir, Submit, PushJob, Signal, Goto, TypeInv
        <3> QED
            BY <1>4, <3>1, <3>2, <3>3
    <2> QED
        BY <2>1, <2>2, UntouchedStep
<1> QED
    BY <1>1, <1>2, <1>3, <1>4

\* So does a step that finds or skips an entry.
LEMMA EntryStep ==
    ASSUME RInv, NEW t \in Threads, NEW n \in Nodes, SkipEntry(t, n) \/ AddEntry(t, n)
    PROVE  ListInv' /\ ErrorInv'
<1>1. PICK d : d = cur[t]
    OBVIOUS
<1>2. /\ pc[t] = "read" /\ n \in todo[d]
      /\ todo' = [todo EXCEPT ![d] = @ \ {n}]
      /\ UNCHANGED <<cur, done, threw, exn>>
      /\ \A u \in Threads : pc'[u] = "wait" => pc[u] = "wait"
    BY <1>1 DEF SkipEntry, AddEntry, ReadEntry, At, Goto, threadVars, callVars,
                RInv, WaitInv, IInv, PoolInv, TypeInv
<1>3. /\ d \in Dirs /\ d \notin done
      /\ \A u \in Threads : pc[u] = "wait" => cur[u] # d /\ cur[u] \in Dirs
    BY <1>1, <1>2 DEF RInv, WaitInv, IInv, PoolInv, TypeInv, CoreInv, CallInv, Active, CallLabel
<1>4. found' \cup skipped' = found \cup skipped \cup {n}
    BY DEF SkipEntry, AddEntry
<1>5. \A e \in Dirs : todo'[e] = IF e = d THEN todo[e] \ {n} ELSE todo[e]
    BY <1>2 DEF RInv, WaitInv, IInv, PoolInv, TypeInv
<1>6. \A e \in Dirs \ {d} : n \notin todo[e]
    BY <1>2, <1>3 DEF RInv, WaitInv, IInv, CoreInv, TodoInv, Entries
<1>7. skipped' \subseteq skipped \cup {n}
    BY DEF SkipEntry, AddEntry
<1>8. ListInv'
    <2>1. \A e \in Dirs : \A m \in Entries(e) : m \in todo'[e] \cup found' \cup skipped'
        BY <1>4, <1>5, ZenonT(60) DEF RInv, ListInv
    <2>2. ASSUME NEW e \in Dirs PROVE todo'[e] \cap skipped' = {}
        <3>1. n \notin todo'[e] /\ todo'[e] \subseteq todo[e]
            BY <1>5, <1>6
        <3>2. todo[e] \cap skipped = {}
            BY DEF RInv, ListInv
        <3> QED
            BY <1>7, <3>1, <3>2
    <2>3. \A u \in Threads : pc'[u] = "wait" => todo'[cur'[u]] = {}
        BY <1>2, <1>3, <1>5 DEF RInv, ListInv
    <2>4. \A e \in done' \ threw' : todo'[e] = {}
        BY <1>2, <1>3, <1>5 DEF RInv, ListInv, WaitInv, IInv, PoolInv, TypeInv
    <2> QED
        BY <2>1, <2>2, <2>3, <2>4 DEF ListInv
<1> QED
    BY <1>2, <1>8 DEF RInv, ErrorInv

\* So does the end of the call for a subdirectory.
LEMMA LeaveStep ==
    ASSUME RInv, NEW t \in Threads, NEW err \in BOOLEAN, Leave(t, err),
           \/ pc[t] = "open" /\ err
           \/ pc[t] = "wait" /\ err = exn[cur[t]]
    PROVE  ListInv' /\ ErrorInv'
<1>1. PICK d : d = cur[t]
    OBVIOUS
<1>2. /\ UNCHANGED <<todo, found, skipped>>
      /\ done' = done \cup {d}
      /\ threw' = IF err THEN threw \cup {d} ELSE threw
      /\ d \in Dirs /\ d \notin done
    BY <1>1 DEF Leave, listVars, RInv, WaitInv, IInv, PoolInv, TypeInv,
                CoreInv, CallInv, Active, CallLabel
<1>3. ~err => todo[d] = {}
    BY <1>1 DEF RInv, ListInv
<1>4. ListInv'
    <2>1. \A u \in Threads : pc'[u] = "wait" => pc[u] = "wait" /\ cur'[u] = cur[u]
        BY DEF Leave, Goto, RInv, WaitInv, IInv, PoolInv, TypeInv
    <2> QED
        BY <1>2, <1>3, <2>1 DEF RInv, ListInv
<1>5. ErrorInv'
    <2>1. CASE d = Root
        <3>1. exn' = exn
            BY <1>1, <2>1 DEF Leave
        <3> QED
            BY <1>1, <1>2, <2>1, <3>1 DEF RInv, ErrorInv
    <2>2. CASE d # Root
        <3>1. PICK p : p = Parent[d]
            OBVIOUS
        <3>2. /\ exn' = [exn EXCEPT ![p] = @ \/ err]
              /\ p \in Dirs
            BY <1>1, <1>2, <2>2, <3>1, RootFacts DEF Leave, Report
        <3>3. exn'[p] = (exn[p] \/ err) /\ \A e \in Dirs \ {p} : exn'[e] = exn[e]
            BY <3>2 DEF RInv, WaitInv, IInv, PoolInv, TypeInv
        <3>4. p \notin done
            <4>1. d \in found /\ d \in Entries(p) \cap Dirs
                BY <1>1, <1>2, <2>2, <3>1, ScanAssumption
                DEF RInv, WaitInv, IInv, CoreInv, CallInv, PlaceInv, Active, CallLabel, Entries
            <4> QED
                BY <1>2, <4>1 DEF RInv, WaitInv, WaitGroupOutlivesJobs
        <3>5. threw' \subseteq done'
            BY <1>2 DEF RInv, ErrorInv
        <3>6. ASSUME NEW e \in threw' \ {Root} PROVE exn'[Parent[e]]
            <4>1. CASE e = d
                BY <1>2, <3>1, <3>3, <3>5, <3>6, <4>1 DEF RInv, ErrorInv
            <4>2. CASE e # d
                <5>1. e \in threw /\ exn[Parent[e]]
                    BY <1>2, <3>6, <4>2 DEF RInv, ErrorInv
                <5>2. Parent[e] \in Dirs
                    BY <5>1, <3>6, RootFacts DEF RInv, WaitInv, IInv, PoolInv, TypeInv
                <5> QED
                    BY <3>3, <5>1, <5>2
            <4> QED BY <4>1, <4>2
        <3>7. ASSUME NEW e \in done', exn'[e] PROVE e \in threw'
            <4>1. CASE err /\ e = d
                BY <1>2, <4>1
            <4>2. CASE ~err /\ e = d
                <5>1. exn[d] = FALSE
                    BY <1>1, <4>2
                <5> QED
                    BY <1>2, <3>3, <3>7, <4>2, <5>1
            <4>3. CASE e # d
                <5>1. e \in done /\ e # p /\ e \in Dirs
                    BY <1>2, <3>4, <4>3 DEF RInv, WaitInv, IInv, PoolInv, TypeInv
                <5> QED
                    BY <1>2, <3>3, <3>7, <5>1 DEF RInv, ErrorInv
            <4> QED BY <4>1, <4>2, <4>3
        <3> QED
            BY <3>5, <3>6, <3>7 DEF ErrorInv
    <2> QED BY <2>1, <2>2
<1> QED
    BY <1>4, <1>5

\* So does the end of the call for Root.
LEMMA RootStep ==
    ASSUME RInv, [Next]_vars
    PROVE  RootInv'
<1> USE DEF CallLabel
<1>0. /\ TypeInv /\ Roles /\ CallInv /\ NestInv /\ PlaceInv
      /\ Main \in Threads /\ Workers \subseteq Threads /\ NoDir # Root
      /\ Main \notin Workers
    BY RootFacts, ScanAssumption DEF RInv, WaitInv, IInv, PoolInv, CoreInv
<1>1. ASSUME UNCHANGED <<cur, job>>,
             \A t \in Threads : Active(t)' => Active(t)
      PROVE  RootInv'
    BY <1>1 DEF RInv, RootInv
<1>2. ASSUME NEW t \in Threads, ScanStep(t) PROVE RootInv'
    <2>1. ASSUME NEW err, Leave(t, err), Active(t) PROVE RootInv'
        <3>1. job' = job /\ \A u \in Threads \ {t} : pc'[u] = pc[u] /\ cur'[u] = cur[u]
            BY <1>0, <2>1 DEF Leave, Goto, TypeInv
        <3>2. Active(t)' => job[cur'[t]] = job[cur[t]]
            <4>1. ASSUME Active(t)' PROVE job[cur[t]] # cur[t]
                BY <1>0, <2>1, <4>1 DEF Leave, Goto, TypeInv, Active
            <4>2. ASSUME job[cur[t]] # cur[t]
                  PROVE  Nested(cur[t]) /\ cur'[t] = Parent[cur[t]]
                BY <1>0, <2>1, <4>2 DEF Leave, TypeInv, CallInv, Nested
            <4> QED
                BY <1>0, <4>1, <4>2 DEF NestInv, TypeInv
        <3> QED
            BY <2>1, <3>1, <3>2 DEF RInv, RootInv, Active
    <2>2. CASE OpenFails(t) \/ ReadLinkThrows(t) \/ WaitRethrow(t)
        BY <2>1, <2>2 DEF OpenFails, ReadLinkThrows, WaitRethrow, At, Active
    <2>3. CASE OpenDir(t) \/ Submit(t) \/ PushJob(t) \/ Signal(t) \/ EndOfDir(t)
        <3>1. UNCHANGED <<cur, job>>
            BY <2>3 DEF OpenDir, Submit, PushJob, Signal, EndOfDir, callVars
        <3>2. \A u \in Threads : Active(u)' => Active(u)
            BY <1>0, <2>3
            DEF OpenDir, Submit, Enlist, PushJob, Signal, EndOfDir, At, Goto, Active, TypeInv
        <3> QED
            BY <1>1, <3>1, <3>2
    <2>4. ASSUME NEW n \in Nodes, SkipEntry(t, n) \/ AddEntry(t, n) PROVE RootInv'
        <3>1. UNCHANGED <<cur, job>>
            BY <2>4 DEF SkipEntry, AddEntry, threadVars, callVars
        <3>2. \A u \in Threads : Active(u)' => Active(u)
            BY <1>0, <2>4
            DEF SkipEntry, AddEntry, ReadEntry, At, Goto, Active, TypeInv, threadVars
        <3> QED
            BY <1>1, <3>1, <3>2
    <2>5. CASE RunInline(t)
        <3>1. /\ pc[t] = "submit"
              /\ job' = [job EXCEPT ![sub[t]] = job[cur[t]]]
              /\ cur' = [cur EXCEPT ![t] = sub[t]]
              /\ \A u \in Threads \ {t} : pc'[u] = pc[u]
            BY <1>0, <2>5 DEF RunInline, Enlist, At, Goto, TypeInv
        <3>2. job[sub[t]] = NoDir /\ Active(t)
            BY <1>0, <3>1 DEF PlaceInv, Active
        <3>3. ASSUME NEW u \in Threads, Active(u)'
              PROVE  Active(u) /\ job'[cur'[u]] = job[cur[u]]
            <4>1. Active(u)
                BY <3>1, <3>2, <3>3 DEF Active
            <4>2. CASE u = t
                BY <1>0, <3>1, <4>1, <4>2 DEF TypeInv
            <4>3. CASE u # t
                BY <1>0, <3>1, <3>2, <4>1, <4>3 DEF TypeInv, CallInv
            <4> QED BY <4>1, <4>2, <4>3
        <3> QED
            BY <3>3 DEF RInv, RootInv
    <2> QED
        BY <1>2, <2>2, <2>3, <2>4, <2>5 DEF ScanStep
<1>3. ASSUME NEW w \in Workers, TakeJob(w) PROVE RootInv'
    <2>1. PICK n : n = Head(queue)
        OBVIOUS
    <2>2. /\ n \in Dirs \ {Root} /\ job[n] = NoDir
        <3>1. queue # <<>> /\ queue \in Seq(Dirs \ {Root})
            BY <1>0, <1>3 DEF TakeJob, Take, TypeInv
        <3>2. n = queue[1] /\ 1 \in 1..Len(queue) /\ n \in Dirs \ {Root}
            BY <2>1, <3>1, HeadTailProperties, EmptySeq, LenProperties
        <3> QED
            BY <1>0, <3>2 DEF PlaceInv
    <2>3. /\ cur' = [cur EXCEPT ![w] = n]
          /\ job' = [job EXCEPT ![n] = n]
          /\ \A u \in Threads \ {w} : pc'[u] = pc[u]
        BY <1>0, <1>3, <2>1 DEF TakeJob, Goto, TypeInv
    <2>4. job'[cur'[w]] # Root /\ w # Main
        BY <1>0, <2>2, <2>3 DEF TypeInv
    <2>5. ASSUME NEW u \in Threads \ {w}, Active(u)'
          PROVE  Active(u) /\ job'[cur'[u]] = job[cur[u]]
        BY <1>0, <2>2, <2>3, <2>5 DEF Active, TypeInv, CallInv
    <2> QED
        BY <2>4, <2>5 DEF RInv, RootInv
<1>4. ASSUME NEW w \in Workers, ReleaseJob(w) \/ Idle(w) \/ Spurious(w) PROVE RootInv'
    <2>1. UNCHANGED <<cur, job>>
        BY <1>4 DEF ReleaseJob, Idle, Spurious, threadVars, callVars
    <2>2. \A u \in Threads : Active(u)' => Active(u)
        BY <1>0, <1>4 DEF ReleaseJob, Idle, Spurious, threadVars, Goto, Active, TypeInv
    <2> QED
        BY <1>1, <2>1, <2>2
<1>5. ASSUME BeginStop \/ WakeAll \/ Join PROVE RootInv'
    <2>1. UNCHANGED <<cur, job>>
        BY <1>5 DEF BeginStop, WakeAll, Join, callVars
    <2>2. \A u \in Threads : Active(u)' => Active(u)
        BY <1>0, <1>5 DEF BeginStop, WakeAll, Join, Goto, Active, TypeInv
    <2> QED
        BY <1>1, <2>1, <2>2
<1>6. ASSUME UNCHANGED vars PROVE RootInv'
    BY <1>1, <1>6 DEF vars, threadVars, callVars, Active
<1> QED
    BY <1>0, <1>2, <1>3, <1>4, <1>5, <1>6 DEF Next, WorkerStep, MainStep, Terminated

\* Every step keeps the invariant of the refinement.
LEMMA RInvNext ==
    ASSUME RInv, [Next]_vars, "readlink" \notin Faults
    PROVE  RInv'
<1>1. WaitInv' /\ RootInv'
    BY WaitNext, RootStep DEF RInv
<1>2. ASSUME NEW t \in Threads, ScanStep(t) PROVE ListInv' /\ ErrorInv'
    <2>1. ~ ReadLinkThrows(t)
        BY DEF ReadLinkThrows
    <2>2. CASE OpenFails(t)
        BY <2>2, LeaveStep DEF OpenFails, At
    <2>3. CASE WaitRethrow(t)
        <3>1. exn[cur[t]] \in BOOLEAN
            BY DEF RInv, WaitInv, IInv, PoolInv, TypeInv
        <3> QED
            BY <2>3, <3>1, LeaveStep DEF WaitRethrow, At
    <2> QED
        BY <1>2, <2>1, <2>2, <2>3, EntryStep, UntouchedActions DEF ScanStep
<1>3. ListInv' /\ ErrorInv'
    BY <1>2, UntouchedActions, RootFacts DEF Next, WorkerStep, MainStep, Terminated
<1> QED
    BY <1>1, <1>3 DEF RInv

\* The initial state satisfies it.
LEMMA InitRInv ==
    ASSUME Init PROVE RInv
<1>1. WaitInv
    BY InitIInv DEF WaitInv, WaitGroupOutlivesJobs, Init
<1>2. ListInv /\ ErrorInv
    BY DEF Init, ListInv, ErrorInv
<1>3. RootInv
    BY RootFacts DEF Init, RootInv, Active, CallLabel
<1> QED
    BY <1>1, <1>2, <1>3 DEF RInv

-----------------------------------------------------------------------------
(* Every step of the scan is a step of TreeScan or changes nothing of it.  *)

\* The variables the refinement mapping keeps.
LEMMA Mapping ==
    /\ Scan!vars = <<found, skipped, threw # {}, result>>
    /\ Scan!vars' = <<found', skipped', threw' # {}, result'>>
BY DEF Scan!vars, result

\* A step that changes neither entries nor ended calls is a stutter.
LEMMA UntouchedStutters ==
    ASSUME Untouched PROVE UNCHANGED Scan!vars
BY Mapping DEF Untouched, result

\* Finding or skipping an entry is a step of the sequential scan.
LEMMA EntryImplements ==
    ASSUME RInv, NEW t \in Threads, NEW n \in Nodes, SkipEntry(t, n) \/ AddEntry(t, n)
    PROVE  Scan!Find(n) \/ Scan!Skip(n)
<1>1. /\ pc[t] = "read" /\ n \in todo[cur[t]]
      /\ UNCHANGED <<done, threw>>
    BY DEF SkipEntry, AddEntry, ReadEntry, At, callVars
<1>2. Root \notin done
    BY <1>1, RootOpen DEF RInv, Active, CallLabel
<1>3. cur[t] \in Dirs /\ cur[t] \in found \cup {Root}
    BY <1>1 DEF RInv, WaitInv, IInv, PoolInv, TypeInv, CoreInv, CallInv, PlaceInv,
                Active, CallLabel
<1>4. n \notin found \cup skipped /\ Parent[n] = cur[t]
    BY <1>1, <1>3 DEF RInv, WaitInv, IInv, CoreInv, TodoInv, ListInv, Entries
<1>5. result = "running" /\ result' = result
    BY <1>1, <1>2 DEF result
<1>6. Scan!Unseen(n)
    BY <1>3, <1>4 DEF Scan!Unseen
<1> QED
    BY <1>1, <1>5, <1>6 DEF Scan!Find, Scan!Skip, SkipEntry, AddEntry, result

\* The end of a call is a stutter, a failure, the return or the throw.
LEMMA LeaveImplements ==
    ASSUME RInv, RInv', NEW t \in Threads, NEW err \in BOOLEAN, Leave(t, err),
           \/ pc[t] = "open" /\ err
           \/ pc[t] = "wait" /\ err = exn[cur[t]]
    PROVE  Scan!Next \/ UNCHANGED Scan!vars
<1>1. PICK d : d = cur[t]
    OBVIOUS
<1>2. /\ UNCHANGED <<found, skipped>>
      /\ done' = done \cup {d}
      /\ threw' = IF err THEN threw \cup {d} ELSE threw
    BY <1>1 DEF Leave, listVars
<1>3. Root \notin done /\ Root \notin threw
    BY RootOpen DEF RInv, Active, CallLabel, ErrorInv
<1>4. CASE d # Root
    <2>1. result = "running" /\ result' = "running"
        BY <1>2, <1>3, <1>4 DEF result
    <2>2. CASE err
        BY <1>2, <2>1, <2>2 DEF Scan!Next, Scan!Fail, result
    <2>3. CASE ~err
        BY <1>2, <2>1, <2>3, Mapping
    <2> QED BY <2>2, <2>3
<1>5. CASE d = Root /\ err
    BY <1>2, <1>3, <1>5 DEF Scan!Next, Scan!Throw, result
<1>6. CASE d = Root /\ ~err
    <2>1. Root \in done' \ threw' /\ threw' = threw
        BY <1>2, <1>3, <1>6
    <2>2. (RInv /\ Root \in done \ threw => Complete)'
        BY ReturnedComplete, PTL
    <2>3. /\ threw = {}
          /\ \A n \in Nodes \ {Root} : ~ Scan!Unseen(n)
        BY <1>2, <2>1, <2>2 DEF Complete, Scan!Unseen
    <2> QED
        BY <1>2, <1>3, <2>1, <2>3 DEF Scan!Next, Scan!Return, result
<1> QED
    BY <1>4, <1>5, <1>6

\* Every step of the scan is a step of the sequential one, or a stutter.
LEMMA NextImplements ==
    ASSUME RInv, RInv', [Next]_vars, "readlink" \notin Faults
    PROVE  Scan!Next \/ UNCHANGED Scan!vars
<1>1. ASSUME NEW t \in Threads, ScanStep(t)
      PROVE  Scan!Next \/ UNCHANGED Scan!vars
    <2>1. ~ ReadLinkThrows(t)
        BY DEF ReadLinkThrows
    <2>2. CASE OpenFails(t)
        BY <2>2, LeaveImplements DEF OpenFails, At
    <2>3. CASE WaitRethrow(t)
        <3>1. exn[cur[t]] \in BOOLEAN
            BY DEF RInv, WaitInv, IInv, PoolInv, TypeInv
        <3> QED
            BY <2>3, <3>1, LeaveImplements DEF WaitRethrow, At
    <2>4. ASSUME NEW n \in Nodes, SkipEntry(t, n) \/ AddEntry(t, n)
          PROVE  Scan!Next
        <3>1. n \in Nodes \ {Root}
            BY <2>4 DEF SkipEntry, AddEntry, ReadEntry, RInv, WaitInv, IInv, PoolInv, TypeInv
        <3> QED
            BY <2>4, <3>1, EntryImplements DEF Scan!Next
    <2> QED
        BY <1>1, <2>1, <2>2, <2>3, <2>4, UntouchedActions, UntouchedStutters DEF ScanStep
<1> QED
    BY <1>1, UntouchedActions, UntouchedStutters, RootFacts
    DEF Next, WorkerStep, MainStep, Terminated

\* The constructor of a recursive sorted_directory_iterator does what
\* TreeScan says: the list is complete when it returns, it throws when a
\* directory could not be read, and nothing changes after that.
THEOREM ImplementsTreeScanTheorem ==
    ASSUME "readlink" \notin Faults
    PROVE  Spec => ImplementsTreeScan
<1>1. Init => RInv
    BY InitRInv
<1>2. RInv /\ [Next]_vars => RInv'
    BY RInvNext
<1>3. Init => Scan!Init
    BY DEF Init, Scan!Init
<1>4. RInv /\ RInv' /\ [Next]_vars => [Scan!Next]_(Scan!vars)
    BY NextImplements
<1> QED
    BY <1>1, <1>2, <1>3, <1>4, PTL DEF Spec, ImplementsTreeScan, Scan!Spec

=============================================================================
