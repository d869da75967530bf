----------------------------- MODULE ThreadPool -----------------------------
(***************************************************************************)
(* fstree::thread_pool (src/src/thread_pool.cpp): a FIFO of jobs, a fixed  *)
(* set of workers that sleep on one condition variable, and a semaphore    *)
(* that enqueue_or_run uses to bound the jobs that are queued or running.  *)
(*                                                                         *)
(* This module is the pool's state and its steps, each one what a thread   *)
(* does inside a single critical section.  The modules that use the pool   *)
(* say what a job is and what a thread does between those steps.           *)
(***************************************************************************)
EXTENDS Naturals, Sequences, FiniteSets

CONSTANT Workers        \* the threads started by thread_pool::start

ASSUME WorkersAssumption == IsFiniteSet(Workers) /\ Workers # {}

VARIABLES
    queue,              \* _queue: jobs pushed and not yet taken
    permits,            \* _sem._count
    loop,               \* where each worker is in its loop
    stopping            \* _stop

poolVars == <<queue, permits, loop, stopping>>

\* "idle": about to lock _mutex and test the predicate; "asleep": blocked in
\* _cv.wait; "busy": running a task; "exited": returned from its loop.
LoopState == {"idle", "asleep", "busy", "exited"}

PoolTypeOK(Job) ==
    /\ queue \in Seq(Job)
    /\ permits \in 0..Cardinality(Workers)
    /\ loop \in [Workers -> LoopState]
    /\ stopping \in BOOLEAN

PoolInit ==
    /\ queue = <<>>
    /\ permits = Cardinality(Workers)
    /\ loop = [w \in Workers |-> "idle"]
    /\ stopping = FALSE

In(state) == {w \in Workers : loop[w] = state}

-----------------------------------------------------------------------------
(* The worker's loop.  The predicate is tested and the queue is popped in  *)
(* one critical section of _mutex.                                         *)

\* The worker finds the queue not empty and takes the front job.
Take(w) ==
    /\ loop[w] = "idle"
    /\ queue # <<>>
    /\ queue' = Tail(queue)
    /\ loop' = [loop EXCEPT ![w] = "busy"]
    /\ UNCHANGED <<permits, stopping>>

\* Mutant: _cv.wait without its predicate.
SleepUnchecked(w) ==
    /\ loop[w] = "idle"
    /\ ~stopping
    /\ loop' = [loop EXCEPT ![w] = "asleep"]
    /\ UNCHANGED <<queue, permits, stopping>>

\* Nothing to do: _cv.wait releases the mutex and blocks.
Sleep(w) ==
    /\ loop[w] = "idle"
    /\ queue = <<>>
    /\ ~stopping
    /\ loop' = [loop EXCEPT ![w] = "asleep"]
    /\ UNCHANGED <<queue, permits, stopping>>

\* A condition variable may wake up a waiter for no reason.
SpuriousWake(w) ==
    /\ loop[w] = "asleep"
    /\ loop' = [loop EXCEPT ![w] = "idle"]
    /\ UNCHANGED <<queue, permits, stopping>>

\* _stop is set and the queue is drained: the worker returns.
Exit(w) ==
    /\ loop[w] = "idle"
    /\ stopping
    /\ queue = <<>>
    /\ loop' = [loop EXCEPT ![w] = "exited"]
    /\ UNCHANGED <<queue, permits, stopping>>

-----------------------------------------------------------------------------
(* enqueue: the push is under _mutex, notify_one comes after the unlock.   *)

Push(job) ==
    /\ queue' = Append(queue, job)
    /\ UNCHANGED <<permits, loop, stopping>>

NotifyOne ==
    /\ \/ /\ In("asleep") = {}
          /\ UNCHANGED loop
       \/ \E w \in In("asleep") : loop' = [loop EXCEPT ![w] = "idle"]
    /\ UNCHANGED <<queue, permits, stopping>>

(* enqueue_or_run: semaphore::try_wait, and _sem.notify at the end of the  *)
(* job, when the worker goes back to the top of its loop.                  *)

TryWait ==
    /\ permits > 0
    /\ permits' = permits - 1
    /\ UNCHANGED <<queue, loop, stopping>>

Saturated == permits = 0

\* Mutant: the permit is not given back.
ReleaseNothing(w) ==
    /\ loop[w] = "busy"
    /\ loop' = [loop EXCEPT ![w] = "idle"]
    /\ UNCHANGED <<queue, permits, stopping>>

Release(w) ==
    /\ loop[w] = "busy"
    /\ permits' = permits + 1
    /\ loop' = [loop EXCEPT ![w] = "idle"]
    /\ UNCHANGED <<queue, stopping>>

-----------------------------------------------------------------------------
(* stop: _stop is set under _mutex, notify_all comes after the unlock, and *)
(* then every worker is joined.                                            *)

SetStop ==
    /\ stopping' = TRUE
    /\ UNCHANGED <<queue, permits, loop>>

\* Mutant: one worker only is woken up.
NotifyAllOne == NotifyOne

NotifyAll ==
    /\ loop' = [w \in Workers |-> IF loop[w] = "asleep" THEN "idle" ELSE loop[w]]
    /\ UNCHANGED <<queue, permits, stopping>>

Joined == In("exited") = Workers
=============================================================================
