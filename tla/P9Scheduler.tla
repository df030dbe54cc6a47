---------------------------- MODULE P9Scheduler ----------------------------
(***************************************************************************)
(* The coroutine scheduler of the Plan 9 server (p9scheduler.cpp) and the  *)
(* thread pool it kicks (p9lx.cpp).  One thread at a time owns the queue   *)
(* and resumes coroutines; a coroutine that runs blocking code (BlockingCode*)
(* in p9await.h) first gives the queue up, and when it is done either      *)
(* claims the queue back or schedules itself for the owner to resume.      *)
(*                                                                         *)
(* A step of a coroutine is one of: scheduling another coroutine, yielding *)
(* with its continuation already queued (Hop), suspending, or entering and *)
(* leaving blocking code.  A coroutine enters blocking code once after it  *)
(* was resumed from the queue: HandleMessage has one BlockingCode.         *)
(***************************************************************************)
EXTENDS Integers, Sequences, FiniteSets

CONSTANTS Coroutines,   \* the coroutines that can be scheduled
          NoCo,         \* no coroutine
          MaxThreads    \* m_MaxThreads: std::thread::hardware_concurrency()

ASSUME SchedAssumption == /\ MaxThreads \in Nat \ {0}
                          /\ NoCo \notin Coroutines
                          /\ IsFiniteSet(Coroutines)

VARIABLES queue,      \* Scheduler::m_Queue
          running,    \* Scheduler::m_Running
          enqueued,   \* Scheduler::m_ThreadEnqueued
          work,       \* length of ThreadPool::m_WorkQueue
          avail,      \* ThreadPool::m_AvailableThreads
          total,      \* ThreadPool::m_RunningThreads
          loose,      \* pool threads at the top of their loop
          claiming,   \* pool threads that took the work item and will Claim
          owner,      \* the coroutine the queue's owner is resuming
          blocked,    \* coroutines on threads that gave the queue up (tls_Blocked)
          mayBlock    \* the owner was resumed from the queue

poolVars == <<work, avail, total, loose, claiming>>
\* The promise this scheduler implements.
Executor == INSTANCE P9Executor
ExecSpec == Executor!ExecSpec

schedVars == <<queue, running, enqueued, poolVars, owner, blocked, mayBlock>>

\* Coroutines nobody runs and nobody has queued.
Suspended == {c \in Coroutines : /\ c # owner
                                 /\ c \notin blocked
                                 /\ \A i \in 1..Len(queue) : queue[i] # c}

SchedInit ==
    /\ queue = <<>>
    /\ running = FALSE
    /\ enqueued = FALSE
    /\ work = 0
    /\ avail = 0
    /\ total = 0
    /\ loose = 0
    /\ claiming = 0
    /\ owner = NoCo
    /\ blocked = {}
    /\ mayBlock = FALSE

-----------------------------------------------------------------------------

\* ThreadPool::SubmitWork, with "back" threads returning to the pool's loop in
\* the same step: a thread is started when none waits and the limit allows it.
SubmitWork(back) ==
    /\ work' = work + 1
    /\ IF avail = 0 /\ total < MaxThreads
       THEN total' = total + 1 /\ loose' = loose + back + 1
       ELSE total' = total     /\ loose' = loose + back
    /\ UNCHANGED <<avail, claiming>>

\* Kicking a thread, if "need", to own a queue that has coroutines and no owner.
KickIf(need, back) ==
    IF need THEN enqueued' = TRUE /\ SubmitWork(back)
            ELSE /\ loose' = loose + back
                 /\ UNCHANGED <<enqueued, work, avail, total, claiming>>

\* Slip: the kick is left to the next coroutine that blocks.
Schedule_NoKick(c) ==
    /\ queue' = Append(queue, c)
    /\ UNCHANGED <<running, enqueued, poolVars, owner, blocked, mayBlock>>

\* Slip: the coroutine goes to the front of the queue.
Schedule_First(c) ==
    /\ queue' = <<c>> \o queue
    /\ KickIf(~running /\ ~enqueued, 0)
    /\ UNCHANGED <<running, owner, blocked, mayBlock>>

\* Scheduler::Schedule by a thread that keeps what it has.
Schedule(c) ==
    /\ queue' = Append(queue, c)
    /\ KickIf(~running /\ ~enqueued, 0)
    /\ UNCHANGED <<running, owner, blocked, mayBlock>>

\* The owner's coroutine suspends; the thread goes on with the queue.
Suspend ==
    /\ owner # NoCo
    /\ owner' = NoCo
    /\ UNCHANGED <<queue, running, enqueued, poolVars, blocked, mayBlock>>

\* A coroutine completes and schedules the one that awaits it
\* (TaskPromise::Resume): the awaiting frame runs when its turn comes.
Hop ==
    /\ owner # NoCo
    /\ queue' = Append(queue, owner)
    /\ owner' = NoCo
    /\ UNCHANGED <<running, enqueued, poolVars, blocked, mayBlock>>

\* Scheduler::Block
Block ==
    /\ owner # NoCo /\ mayBlock
    /\ blocked' = blocked \cup {owner}
    /\ owner' = NoCo
    /\ running' = FALSE
    /\ KickIf(queue # <<>> /\ ~enqueued, 0)
    /\ UNCHANGED <<queue, mayBlock>>

\* Slip: the queue is claimed though it has an owner.
UnblockClaims_Owned(c) ==
    /\ c \in blocked
    /\ running' = TRUE
    /\ owner' = c /\ mayBlock' = FALSE
    /\ blocked' = blocked \ {c}
    /\ UNCHANGED <<queue, enqueued, poolVars>>

\* Scheduler::Unblock when Claim(false) succeeds: the thread owns the queue again.
UnblockClaims(c) ==
    /\ c \in blocked
    /\ ~running
    /\ running' = TRUE
    /\ owner' = c /\ mayBlock' = FALSE
    /\ blocked' = blocked \ {c}
    /\ UNCHANGED <<queue, enqueued, poolVars>>

\* Scheduler::Unblock when Claim(false) failed: Unblocker::await_suspend
\* schedules the coroutine and the thread leaves RunAndRelease.
UnblockSchedules(c) ==
    /\ c \in blocked
    /\ queue' = Append(queue, c)
    /\ blocked' = blocked \ {c}
    /\ KickIf(~running /\ ~enqueued, 1)
    /\ UNCHANGED <<running, owner, mayBlock>>

\* A coroutine whose blocking code threw goes on without Unblock; when it
\* suspends or ends, its thread finds tls_Blocked set and leaves RunAndRelease.
LeaveBlocked(c) ==
    /\ c \in blocked
    /\ blocked' = blocked \ {c}
    /\ loose' = loose + 1
    /\ UNCHANGED <<queue, running, enqueued, work, avail, total, claiming, owner, mayBlock>>

\* Scheduler::RunAndRelease takes the next coroutine, or gives the queue up.
Resume ==
    /\ running
    /\ owner = NoCo
    /\ queue # <<>>
    /\ owner' = Head(queue) /\ mayBlock' = TRUE
    /\ queue' = Tail(queue)
    /\ UNCHANGED <<running, enqueued, poolVars, blocked>>

Release ==
    /\ running
    /\ owner = NoCo
    /\ queue = <<>>
    /\ running' = FALSE
    /\ loose' = loose + 1
    /\ UNCHANGED <<queue, enqueued, work, avail, total, claiming, owner, blocked, mayBlock>>

\* Scheduler::WorkerCallback: Claim(true), and RunAndRelease when it succeeds.
WorkerCallback ==
    /\ claiming > 0
    /\ claiming' = claiming - 1
    /\ enqueued' = FALSE
    /\ IF running THEN loose' = loose + 1 /\ UNCHANGED running
                  ELSE running' = TRUE /\ UNCHANGED loose
    /\ UNCHANGED <<queue, work, avail, total, owner, blocked, mayBlock>>

\* ThreadPool::WorkerCallback: a thread reaches the top of its loop and takes
\* the work item, or waits for one ...
ThreadReady ==
    /\ loose > 0
    /\ loose' = loose - 1
    /\ IF work > 0 THEN work' = work - 1 /\ claiming' = claiming + 1 /\ UNCHANGED avail
                   ELSE avail' = avail + 1 /\ UNCHANGED <<work, claiming>>
    /\ UNCHANGED <<queue, running, enqueued, total, owner, blocked, mayBlock>>

\* ... a waiting thread takes it ...
ThreadWake ==
    /\ avail > 0
    /\ work > 0
    /\ avail' = avail - 1
    /\ work' = work - 1
    /\ claiming' = claiming + 1
    /\ UNCHANGED <<queue, running, enqueued, total, loose, owner, blocked, mayBlock>>

\* ... or its wait of ThreadPoolTimeout ends with nothing to do and it exits.
ThreadTimeout ==
    /\ avail > 0
    /\ work = 0
    /\ avail' = avail - 1
    /\ total' = total - 1
    /\ UNCHANGED <<queue, running, enqueued, work, loose, claiming, owner, blocked, mayBlock>>

Pool == WorkerCallback \/ ThreadReady \/ ThreadWake \/ Resume \/ Release

SchedNext ==
    \/ Pool
    \/ ThreadTimeout
    \/ Suspend
    \/ Hop
    \/ Block
    \/ \E c \in Suspended : Schedule(c)
    \/ \E c \in blocked : UnblockClaims(c) \/ UnblockSchedules(c) \/ LeaveBlocked(c)

SchedSpec == SchedInit /\ [][SchedNext]_schedVars

\* The pool's threads run, a resumed coroutine gets to its next suspension and
\* blocking code ends.
SchedFairSpec ==
    /\ SchedSpec
    /\ WF_schedVars(WorkerCallback) /\ WF_schedVars(ThreadReady)
    /\ WF_schedVars(ThreadWake) /\ WF_schedVars(Resume)
    /\ WF_schedVars(Suspend \/ Hop \/ Block)
    /\ \A c \in Coroutines :
        WF_schedVars(UnblockClaims(c) \/ UnblockSchedules(c) \/ LeaveBlocked(c))

-----------------------------------------------------------------------------

(* Type invariant. *)
SchedTypeOK ==
    /\ queue \in Seq(Coroutines)
    /\ running \in BOOLEAN
    /\ enqueued \in BOOLEAN
    /\ work \in Nat
    /\ avail \in Nat
    /\ total \in Nat
    /\ loose \in Nat
    /\ claiming \in Nat
    /\ owner \in Coroutines \cup {NoCo}
    /\ blocked \subseteq Coroutines
    /\ mayBlock \in BOOLEAN

(* What RunAndRelease asserts: a queue that holds a coroutine has an owner *)
(* or a thread on its way to own it.                                       *)
QueueHasThread == queue # <<>> => running \/ enqueued

(* A kick is one work item of the pool or one thread that took it, never  *)
(* two; a work item is never left in a pool that has no thread; and the   *)
(* pool's count of threads is right, so its limit holds.                  *)
KickHasThread ==
    /\ (IF enqueued THEN 1 ELSE 0) = work + claiming
    /\ work > 0 => total > 0
    /\ total = avail + loose + claiming + (IF running THEN 1 ELSE 0) + Cardinality(blocked)
    /\ total <= MaxThreads

(* Nobody runs a coroutine that is also queued or blocked elsewhere, and  *)
(* only the queue's owner resumes one: a coroutine has one continuation.  *)
OneContinuation ==
    /\ owner # NoCo => running /\ owner \notin blocked
    /\ \A i \in 1..Len(queue) : queue[i] # owner /\ queue[i] \notin blocked
    /\ \A i, j \in 1..Len(queue) : queue[i] = queue[j] => i = j

(* A coroutine that was scheduled is resumed: no kick is lost, whatever    *)
(* the pool's threads were doing when it was given.                        *)
QueueServed == \A c \in Coroutines : (\E i \in 1..Len(queue) : queue[i] = c) ~> (owner = c)

(* What the scheduler promises in every state: queued work has a thread    *)
(* that will come for it, a kick has one too, and a coroutine that hops or *)
(* is unblocked has one continuation.                                      *)
SchedSafe == SchedTypeOK /\ QueueHasThread /\ KickHasThread /\ OneContinuation
=============================================================================
