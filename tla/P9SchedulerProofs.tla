------------------------- MODULE P9SchedulerProofs -------------------------
(***************************************************************************)
(* Proofs about the coroutine scheduler of the Plan 9 server, for every    *)
(* set of coroutines and every size of the thread pool: its safety         *)
(* invariant, and that it implements P9Executor, which P9Server is built   *)
(* on.  SchedSafe is inductive as it stands: each of its parts needs the   *)
(* others (a kick is counted, so an owned queue is not kicked twice; the   *)
(* count of the pool's threads needs that the owner is not also blocked).  *)
(***************************************************************************)
EXTENDS P9Scheduler, FiniteSetTheorems, TLAPS

\* The steps by name, for the case splits below.
LEMMA StepCases ==
  ASSUME [SchedNext]_schedVars
  PROVE  \/ WorkerCallback \/ ThreadReady \/ ThreadWake \/ Resume \/ Release
         \/ ThreadTimeout \/ Suspend \/ Hop \/ Block
         \/ \E c \in Suspended : Schedule(c)
         \/ \E c \in blocked : UnblockClaims(c)
         \/ \E c \in blocked : UnblockSchedules(c)
         \/ \E c \in blocked : LeaveBlocked(c)
         \/ UNCHANGED schedVars
  BY DEF SchedNext, Pool

-----------------------------------------------------------------------------
(* Types.                                                                  *)

\* The coroutines in blocking code can be counted.
LEMMA BlockedFinite ==
  ASSUME SchedTypeOK
  PROVE  IsFiniteSet(blocked) /\ Cardinality(blocked) \in Nat
  BY SchedAssumption, FS_Subset, FS_CardinalityType DEF SchedTypeOK

\* The flags, which only take the values they are given.
LEMMA FlagsStep ==
  SchedTypeOK /\ [SchedNext]_schedVars
    => running' \in BOOLEAN /\ enqueued' \in BOOLEAN /\ mayBlock' \in BOOLEAN
  BY StepCases, Zenon
     DEF SchedTypeOK, WorkerCallback, ThreadReady, ThreadWake, Resume, Release, ThreadTimeout,
         Suspend, Hop, Block, Schedule, UnblockClaims, UnblockSchedules, LeaveBlocked, KickIf,
         schedVars

\* The type invariant is preserved by every step of scheduler and pool.
LEMMA TypeStep == SchedSafe /\ [SchedNext]_schedVars => SchedTypeOK'
<1> SUFFICES ASSUME SchedSafe, [SchedNext]_schedVars PROVE SchedTypeOK'
  OBVIOUS
<1> DEFINE Others == /\ queue \in Seq(Coroutines)
                    /\ work \in Nat /\ avail \in Nat /\ total \in Nat
                    /\ loose \in Nat /\ claiming \in Nat
                    /\ owner \in Coroutines \cup {NoCo}
                    /\ blocked \subseteq Coroutines
<1>a. Others /\ running \in BOOLEAN /\ enqueued \in BOOLEAN
  BY DEF SchedSafe, SchedTypeOK
<1>b. SUFFICES Others'
  BY FlagsStep DEF SchedSafe, SchedTypeOK
<1>1. CASE WorkerCallback
  BY <1>a, <1>1 DEF WorkerCallback
<1>2. CASE ThreadReady
  BY <1>a, <1>2 DEF ThreadReady
<1>3. CASE ThreadWake
  BY <1>a, <1>3 DEF ThreadWake
<1>4. CASE Resume
  BY <1>a, <1>4 DEF Resume, poolVars
<1>5. CASE Release
  BY <1>a, <1>5 DEF Release
<1>6. CASE ThreadTimeout
  <2>1. total >= avail
    BY BlockedFinite DEF SchedSafe, SchedTypeOK, KickHasThread
  <2> QED
    BY <1>a, <1>6, <2>1 DEF ThreadTimeout
<1>7. CASE Suspend
  BY <1>a, <1>7 DEF Suspend, poolVars
<1>8. CASE Hop
  BY <1>a, <1>8 DEF Hop, poolVars
<1>9. CASE Block
  BY <1>a, <1>9 DEF Block, KickIf, SubmitWork
<1>10. CASE \E c \in Suspended : Schedule(c)
  BY <1>a, <1>10, SMTT(40) DEF Schedule, Suspended, KickIf, SubmitWork
<1>11. CASE \E c \in blocked : UnblockClaims(c)
  BY <1>a, <1>11 DEF UnblockClaims, poolVars
<1>12. CASE \E c \in blocked : UnblockSchedules(c)
  BY <1>a, <1>12, SMTT(40) DEF UnblockSchedules, KickIf, SubmitWork
<1>13. CASE \E c \in blocked : LeaveBlocked(c)
  BY <1>a, <1>13 DEF LeaveBlocked
<1>14. CASE UNCHANGED schedVars
  BY <1>a, <1>14 DEF schedVars, poolVars
<1> QED
  BY <1>1, <1>2, <1>3, <1>4, <1>5, <1>6, <1>7, <1>8, <1>9, <1>10, <1>11, <1>12, <1>13, <1>14, StepCases

-----------------------------------------------------------------------------
(* A queue that holds a coroutine has an owner or a kick.                  *)

\* Block, Schedule and Unblock kick when nobody would come; Release finds the queue empty.
LEMMA QueueStep == SchedSafe /\ [SchedNext]_schedVars => QueueHasThread'
<1> SUFFICES ASSUME SchedSafe, [SchedNext]_schedVars, queue' # <<>> PROVE running' \/ enqueued'
  BY DEF QueueHasThread
<1>a. /\ queue # <<>> => running \/ enqueued
      /\ owner # NoCo => running
  BY DEF SchedSafe, QueueHasThread, OneContinuation
<1>1. CASE WorkerCallback
  BY <1>a, <1>1, Zenon DEF WorkerCallback
<1>2. CASE ThreadReady
  BY <1>a, <1>2, Zenon DEF ThreadReady
<1>3. CASE ThreadWake
  BY <1>a, <1>3, Zenon DEF ThreadWake
<1>4. CASE Resume
  BY <1>a, <1>4, Zenon DEF Resume, poolVars
<1>5. CASE Release
  BY <1>a, <1>5, Zenon DEF Release
<1>6. CASE ThreadTimeout
  BY <1>a, <1>6, Zenon DEF ThreadTimeout
<1>7. CASE Suspend
  BY <1>a, <1>7, Zenon DEF Suspend, poolVars
<1>8. CASE Hop
  BY <1>a, <1>8, Zenon DEF Hop, poolVars
<1>9. CASE Block
  BY <1>a, <1>9, Zenon DEF Block, KickIf
<1>10. CASE \E c \in Suspended : Schedule(c)
  <2>1. KickIf(~running /\ ~enqueued, 0) /\ running' = running
    BY <1>10 DEF Schedule
  <2>2. CASE running \/ enqueued
    BY <2>1, <2>2 DEF KickIf
  <2>3. CASE ~running /\ ~enqueued
    BY <2>1, <2>3 DEF KickIf
  <2> QED
    BY <2>2, <2>3
<1>11. CASE \E c \in blocked : UnblockClaims(c)
  BY <1>a, <1>11, Zenon DEF UnblockClaims, poolVars
<1>12. CASE \E c \in blocked : UnblockSchedules(c)
  <2>1. KickIf(~running /\ ~enqueued, 1) /\ running' = running
    BY <1>12 DEF UnblockSchedules
  <2>2. CASE running \/ enqueued
    BY <2>1, <2>2 DEF KickIf
  <2>3. CASE ~running /\ ~enqueued
    BY <2>1, <2>3 DEF KickIf
  <2> QED
    BY <2>2, <2>3
<1>13. CASE \E c \in blocked : LeaveBlocked(c)
  BY <1>a, <1>13 DEF LeaveBlocked
<1>14. CASE UNCHANGED schedVars
  BY <1>a, <1>14, Zenon DEF schedVars, poolVars
<1> QED
  BY <1>1, <1>2, <1>3, <1>4, <1>5, <1>6, <1>7, <1>8, <1>9, <1>10, <1>11, <1>12, <1>13, <1>14, StepCases

-----------------------------------------------------------------------------
(* Every kick is one work item or one thread that took it, and the pool's  *)
(* threads are all accounted for.                                          *)

\* A kick adds one work item and, when no thread waits, one thread; each thread is
\* in one place.
LEMMA KickStep == SchedSafe /\ [SchedNext]_schedVars => KickHasThread'
<1> SUFFICES ASSUME SchedSafe, [SchedNext]_schedVars PROVE KickHasThread'
  OBVIOUS
<1>a. /\ work \in Nat /\ avail \in Nat /\ total \in Nat /\ loose \in Nat /\ claiming \in Nat
      /\ MaxThreads \in Nat \ {0}
      /\ IsFiniteSet(blocked) /\ Cardinality(blocked) \in Nat
      /\ (IF enqueued THEN 1 ELSE 0) = work + claiming
      /\ work > 0 => total > 0
      /\ total = avail + loose + claiming + (IF running THEN 1 ELSE 0) + Cardinality(blocked)
      /\ total <= MaxThreads
  BY BlockedFinite, SchedAssumption DEF SchedSafe, SchedTypeOK, KickHasThread
<1>b. \A c \in blocked : Cardinality(blocked \ {c}) = Cardinality(blocked) - 1
  BY <1>a, FS_RemoveElement
<1>c. owner # NoCo => running /\ owner \notin blocked
  BY DEF SchedSafe, OneContinuation
<1>d. owner # NoCo => Cardinality(blocked \cup {owner}) = Cardinality(blocked) + 1
  BY <1>a, <1>c, FS_AddElement
<1>1. CASE WorkerCallback
  BY <1>a, <1>b, <1>c, <1>d, <1>1 DEF KickHasThread, WorkerCallback
<1>2. CASE ThreadReady
  BY <1>a, <1>b, <1>c, <1>d, <1>2 DEF KickHasThread, ThreadReady
<1>3. CASE ThreadWake
  BY <1>a, <1>b, <1>c, <1>d, <1>3 DEF KickHasThread, ThreadWake
<1>4. CASE Resume
  BY <1>a, <1>b, <1>c, <1>d, <1>4 DEF KickHasThread, Resume, poolVars
<1>5. CASE Release
  BY <1>a, <1>b, <1>c, <1>d, <1>5 DEF KickHasThread, Release
<1>6. CASE ThreadTimeout
  BY <1>a, <1>b, <1>c, <1>d, <1>6 DEF KickHasThread, ThreadTimeout
<1>7. CASE Suspend
  BY <1>a, <1>b, <1>c, <1>d, <1>7 DEF KickHasThread, Suspend, poolVars
<1>8. CASE Hop
  BY <1>a, <1>b, <1>c, <1>d, <1>8 DEF KickHasThread, Hop, poolVars
<1>9. CASE Block
  BY <1>a, <1>b, <1>c, <1>d, <1>9, SMTT(40) DEF KickHasThread, Block, KickIf, SubmitWork
<1>10. CASE \E c \in Suspended : Schedule(c)
  <2>1. KickIf(~running /\ ~enqueued, 0) /\ running' = running /\ blocked' = blocked
    BY <1>10 DEF Schedule
  <2>2. CASE running \/ enqueued
    BY <1>a, <2>1, <2>2 DEF KickHasThread, KickIf
  <2>3. CASE ~running /\ ~enqueued
    <3>1. /\ enqueued' /\ work' = work + 1 /\ avail' = avail /\ claiming' = claiming
          /\ IF avail = 0 /\ total < MaxThreads
             THEN total' = total + 1 /\ loose' = loose + 0 + 1
             ELSE total' = total /\ loose' = loose + 0
      BY <2>1, <2>3 DEF KickIf, SubmitWork
    <3>2. work = 0 /\ claiming = 0
      BY <1>a, <2>3
    <3> QED
      BY <1>a, <2>1, <2>3, <3>1, <3>2 DEF KickHasThread
  <2> QED
    BY <2>2, <2>3
<1>11. CASE \E c \in blocked : UnblockClaims(c)
  BY <1>a, <1>b, <1>c, <1>d, <1>11 DEF KickHasThread, UnblockClaims, poolVars
<1>12. CASE \E c \in blocked : UnblockSchedules(c)
  <2>1. /\ KickIf(~running /\ ~enqueued, 1) /\ running' = running
        /\ Cardinality(blocked') = Cardinality(blocked) - 1
    BY <1>b, <1>12 DEF UnblockSchedules
  <2>2. CASE running \/ enqueued
    BY <1>a, <2>1, <2>2 DEF KickHasThread, KickIf
  <2>3. CASE ~running /\ ~enqueued
    BY <1>a, <2>1, <2>3 DEF KickHasThread, KickIf, SubmitWork
  <2> QED
    BY <2>2, <2>3
<1>13. CASE \E c \in blocked : LeaveBlocked(c)
  BY <1>a, <1>b, <1>c, <1>d, <1>13 DEF KickHasThread, LeaveBlocked
<1>14. CASE UNCHANGED schedVars
  BY <1>a, <1>b, <1>c, <1>d, <1>14 DEF KickHasThread, schedVars, poolVars
<1> QED
  BY <1>1, <1>2, <1>3, <1>4, <1>5, <1>6, <1>7, <1>8, <1>9, <1>10, <1>11, <1>12, <1>13, <1>14, StepCases

-----------------------------------------------------------------------------
(* A coroutine has one continuation.                                       *)

\* What appending a new element leaves true of a queue without repetitions.
LEMMA AppendNew ==
  ASSUME NEW S, NEW q \in Seq(S), NEW c \in S,
         \A i \in 1..Len(q) : q[i] # c,
         \A i, j \in 1..Len(q) : q[i] = q[j] => i = j
  PROVE  /\ \A i \in 1..Len(Append(q, c)) : Append(q, c)[i] = c \/ \E j \in 1..Len(q) : Append(q, c)[i] = q[j]
         /\ \A i, j \in 1..Len(Append(q, c)) : Append(q, c)[i] = Append(q, c)[j] => i = j
  OBVIOUS

\* What taking its head leaves true of it.
LEMMA TailOfNew ==
  ASSUME NEW S, NEW q \in Seq(S), q # <<>>,
         \A i, j \in 1..Len(q) : q[i] = q[j] => i = j
  PROVE  /\ Head(q) \in S /\ \E j \in 1..Len(q) : Head(q) = q[j]
         /\ \A i \in 1..Len(Tail(q)) : Tail(q)[i] # Head(q) /\ \E j \in 1..Len(q) : Tail(q)[i] = q[j]
         /\ \A i, j \in 1..Len(Tail(q)) : Tail(q)[i] = Tail(q)[j] => i = j
<1>1. Len(q) \in Nat /\ Len(q) > 0 /\ Head(q) = q[1] /\ Len(Tail(q)) = Len(q) - 1
  OBVIOUS
<1>2. \A i \in 1..Len(Tail(q)) : Tail(q)[i] = q[i + 1] /\ i + 1 \in 2..Len(q)
  BY <1>1
<1>3. \A i \in 1..Len(Tail(q)) : Tail(q)[i] # Head(q) /\ \E j \in 1..Len(q) : Tail(q)[i] = q[j]
  BY <1>1, <1>2
<1>4. \A i, j \in 1..Len(Tail(q)) : Tail(q)[i] = Tail(q)[j] => i = j
  BY <1>1, <1>2
<1> QED
  BY <1>1, <1>3, <1>4

\* A coroutine moves between queue, owner and blocking code; it is never copied.
LEMMA OneStep == SchedSafe /\ [SchedNext]_schedVars => OneContinuation'
<1> SUFFICES ASSUME SchedSafe, [SchedNext]_schedVars PROVE OneContinuation'
  OBVIOUS
<1>a. /\ queue \in Seq(Coroutines) /\ owner \in Coroutines \cup {NoCo} /\ blocked \subseteq Coroutines
      /\ NoCo \notin Coroutines
      /\ \A i \in 1..Len(queue) : queue[i] \in Coroutines
  BY SchedAssumption DEF SchedSafe, SchedTypeOK
<1>b. /\ owner # NoCo => running /\ owner \notin blocked
      /\ \A i \in 1..Len(queue) : queue[i] # owner /\ queue[i] \notin blocked
      /\ \A i, j \in 1..Len(queue) : queue[i] = queue[j] => i = j
  BY DEF SchedSafe, OneContinuation
<1>1. CASE WorkerCallback
  BY <1>b, <1>1 DEF OneContinuation, WorkerCallback
<1>2. CASE ThreadReady
  BY <1>b, <1>2 DEF OneContinuation, ThreadReady
<1>3. CASE ThreadWake
  BY <1>b, <1>3 DEF OneContinuation, ThreadWake
<1>4. CASE Resume
  <2>1. running' = running /\ owner' = Head(queue) /\ queue' = Tail(queue) /\ blocked' = blocked /\ running /\ queue # <<>>
    BY <1>4 DEF Resume
  <2>2. /\ \E j \in 1..Len(queue) : Head(queue) = queue[j]
        /\ \A i \in 1..Len(Tail(queue)) :
               Tail(queue)[i] # Head(queue) /\ \E j \in 1..Len(queue) : Tail(queue)[i] = queue[j]
        /\ \A i, j \in 1..Len(Tail(queue)) : Tail(queue)[i] = Tail(queue)[j] => i = j
    BY <1>a, <1>b, <2>1, TailOfNew
  <2> QED
    BY <1>b, <2>1, <2>2, Zenon DEF OneContinuation
<1>5. CASE Release
  BY <1>b, <1>5 DEF OneContinuation, Release
<1>6. CASE ThreadTimeout
  BY <1>b, <1>6 DEF OneContinuation, ThreadTimeout
<1>7. CASE Suspend
  BY <1>a, <1>b, <1>7 DEF OneContinuation, Suspend
<1>8. CASE Hop
  <2>1. owner \in Coroutines /\ owner' = NoCo /\ queue' = Append(queue, owner) /\ blocked' = blocked
    BY <1>a, <1>8 DEF Hop
  <2>2. /\ \A i \in 1..Len(queue') : queue'[i] = owner \/ \E j \in 1..Len(queue) : queue'[i] = queue[j]
        /\ \A i, j \in 1..Len(queue') : queue'[i] = queue'[j] => i = j
    BY <1>a, <1>b, <2>1, AppendNew
  <2>3. \A i \in 1..Len(queue') : queue'[i] # NoCo /\ queue'[i] \notin blocked
    BY <1>a, <1>b, <1>8, <2>1, <2>2 DEF Hop
  <2> QED
    BY <2>1, <2>2, <2>3 DEF OneContinuation
<1>9. CASE Block
  <2>1. owner' = NoCo /\ queue' = queue /\ blocked' = blocked \cup {owner}
    BY <1>9 DEF Block
  <2> QED
    BY <1>a, <1>b, <2>1 DEF OneContinuation
<1>10. CASE \E c \in Suspended : Schedule(c)
  <2>1. PICK c \in Suspended : Schedule(c)
    BY <1>10
  <2>2. /\ c \in Coroutines /\ c # owner /\ c \notin blocked /\ \A i \in 1..Len(queue) : queue[i] # c
        /\ queue' = Append(queue, c) /\ UNCHANGED <<running, owner, blocked>>
    BY <2>1 DEF Suspended, Schedule
  <2>3. /\ \A i \in 1..Len(queue') : queue'[i] = c \/ \E j \in 1..Len(queue) : queue'[i] = queue[j]
        /\ \A i, j \in 1..Len(queue') : queue'[i] = queue'[j] => i = j
    BY <1>a, <1>b, <2>2, AppendNew
  <2>4. \A i \in 1..Len(queue') : queue'[i] # owner /\ queue'[i] \notin blocked
    BY <1>b, <2>2, <2>3
  <2> QED
    BY <1>b, <2>2, <2>3, <2>4 DEF OneContinuation
<1>11. CASE \E c \in blocked : UnblockClaims(c)
  <2>1. PICK c \in blocked : UnblockClaims(c)
    BY <1>11
  <2>2. running' /\ owner' = c /\ blocked' = blocked \ {c} /\ queue' = queue
    BY <2>1 DEF UnblockClaims
  <2> QED
    BY <1>b, <2>2 DEF OneContinuation
<1>12. CASE \E c \in blocked : UnblockSchedules(c)
  <2>1. PICK c \in blocked : UnblockSchedules(c)
    BY <1>12
  <2>2. /\ c \in Coroutines /\ \A i \in 1..Len(queue) : queue[i] # c
        /\ queue' = Append(queue, c) /\ UNCHANGED <<running, owner>> /\ blocked' = blocked \ {c}
    BY <1>a, <1>b, <2>1 DEF UnblockSchedules
  <2>3. /\ \A i \in 1..Len(queue') : queue'[i] = c \/ \E j \in 1..Len(queue) : queue'[i] = queue[j]
        /\ \A i, j \in 1..Len(queue') : queue'[i] = queue'[j] => i = j
    BY <1>a, <1>b, <2>2, AppendNew
  <2>4. c # owner
    BY <1>a, <1>b, <2>1
  <2>5. \A i \in 1..Len(queue') : queue'[i] # owner /\ queue'[i] \notin blocked'
    BY <1>b, <2>2, <2>3, <2>4
  <2> QED
    BY <1>b, <2>2, <2>3, <2>5 DEF OneContinuation
<1>13. CASE \E c \in blocked : LeaveBlocked(c)
  BY <1>b, <1>13 DEF OneContinuation, LeaveBlocked
<1>14. CASE UNCHANGED schedVars
  BY <1>b, <1>14 DEF OneContinuation, schedVars
<1> QED
  BY <1>1, <1>2, <1>3, <1>4, <1>5, <1>6, <1>7, <1>8, <1>9, <1>10, <1>11, <1>12, <1>13, <1>14, StepCases

-----------------------------------------------------------------------------

(* In every state queued work has a thread that owns the queue or was      *)
(* kicked, a kick is counted once and has a thread of the pool, and no     *)
(* coroutine has two continuations (p9scheduler.cpp, p9lx.cpp).            *)
THEOREM SchedulerSafe == SchedSpec => []SchedSafe
<1>1. SchedInit => SchedSafe
  <2> SUFFICES ASSUME SchedInit PROVE SchedSafe
    OBVIOUS
  <2>a. running \in BOOLEAN /\ enqueued \in BOOLEAN /\ mayBlock \in BOOLEAN
    BY Zenon DEF SchedInit
  <2>b. /\ queue \in Seq(Coroutines) /\ work \in Nat /\ avail \in Nat /\ total \in Nat
        /\ loose \in Nat /\ claiming \in Nat
        /\ owner \in Coroutines \cup {NoCo} /\ blocked \subseteq Coroutines
    BY DEF SchedInit
  <2>1. SchedTypeOK
    BY <2>a, <2>b DEF SchedTypeOK
  <2>2. QueueHasThread
    BY DEF SchedInit, QueueHasThread
  <2>3. KickHasThread
    BY SchedAssumption, FS_EmptySet DEF SchedInit, KickHasThread
  <2>4. OneContinuation
    BY DEF SchedInit, OneContinuation
  <2> QED
    BY <2>1, <2>2, <2>3, <2>4 DEF SchedSafe
<1>2. SchedSafe /\ [SchedNext]_schedVars => SchedSafe'
  BY TypeStep, QueueStep, KickStep, OneStep DEF SchedSafe
<1> QED
  BY <1>1, <1>2, PTL DEF SchedSpec

\* A step of the scheduler is a step of the executor, or changes the pool only.
LEMMA ExecStep ==
  ASSUME SchedSafe, [SchedNext]_schedVars
  PROVE  [Executor!ExecNext]_(Executor!execVars)
<1>a. owner # NoCo => running
  BY DEF SchedSafe, OneContinuation
<1>b. Executor!Suspended = Suspended
  BY DEF Executor!Suspended, Suspended
<1>1. CASE WorkerCallback \/ ThreadReady \/ ThreadWake \/ Release \/ ThreadTimeout \/ UNCHANGED schedVars
  BY <1>1 DEF WorkerCallback, ThreadReady, ThreadWake, Release, ThreadTimeout, schedVars, Executor!execVars
<1>2. CASE Resume
  BY <1>2 DEF Resume, Executor!ExecNext, Executor!Resume
<1>3. CASE Suspend
  BY <1>3 DEF Suspend, Executor!ExecNext, Executor!Suspend
<1>4. CASE Hop
  BY <1>4 DEF Hop, Executor!ExecNext, Executor!Hop
<1>5. CASE Block
  BY <1>5 DEF Block, Executor!ExecNext, Executor!Block
<1>6. CASE \E c \in Suspended : Schedule(c)
  <2>1. \E c \in Executor!Suspended : Executor!Schedule(c)
    BY <1>b, <1>6 DEF Schedule, Executor!Schedule
  <2> QED
    BY <2>1 DEF Executor!ExecNext
<1>7. CASE \E c \in blocked : UnblockClaims(c)
  <2>1. \E c \in blocked : Executor!UnblockClaims(c)
    BY <1>a, <1>7 DEF UnblockClaims, Executor!UnblockClaims
  <2> QED
    BY <2>1 DEF Executor!ExecNext
<1>8. CASE \E c \in blocked : UnblockSchedules(c)
  <2>1. \E c \in blocked : Executor!UnblockSchedules(c)
    BY <1>8 DEF UnblockSchedules, Executor!UnblockSchedules
  <2> QED
    BY <2>1 DEF Executor!ExecNext
<1>9. CASE \E c \in blocked : LeaveBlocked(c)
  <2>1. \E c \in blocked : Executor!LeaveBlocked(c)
    BY <1>9 DEF LeaveBlocked, Executor!LeaveBlocked
  <2> QED
    BY <2>1 DEF Executor!ExecNext
<1> QED
  BY <1>1, <1>2, <1>3, <1>4, <1>5, <1>6, <1>7, <1>8, <1>9, StepCases

(* The scheduler implements the executor that the Plan 9 server's model is *)
(* built on: one coroutine is resumed at a time, in the order in which     *)
(* they were scheduled, whatever the threads of the pool do.               *)
THEOREM ImplementsExecutor == SchedSpec => ExecSpec
<1>1. SchedInit => Executor!ExecInit
  BY DEF SchedInit, Executor!ExecInit
<1>2. SchedSafe /\ [SchedNext]_schedVars => [Executor!ExecNext]_(Executor!execVars)
  BY ExecStep
<1> QED
  BY <1>1, <1>2, SchedulerSafe, PTL DEF SchedSpec, ExecSpec, Executor!ExecSpec
=============================================================================
