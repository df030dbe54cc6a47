----------------------------- MODULE P9Executor -----------------------------
(***************************************************************************)
(* What the coroutine scheduler of the Plan 9 server promises, without the *)
(* threads it uses: coroutines are resumed one at a time, in the order in  *)
(* which they were scheduled, while others run blocking code.  P9Scheduler *)
(* implements it; P9Server is built on it.                                 *)
(***************************************************************************)
EXTENDS Integers, Sequences, FiniteSets

CONSTANTS Coroutines,   \* the coroutines that can be scheduled
          NoCo          \* no coroutine

VARIABLES queue,      \* coroutines to resume, in order
          owner,      \* the coroutine being resumed
          blocked     \* coroutines on a thread of their own

execVars == <<queue, owner, blocked>>

\* Coroutines nobody runs and nobody has queued.
Suspended == {c \in Coroutines : /\ c # owner
                                 /\ c \notin blocked
                                 /\ \A i \in 1..Len(queue) : queue[i] # c}

ExecInit == queue = <<>> /\ owner = NoCo /\ blocked = {}

NoSchedule == UNCHANGED execVars

\* Any thread makes a coroutine runnable.
Schedule(c) == queue' = Append(queue, c) /\ UNCHANGED <<owner, blocked>>

\* The coroutine being resumed suspends.
Suspend == owner # NoCo /\ owner' = NoCo /\ UNCHANGED <<queue, blocked>>

\* It suspends with its continuation already scheduled.
Hop == owner # NoCo /\ queue' = Append(queue, owner) /\ owner' = NoCo /\ UNCHANGED blocked

\* It goes on in blocking code, and the next one can be resumed.
Block == owner # NoCo /\ blocked' = blocked \cup {owner} /\ owner' = NoCo /\ UNCHANGED queue

\* Blocking code is over: the coroutine goes on at once, if none is being
\* resumed, or is scheduled.
UnblockClaims(c) ==
    /\ c \in blocked
    /\ owner = NoCo
    /\ owner' = c
    /\ blocked' = blocked \ {c}
    /\ UNCHANGED queue

UnblockSchedules(c) ==
    /\ c \in blocked
    /\ queue' = Append(queue, c)
    /\ blocked' = blocked \ {c}
    /\ UNCHANGED owner

\* Blocking code threw, and the coroutine that went on regardless suspends.
LeaveBlocked(c) == c \in blocked /\ blocked' = blocked \ {c} /\ UNCHANGED <<queue, owner>>

Resume ==
    /\ owner = NoCo
    /\ queue # <<>>
    /\ owner' = Head(queue)
    /\ queue' = Tail(queue)
    /\ UNCHANGED blocked

ExecNext ==
    \/ Resume \/ Suspend \/ Hop \/ Block
    \/ \E c \in Suspended : Schedule(c)
    \/ \E c \in blocked : UnblockClaims(c) \/ UnblockSchedules(c) \/ LeaveBlocked(c)

ExecSpec == ExecInit /\ [][ExecNext]_execVars
=============================================================================
