------------------------ MODULE InitLifecycleProofs ------------------------
(***************************************************************************)
(* Proofs about hvinit, for every number of process ids, mount points,     *)
(* messages and failures: no death of a child goes unnoticed by the event  *)
(* loop, and TerminateInstance leaves neither a server nor a mount behind. *)
(***************************************************************************)
EXTENDS InitLifecycle, FiniteSetTheorems, SequenceTheorems, TLAPS

-----------------------------------------------------------------------------
(* The inductive invariant.                                                *)

BootPcs == {"boot", "initialize", "p9Start", "p9Ready", "session", "gnsStart", "enter"}

FlagTypeOK ==
    /\ p9Served \in BOOLEAN /\ handler \in BOOLEAN /\ pipe \in BOOLEAN /\ ready \in BOOLEAN
    /\ connected \in BOOLEAN /\ closed \in BOOLEAN /\ force \in BOOLEAN

ProcTypeOK ==
    /\ pc \in BootPcs \cup {"exited"} \cup InLoop
    /\ why \in {"none", "terminate", "disconnect", "failed", "killed"}
    /\ kind \in [Pids -> Children \cup {"none", "other"}]
    /\ st \in [Pids -> {"starting", "alive", "signalled", "zombie"}]
    /\ gnsPid \in Pids \cup {NoPid} /\ p9Pid \in Pids \cup {NoPid}
    /\ unnoticed \in SUBSET Pids

HostTypeOK == inbox \in Seq(Requests) /\ requests \in Nat /\ others \in Nat

MountTypeOK ==
    /\ mounted \in [Points -> Nat] /\ tracked \in Seq(Points) /\ Len(tracked) <= MaxMounts
    /\ left \in 0..Len(tracked) /\ unswept \in SUBSET Points /\ fails \in Nat

\* Where the reason to end is known: TerminateInstance is being carried out or is done.
WhyAt ==
    /\ why = "terminate" => pc \in Stopping \cup {"exited"}
    /\ pc = "unmount" => why = "terminate"

\* g_gns_pid names the only engine there can be, and is reset before anything else stops.
GnsAt ==
    /\ \A p \in Pids : kind[p] = "gns" => p = gnsPid
    /\ pc \in BootPcs \ {"enter"} => gnsPid = NoPid
    /\ pc = "gnsWait" => gnsPid # NoPid
    /\ why = "terminate" /\ pc \in {"p9Stop", "p9Grace", "p9Wait", "unmount", "exited"}
        => gnsPid = NoPid

\* child_pid names the only server there can be, once it is forked and ready.
P9At ==
    /\ \A p \in Pids : kind[p] = "p9" => p = p9Pid \/ pc = "p9Ready"
    /\ \A p, q \in Pids : kind[p] = "p9" /\ kind[q] = "p9" => p = q
    /\ pc \in {"boot", "initialize", "p9Start", "p9Ready"} => p9Pid = NoPid
    /\ pc \in {"p9Grace", "p9Wait"} => p9Pid # NoPid
    /\ pc = "unmount" \/ (pc = "exited" /\ why = "terminate") => p9Pid = NoPid

\* The children whose death the pipe did not announce are dead, and died before signal().
DeathsAt ==
    /\ unnoticed \subseteq Zombies
    /\ ~handler => Zombies \subseteq unnoticed
    /\ pc \in BootPcs => ~handler

Count(s, m, n) == Cardinality({i \in 1..n : s[i] = m})

\* How many of the recorded mounts are still to be undone.
Undone == IF pc = "unmount" \/ (pc = "exited" /\ why = "terminate") THEN left ELSE Len(tracked)

\* Every mount point has a mount for each record still to be undone, and no other unless
\* it is one that cannot be swept.
MountAt ==
    /\ \A m \in Points :
          /\ mounted[m] >= Count(tracked, m, Undone)
          /\ m \notin unswept => mounted[m] = Count(tracked, m, Undone)
    /\ \A i \in 1..Len(tracked) : tracked[i] # Virtiofs
    /\ pc = "exited" /\ why = "terminate" => left = 0

ProcInv == ProcTypeOK /\ WhyAt /\ GnsAt /\ P9At
DeathInv == FlagTypeOK /\ ProcTypeOK /\ DeathsAt /\ NoLostDeath
MountInv == MountTypeOK /\ MountAt
IInv == ProcInv /\ DeathInv /\ HostTypeOK /\ MountInv

-----------------------------------------------------------------------------
(* Steps.                                                                  *)

\* The steps by name, for the case splits below.
LEMMA StepCases ==
  ASSUME [Next]_vars
  PROVE  \/ Boot
         \/ Initialize
         \/ InitializeFail
         \/ P9StartFail
         \/ Session
         \/ GnsStartFail
         \/ EnterLoop
         \/ Poll
         \/ Drain
         \/ Reap
         \/ Disconnect
         \/ HandleTerminateInstance
         \/ HandleRemountDrvfs
         \/ HandleVirtioFs
         \/ HandleStartSocketRelay
         \/ HandleOther
         \/ HandleStopPlan9("StopPlan9Force")
         \/ HandleStopPlan9("StopPlan9Graceful")
         \/ GnsStop
         \/ GnsStopNone
         \/ GnsWait
         \/ P9StopNone
         \/ P9Stop
         \/ P9Gone
         \/ P9Timeout
         \/ P9Wait
         \/ Unmount
         \/ Exit
         \/ \E p \in Pids : P9Fork(p)
         \/ \E p \in Pids : P9Started(p)
         \/ \E p \in Pids : GnsStart(p)
         \/ \E p \in Pids : P9Serve(p)
         \/ \E p \in Pids : Die(p)
         \/ \E p \in Pids : RelayWrites(p)
         \/ \E p \in Pids : OtherStarts(p)
         \/ \E m \in Requests : HostSend(m)
         \/ HostClose
         \/ SigTerm
         \/ \E m \in Requests : SigPipe(m)
         \/ UNCHANGED vars
  BY DEF Next, Hvinit, Handle

-----------------------------------------------------------------------------
(* The process table.                                                      *)

\* The values of pc, of the reason to end and of the process table.
LEMMA ProcTypeStep == ProcTypeOK /\ [Next]_vars => ProcTypeOK'
<1> SUFFICES ASSUME ProcTypeOK, [Next]_vars PROVE ProcTypeOK'
  OBVIOUS
<1>a. ProcTypeOK
  OBVIOUS
<1>1. CASE Boot
  BY <1>a, InitAssumption, <1>1 DEF Boot, ProcTypeOK, InLoop, Stopping, BootPcs, Children,
     Own, Live, Zombies, vars, procVars, p9Vars, sigVars
<1>2. CASE Initialize
  BY <1>a, InitAssumption, <1>2 DEF Initialize, ProcTypeOK, InLoop, Stopping, BootPcs,
     Children, Own, Live, Zombies, vars, procVars, p9Vars, sigVars
<1>3. CASE InitializeFail
  BY <1>a, InitAssumption, <1>3 DEF InitializeFail, ProcTypeOK, InLoop, Stopping, BootPcs,
     Children, Own, Live, Zombies, vars, procVars, p9Vars, sigVars
<1>4. CASE P9StartFail
  BY <1>a, InitAssumption, <1>4 DEF P9StartFail, ProcTypeOK, InLoop, Stopping, BootPcs,
     Children, Own, Live, Zombies, vars, procVars, p9Vars, sigVars
<1>5. CASE Session
  BY <1>a, InitAssumption, <1>5 DEF Session, ProcTypeOK, InLoop, Stopping, BootPcs,
     Children, Own, Live, Zombies, vars, procVars, p9Vars, sigVars
<1>6. CASE GnsStartFail
  BY <1>a, InitAssumption, <1>6 DEF GnsStartFail, ProcTypeOK, InLoop, Stopping, BootPcs,
     Children, Own, Live, Zombies, vars, procVars, p9Vars, sigVars
<1>7. CASE EnterLoop
  BY <1>a, InitAssumption, <1>7 DEF EnterLoop, ProcTypeOK, InLoop, Stopping, BootPcs,
     Children, Own, Live, Zombies, vars, procVars, p9Vars, sigVars
<1>8. CASE Poll
  BY <1>a, InitAssumption, <1>8 DEF Poll, ProcTypeOK, InLoop, Stopping, BootPcs, Children,
     Own, Live, Zombies, vars, procVars, p9Vars, sigVars
<1>9. CASE Drain
  BY <1>a, InitAssumption, <1>9 DEF Drain, ProcTypeOK, InLoop, Stopping, BootPcs, Children,
     Own, Live, Zombies, vars, procVars, p9Vars, sigVars
<1>10. CASE Reap
  BY <1>a, InitAssumption, <1>10 DEF Reap, Freed, ProcTypeOK, InLoop, Stopping, BootPcs,
     Children, Own, Live, Zombies, vars, procVars, p9Vars, sigVars
<1>11. CASE Disconnect
  BY <1>a, InitAssumption, <1>11 DEF Disconnect, ProcTypeOK, InLoop, Stopping, BootPcs,
     Children, Own, Live, Zombies, vars, procVars, p9Vars, sigVars
<1>12. CASE HandleTerminateInstance
  BY <1>a, InitAssumption, <1>12 DEF HandleTerminateInstance, Receive, ProcTypeOK, InLoop,
     Stopping, BootPcs, Children, Own, Live, Zombies, vars, procVars, p9Vars, sigVars
<1>13. CASE HandleRemountDrvfs
  BY <1>a, InitAssumption, <1>13 DEF HandleRemountDrvfs, Receive, ProcTypeOK, InLoop,
     Stopping, BootPcs, Children, Own, Live, Zombies, vars, procVars, p9Vars, sigVars
<1>14. CASE HandleVirtioFs
  BY <1>a, InitAssumption, <1>14 DEF HandleVirtioFs, Receive, ProcTypeOK, InLoop, Stopping,
     BootPcs, Children, Own, Live, Zombies, vars, procVars, p9Vars, sigVars
<1>15. CASE HandleStartSocketRelay
  BY <1>a, InitAssumption, <1>15 DEF HandleStartSocketRelay, Receive, Fork, ProcTypeOK,
     InLoop, Stopping, BootPcs, Children, Own, Live, Zombies, vars, procVars, p9Vars,
     sigVars
<1>16. CASE HandleOther
  BY <1>a, InitAssumption, <1>16 DEF HandleOther, Receive, ProcTypeOK, InLoop, Stopping,
     BootPcs, Children, Own, Live, Zombies, vars, procVars, p9Vars, sigVars
<1>17. CASE HandleStopPlan9("StopPlan9Force")
  BY <1>a, InitAssumption, <1>17 DEF HandleStopPlan9, Receive, ProcTypeOK, InLoop, Stopping,
     BootPcs, Children, Own, Live, Zombies, vars, procVars, p9Vars, sigVars
<1>18. CASE HandleStopPlan9("StopPlan9Graceful")
  BY <1>a, InitAssumption, <1>18 DEF HandleStopPlan9, Receive, ProcTypeOK, InLoop, Stopping,
     BootPcs, Children, Own, Live, Zombies, vars, procVars, p9Vars, sigVars
<1>19. CASE GnsStop
  BY <1>a, InitAssumption, <1>19 DEF GnsStop, Signal, ProcTypeOK, InLoop, Stopping, BootPcs,
     Children, Own, Live, Zombies, vars, procVars, p9Vars, sigVars
<1>20. CASE GnsStopNone
  BY <1>a, InitAssumption, <1>20 DEF GnsStopNone, AfterGns, ProcTypeOK, InLoop, Stopping,
     BootPcs, Children, Own, Live, Zombies, vars, procVars, p9Vars, sigVars
<1>21. CASE GnsWait
  BY <1>a, InitAssumption, <1>21 DEF GnsWait, Waited, Freed, AfterGns, ProcTypeOK, InLoop,
     Stopping, BootPcs, Children, Own, Live, Zombies, vars, procVars, p9Vars, sigVars
<1>22. CASE P9StopNone
  BY <1>a, InitAssumption, <1>22 DEF P9StopNone, AfterP9, ProcTypeOK, InLoop, Stopping,
     BootPcs, Children, Own, Live, Zombies, vars, procVars, p9Vars, sigVars
<1>23. CASE P9Stop
  BY <1>a, InitAssumption, <1>23 DEF P9Stop, Signal, ProcTypeOK, InLoop, Stopping, BootPcs,
     Children, Own, Live, Zombies, vars, procVars, p9Vars, sigVars
<1>24. CASE P9Gone
  BY <1>a, InitAssumption, <1>24 DEF P9Gone, Waited, Freed, ProcTypeOK, InLoop, Stopping,
     BootPcs, Children, Own, Live, Zombies, vars, procVars, p9Vars, sigVars
<1>25. CASE P9Timeout
  BY <1>a, InitAssumption, <1>25 DEF P9Timeout, Signal, ProcTypeOK, InLoop, Stopping,
     BootPcs, Children, Own, Live, Zombies, vars, procVars, p9Vars, sigVars
<1>26. CASE P9Wait
  BY <1>a, InitAssumption, <1>26 DEF P9Wait, Waited, Freed, AfterP9, ProcTypeOK, InLoop,
     Stopping, BootPcs, Children, Own, Live, Zombies, vars, procVars, p9Vars, sigVars
<1>27. CASE Unmount
  BY <1>a, InitAssumption, <1>27 DEF Unmount, ProcTypeOK, InLoop, Stopping, BootPcs,
     Children, Own, Live, Zombies, vars, procVars, p9Vars, sigVars
<1>28. CASE Exit
  BY <1>a, InitAssumption, <1>28 DEF Exit, ProcTypeOK, InLoop, Stopping, BootPcs, Children,
     Own, Live, Zombies, vars, procVars, p9Vars, sigVars
<1>29. CASE \E p \in Pids : P9Fork(p)
  BY <1>a, InitAssumption, <1>29 DEF P9Fork, Fork, ProcTypeOK, InLoop, Stopping, BootPcs,
     Children, Own, Live, Zombies, vars, procVars, p9Vars, sigVars
<1>30. CASE \E p \in Pids : P9Started(p)
  BY <1>a, InitAssumption, <1>30 DEF P9Started, ProcTypeOK, InLoop, Stopping, BootPcs,
     Children, Own, Live, Zombies, vars, procVars, p9Vars, sigVars
<1>31. CASE \E p \in Pids : GnsStart(p)
  BY <1>a, InitAssumption, <1>31 DEF GnsStart, Fork, ProcTypeOK, InLoop, Stopping, BootPcs,
     Children, Own, Live, Zombies, vars, procVars, p9Vars, sigVars
<1>32. CASE \E p \in Pids : P9Serve(p)
  BY <1>a, InitAssumption, <1>32 DEF P9Serve, ProcTypeOK, InLoop, Stopping, BootPcs,
     Children, Own, Live, Zombies, vars, procVars, p9Vars, sigVars
<1>33. CASE \E p \in Pids : Die(p)
  BY <1>a, InitAssumption, <1>33 DEF Die, Freed, ProcTypeOK, InLoop, Stopping, BootPcs,
     Children, Own, Live, Zombies, vars, procVars, p9Vars, sigVars
<1>34. CASE \E p \in Pids : RelayWrites(p)
  BY <1>a, InitAssumption, <1>34 DEF RelayWrites, ProcTypeOK, InLoop, Stopping, BootPcs,
     Children, Own, Live, Zombies, vars, procVars, p9Vars, sigVars
<1>35. CASE \E p \in Pids : OtherStarts(p)
  BY <1>a, InitAssumption, <1>35 DEF OtherStarts, Fork, ProcTypeOK, InLoop, Stopping,
     BootPcs, Children, Own, Live, Zombies, vars, procVars, p9Vars, sigVars
<1>36. CASE \E m \in Requests : HostSend(m)
  BY <1>a, InitAssumption, <1>36 DEF HostSend, ProcTypeOK, InLoop, Stopping, BootPcs,
     Children, Own, Live, Zombies, vars, procVars, p9Vars, sigVars
<1>37. CASE HostClose
  BY <1>a, InitAssumption, <1>37 DEF HostClose, ProcTypeOK, InLoop, Stopping, BootPcs,
     Children, Own, Live, Zombies, vars, procVars, p9Vars, sigVars
<1>38. CASE SigTerm
  BY <1>a, InitAssumption, <1>38 DEF SigTerm, ProcTypeOK, InLoop, Stopping, BootPcs,
     Children, Own, Live, Zombies, vars, procVars, p9Vars, sigVars
<1>39. CASE UNCHANGED vars
  BY <1>a, InitAssumption, <1>39 DEF ProcTypeOK, InLoop, Stopping, BootPcs, Children, Own,
     Live, Zombies, vars, procVars, p9Vars, sigVars
<1>40. CASE \E m \in Requests : SigPipe(m)
  BY <1>a, InitAssumption, <1>40 DEF SigPipe, Receive, ProcTypeOK, InLoop, Stopping, BootPcs,
     Children, Own, Live, Zombies, vars, procVars, p9Vars, sigVars
<1> QED
  BY <1>1, <1>2, <1>3, <1>4, <1>5, <1>6, <1>7, <1>8, <1>9, <1>10, <1>11, <1>12, <1>13,
     <1>14, <1>15, <1>16, <1>17, <1>18, <1>19, <1>20, <1>21, <1>22, <1>23, <1>24, <1>25,
     <1>26, <1>27, <1>28, <1>29, <1>30, <1>31, <1>32, <1>33, <1>34, <1>35, <1>36, <1>37,
     <1>38, <1>39, <1>40, StepCases

\* Which process the recorded pids name at each point of hvinit's life.
LEMMA ProcStep == ProcInv /\ [Next]_vars => ProcInv'
<1> SUFFICES ASSUME ProcInv, [Next]_vars PROVE WhyAt' /\ GnsAt' /\ P9At'
  BY ProcTypeStep DEF ProcInv
<1>a. ProcTypeOK /\ WhyAt /\ GnsAt /\ P9At
  BY DEF ProcInv
<1>1. CASE Boot
  BY <1>a, InitAssumption, <1>1 DEF Boot, ProcTypeOK, WhyAt, GnsAt, P9At, InLoop, Stopping,
     BootPcs, Children, Own, Live, Zombies, vars, procVars, p9Vars
<1>2. CASE Initialize
  BY <1>a, InitAssumption, <1>2 DEF Initialize, ProcTypeOK, WhyAt, GnsAt, P9At, InLoop,
     Stopping, BootPcs, Children, Own, Live, Zombies, vars, procVars, p9Vars
<1>3. CASE InitializeFail
  BY <1>a, InitAssumption, <1>3 DEF InitializeFail, ProcTypeOK, WhyAt, GnsAt, P9At, InLoop,
     Stopping, BootPcs, Children, Own, Live, Zombies, vars, procVars, p9Vars
<1>4. CASE P9StartFail
  BY <1>a, InitAssumption, <1>4 DEF P9StartFail, ProcTypeOK, WhyAt, GnsAt, P9At, InLoop,
     Stopping, BootPcs, Children, Own, Live, Zombies, vars, procVars, p9Vars
<1>5. CASE Session
  BY <1>a, InitAssumption, <1>5 DEF Session, ProcTypeOK, WhyAt, GnsAt, P9At, InLoop,
     Stopping, BootPcs, Children, Own, Live, Zombies, vars, procVars, p9Vars
<1>6. CASE GnsStartFail
  BY <1>a, InitAssumption, <1>6 DEF GnsStartFail, ProcTypeOK, WhyAt, GnsAt, P9At, InLoop,
     Stopping, BootPcs, Children, Own, Live, Zombies, vars, procVars, p9Vars
<1>7. CASE EnterLoop
  BY <1>a, InitAssumption, <1>7 DEF EnterLoop, ProcTypeOK, WhyAt, GnsAt, P9At, InLoop,
     Stopping, BootPcs, Children, Own, Live, Zombies, vars, procVars, p9Vars
<1>8. CASE Poll
  BY <1>a, InitAssumption, <1>8 DEF Poll, ProcTypeOK, WhyAt, GnsAt, P9At, InLoop, Stopping,
     BootPcs, Children, Own, Live, Zombies, vars, procVars, p9Vars
<1>9. CASE Drain
  BY <1>a, InitAssumption, <1>9 DEF Drain, ProcTypeOK, WhyAt, GnsAt, P9At, InLoop, Stopping,
     BootPcs, Children, Own, Live, Zombies, vars, procVars, p9Vars
<1>10. CASE Reap
  BY <1>a, InitAssumption, <1>10 DEF Reap, Freed, ProcTypeOK, WhyAt, GnsAt, P9At, InLoop,
     Stopping, BootPcs, Children, Own, Live, Zombies, vars, procVars, p9Vars
<1>11. CASE Disconnect
  BY <1>a, InitAssumption, <1>11 DEF Disconnect, ProcTypeOK, WhyAt, GnsAt, P9At, InLoop,
     Stopping, BootPcs, Children, Own, Live, Zombies, vars, procVars, p9Vars
<1>12. CASE HandleTerminateInstance
  BY <1>a, InitAssumption, <1>12 DEF HandleTerminateInstance, Receive, ProcTypeOK, WhyAt,
     GnsAt, P9At, InLoop, Stopping, BootPcs, Children, Own, Live, Zombies, vars, procVars,
     p9Vars
<1>13. CASE HandleRemountDrvfs
  BY <1>a, InitAssumption, <1>13 DEF HandleRemountDrvfs, Receive, ProcTypeOK, WhyAt, GnsAt,
     P9At, InLoop, Stopping, BootPcs, Children, Own, Live, Zombies, vars, procVars, p9Vars
<1>14. CASE HandleVirtioFs
  BY <1>a, InitAssumption, <1>14 DEF HandleVirtioFs, Receive, ProcTypeOK, WhyAt, GnsAt,
     P9At, InLoop, Stopping, BootPcs, Children, Own, Live, Zombies, vars, procVars, p9Vars
<1>15. CASE HandleStartSocketRelay
  BY <1>a, InitAssumption, <1>15 DEF HandleStartSocketRelay, Receive, Fork, ProcTypeOK,
     WhyAt, GnsAt, P9At, InLoop, Stopping, BootPcs, Children, Own, Live, Zombies, vars,
     procVars, p9Vars
<1>16. CASE HandleOther
  BY <1>a, InitAssumption, <1>16 DEF HandleOther, Receive, ProcTypeOK, WhyAt, GnsAt, P9At,
     InLoop, Stopping, BootPcs, Children, Own, Live, Zombies, vars, procVars, p9Vars
<1>17. CASE HandleStopPlan9("StopPlan9Force")
  BY <1>a, InitAssumption, <1>17 DEF HandleStopPlan9, Receive, ProcTypeOK, WhyAt, GnsAt,
     P9At, InLoop, Stopping, BootPcs, Children, Own, Live, Zombies, vars, procVars, p9Vars
<1>18. CASE HandleStopPlan9("StopPlan9Graceful")
  BY <1>a, InitAssumption, <1>18 DEF HandleStopPlan9, Receive, ProcTypeOK, WhyAt, GnsAt,
     P9At, InLoop, Stopping, BootPcs, Children, Own, Live, Zombies, vars, procVars, p9Vars
<1>19. CASE GnsStop
  BY <1>a, InitAssumption, <1>19 DEF GnsStop, Signal, ProcTypeOK, WhyAt, GnsAt, P9At,
     InLoop, Stopping, BootPcs, Children, Own, Live, Zombies, vars, procVars, p9Vars
<1>20. CASE GnsStopNone
  BY <1>a, InitAssumption, <1>20 DEF GnsStopNone, AfterGns, ProcTypeOK, WhyAt, GnsAt, P9At,
     InLoop, Stopping, BootPcs, Children, Own, Live, Zombies, vars, procVars, p9Vars
<1>21. CASE GnsWait
  BY <1>a, InitAssumption, <1>21 DEF GnsWait, Waited, Freed, AfterGns, ProcTypeOK, WhyAt,
     GnsAt, P9At, InLoop, Stopping, BootPcs, Children, Own, Live, Zombies, vars, procVars,
     p9Vars
<1>22. CASE P9StopNone
  BY <1>a, InitAssumption, <1>22 DEF P9StopNone, AfterP9, ProcTypeOK, WhyAt, GnsAt, P9At,
     InLoop, Stopping, BootPcs, Children, Own, Live, Zombies, vars, procVars, p9Vars
<1>23. CASE P9Stop
  BY <1>a, InitAssumption, <1>23 DEF P9Stop, Signal, ProcTypeOK, WhyAt, GnsAt, P9At, InLoop,
     Stopping, BootPcs, Children, Own, Live, Zombies, vars, procVars, p9Vars
<1>24. CASE P9Gone
  BY <1>a, InitAssumption, <1>24 DEF P9Gone, Waited, Freed, ProcTypeOK, WhyAt, GnsAt, P9At,
     InLoop, Stopping, BootPcs, Children, Own, Live, Zombies, vars, procVars, p9Vars
<1>25. CASE P9Timeout
  BY <1>a, InitAssumption, <1>25 DEF P9Timeout, Signal, ProcTypeOK, WhyAt, GnsAt, P9At,
     InLoop, Stopping, BootPcs, Children, Own, Live, Zombies, vars, procVars, p9Vars
<1>26. CASE P9Wait
  BY <1>a, InitAssumption, <1>26 DEF P9Wait, Waited, Freed, AfterP9, ProcTypeOK, WhyAt,
     GnsAt, P9At, InLoop, Stopping, BootPcs, Children, Own, Live, Zombies, vars, procVars,
     p9Vars
<1>27. CASE Unmount
  BY <1>a, InitAssumption, <1>27 DEF Unmount, ProcTypeOK, WhyAt, GnsAt, P9At, InLoop,
     Stopping, BootPcs, Children, Own, Live, Zombies, vars, procVars, p9Vars
<1>28. CASE Exit
  BY <1>a, InitAssumption, <1>28 DEF Exit, ProcTypeOK, WhyAt, GnsAt, P9At, InLoop, Stopping,
     BootPcs, Children, Own, Live, Zombies, vars, procVars, p9Vars
<1>29. CASE \E p \in Pids : P9Fork(p)
  BY <1>a, InitAssumption, <1>29 DEF P9Fork, Fork, ProcTypeOK, WhyAt, GnsAt, P9At, InLoop,
     Stopping, BootPcs, Children, Own, Live, Zombies, vars, procVars, p9Vars
<1>30. CASE \E p \in Pids : P9Started(p)
  BY <1>a, InitAssumption, <1>30 DEF P9Started, ProcTypeOK, WhyAt, GnsAt, P9At, InLoop,
     Stopping, BootPcs, Children, Own, Live, Zombies, vars, procVars, p9Vars
<1>31. CASE \E p \in Pids : GnsStart(p)
  BY <1>a, InitAssumption, <1>31 DEF GnsStart, Fork, ProcTypeOK, WhyAt, GnsAt, P9At, InLoop,
     Stopping, BootPcs, Children, Own, Live, Zombies, vars, procVars, p9Vars
<1>32. CASE \E p \in Pids : P9Serve(p)
  BY <1>a, InitAssumption, <1>32 DEF P9Serve, ProcTypeOK, WhyAt, GnsAt, P9At, InLoop,
     Stopping, BootPcs, Children, Own, Live, Zombies, vars, procVars, p9Vars
<1>33. CASE \E p \in Pids : Die(p)
  BY <1>a, InitAssumption, <1>33 DEF Die, Freed, ProcTypeOK, WhyAt, GnsAt, P9At, InLoop,
     Stopping, BootPcs, Children, Own, Live, Zombies, vars, procVars, p9Vars
<1>34. CASE \E p \in Pids : RelayWrites(p)
  BY <1>a, InitAssumption, <1>34 DEF RelayWrites, ProcTypeOK, WhyAt, GnsAt, P9At, InLoop,
     Stopping, BootPcs, Children, Own, Live, Zombies, vars, procVars, p9Vars
<1>35. CASE \E p \in Pids : OtherStarts(p)
  BY <1>a, InitAssumption, <1>35 DEF OtherStarts, Fork, ProcTypeOK, WhyAt, GnsAt, P9At,
     InLoop, Stopping, BootPcs, Children, Own, Live, Zombies, vars, procVars, p9Vars
<1>36. CASE \E m \in Requests : HostSend(m)
  BY <1>a, InitAssumption, <1>36 DEF HostSend, ProcTypeOK, WhyAt, GnsAt, P9At, InLoop,
     Stopping, BootPcs, Children, Own, Live, Zombies, vars, procVars, p9Vars
<1>37. CASE HostClose
  BY <1>a, InitAssumption, <1>37 DEF HostClose, ProcTypeOK, WhyAt, GnsAt, P9At, InLoop,
     Stopping, BootPcs, Children, Own, Live, Zombies, vars, procVars, p9Vars
<1>38. CASE SigTerm
  BY <1>a, InitAssumption, <1>38 DEF SigTerm, ProcTypeOK, WhyAt, GnsAt, P9At, InLoop,
     Stopping, BootPcs, Children, Own, Live, Zombies, vars, procVars, p9Vars
<1>39. CASE UNCHANGED vars
  BY <1>a, InitAssumption, <1>39 DEF ProcTypeOK, WhyAt, GnsAt, P9At, InLoop, Stopping,
     BootPcs, Children, Own, Live, Zombies, vars, procVars, p9Vars
<1>40. CASE \E m \in Requests : SigPipe(m)
  BY <1>a, InitAssumption, <1>40 DEF SigPipe, Receive, ProcTypeOK, WhyAt, GnsAt, P9At, InLoop,
     Stopping, BootPcs, Children, Own, Live, Zombies, vars, procVars, p9Vars
<1> QED
  BY <1>1, <1>2, <1>3, <1>4, <1>5, <1>6, <1>7, <1>8, <1>9, <1>10, <1>11, <1>12, <1>13,
     <1>14, <1>15, <1>16, <1>17, <1>18, <1>19, <1>20, <1>21, <1>22, <1>23, <1>24, <1>25,
     <1>26, <1>27, <1>28, <1>29, <1>30, <1>31, <1>32, <1>33, <1>34, <1>35, <1>36, <1>37,
     <1>38, <1>39, <1>40, StepCases

-----------------------------------------------------------------------------
(* The flags, the channel and the deaths.                                  *)

LEMMA FlagTypeStep == FlagTypeOK /\ [Next]_vars => FlagTypeOK'
<1> SUFFICES ASSUME FlagTypeOK, [Next]_vars PROVE FlagTypeOK'
  OBVIOUS
<1>a. FlagTypeOK
  OBVIOUS
<1>1. CASE Boot
  BY Zenon, <1>a, <1>1 DEF Boot, FlagTypeOK, sigVars, hostVars, vars, procVars,
     p9Vars
<1>2. CASE Initialize
  BY Zenon, <1>a, <1>2 DEF Initialize, FlagTypeOK, sigVars, hostVars, vars,
     procVars, p9Vars
<1>3. CASE InitializeFail
  BY Zenon, <1>a, <1>3 DEF InitializeFail, FlagTypeOK, sigVars, hostVars, vars,
     procVars, p9Vars
<1>4. CASE P9StartFail
  BY Zenon, <1>a, <1>4 DEF P9StartFail, FlagTypeOK, sigVars, hostVars, vars,
     procVars, p9Vars
<1>5. CASE Session
  BY Zenon, <1>a, <1>5 DEF Session, FlagTypeOK, sigVars, hostVars, vars, procVars,
     p9Vars
<1>6. CASE GnsStartFail
  BY Zenon, <1>a, <1>6 DEF GnsStartFail, FlagTypeOK, sigVars, hostVars, vars,
     procVars, p9Vars
<1>7. CASE EnterLoop
  BY Zenon, <1>a, <1>7 DEF EnterLoop, FlagTypeOK, sigVars, hostVars, vars,
     procVars, p9Vars
<1>8. CASE Poll
  BY Zenon, <1>a, <1>8 DEF Poll, FlagTypeOK, sigVars, hostVars, vars, procVars,
     p9Vars
<1>9. CASE Drain
  BY Zenon, <1>a, <1>9 DEF Drain, FlagTypeOK, sigVars, hostVars, vars, procVars,
     p9Vars
<1>10. CASE Reap
  BY Zenon, <1>a, <1>10 DEF Reap, Freed, FlagTypeOK, sigVars, hostVars, vars,
     procVars, p9Vars
<1>11. CASE Disconnect
  BY Zenon, <1>a, <1>11 DEF Disconnect, FlagTypeOK, sigVars, hostVars, vars,
     procVars, p9Vars
<1>12. CASE HandleTerminateInstance
  BY Zenon, <1>a, <1>12 DEF HandleTerminateInstance, Receive, FlagTypeOK, sigVars,
     hostVars, vars, procVars, p9Vars
<1>13. CASE HandleRemountDrvfs
  BY Zenon, <1>a, <1>13 DEF HandleRemountDrvfs, Receive, FlagTypeOK, sigVars,
     hostVars, vars, procVars, p9Vars
<1>14. CASE HandleVirtioFs
  BY Zenon, <1>a, <1>14 DEF HandleVirtioFs, Receive, FlagTypeOK, sigVars, hostVars,
     vars, procVars, p9Vars
<1>15. CASE HandleStartSocketRelay
  BY Zenon, <1>a, <1>15 DEF HandleStartSocketRelay, Receive, Fork, FlagTypeOK,
     sigVars, hostVars, vars, procVars, p9Vars
<1>16. CASE HandleOther
  BY Zenon, <1>a, <1>16 DEF HandleOther, Receive, FlagTypeOK, sigVars, hostVars,
     vars, procVars, p9Vars
<1>17. CASE HandleStopPlan9("StopPlan9Force")
  BY Zenon, <1>a, <1>17 DEF HandleStopPlan9, Receive, FlagTypeOK, sigVars,
     hostVars, vars, procVars, p9Vars
<1>18. CASE HandleStopPlan9("StopPlan9Graceful")
  BY Zenon, <1>a, <1>18 DEF HandleStopPlan9, Receive, FlagTypeOK, sigVars,
     hostVars, vars, procVars, p9Vars
<1>19. CASE GnsStop
  BY Zenon, <1>a, <1>19 DEF GnsStop, Signal, FlagTypeOK, sigVars, hostVars, vars,
     procVars, p9Vars
<1>20. CASE GnsStopNone
  BY Zenon, <1>a, <1>20 DEF GnsStopNone, AfterGns, FlagTypeOK, sigVars, hostVars,
     vars, procVars, p9Vars
<1>21. CASE GnsWait
  BY Zenon, <1>a, <1>21 DEF GnsWait, Waited, Freed, AfterGns, FlagTypeOK, sigVars,
     hostVars, vars, procVars, p9Vars
<1>22. CASE P9StopNone
  BY Zenon, <1>a, <1>22 DEF P9StopNone, AfterP9, FlagTypeOK, sigVars, hostVars,
     vars, procVars, p9Vars
<1>23. CASE P9Stop
  BY Zenon, <1>a, <1>23 DEF P9Stop, Signal, FlagTypeOK, sigVars, hostVars, vars,
     procVars, p9Vars
<1>24. CASE P9Gone
  BY Zenon, <1>a, <1>24 DEF P9Gone, Waited, Freed, FlagTypeOK, sigVars, hostVars,
     vars, procVars, p9Vars
<1>25. CASE P9Timeout
  BY Zenon, <1>a, <1>25 DEF P9Timeout, Signal, FlagTypeOK, sigVars, hostVars, vars,
     procVars, p9Vars
<1>26. CASE P9Wait
  BY Zenon, <1>a, <1>26 DEF P9Wait, Waited, Freed, AfterP9, FlagTypeOK, sigVars,
     hostVars, vars, procVars, p9Vars
<1>27. CASE Unmount
  BY Zenon, <1>a, <1>27 DEF Unmount, FlagTypeOK, sigVars, hostVars, vars, procVars,
     p9Vars
<1>28. CASE Exit
  BY Zenon, <1>a, <1>28 DEF Exit, FlagTypeOK, sigVars, hostVars, vars, procVars,
     p9Vars
<1>29. CASE \E p \in Pids : P9Fork(p)
  BY Zenon, <1>a, <1>29 DEF P9Fork, Fork, FlagTypeOK, sigVars, hostVars, vars,
     procVars, p9Vars
<1>30. CASE \E p \in Pids : P9Started(p)
  BY Zenon, <1>a, <1>30 DEF P9Started, FlagTypeOK, sigVars, hostVars, vars,
     procVars, p9Vars
<1>31. CASE \E p \in Pids : GnsStart(p)
  BY Zenon, <1>a, <1>31 DEF GnsStart, Fork, FlagTypeOK, sigVars, hostVars, vars,
     procVars, p9Vars
<1>32. CASE \E p \in Pids : P9Serve(p)
  BY Zenon, <1>a, <1>32 DEF P9Serve, FlagTypeOK, sigVars, hostVars, vars, procVars,
     p9Vars
<1>33. CASE \E p \in Pids : Die(p)
  BY Zenon, <1>a, <1>33 DEF Die, Freed, FlagTypeOK, sigVars, hostVars, vars,
     procVars, p9Vars
<1>34. CASE \E p \in Pids : RelayWrites(p)
  BY Zenon, <1>a, <1>34 DEF RelayWrites, FlagTypeOK, sigVars, hostVars, vars,
     procVars, p9Vars
<1>35. CASE \E p \in Pids : OtherStarts(p)
  BY Zenon, <1>a, <1>35 DEF OtherStarts, Fork, FlagTypeOK, sigVars, hostVars, vars,
     procVars, p9Vars
<1>36. CASE \E m \in Requests : HostSend(m)
  BY Zenon, <1>a, <1>36 DEF HostSend, FlagTypeOK, sigVars, hostVars, vars,
     procVars, p9Vars
<1>37. CASE HostClose
  BY Zenon, <1>a, <1>37 DEF HostClose, FlagTypeOK, sigVars, hostVars, vars,
     procVars, p9Vars
<1>38. CASE SigTerm
  BY Zenon, <1>a, <1>38 DEF SigTerm, FlagTypeOK, sigVars, hostVars, vars, procVars,
     p9Vars
<1>39. CASE UNCHANGED vars
  BY Zenon, <1>a, <1>39 DEF FlagTypeOK, sigVars, hostVars, vars, procVars, p9Vars
<1>40. CASE \E m \in Requests : SigPipe(m)
  BY Zenon, <1>a, <1>40 DEF SigPipe, Receive, FlagTypeOK, sigVars, hostVars, vars, procVars,
     p9Vars
<1> QED
  BY <1>1, <1>2, <1>3, <1>4, <1>5, <1>6, <1>7, <1>8, <1>9, <1>10, <1>11, <1>12, <1>13,
     <1>14, <1>15, <1>16, <1>17, <1>18, <1>19, <1>20, <1>21, <1>22, <1>23, <1>24, <1>25,
     <1>26, <1>27, <1>28, <1>29, <1>30, <1>31, <1>32, <1>33, <1>34, <1>35, <1>36, <1>37,
     <1>38, <1>39, <1>40, StepCases

LEMMA HostTypeStep == HostTypeOK /\ [Next]_vars => HostTypeOK'
<1> SUFFICES ASSUME HostTypeOK, [Next]_vars PROVE HostTypeOK'
  OBVIOUS
<1>a. HostTypeOK
  OBVIOUS
<1>1. CASE Boot
  BY <1>a, <1>1 DEF Boot, HostTypeOK, hostVars, vars, procVars, p9Vars
<1>2. CASE Initialize
  BY <1>a, <1>2 DEF Initialize, HostTypeOK, hostVars, vars, procVars, p9Vars
<1>3. CASE InitializeFail
  BY <1>a, <1>3 DEF InitializeFail, HostTypeOK, hostVars, vars, procVars,
     p9Vars
<1>4. CASE P9StartFail
  BY <1>a, <1>4 DEF P9StartFail, HostTypeOK, hostVars, vars, procVars,
     p9Vars
<1>5. CASE Session
  BY <1>a, <1>5 DEF Session, HostTypeOK, hostVars, vars, procVars, p9Vars
<1>6. CASE GnsStartFail
  BY <1>a, <1>6 DEF GnsStartFail, HostTypeOK, hostVars, vars, procVars,
     p9Vars
<1>7. CASE EnterLoop
  BY <1>a, <1>7 DEF EnterLoop, HostTypeOK, hostVars, vars, procVars, p9Vars
<1>8. CASE Poll
  BY <1>a, <1>8 DEF Poll, HostTypeOK, hostVars, vars, procVars, p9Vars
<1>9. CASE Drain
  BY <1>a, <1>9 DEF Drain, HostTypeOK, hostVars, vars, procVars, p9Vars
<1>10. CASE Reap
  BY <1>a, <1>10 DEF Reap, Freed, HostTypeOK, hostVars, vars, procVars,
     p9Vars
<1>11. CASE Disconnect
  BY <1>a, <1>11 DEF Disconnect, HostTypeOK, hostVars, vars, procVars,
     p9Vars
<1>12. CASE HandleTerminateInstance
  BY <1>a, <1>12 DEF HandleTerminateInstance, Receive, HostTypeOK, hostVars,
     vars, procVars, p9Vars
<1>13. CASE HandleRemountDrvfs
  BY <1>a, <1>13 DEF HandleRemountDrvfs, Receive, HostTypeOK, hostVars,
     vars, procVars, p9Vars
<1>14. CASE HandleVirtioFs
  BY <1>a, <1>14 DEF HandleVirtioFs, Receive, HostTypeOK, hostVars, vars,
     procVars, p9Vars
<1>15. CASE HandleStartSocketRelay
  BY <1>a, <1>15 DEF HandleStartSocketRelay, Receive, Fork, HostTypeOK,
     hostVars, vars, procVars, p9Vars
<1>16. CASE HandleOther
  BY <1>a, <1>16 DEF HandleOther, Receive, HostTypeOK, hostVars, vars,
     procVars, p9Vars
<1>17. CASE HandleStopPlan9("StopPlan9Force")
  BY <1>a, <1>17 DEF HandleStopPlan9, Receive, HostTypeOK, hostVars, vars,
     procVars, p9Vars
<1>18. CASE HandleStopPlan9("StopPlan9Graceful")
  BY <1>a, <1>18 DEF HandleStopPlan9, Receive, HostTypeOK, hostVars, vars,
     procVars, p9Vars
<1>19. CASE GnsStop
  BY <1>a, <1>19 DEF GnsStop, Signal, HostTypeOK, hostVars, vars, procVars,
     p9Vars
<1>20. CASE GnsStopNone
  BY <1>a, <1>20 DEF GnsStopNone, AfterGns, HostTypeOK, hostVars, vars,
     procVars, p9Vars
<1>21. CASE GnsWait
  BY <1>a, <1>21 DEF GnsWait, Waited, Freed, AfterGns, HostTypeOK, hostVars,
     vars, procVars, p9Vars
<1>22. CASE P9StopNone
  BY <1>a, <1>22 DEF P9StopNone, AfterP9, HostTypeOK, hostVars, vars,
     procVars, p9Vars
<1>23. CASE P9Stop
  BY <1>a, <1>23 DEF P9Stop, Signal, HostTypeOK, hostVars, vars, procVars,
     p9Vars
<1>24. CASE P9Gone
  BY <1>a, <1>24 DEF P9Gone, Waited, Freed, HostTypeOK, hostVars, vars,
     procVars, p9Vars
<1>25. CASE P9Timeout
  BY <1>a, <1>25 DEF P9Timeout, Signal, HostTypeOK, hostVars, vars,
     procVars, p9Vars
<1>26. CASE P9Wait
  BY <1>a, <1>26 DEF P9Wait, Waited, Freed, AfterP9, HostTypeOK, hostVars,
     vars, procVars, p9Vars
<1>27. CASE Unmount
  BY <1>a, <1>27 DEF Unmount, HostTypeOK, hostVars, vars, procVars, p9Vars
<1>28. CASE Exit
  BY <1>a, <1>28 DEF Exit, HostTypeOK, hostVars, vars, procVars, p9Vars
<1>29. CASE \E p \in Pids : P9Fork(p)
  BY <1>a, <1>29 DEF P9Fork, Fork, HostTypeOK, hostVars, vars, procVars,
     p9Vars
<1>30. CASE \E p \in Pids : P9Started(p)
  BY <1>a, <1>30 DEF P9Started, HostTypeOK, hostVars, vars, procVars, p9Vars
<1>31. CASE \E p \in Pids : GnsStart(p)
  BY <1>a, <1>31 DEF GnsStart, Fork, HostTypeOK, hostVars, vars, procVars,
     p9Vars
<1>32. CASE \E p \in Pids : P9Serve(p)
  BY <1>a, <1>32 DEF P9Serve, HostTypeOK, hostVars, vars, procVars, p9Vars
<1>33. CASE \E p \in Pids : Die(p)
  BY <1>a, <1>33 DEF Die, Freed, HostTypeOK, hostVars, vars, procVars,
     p9Vars
<1>34. CASE \E p \in Pids : RelayWrites(p)
  BY <1>a, <1>34 DEF RelayWrites, HostTypeOK, hostVars, vars, procVars,
     p9Vars
<1>35. CASE \E p \in Pids : OtherStarts(p)
  BY <1>a, <1>35 DEF OtherStarts, Fork, HostTypeOK, hostVars, vars,
     procVars, p9Vars
<1>36. CASE \E m \in Requests : HostSend(m)
  BY <1>a, <1>36 DEF HostSend, HostTypeOK, hostVars, vars, procVars, p9Vars
<1>37. CASE HostClose
  BY <1>a, <1>37 DEF HostClose, HostTypeOK, hostVars, vars, procVars, p9Vars
<1>38. CASE SigTerm
  BY <1>a, <1>38 DEF SigTerm, HostTypeOK, hostVars, vars, procVars, p9Vars
<1>39. CASE UNCHANGED vars
  BY <1>a, <1>39 DEF HostTypeOK, hostVars, vars, procVars, p9Vars
<1>40. CASE \E m \in Requests : SigPipe(m)
  BY <1>a, <1>40 DEF SigPipe, Receive, HostTypeOK, hostVars, vars, procVars, p9Vars
<1> QED
  BY <1>1, <1>2, <1>3, <1>4, <1>5, <1>6, <1>7, <1>8, <1>9, <1>10, <1>11, <1>12, <1>13,
     <1>14, <1>15, <1>16, <1>17, <1>18, <1>19, <1>20, <1>21, <1>22, <1>23, <1>24, <1>25,
     <1>26, <1>27, <1>28, <1>29, <1>30, <1>31, <1>32, <1>33, <1>34, <1>35, <1>36, <1>37,
     <1>38, <1>39, <1>40, StepCases

\* The pipe and the set of unnoticed children follow every death, fork and wait.
LEMMA DeathStep == DeathInv /\ [Next]_vars => DeathInv'
<1> SUFFICES ASSUME DeathInv, [Next]_vars PROVE DeathsAt' /\ NoLostDeath'
  BY ProcTypeStep, FlagTypeStep DEF DeathInv
<1>a. FlagTypeOK /\ ProcTypeOK /\ DeathsAt /\ NoLostDeath
  BY DEF DeathInv
<1>1. CASE Boot
  BY <1>a, InitAssumption, <1>1 DEF Boot, FlagTypeOK, ProcTypeOK, DeathsAt, NoLostDeath,
     sigVars, InLoop, Stopping, BootPcs, Children, Own, Live, Zombies, vars, procVars,
     p9Vars
<1>2. CASE Initialize
  BY <1>a, InitAssumption, <1>2 DEF Initialize, FlagTypeOK, ProcTypeOK, DeathsAt,
     NoLostDeath, sigVars, InLoop, Stopping, BootPcs, Children, Own, Live, Zombies, vars,
     procVars, p9Vars
<1>3. CASE InitializeFail
  BY <1>a, InitAssumption, <1>3 DEF InitializeFail, FlagTypeOK, ProcTypeOK, DeathsAt,
     NoLostDeath, sigVars, InLoop, Stopping, BootPcs, Children, Own, Live, Zombies, vars,
     procVars, p9Vars
<1>4. CASE P9StartFail
  BY <1>a, InitAssumption, <1>4 DEF P9StartFail, FlagTypeOK, ProcTypeOK, DeathsAt,
     NoLostDeath, sigVars, InLoop, Stopping, BootPcs, Children, Own, Live, Zombies, vars,
     procVars, p9Vars
<1>5. CASE Session
  BY <1>a, InitAssumption, <1>5 DEF Session, FlagTypeOK, ProcTypeOK, DeathsAt, NoLostDeath,
     sigVars, InLoop, Stopping, BootPcs, Children, Own, Live, Zombies, vars, procVars,
     p9Vars
<1>6. CASE GnsStartFail
  BY <1>a, InitAssumption, <1>6 DEF GnsStartFail, FlagTypeOK, ProcTypeOK, DeathsAt,
     NoLostDeath, sigVars, InLoop, Stopping, BootPcs, Children, Own, Live, Zombies, vars,
     procVars, p9Vars
<1>7. CASE EnterLoop
  BY <1>a, InitAssumption, <1>7 DEF EnterLoop, FlagTypeOK, ProcTypeOK, DeathsAt,
     NoLostDeath, sigVars, InLoop, Stopping, BootPcs, Children, Own, Live, Zombies, vars,
     procVars, p9Vars
<1>8. CASE Poll
  BY <1>a, InitAssumption, <1>8 DEF Poll, FlagTypeOK, ProcTypeOK, DeathsAt, NoLostDeath,
     sigVars, InLoop, Stopping, BootPcs, Children, Own, Live, Zombies, vars, procVars,
     p9Vars
<1>9. CASE Drain
  BY <1>a, InitAssumption, <1>9 DEF Drain, FlagTypeOK, ProcTypeOK, DeathsAt, NoLostDeath,
     sigVars, InLoop, Stopping, BootPcs, Children, Own, Live, Zombies, vars, procVars,
     p9Vars
<1>10. CASE Reap
  BY <1>a, InitAssumption, <1>10 DEF Reap, Freed, FlagTypeOK, ProcTypeOK, DeathsAt,
     NoLostDeath, sigVars, InLoop, Stopping, BootPcs, Children, Own, Live, Zombies, vars,
     procVars, p9Vars
<1>11. CASE Disconnect
  BY <1>a, InitAssumption, <1>11 DEF Disconnect, FlagTypeOK, ProcTypeOK, DeathsAt,
     NoLostDeath, sigVars, InLoop, Stopping, BootPcs, Children, Own, Live, Zombies, vars,
     procVars, p9Vars
<1>12. CASE HandleTerminateInstance
  BY <1>a, InitAssumption, <1>12 DEF HandleTerminateInstance, Receive, FlagTypeOK,
     ProcTypeOK, DeathsAt, NoLostDeath, sigVars, InLoop, Stopping, BootPcs, Children, Own,
     Live, Zombies, vars, procVars, p9Vars
<1>13. CASE HandleRemountDrvfs
  BY <1>a, InitAssumption, <1>13 DEF HandleRemountDrvfs, Receive, FlagTypeOK, ProcTypeOK,
     DeathsAt, NoLostDeath, sigVars, InLoop, Stopping, BootPcs, Children, Own, Live,
     Zombies, vars, procVars, p9Vars
<1>14. CASE HandleVirtioFs
  BY <1>a, InitAssumption, <1>14 DEF HandleVirtioFs, Receive, FlagTypeOK, ProcTypeOK,
     DeathsAt, NoLostDeath, sigVars, InLoop, Stopping, BootPcs, Children, Own, Live,
     Zombies, vars, procVars, p9Vars
<1>15. CASE HandleStartSocketRelay
  BY <1>a, InitAssumption, <1>15 DEF HandleStartSocketRelay, Receive, Fork, FlagTypeOK,
     ProcTypeOK, DeathsAt, NoLostDeath, sigVars, InLoop, Stopping, BootPcs, Children, Own,
     Live, Zombies, vars, procVars, p9Vars
<1>16. CASE HandleOther
  BY <1>a, InitAssumption, <1>16 DEF HandleOther, Receive, FlagTypeOK, ProcTypeOK, DeathsAt,
     NoLostDeath, sigVars, InLoop, Stopping, BootPcs, Children, Own, Live, Zombies, vars,
     procVars, p9Vars
<1>17. CASE HandleStopPlan9("StopPlan9Force")
  BY <1>a, InitAssumption, <1>17 DEF HandleStopPlan9, Receive, FlagTypeOK, ProcTypeOK,
     DeathsAt, NoLostDeath, sigVars, InLoop, Stopping, BootPcs, Children, Own, Live,
     Zombies, vars, procVars, p9Vars
<1>18. CASE HandleStopPlan9("StopPlan9Graceful")
  BY <1>a, InitAssumption, <1>18 DEF HandleStopPlan9, Receive, FlagTypeOK, ProcTypeOK,
     DeathsAt, NoLostDeath, sigVars, InLoop, Stopping, BootPcs, Children, Own, Live,
     Zombies, vars, procVars, p9Vars
<1>19. CASE GnsStop
  BY <1>a, InitAssumption, <1>19 DEF GnsStop, Signal, FlagTypeOK, ProcTypeOK, DeathsAt,
     NoLostDeath, sigVars, InLoop, Stopping, BootPcs, Children, Own, Live, Zombies, vars,
     procVars, p9Vars
<1>20. CASE GnsStopNone
  BY <1>a, InitAssumption, <1>20 DEF GnsStopNone, AfterGns, FlagTypeOK, ProcTypeOK,
     DeathsAt, NoLostDeath, sigVars, InLoop, Stopping, BootPcs, Children, Own, Live,
     Zombies, vars, procVars, p9Vars
<1>21. CASE GnsWait
  BY <1>a, InitAssumption, <1>21 DEF GnsWait, Waited, Freed, AfterGns, FlagTypeOK,
     ProcTypeOK, DeathsAt, NoLostDeath, sigVars, InLoop, Stopping, BootPcs, Children, Own,
     Live, Zombies, vars, procVars, p9Vars
<1>22. CASE P9StopNone
  BY <1>a, InitAssumption, <1>22 DEF P9StopNone, AfterP9, FlagTypeOK, ProcTypeOK, DeathsAt,
     NoLostDeath, sigVars, InLoop, Stopping, BootPcs, Children, Own, Live, Zombies, vars,
     procVars, p9Vars
<1>23. CASE P9Stop
  BY <1>a, InitAssumption, <1>23 DEF P9Stop, Signal, FlagTypeOK, ProcTypeOK, DeathsAt,
     NoLostDeath, sigVars, InLoop, Stopping, BootPcs, Children, Own, Live, Zombies, vars,
     procVars, p9Vars
<1>24. CASE P9Gone
  BY <1>a, InitAssumption, <1>24 DEF P9Gone, Waited, Freed, FlagTypeOK, ProcTypeOK,
     DeathsAt, NoLostDeath, sigVars, InLoop, Stopping, BootPcs, Children, Own, Live,
     Zombies, vars, procVars, p9Vars
<1>25. CASE P9Timeout
  BY <1>a, InitAssumption, <1>25 DEF P9Timeout, Signal, FlagTypeOK, ProcTypeOK, DeathsAt,
     NoLostDeath, sigVars, InLoop, Stopping, BootPcs, Children, Own, Live, Zombies, vars,
     procVars, p9Vars
<1>26. CASE P9Wait
  BY <1>a, InitAssumption, <1>26 DEF P9Wait, Waited, Freed, AfterP9, FlagTypeOK, ProcTypeOK,
     DeathsAt, NoLostDeath, sigVars, InLoop, Stopping, BootPcs, Children, Own, Live,
     Zombies, vars, procVars, p9Vars
<1>27. CASE Unmount
  BY <1>a, InitAssumption, <1>27 DEF Unmount, FlagTypeOK, ProcTypeOK, DeathsAt, NoLostDeath,
     sigVars, InLoop, Stopping, BootPcs, Children, Own, Live, Zombies, vars, procVars,
     p9Vars
<1>28. CASE Exit
  BY <1>a, InitAssumption, <1>28 DEF Exit, FlagTypeOK, ProcTypeOK, DeathsAt, NoLostDeath,
     sigVars, InLoop, Stopping, BootPcs, Children, Own, Live, Zombies, vars, procVars,
     p9Vars
<1>29. CASE \E p \in Pids : P9Fork(p)
  BY <1>a, InitAssumption, <1>29 DEF P9Fork, Fork, FlagTypeOK, ProcTypeOK, DeathsAt,
     NoLostDeath, sigVars, InLoop, Stopping, BootPcs, Children, Own, Live, Zombies, vars,
     procVars, p9Vars
<1>30. CASE \E p \in Pids : P9Started(p)
  BY <1>a, InitAssumption, <1>30 DEF P9Started, FlagTypeOK, ProcTypeOK, DeathsAt,
     NoLostDeath, sigVars, InLoop, Stopping, BootPcs, Children, Own, Live, Zombies, vars,
     procVars, p9Vars
<1>31. CASE \E p \in Pids : GnsStart(p)
  BY <1>a, InitAssumption, <1>31 DEF GnsStart, Fork, FlagTypeOK, ProcTypeOK, DeathsAt,
     NoLostDeath, sigVars, InLoop, Stopping, BootPcs, Children, Own, Live, Zombies, vars,
     procVars, p9Vars
<1>32. CASE \E p \in Pids : P9Serve(p)
  BY <1>a, InitAssumption, <1>32 DEF P9Serve, FlagTypeOK, ProcTypeOK, DeathsAt, NoLostDeath,
     sigVars, InLoop, Stopping, BootPcs, Children, Own, Live, Zombies, vars, procVars,
     p9Vars
<1>33. CASE \E p \in Pids : Die(p)
  BY <1>a, InitAssumption, <1>33 DEF Die, Freed, FlagTypeOK, ProcTypeOK, DeathsAt,
     NoLostDeath, sigVars, InLoop, Stopping, BootPcs, Children, Own, Live, Zombies, vars,
     procVars, p9Vars
<1>34. CASE \E p \in Pids : RelayWrites(p)
  BY <1>a, InitAssumption, <1>34 DEF RelayWrites, FlagTypeOK, ProcTypeOK, DeathsAt,
     NoLostDeath, sigVars, InLoop, Stopping, BootPcs, Children, Own, Live, Zombies, vars,
     procVars, p9Vars
<1>35. CASE \E p \in Pids : OtherStarts(p)
  BY <1>a, InitAssumption, <1>35 DEF OtherStarts, Fork, FlagTypeOK, ProcTypeOK, DeathsAt,
     NoLostDeath, sigVars, InLoop, Stopping, BootPcs, Children, Own, Live, Zombies, vars,
     procVars, p9Vars
<1>36. CASE \E m \in Requests : HostSend(m)
  BY <1>a, InitAssumption, <1>36 DEF HostSend, FlagTypeOK, ProcTypeOK, DeathsAt,
     NoLostDeath, sigVars, InLoop, Stopping, BootPcs, Children, Own, Live, Zombies, vars,
     procVars, p9Vars
<1>37. CASE HostClose
  BY <1>a, InitAssumption, <1>37 DEF HostClose, FlagTypeOK, ProcTypeOK, DeathsAt,
     NoLostDeath, sigVars, InLoop, Stopping, BootPcs, Children, Own, Live, Zombies, vars,
     procVars, p9Vars
<1>38. CASE SigTerm
  BY <1>a, InitAssumption, <1>38 DEF SigTerm, FlagTypeOK, ProcTypeOK, DeathsAt, NoLostDeath,
     sigVars, InLoop, Stopping, BootPcs, Children, Own, Live, Zombies, vars, procVars,
     p9Vars
<1>39. CASE UNCHANGED vars
  BY <1>a, InitAssumption, <1>39 DEF FlagTypeOK, ProcTypeOK, DeathsAt, NoLostDeath, sigVars,
     InLoop, Stopping, BootPcs, Children, Own, Live, Zombies, vars, procVars, p9Vars
<1>40. CASE \E m \in Requests : SigPipe(m)
  BY <1>a, InitAssumption, <1>40 DEF SigPipe, Receive, FlagTypeOK, ProcTypeOK, DeathsAt, NoLostDeath,
     sigVars, InLoop, Stopping, BootPcs, Children, Own, Live, Zombies, vars, procVars,
     p9Vars
<1> QED
  BY <1>1, <1>2, <1>3, <1>4, <1>5, <1>6, <1>7, <1>8, <1>9, <1>10, <1>11, <1>12, <1>13,
     <1>14, <1>15, <1>16, <1>17, <1>18, <1>19, <1>20, <1>21, <1>22, <1>23, <1>24, <1>25,
     <1>26, <1>27, <1>28, <1>29, <1>30, <1>31, <1>32, <1>33, <1>34, <1>35, <1>36, <1>37,
     <1>38, <1>39, <1>40, StepCases

-----------------------------------------------------------------------------
(* The mounts.                                                             *)

\* Occurrences can be counted.
LEMMA CountFinite ==
  ASSUME NEW n \in Nat, NEW T \in SUBSET (1..n)
  PROVE  IsFiniteSet(T)
<1>1. IsFiniteSet(1..n)
  BY FS_Interval
<1> QED
  BY <1>1, FS_Subset

LEMMA CountNat ==
  ASSUME NEW s, NEW m, NEW n \in Nat
  PROVE  Count(s, m, n) \in Nat
<1> DEFINE I == {i \in 1..n : s[i] = m}
<1>1. I \in SUBSET (1..n)
  OBVIOUS
<1>2. Count(s, m, n) = Cardinality(I)
  BY DEF Count
<1> HIDE DEF I
<1> QED
  BY <1>1, <1>2, CountFinite, FS_CardinalityType

\* The last of n elements counts once.
LEMMA CountLast ==
  ASSUME NEW s, NEW m, NEW n \in Nat, n > 0
  PROVE  Count(s, m, n) = IF s[n] = m THEN Count(s, m, n - 1) + 1 ELSE Count(s, m, n - 1)
<1> DEFINE I(k) == {i \in 1..k : s[i] = m}
<1>1. IsFiniteSet(I(n - 1)) /\ n \notin I(n - 1)
  <2>1. n - 1 \in Nat /\ I(n - 1) \in SUBSET (1..(n - 1))
    OBVIOUS
  <2>2. n \notin I(n - 1)
    OBVIOUS
  <2> HIDE DEF I
  <2> QED
    BY <2>1, <2>2, CountFinite
<1>2. CASE s[n] = m
  <2>1. I(n) = I(n - 1) \cup {n}
    BY <1>2
  <2> QED
    BY <1>1, <1>2, <2>1, FS_AddElement DEF Count
<1>3. CASE s[n] # m
  <2>1. I(n) = I(n - 1)
    BY <1>3
  <2> QED
    BY <1>3, <2>1 DEF Count
<1> QED
  BY <1>2, <1>3

\* New mounts are recorded in some order, each of them once.
LEMMA OrderOnto ==
  ASSUME NEW points, IsFiniteSet(points), points \subseteq Nat, NEW s \in InOrder(points)
  PROVE  /\ s \in Seq(points) /\ Len(s) = Cardinality(points)
         /\ \A m \in points : \E k \in 1..Len(s) : s[k] = m
         /\ \A k, l \in 1..Len(s) : s[k] = s[l] => k = l
<1>1. Cardinality(points) \in Nat
  BY FS_CardinalityType
<1>2. s \in [1..Cardinality(points) -> points] /\ DOMAIN s = 1..Cardinality(points)
  BY DEF InOrder
<1>3. \A k, l \in 1..Cardinality(points) : s[k] = s[l] => k = l
  <2> SUFFICES ASSUME NEW k \in 1..Cardinality(points), NEW l \in 1..Cardinality(points), k < l
               PROVE  s[k] # s[l]
    BY <1>1
  <2>1. s[k] < s[l]
    BY <1>2 DEF InOrder
  <2>2. s[k] \in Nat /\ s[l] \in Nat
    BY <1>2
  <2> QED
    BY <2>1, <2>2
<1>4. s \in Injection(1..Cardinality(points), points)
  BY <1>2, <1>3 DEF Injection, IsInjective
<1>5. Cardinality(1..Cardinality(points)) = Cardinality(points)
  BY <1>1, FS_Interval
<1>6. s \in Surjection(1..Cardinality(points), points)
  BY <1>4, <1>5, FS_Injection
<1>7. s \in Seq(points) /\ Len(s) = Cardinality(points)
  BY <1>1, <1>2
<1> QED
  BY <1>3, <1>6, <1>7 DEF Surjection

\* t is the first r of a records s and b different new ones.
Extends(t, r, s, a, new, b) ==
    /\ a \in Nat /\ b \in Nat /\ r \in a..(a + b)
    /\ \A i \in 1..r : t[i] = IF i <= a THEN s[i] ELSE new[i - a]
    /\ \A k, l \in 1..b : new[k] = new[l] => k = l

\* What did not fit.
Lost(all, room) == {all[i] : i \in (room + 1)..Len(all)}

\* The record of a mount in points is t's, and not s's, unless it is among the lost.
Accounted(t, lost, room, s, points) ==
    \A m : /\ m \notin points => Count(t, m, room) = Count(s, m, Len(s))
           /\ m \in points \ lost => Count(t, m, room) = Count(s, m, Len(s)) + 1
           /\ Count(t, m, room) <= Count(s, m, Len(s)) + 1

LEMMA CountExtend ==
  ASSUME NEW a, NEW b, NEW r, NEW s, NEW new, NEW t, NEW m, Extends(t, r, s, a, new, b)
  PROVE  /\ (\A k \in 1..b : new[k] = m => a + k > r) => Count(t, m, r) = Count(s, m, a)
         /\ (\E k \in 1..b : new[k] = m /\ a + k <= r) => Count(t, m, r) = Count(s, m, a) + 1
<1> DEFINE I == {i \in 1..a : s[i] = m}
           J == {i \in 1..r : t[i] = m}
<1> USE DEF Extends
<1>1. IsFiniteSet(I) /\ Count(s, m, a) = Cardinality(I) /\ Count(t, m, r) = Cardinality(J)
  <2>1. I \in SUBSET (1..a)
    OBVIOUS
  <2> QED
    BY <2>1, CountFinite DEF Count
<1>2. ASSUME \A k \in 1..b : new[k] = m => a + k > r PROVE J = I
  <2>1. ASSUME NEW i \in 1..r, t[i] = m PROVE i <= a
    <3>1. SUFFICES ASSUME i > a PROVE FALSE
      OBVIOUS
    <3>2. i - a \in 1..b /\ new[i - a] = m
      BY <2>1, <3>1
    <3>3. a + (i - a) > r
      BY <1>2, <3>2
    <3> QED
      BY <3>3
  <2> QED
    BY <2>1
<1>3. ASSUME NEW k \in 1..b, new[k] = m, a + k <= r PROVE J = I \cup {a + k}
  <2>1. ASSUME NEW i \in 1..r, t[i] = m, i > a PROVE i = a + k
    <3>1. i - a \in 1..b /\ new[i - a] = m
      BY <2>1
    <3>2. i - a = k
      BY <1>3, <3>1
    <3> QED
      BY <3>2
  <2>2. a + k \in 1..r /\ t[a + k] = m
    <3>1. a + k \in 1..r /\ ~(a + k <= a) /\ (a + k) - a = k
      BY <1>3
    <3> QED
      BY <1>3, <3>1
  <2> QED
    BY <2>1, <2>2
<1>4. \A k \in 1..b : a + k \notin I
  OBVIOUS
<1> HIDE DEF I, J
<1> QED
  BY <1>1, <1>2, <1>3, <1>4, FS_AddElement, SMTT(40)

\* One mount more is one record more, unless the table is full: then it is known as unswept.
LEMMA CountTracked ==
  ASSUME NEW points, IsFiniteSet(points), points \subseteq Nat, NEW new \in InOrder(points),
         NEW s \in Seq(Nat), NEW room \in Nat, Len(s) <= room, room <= Len(s) + Len(new),
         NEW all, all = s \o new, NEW t, t = SubSeq(all, 1, room),
         NEW lost, lost = Lost(all, room)
  PROVE  /\ \A i \in 1..room : t[i] = IF i <= Len(s) THEN s[i] ELSE new[i - Len(s)]
         /\ Accounted(t, lost, room, s, points)
<1>1. new \in Seq(points) /\ new \in Seq(Nat)
  BY OrderOnto, SeqMonotonic
<1>2. /\ \A k, l \in 1..Len(new) : new[k] = new[l] => k = l
      /\ \A x \in points : \E k \in 1..Len(new) : new[k] = x
  BY OrderOnto, ZenonT(40)
<1>3. Len(s) \in Nat /\ Len(new) \in Nat /\ \A k \in 1..Len(new) : new[k] \in points
  BY <1>1
<1>4. /\ all \in Seq(Nat) /\ Len(all) = Len(s) + Len(new)
      /\ \A i \in 1..(Len(s) + Len(new)) : all[i] = IF i <= Len(s) THEN s[i] ELSE new[i - Len(s)]
  BY <1>1, ConcatProperties
<1>5. \A i \in 1..Len(all) : all[i] \in Nat
  BY <1>4
<1>6. \A i \in 1..room : t[i] = all[i]
  <2>1. \A i \in 1..room : all[i] \in Nat
    BY <1>3, <1>4, <1>5
  <2>2. \A i \in 1..(room - 1 + 1) : t[i] = all[1 + i - 1]
    BY <2>1, SubSeqProperties
  <2> QED
    BY <2>2
<1>7. \A i \in (room + 1)..Len(all) : all[i] \in lost
  BY DEF Lost
<1>8. \A i \in 1..room : t[i] = IF i <= Len(s) THEN s[i] ELSE new[i - Len(s)]
  BY <1>3, <1>4, <1>6
<1> SUFFICES ASSUME NEW m
             PROVE  /\ m \notin points => Count(t, m, room) = Count(s, m, Len(s))
                    /\ m \in points \ lost => Count(t, m, room) = Count(s, m, Len(s)) + 1
                    /\ Count(t, m, room) <= Count(s, m, Len(s)) + 1
  BY <1>8 DEF Accounted
<1>9. /\ (\A k \in 1..Len(new) : new[k] = m => Len(s) + k > room)
           => Count(t, m, room) = Count(s, m, Len(s))
      /\ (\E k \in 1..Len(new) : new[k] = m /\ Len(s) + k <= room)
           => Count(t, m, room) = Count(s, m, Len(s)) + 1
  <2>1. room \in Len(s)..(Len(s) + Len(new))
    BY <1>3
  <2> QED
    <3>1. Extends(t, room, s, Len(s), new, Len(new))
      BY <1>2, <1>3, <1>8, <2>1 DEF Extends
    <3> QED
      BY <3>1, CountExtend
<1>10. Count(s, m, Len(s)) \in Nat
  BY <1>3, CountNat
<1>11. CASE \A k \in 1..Len(new) : new[k] = m => Len(s) + k > room
  <2>1. ASSUME m \in points PROVE m \in lost
    <3>1. PICK k \in 1..Len(new) : new[k] = m
      BY <1>2, <2>1
    <3>2. Len(s) + k \in (room + 1)..Len(all) /\ all[Len(s) + k] = m
      <4>1. Len(s) + k \in 1..(Len(s) + Len(new)) /\ ~(Len(s) + k <= Len(s))
            /\ (Len(s) + k) - Len(s) = k /\ Len(s) + k >= room + 1
        BY <1>3, <1>11, <3>1
      <4> QED
        BY <1>3, <1>4, <3>1, <4>1
    <3> QED
      BY <1>7, <3>2
  <2> QED
    BY <1>9, <1>10, <1>11, <2>1
<1>12. CASE \E k \in 1..Len(new) : new[k] = m /\ Len(s) + k <= room
  <2>1. m \in points
    BY <1>3, <1>12
  <2> QED
    BY <1>9, <1>10, <1>12, <2>1
<1> QED
  BY <1>3, <1>11, <1>12

\* initialize_filesystems, the drives of Initialize and RemountDrvfs.
LEMMA MountMore ==
  ASSUME MountTypeOK, NEW points \in SUBSET (Base \cup Volumes), Mount(points),
         \A i \in 1..Len(tracked) : tracked[i] # Virtiofs,
         \A m \in Points :
            /\ mounted[m] >= Count(tracked, m, Len(tracked))
            /\ m \notin unswept => mounted[m] = Count(tracked, m, Len(tracked))
  PROVE  /\ MountTypeOK'
         /\ \A i \in 1..Len(tracked') : tracked'[i] # Virtiofs
         /\ \A m \in Points :
               /\ mounted'[m] >= Count(tracked', m, Len(tracked'))
               /\ m \notin unswept' => mounted'[m] = Count(tracked', m, Len(tracked'))
<1>1. /\ Points \subseteq Nat /\ points \subseteq Nat \ {Virtiofs} /\ IsFiniteSet(points)
      /\ MaxMounts \in Nat
  <2>1. IsFiniteSet(Base \cup Volumes)
    BY InitAssumption, FS_Union
  <2>2. IsFiniteSet(points)
    BY <2>1, FS_Subset
  <2> QED
    BY <2>2, InitAssumption DEF Points, Virtiofs
<1>2. PICK new \in InOrder(points) :
        LET all == tracked \o new
            room == IF Len(all) <= MaxMounts THEN Len(all) ELSE MaxMounts
        IN /\ tracked' = SubSeq(all, 1, room)
           /\ unswept' = unswept \cup {all[i] : i \in (room + 1)..Len(all)}
  BY DEF Mount, Track
<1> DEFINE all == tracked \o new
           room == IF Len(all) <= MaxMounts THEN Len(all) ELSE MaxMounts
           lost == Lost(all, room)
<1>3. new \in Seq(points) /\ new \in Seq(Points) /\ \A k \in 1..Len(new) : new[k] \in points
  <2>1. new \in Seq(points)
    BY <1>1, OrderOnto
  <2> QED
    BY <2>1, SeqMonotonic DEF Points
<1>4. /\ tracked \in Seq(Nat) /\ tracked \in Seq(Points)
      /\ all \in Seq(Points) /\ Len(all) = Len(tracked) + Len(new)
      /\ room \in Nat /\ Len(tracked) <= room /\ room <= Len(tracked) + Len(new)
      /\ room <= MaxMounts
  <2>1. tracked \in Seq(Points) /\ Len(tracked) \in Nat /\ Len(tracked) <= MaxMounts
    BY DEF MountTypeOK
  <2>2. tracked \in Seq(Nat)
    BY <1>1, <2>1, SeqMonotonic
  <2>3. all \in Seq(Points) /\ Len(all) = Len(tracked) + Len(new) /\ Len(new) \in Nat
    BY <1>3, <2>1, ConcatProperties
  <2> HIDE DEF all
  <2> QED
    BY <1>1, <2>1, <2>2, <2>3
<1>5. \A i \in 1..Len(all) : all[i] \in Points
  BY <1>4
<1>6. lost \subseteq Points /\ tracked' \in Seq(Points) /\ Len(tracked') = room
  BY <1>2, <1>4, <1>5, SubSeqProperties DEF Lost
<1>7. MountTypeOK'
  <2>1. mounted' \in [Points -> Nat]
    BY DEF MountTypeOK, Mount
  <2> QED
    <3>1. unswept' \in SUBSET Points
      BY <1>2, <1>6 DEF MountTypeOK, Lost
    <3> HIDE DEF all, room
    <3> QED
      BY <1>4, <1>6, <2>1, <3>1 DEF MountTypeOK, Mount
<1>8. \A i \in 1..Len(tracked') : tracked'[i] # Virtiofs
  <2>1. \A i \in 1..room : tracked'[i] = IF i <= Len(tracked) THEN tracked[i] ELSE new[i - Len(tracked)]
    BY <1>1, <1>2, <1>4, CountTracked
  <2>2. Len(tracked) \in Nat /\ Len(new) \in Nat
    BY <1>3, <1>4
  <2> HIDE DEF all, room
  <2>3. ASSUME NEW i \in 1..room PROVE tracked'[i] # Virtiofs
    <3>1. CASE i <= Len(tracked)
      BY <1>4, <2>1, <2>2, <3>1
    <3>2. CASE ~(i <= Len(tracked))
      <4>1. i - Len(tracked) \in 1..Len(new)
        BY <1>4, <2>2, <3>2
      <4> QED
        BY <1>1, <1>3, <2>1, <3>2, <4>1
    <3> QED
      BY <3>1, <3>2
  <2> QED
    BY <1>6, <2>3
<1>9. ASSUME NEW m \in Points
      PROVE  /\ mounted'[m] >= Count(tracked', m, Len(tracked'))
             /\ m \notin unswept' => mounted'[m] = Count(tracked', m, Len(tracked'))
  <2>1. /\ m \notin points => Count(tracked', m, room) = Count(tracked, m, Len(tracked))
        /\ m \in points \ lost => Count(tracked', m, room) = Count(tracked, m, Len(tracked)) + 1
        /\ Count(tracked', m, room) <= Count(tracked, m, Len(tracked)) + 1
    <3>1. Accounted(tracked', lost, room, tracked, points)
      BY <1>1, <1>2, <1>4, CountTracked
    <3> HIDE DEF room, lost
    <3> QED
      BY <3>1 DEF Accounted
  <2>2. Count(tracked', m, room) \in Nat /\ Count(tracked, m, Len(tracked)) \in Nat
    BY <1>4, CountNat
  <2>3. mounted'[m] = IF m \in points THEN mounted[m] + 1 ELSE mounted[m]
    BY DEF Mount
  <2>4. unswept' = unswept \cup lost
    BY <1>2 DEF Lost
  <2> QED
    BY <1>6, <2>1, <2>2, <2>3, <2>4 DEF MountTypeOK
<1> QED
  BY <1>7, <1>8, <1>9

\* The mounts a step does not touch stay accounted for.
LEMMA MountKeep ==
  ASSUME MountInv, UNCHANGED mountVars, Undone' = Undone,
         (pc' = "exited" /\ why' = "terminate") => left = 0
  PROVE  MountInv'
  BY DEF MountInv, MountTypeOK, MountAt, mountVars

\* Every mount, and every record of it, is accounted for after each step.
LEMMA MountStep == ProcInv /\ MountInv /\ [Next]_vars => MountInv'
<1> SUFFICES ASSUME ProcInv, MountInv, [Next]_vars PROVE MountInv'
  OBVIOUS
<1>a. MountInv /\ MountTypeOK /\ MountAt /\ WhyAt /\ ProcTypeOK
  BY DEF MountInv, ProcInv
<1>b. ASSUME NEW points \in SUBSET (Base \cup Volumes), Mount(points),
             pc \in {"boot", "initialize", "message"}, why # "terminate",
             pc' # "unmount", ~(pc' = "exited" /\ why' = "terminate")
      PROVE  MountInv'
  <2>1. Undone = Len(tracked) /\ Undone' = Len(tracked')
    BY <1>b DEF Undone
  <2> QED
    BY <1>a, <1>b, <2>1, MountMore DEF MountInv, MountAt
<1>1. CASE Boot
  <2>1. PICK points \in SUBSET Base : Mount(points)
    BY <1>1 DEF Boot
  <2> QED
    BY <1>a, <1>b, <1>1, <2>1 DEF Boot, WhyAt, Stopping
<1>2. CASE Initialize
  <2>1. PICK points \in SUBSET Volumes : Mount(points)
    BY <1>2 DEF Initialize
  <2> QED
    BY <1>a, <1>b, <1>2, <2>1 DEF Initialize, WhyAt, Stopping
<1>3. CASE InitializeFail
  BY MountKeep, <1>a, <1>3 DEF InitializeFail, Undone, WhyAt, Stopping, mountVars
<1>4. CASE P9StartFail
  BY MountKeep, <1>a, <1>4 DEF P9StartFail, Undone, WhyAt, Stopping, mountVars
<1>5. CASE Session
  BY MountKeep, <1>a, <1>5 DEF Session, Undone, WhyAt, Stopping, mountVars
<1>6. CASE GnsStartFail
  BY MountKeep, <1>a, <1>6 DEF GnsStartFail, Undone, WhyAt, Stopping, mountVars
<1>7. CASE EnterLoop
  BY MountKeep, <1>a, <1>7 DEF EnterLoop, Undone, WhyAt, Stopping, mountVars
<1>8. CASE Poll
  BY MountKeep, <1>a, <1>8 DEF Poll, Undone, WhyAt, Stopping, mountVars
<1>9. CASE Drain
  BY MountKeep, <1>a, <1>9 DEF Drain, Undone, WhyAt, Stopping, mountVars
<1>10. CASE Reap
  BY MountKeep, <1>a, <1>10 DEF Reap, Freed, Undone, WhyAt, Stopping, mountVars
<1>11. CASE Disconnect
  BY MountKeep, <1>a, <1>11 DEF Disconnect, Undone, WhyAt, Stopping, mountVars
<1>12. CASE HandleTerminateInstance
  BY MountKeep, <1>a, <1>12 DEF HandleTerminateInstance, Receive, Undone, WhyAt, Stopping, mountVars,
     MountKeep
<1>13. CASE HandleRemountDrvfs
  <2>1. PICK points \in SUBSET Volumes : Mount(points)
    BY <1>13 DEF HandleRemountDrvfs
  <2> QED
    BY <1>a, <1>b, <1>13, <2>1 DEF HandleRemountDrvfs, Receive, WhyAt, Stopping
<1>14. CASE HandleVirtioFs
  <2>1. /\ mounted' \in [Points -> Nat] /\ UNCHANGED <<tracked, left, fails>>
        /\ \A m \in Points \ {Virtiofs} : mounted'[m] = mounted[m]
        /\ unswept' = unswept \cup {Virtiofs}
    BY <1>a, <1>14 DEF HandleVirtioFs, MountTypeOK, Points
  <2>2. Undone = Len(tracked) /\ Undone' = Len(tracked) /\ pc' # "exited"
    BY <1>a, <1>14, <2>1 DEF HandleVirtioFs, Receive, Undone, WhyAt, Stopping
  <2>3. Count(tracked, Virtiofs, Len(tracked)) = 0
    <3>1. {j \in 1..Len(tracked) : tracked[j] = Virtiofs} = {}
      BY <1>a DEF MountAt
    <3> QED
      BY <3>1, FS_EmptySet DEF Count
  <2>4. Virtiofs \in Points
    BY DEF Points
  <2> QED
    BY <1>a, <2>1, <2>2, <2>3, <2>4 DEF MountInv, MountAt, MountTypeOK
<1>15. CASE HandleStartSocketRelay
  BY MountKeep, <1>a, <1>15 DEF HandleStartSocketRelay, Receive, Fork, Undone, WhyAt, Stopping,
     mountVars
<1>16. CASE HandleOther
  BY MountKeep, <1>a, <1>16 DEF HandleOther, Receive, Undone, WhyAt, Stopping, mountVars
<1>17. CASE HandleStopPlan9("StopPlan9Force")
  BY MountKeep, <1>a, <1>17 DEF HandleStopPlan9, Receive, Undone, WhyAt, Stopping, mountVars
<1>18. CASE HandleStopPlan9("StopPlan9Graceful")
  BY MountKeep, <1>a, <1>18 DEF HandleStopPlan9, Receive, Undone, WhyAt, Stopping, mountVars
<1>19. CASE GnsStop
  BY MountKeep, <1>a, <1>19 DEF GnsStop, Signal, Undone, WhyAt, Stopping, mountVars
<1>20. CASE GnsStopNone
  BY MountKeep, <1>a, <1>20 DEF GnsStopNone, AfterGns, Undone, WhyAt, Stopping, mountVars
<1>21. CASE GnsWait
  BY MountKeep, <1>a, <1>21 DEF GnsWait, Waited, Freed, AfterGns, Undone, WhyAt, Stopping, mountVars,
     MountKeep
<1>22. CASE P9StopNone
  BY <1>a, <1>22
     DEF P9StopNone, AfterP9, MountInv, MountTypeOK, MountAt, Undone, WhyAt, Stopping
<1>23. CASE P9Stop
  BY MountKeep, <1>a, <1>23 DEF P9Stop, Signal, Undone, WhyAt, Stopping, mountVars
<1>24. CASE P9Gone
  BY MountKeep, <1>a, <1>24 DEF P9Gone, Waited, Freed, Undone, WhyAt, Stopping, mountVars
<1>25. CASE P9Timeout
  BY MountKeep, <1>a, <1>25 DEF P9Timeout, Signal, Undone, WhyAt, Stopping, mountVars
<1>26. CASE P9Wait
  BY <1>a, <1>26
     DEF P9Wait, AfterP9, MountInv, MountTypeOK, MountAt, Undone, WhyAt, Stopping
<1>27. CASE Unmount
  <2>1. /\ left \in Nat /\ left > 0 /\ left' = left - 1 /\ left \in 1..Len(tracked)
        /\ Undone = left /\ Undone' = left - 1 /\ UNCHANGED tracked
    BY <1>a, <1>27 DEF Unmount, MountTypeOK, Undone
  <2>2. tracked[left] \in Points
    BY <1>a, <2>1 DEF MountTypeOK
  <2>3. \A m \in Points :
          /\ Count(tracked, m, left) \in Nat /\ Count(tracked, m, left - 1) \in Nat
          /\ Count(tracked, m, left) = IF tracked[left] = m THEN Count(tracked, m, left - 1) + 1
                                                           ELSE Count(tracked, m, left - 1)
    BY <2>1, CountNat, CountLast
  <2>4. mounted \in [Points -> Nat] /\ unswept \in SUBSET Points /\ fails \in Nat
    BY <1>a DEF MountTypeOK
  <2>5. \A m \in Points :
          /\ mounted[m] >= Count(tracked, m, left)
          /\ m \notin unswept => mounted[m] = Count(tracked, m, left)
    BY <1>a, <2>1 DEF MountAt
  <2>6. CASE /\ mounted' = [mounted EXCEPT ![tracked[left]] = @ - 1]
             /\ UNCHANGED <<unswept, fails>>
    <3>1. mounted' \in [Points -> Nat]
      BY <2>2, <2>3, <2>4, <2>5, <2>6
    <3> QED
      BY <1>a, <1>27, <2>1, <2>2, <2>3, <2>4, <2>5, <2>6, <3>1, SMTT(40)
         DEF Unmount, MountInv, MountTypeOK, MountAt
  <2>7. CASE /\ fails' = fails + 1
             /\ unswept' = unswept \cup {tracked[left]} /\ UNCHANGED mounted
    BY <1>a, <1>27, <2>1, <2>2, <2>3, <2>4, <2>5, <2>7, SMTT(40)
       DEF Unmount, MountInv, MountTypeOK, MountAt
  <2> QED
    BY <1>27, <2>6, <2>7 DEF Unmount
<1>28. CASE Exit
  BY <1>a, <1>28 DEF Exit, MountInv, MountTypeOK, MountAt, Undone, WhyAt, mountVars
<1>29. CASE \E p \in Pids : P9Fork(p)
  BY MountKeep, <1>a, <1>29 DEF P9Fork, Fork, Undone, WhyAt, Stopping, mountVars
<1>30. CASE \E p \in Pids : P9Started(p)
  BY MountKeep, <1>a, <1>30 DEF P9Started, Undone, WhyAt, Stopping, mountVars
<1>31. CASE \E p \in Pids : GnsStart(p)
  BY MountKeep, <1>a, <1>31 DEF GnsStart, Fork, Undone, WhyAt, Stopping, mountVars
<1>32. CASE \E p \in Pids : P9Serve(p)
  BY MountKeep, <1>a, <1>32 DEF P9Serve, Undone, WhyAt, Stopping, mountVars
<1>33. CASE \E p \in Pids : Die(p)
  BY MountKeep, <1>a, <1>33 DEF MountAt, Die, Freed, Undone, WhyAt, Stopping, mountVars
<1>34. CASE \E p \in Pids : RelayWrites(p)
  BY MountKeep, <1>a, <1>34 DEF RelayWrites, Undone, WhyAt, Stopping, mountVars
<1>35. CASE \E p \in Pids : OtherStarts(p)
  BY MountKeep, <1>a, <1>35 DEF OtherStarts, Fork, Undone, WhyAt, Stopping, mountVars
<1>36. CASE \E m \in Requests : HostSend(m)
  BY MountKeep, <1>a, <1>36 DEF MountAt, HostSend, Undone, WhyAt, Stopping, mountVars
<1>37. CASE HostClose
  BY MountKeep, <1>a, <1>37 DEF HostClose, Undone, WhyAt, Stopping, mountVars
<1>38. CASE SigTerm
  BY MountKeep, <1>a, <1>38 DEF SigTerm, Undone, WhyAt, Stopping, mountVars
<1>39. CASE UNCHANGED vars
  BY MountKeep, <1>a, <1>39 DEF vars, MountAt, Undone, WhyAt, Stopping, mountVars
<1>40. CASE \E m \in Requests : SigPipe(m)
  BY MountKeep, <1>a, <1>40 DEF SigPipe, Receive, Undone, WhyAt, Stopping, mountVars
<1> QED
  BY <1>1, <1>2, <1>3, <1>4, <1>5, <1>6, <1>7, <1>8, <1>9, <1>10, <1>11, <1>12, <1>13,
     <1>14, <1>15, <1>16, <1>17, <1>18, <1>19, <1>20, <1>21, <1>22, <1>23, <1>24, <1>25,
     <1>26, <1>27, <1>28, <1>29, <1>30, <1>31, <1>32, <1>33, <1>34, <1>35, <1>36, <1>37,
     <1>38, <1>39, <1>40, StepCases

-----------------------------------------------------------------------------
(* The theorems.                                                           *)

LEMMA InitIInv == Init => IInv
<1> SUFFICES ASSUME Init PROVE IInv
  OBVIOUS
<1>1. FlagTypeOK
  BY Zenon DEF Init, FlagTypeOK
<1>2. ProcTypeOK /\ HostTypeOK
  BY DEF Init, ProcTypeOK, HostTypeOK, BootPcs, Children
<1>3. WhyAt /\ GnsAt /\ P9At
  BY DEF Init, WhyAt, GnsAt, P9At, BootPcs
<1>4. DeathsAt /\ NoLostDeath
  BY DEF Init, DeathsAt, NoLostDeath, Zombies, Own, Children
<1>5. MountTypeOK
  BY InitAssumption DEF Init, MountTypeOK
<1>6. MountAt
  <2>1. \A m \in Points : Count(tracked, m, Undone) = 0
    <3>1. Undone = 0
      BY DEF Init, Undone
    <3>2. \A m \in Points : {i \in 1..0 : tracked[i] = m} = {}
      OBVIOUS
    <3> QED
      BY <3>1, <3>2, FS_EmptySet DEF Count
  <2> QED
    BY <2>1 DEF Init, MountAt
<1> QED
  BY <1>1, <1>2, <1>3, <1>4, <1>5, <1>6 DEF IInv, ProcInv, DeathInv, MountInv

\* IInv is inductive: the pids hvinit recorded name its children at every
\* point, deaths are announced, and mounts and records agree.
THEOREM InductiveInvariant == Spec => []IInv
<1>1. IInv /\ [Next]_vars => IInv'
  BY ProcStep, DeathStep, HostTypeStep, MountStep DEF IInv
<1> QED
  BY <1>1, InitIInv, PTL DEF Spec

\* The event loop never loses the death of a child, however deaths, poll()
\* and the drain of the self-pipe interleave.
THEOREM DeathsNoticed == Spec => []NoLostDeath
<1>1. IInv => NoLostDeath
  BY DEF IInv, DeathInv
<1> QED
  BY <1>1, InductiveInvariant, PTL

\* TerminateInstance ends with neither server, not even as a zombie, and with
\* nothing mounted that was recorded and could be unmounted.
THEOREM TerminateLeavesNothing == Spec => []CleanStop
<1>1. IInv => CleanStop
  <2> SUFFICES ASSUME IInv PROVE CleanStop
    OBVIOUS
  <2>a. /\ FlagTypeOK /\ ProcTypeOK /\ HostTypeOK /\ MountTypeOK
        /\ GnsAt /\ P9At /\ MountAt
    BY DEF IInv, ProcInv, DeathInv, MountInv
  <2>1. TypeOK
    BY <2>a DEF TypeOK, FlagTypeOK, ProcTypeOK, HostTypeOK, MountTypeOK, BootPcs
  <2>2. NoChildOutlives
    BY <2>a, InitAssumption DEF NoChildOutlives, GnsAt, P9At
  <2>3. ASSUME pc = "exited", why = "terminate", NEW m \in Points \ unswept
        PROVE  mounted[m] = 0
    <3>1. Undone = 0
      BY <2>a, <2>3 DEF MountAt, Undone
    <3>2. {i \in 1..0 : tracked[i] = m} = {}
      OBVIOUS
    <3>3. Count(tracked, m, Undone) = 0
      BY <3>1, <3>2, FS_EmptySet DEF Count
    <3> QED
      BY <2>a, <2>3, <3>3 DEF MountAt
  <2> QED
    BY <2>1, <2>2, <2>3 DEF CleanStop, AllUnmounted
<1> QED
  BY <1>1, InductiveInvariant, PTL

=============================================================================
