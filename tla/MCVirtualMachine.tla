-------------------------- MODULE MCVirtualMachine --------------------------
(***************************************************************************)
(* Small instances of the processes of the virtual machine that run next   *)
(* to each other and share no state: the scheduler of its file server, the *)
(* relay of a process, mini init, the init of a distribution and the port  *)
(* tracker.  A behaviour runs one of them, so that one graph holds all.    *)
(***************************************************************************)
EXTENDS P9Scheduler, ProcessRelay, MiniInit, DistroInit, PortReservation

VARIABLE part
vmVars == <<part, schedVars, ryVars, vars, diVars, prVars>>

M(t, l, n, g) == [type |-> t, lun |-> l, name |-> n, flag |-> g]
Early == M("early", 0, "d", FALSE)
Initial(g) == M("initial", 0, "d", g)

MCScripts == {
    <<Early, Initial(TRUE), M("launch", 1, "d", TRUE), M("launch", 1, "d", FALSE)>>,
    <<Early, M("import", 1, "d", FALSE), M("detach", 1, "d", FALSE)>>,
    <<M("inplace", 1, "d", FALSE), M("export", 2, "d", FALSE)>>,
    <<M("mount", 1, "d", TRUE), M("mount", 2, "d", FALSE), M("unmount", 0, "d", FALSE)>>,
    <<M("mount", 1, "d", FALSE), M("detach", 1, "d", FALSE), M("eject", 1, "d", FALSE)>>,
    <<M("pmem", 0, "d", FALSE), M("resize", 1, "d", FALSE), M("unknown", 0, "d", FALSE)>>,
    <<Early, M("folder", 0, "d", FALSE), M("process", 0, "d", FALSE)>> }

MCCases == {[consoles |-> {}, scene |-> {"orphan"}],
            [consoles |-> {}, scene |-> {"local"}],
            [consoles |-> {"in"}, scene |-> {"orphan"}],
            [consoles |-> {"in", "out", "err"}, scene |-> {"orphan"}],
            [consoles |-> {"in", "out", "err"}, scene |-> {"terminal"}]}

OneUser == [p \in Procs |-> 7]
OnePort == [b \in Binds |-> 80]

VmInit ==
    /\ part \in {"sched", "relay", "mini", "distro", "ports"}
    /\ SchedInit /\ RyInit /\ Init /\ DiInit /\ PrInit
    /\ part # "relay" => scene = {"terminal"}
    /\ part # "distro" => ~diWatch /\ diBoot = "off"

VmNext ==
    \/ part = "sched" /\ SchedNext /\ UNCHANGED <<part, ryVars, vars, diVars, prVars>>
    \/ part = "relay" /\ RyNext /\ UNCHANGED <<part, schedVars, vars, diVars, prVars>>
    \/ part = "mini" /\ Next /\ UNCHANGED <<part, schedVars, ryVars, diVars, prVars>>
    \/ part = "distro" /\ DiNext /\ UNCHANGED <<part, schedVars, ryVars, vars, prVars>>
    \/ part = "ports" /\ PrNext /\ UNCHANGED <<part, schedVars, ryVars, vars, diVars>>

\* The fairness of each specification, while its part runs.
SchedFair ==
    LET On(A) == part = "sched" /\ A
    IN /\ WF_schedVars(On(WorkerCallback)) /\ WF_schedVars(On(ThreadReady))
       /\ WF_schedVars(On(ThreadWake)) /\ WF_schedVars(On(Resume))
       /\ WF_schedVars(On(Suspend \/ Hop \/ Block))
       /\ \A c \in Coroutines :
              WF_schedVars(On(UnblockClaims(c) \/ UnblockSchedules(c) \/ LeaveBlocked(c)))
RyFair ==
    LET On(A) == part = "relay" /\ A
    IN /\ WF_ryVars(On(Turn)) /\ WF_ryVars(On(HostAnswersStatus))
       /\ WF_ryVars(On(LocalSends("sent") \/ LocalSends("closed")))
MiniFair ==
    LET On(A) == part = "mini" /\ A
    IN /\ WF_vars(On(Loop)) /\ WF_vars(On(ErrorExit)) /\ \A r \in Reqs : WF_vars(On(ChildSteps(r)))
DiFair ==
    LET On(A) == part = "distro" /\ A
    IN WF_diVars(On(DistroLoop)) /\ WF_diVars(On(Interop)) /\ WF_diVars(On(MountEnds))
PrFair ==
    LET On(A) == part = "ports" /\ A
    IN /\ WF_prVars(On(Dispatcher)) /\ WF_prVars(On(Tracker)) /\ WF_prVars(On(Lists)) /\ WF_prVars(On(Host))
       /\ \A p \in Ports : WF_prVars(On(Expires(p)))
       /\ \A c \in Calls : WF_prVars(On(KernelBinds(c)))

VmSpec == VmInit /\ [][VmNext]_vmVars /\ SchedFair /\ RyFair /\ MiniFair /\ DiFair /\ PrFair
=============================================================================
