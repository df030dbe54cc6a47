--------------------------- MODULE InitLifecycle ---------------------------
(***************************************************************************)
(* hvinit: boot, the handshake with the host, the event loop and the ways  *)
(* out of it, with the child processes hvinit starts (the Plan9 server,    *)
(* the GNS engine, socket relays), the SIGCHLD self-pipe through which it  *)
(* learns that they died, and the file systems it mounts.                  *)
(*                                                                         *)
(* The kernel's process table is part of the state: a process id is free   *)
(* again once its owner has waited for it, and may then go to any other    *)
(* process of the guest (a shell, the DNS relay that the GNS engine forks).*)
(* A system call that blocks is a step of its own, so that children die    *)
(* and ids are reused between any two of them.                             *)
(*                                                                         *)
(* Messages are whole; what they carry is chosen when they are handled.    *)
(* How the Initialize message configures host name, time zone and so on    *)
(* is not modelled.                                                        *)
(***************************************************************************)
EXTENDS Naturals, Sequences, FiniteSets

CONSTANTS
    Pids,         \* process ids
    NoPid,        \* -1
    Base,         \* mount points of initialize_filesystems: /dev, /proc, /run
    Volumes,      \* mount points of the drives the host asks for
    MaxMounts,    \* F2_MAX_MOUNTS: 16
    MaxRequests,  \* messages of the host to the event loop, and how many
    MaxInbox,     \*   of them wait at a time
    MaxOthers,    \* processes others start
    MaxFails      \* mounts that cannot be undone

ASSUME InitAssumption ==
    /\ NoPid \notin Pids
    /\ Base \subseteq Nat \ {0} /\ Volumes \subseteq Nat \ {0} /\ Base \cap Volumes = {}
    /\ IsFiniteSet(Base) /\ IsFiniteSet(Volumes)
    /\ MaxMounts \in Nat /\ MaxRequests \in Nat /\ MaxInbox \in Nat
    /\ MaxOthers \in Nat /\ MaxFails \in Nat

VARIABLES
    pc,          \* where hvinit is
    why,         \* what ends it: "none", "terminate", "disconnect", "failed", "killed"
    kind,        \* pid -> what the process is, "none" for a free id
    st,          \* pid -> "starting", "alive", "signalled" or "zombie"
    gnsPid,      \* g_gns_pid
    p9Pid,       \* g_plan9.child_pid; g_plan9.started is p9Pid # NoPid
    p9Served,    \* the last Plan9 child reached its accept loop (history)
    handler,     \* sigchld_handler is installed and its pipe exists
    pipe,        \* g_sigchld_pipe holds a byte
    unnoticed,   \* children that died while no handler was installed (history)
    ready,       \* poll() reported init_fd next to the pipe
    connected,   \* init_fd is a socket
    inbox,       \* messages in init_fd
    closed,      \* the host has closed it
    force,       \* the argument of plan9_stop_server
    mounted,     \* mount point -> file systems mounted there
    tracked,     \* g_mounted_fs, g_mounted_count
    left,        \* i + 1 of fs_unmount_all
    unswept,     \* mount points not recorded or not unmountable (history)
    requests, others, fails

procVars == <<kind, st>>
p9Vars == <<p9Pid, p9Served>>
sigVars == <<handler, pipe, unnoticed>>
hostVars == <<connected, inbox, closed, requests>>
mountVars == <<mounted, tracked, left, unswept, fails>>
vars == <<pc, why, procVars, gnsPid, p9Vars, sigVars, ready, hostVars, force, mountVars, others>>

Requests == {"TerminateInstance", "StopPlan9Force", "StopPlan9Graceful", "RemountDrvfs",
             "VirtioFs", "StartSocketRelay", "Other"}

(* Mount points are numbers, in the order they are mounted in. *)
Virtiofs == 0
Points == Base \cup Volumes \cup {Virtiofs}

Children == {"gns", "p9", "relay"}
Own(p) == kind[p] \in Children
Zombies == {p \in Pids : Own(p) /\ st[p] = "zombie"}
Live(p) == kind[p] # "none" /\ st[p] # "zombie"
Stopping == {"gnsStop", "gnsWait", "p9Stop", "p9Grace", "p9Wait", "unmount"}
InLoop == {"poll", "drain", "reap", "message"} \cup Stopping

Init ==
    /\ pc = "boot" /\ why = "none"
    /\ kind = [p \in Pids |-> "none"] /\ st = [p \in Pids |-> "alive"]
    /\ gnsPid = NoPid /\ p9Pid = NoPid /\ p9Served = FALSE
    /\ handler = FALSE /\ pipe = FALSE /\ unnoticed = {} /\ ready = FALSE
    /\ connected = FALSE /\ inbox = <<>> /\ closed = FALSE /\ force = FALSE
    /\ mounted = [m \in Points |-> 0] /\ tracked = <<>> /\ left = 0 /\ unswept = {}
    /\ requests = 0 /\ others = 0 /\ fails = 0

-----------------------------------------------------------------------------
(*                       Processes, signals, mounts                        *)

(* fork() in hvinit or elsewhere, with a free id. *)
Fork(p, what, how) ==
    /\ kind[p] = "none"
    /\ kind' = [kind EXCEPT ![p] = what] /\ st' = [st EXCEPT ![p] = how]

(* kill(p): whoever has the id now is hit. *)
Signal(p) ==
    /\ st' = IF Live(p) THEN [st EXCEPT ![p] = "signalled"] ELSE st
    /\ UNCHANGED kind

(* The ids of ps can be given to others. *)
Freed(ps) ==
    /\ kind' = [p \in Pids |-> IF p \in ps THEN "none" ELSE kind[p]]
    /\ st' = [p \in Pids |-> IF p \in ps THEN "alive" ELSE st[p]]

(* waitpid(p) with a result: the child is gone and its id free, or p is    *)
(* no child of hvinit (ECHILD).                                            *)
Waited(p) ==
    \/ /\ p \in Zombies
       /\ Freed({p}) /\ unnoticed' = unnoticed \ {p}
    \/ ~Own(p) /\ UNCHANGED <<procVars, unnoticed>>

(* The elements of points in the order they are mounted in. *)
InOrder(points) ==
    {s \in [1..Cardinality(points) -> points] : \A i, j \in DOMAIN s : i < j => s[i] < s[j]}

(* fs_track_mount for each new mount in turn: what does not fit is lost.   *)
(* A path of more than 63 bytes is recorded cut, so that it is one of      *)
(* those that cannot be unmounted (Unmount).                               *)
Track(points) ==
    \E new \in InOrder(points) :
        LET all == tracked \o new
            room == IF Len(all) <= MaxMounts THEN Len(all) ELSE MaxMounts
        IN /\ tracked' = SubSeq(all, 1, room)
           /\ unswept' = unswept \cup {all[i] : i \in (room + 1)..Len(all)}

Mount(points) ==
    /\ mounted' = [m \in Points |-> IF m \in points THEN mounted[m] + 1 ELSE mounted[m]]
    /\ Track(points)
    /\ UNCHANGED <<left, fails>>

-----------------------------------------------------------------------------
(*                                main()                                   *)

(* initialize_filesystems, then the capability socket, the notify socket   *)
(* and the host's first message; init_fd may fail to connect.              *)
Boot ==
    /\ pc = "boot"
    /\ \E points \in SUBSET Base : Mount(points)
    /\ \/ pc' = "initialize" /\ connected' \in BOOLEAN /\ UNCHANGED why
       \/ pc' = "exited" /\ why' = "failed" /\ UNCHANGED connected
    /\ UNCHANGED <<procVars, gnsPid, p9Vars, sigVars, ready, inbox, closed, requests, force,
                   others>>

(* Initialize(5) with the drives that could be mounted. *)
Initialize ==
    /\ pc = "initialize" /\ connected
    /\ \E points \in SUBSET Volumes : Mount(points)
    /\ pc' = "p9Start"
    /\ UNCHANGED <<why, procVars, gnsPid, p9Vars, sigVars, ready, hostVars, force, others>>

(* No header, a bad size or a short body: no configuration, no response. *)
InitializeFail ==
    /\ pc = "initialize"
    /\ pc' = "session"
    /\ UNCHANGED <<why, procVars, gnsPid, p9Vars, sigVars, ready, hostVars, force, mountVars,
                   others>>

(* plan9_start_server: no listener, no pipe or no child. The host is told  *)
(* port 0.                                                                 *)
P9StartFail ==
    /\ pc = "p9Start"
    /\ pc' = "session"
    /\ UNCHANGED <<why, procVars, gnsPid, p9Vars, sigVars, ready, hostVars, force, mountVars,
                   others>>

P9Fork(p) ==
    /\ pc = "p9Start"
    /\ Fork(p, "p9", "starting")
    /\ p9Served' = FALSE
    /\ pc' = "p9Ready"
    /\ UNCHANGED <<why, gnsPid, p9Pid, sigVars, ready, hostVars, force, mountVars, others>>

(* The readiness pipe reads as closed: by the child, or because it died.   *)
(* The host is told port 50001.                                            *)
P9Started(p) ==
    /\ pc = "p9Ready" /\ kind[p] = "p9" /\ st[p] # "starting"
    /\ p9Pid' = p
    /\ pc' = "session"
    /\ UNCHANGED <<why, procVars, gnsPid, p9Served, sigVars, ready, hostVars, force, mountVars,
                   others>>

(* CreateSession is answered or does not come; OobeResult follows. *)
Session ==
    /\ pc = "session"
    /\ pc' = "gnsStart"
    /\ UNCHANGED <<why, procVars, gnsPid, p9Vars, sigVars, ready, hostVars, force, mountVars,
                   others>>

GnsStart(p) ==
    /\ pc = "gnsStart"
    /\ Fork(p, "gns", "alive")
    /\ gnsPid' = p
    /\ pc' = "enter"
    /\ UNCHANGED <<why, p9Vars, sigVars, ready, hostVars, force, mountVars, others>>

GnsStartFail ==
    /\ pc = "gnsStart"
    /\ pc' = "enter"
    /\ UNCHANGED <<why, procVars, gnsPid, p9Vars, sigVars, ready, hostVars, force, mountVars,
                   others>>

-----------------------------------------------------------------------------
(*                              event_loop                                 *)

(* The self-pipe, unless it cannot be made, and the handler. *)
EnterLoop ==
    /\ pc = "enter"
    /\ handler' \in BOOLEAN
    /\ pc' = "poll"
    /\ UNCHANGED <<why, procVars, gnsPid, p9Vars, pipe, unnoticed, ready, hostVars, force,
                   mountVars, others>>

Poll ==
    /\ pc = "poll"
    /\ LET host == connected /\ (inbox # <<>> \/ closed)
       IN /\ pipe \/ host
          /\ ready' = (pipe /\ host)
    /\ pc' = IF pipe THEN "drain" ELSE "message"
    /\ UNCHANGED <<why, procVars, gnsPid, p9Vars, sigVars, hostVars, force, mountVars, others>>

(* Empty the pipe, then (reap_children) wait for whoever has died. *)
Drain ==
    /\ pc = "drain"
    /\ pipe' = FALSE
    /\ pc' = "reap"
    /\ UNCHANGED <<why, procVars, gnsPid, p9Vars, handler, unnoticed, ready, hostVars, force,
                   mountVars, others>>

(* Slip: one child per wakeup. *)
Reap_One ==
    /\ pc = "reap"
    /\ \/ \E p \in Zombies : Freed({p}) /\ unnoticed' = unnoticed \ {p}
       \/ Zombies = {} /\ UNCHANGED <<procVars, unnoticed>>
    /\ pc' = (IF ready THEN "message" ELSE "poll") /\ ready' = FALSE
    /\ UNCHANGED <<why, gnsPid, p9Vars, handler, pipe, hostVars, force, mountVars, others>>

Reap ==
    /\ pc = "reap"
    /\ Freed(Zombies) /\ unnoticed' = {}
    /\ pc' = (IF ready THEN "message" ELSE "poll") /\ ready' = FALSE
    /\ UNCHANGED <<why, gnsPid, p9Vars, handler, pipe, hostVars, force, mountVars, others>>

(* The next message is read from init_fd. *)
Receive(m) ==
    /\ pc = "message" /\ inbox # <<>> /\ Head(inbox) = m
    /\ inbox' = Tail(inbox)
    /\ UNCHANGED <<connected, closed, requests>>

(* End of file, or a message that cannot be read to its end: main() stops  *)
(* the GNS engine and returns.                                             *)
Disconnect ==
    /\ pc = "message"
    /\ why' = "disconnect" /\ pc' = "gnsStop"
    /\ UNCHANGED <<procVars, gnsPid, p9Vars, sigVars, ready, hostVars, force, mountVars, others>>

(* The host closed init_fd after it sent m.  Its answer may then raise     *)
(* SIGPIPE, which hvinit does not ignore: it ends there, and of            *)
(* TerminateInstance, which is answered first, nothing else is done.       *)
SigPipe(m) ==
    /\ closed /\ Receive(m)
    /\ pc' = "exited" /\ why' = "killed"
    /\ UNCHANGED <<procVars, gnsPid, p9Vars, sigVars, ready, force, mountVars, others>>

(* handle_terminate_instance: answered first, then everything is stopped. *)
HandleTerminateInstance ==
    /\ Receive("TerminateInstance")
    /\ why' = "terminate" /\ force' = TRUE /\ pc' = "gnsStop"
    /\ UNCHANGED <<procVars, gnsPid, p9Vars, sigVars, ready, mountVars, others>>

HandleStopPlan9(m) ==
    /\ Receive(m)
    /\ force' = (m = "StopPlan9Force") /\ pc' = "p9Stop"
    /\ UNCHANGED <<why, procVars, gnsPid, p9Vars, sigVars, ready, mountVars, others>>

HandleRemountDrvfs ==
    /\ Receive("RemountDrvfs")
    /\ \E points \in SUBSET Volumes : Mount(points)
    /\ pc' = "poll"
    /\ UNCHANGED <<why, procVars, gnsPid, p9Vars, sigVars, ready, force, others>>

(* AddVirtioFsDevice and RemountVirtioFsDevice: mount(8) and umount(8) do  *)
(* or fail to do their work, and nothing is recorded.                      *)
HandleVirtioFs ==
    /\ Receive("VirtioFs")
    /\ \E n \in 0..(mounted[Virtiofs] + 1) :
         n + 1 >= mounted[Virtiofs] /\ mounted' = [mounted EXCEPT ![Virtiofs] = n]
    /\ unswept' = unswept \cup {Virtiofs}
    /\ pc' = "poll"
    /\ UNCHANGED <<why, procVars, gnsPid, p9Vars, sigVars, ready, force, tracked, left, fails,
                   others>>

(* The relay is forked here, and its pid forgotten. *)
HandleStartSocketRelay ==
    /\ Receive("StartSocketRelay")
    /\ (\E p \in Pids : Fork(p, "relay", "alive")) \/ UNCHANGED procVars
    /\ pc' = "poll"
    /\ UNCHANGED <<why, gnsPid, p9Vars, sigVars, ready, force, mountVars, others>>

(* Every message that leaves no child behind and mounts nothing: queries,  *)
(* notices, StartDistroInit, whose boot.command is waited for, and those   *)
(* too short or of an unknown type.                                        *)
HandleOther ==
    /\ Receive("Other")
    /\ pc' = "poll"
    /\ UNCHANGED <<why, procVars, gnsPid, p9Vars, sigVars, ready, force, mountVars, others>>

-----------------------------------------------------------------------------
(*                Stopping children, unmounting, leaving                   *)

(* gns_stop_engine: SIGTERM and a blocking waitpid. *)
GnsStop ==
    /\ pc = "gnsStop" /\ gnsPid # NoPid
    /\ Signal(gnsPid)
    /\ pc' = "gnsWait"
    /\ UNCHANGED <<why, gnsPid, p9Vars, sigVars, ready, hostVars, force, mountVars, others>>

(* Where gns_stop_engine returns to: handle_terminate_instance or main(). *)
AfterGns == IF why = "terminate" THEN "p9Stop" ELSE "exited"

GnsStopNone ==
    /\ pc = "gnsStop" /\ gnsPid = NoPid
    /\ pc' = AfterGns
    /\ UNCHANGED <<why, procVars, gnsPid, p9Vars, sigVars, ready, hostVars, force, mountVars,
                   others>>

GnsWait ==
    /\ pc = "gnsWait"
    /\ Waited(gnsPid)
    /\ gnsPid' = NoPid
    /\ pc' = AfterGns
    /\ UNCHANGED <<why, p9Vars, handler, pipe, ready, hostVars, force, mountVars, others>>

(* Where plan9_stop_server returns to: the host is answered, or the file   *)
(* systems are next.                                                       *)
AfterP9 ==
    /\ pc' = IF why = "terminate" THEN "unmount" ELSE "poll"
    /\ left' = IF why = "terminate" THEN Len(tracked) ELSE left
    /\ force' = FALSE

P9StopNone ==
    /\ pc = "p9Stop" /\ p9Pid = NoPid
    /\ AfterP9
    /\ UNCHANGED <<why, procVars, gnsPid, p9Vars, sigVars, ready, hostVars, mounted,
                   tracked, unswept, fails, others>>

(* SIGKILL and a blocking waitpid, or SIGTERM and five seconds of polling. *)
P9Stop ==
    /\ pc = "p9Stop" /\ p9Pid # NoPid
    /\ Signal(p9Pid)
    /\ pc' = IF force THEN "p9Wait" ELSE "p9Grace"
    /\ UNCHANGED <<why, gnsPid, p9Vars, sigVars, ready, hostVars, force, mountVars, others>>

P9Gone ==
    /\ pc = "p9Grace"
    /\ Waited(p9Pid)
    /\ pc' = "p9Wait"
    /\ UNCHANGED <<why, gnsPid, p9Vars, handler, pipe, ready, hostVars, force, mountVars, others>>

P9Timeout ==
    /\ pc = "p9Grace" /\ Own(p9Pid) /\ st[p9Pid] # "zombie"
    /\ Signal(p9Pid)
    /\ pc' = "p9Wait"
    /\ UNCHANGED <<why, gnsPid, p9Vars, sigVars, ready, hostVars, force, mountVars, others>>

(* Slip: the server is killed but not waited for. *)
P9Wait_None ==
    /\ pc = "p9Wait"
    /\ p9Pid' = NoPid
    /\ AfterP9
    /\ UNCHANGED <<why, procVars, gnsPid, p9Served, sigVars, ready, hostVars, mounted,
                   tracked, unswept, fails, others>>

(* Slip: the wait is repeated until the child is seen to go. *)
P9Wait_OnlyZombie ==
    /\ pc = "p9Wait" /\ Own(p9Pid)
    /\ Waited(p9Pid)
    /\ p9Pid' = NoPid
    /\ AfterP9
    /\ UNCHANGED <<why, gnsPid, p9Served, handler, pipe, ready, hostVars, mounted,
                   tracked, unswept, fails, others>>

P9Wait ==
    /\ pc = "p9Wait"
    /\ Waited(p9Pid)
    /\ p9Pid' = NoPid
    /\ AfterP9
    /\ UNCHANGED <<why, gnsPid, p9Served, handler, pipe, ready, hostVars, mounted,
                   tracked, unswept, fails, others>>

(* fs_unmount_all: the last mount first, forced if busy; failures are      *)
(* logged.                                                                 *)
Unmount ==
    /\ pc = "unmount" /\ left > 0
    /\ left' = left - 1
    /\ \/ /\ mounted' = [mounted EXCEPT ![tracked[left]] = @ - 1]
          /\ UNCHANGED <<unswept, fails>>
       \/ /\ fails < MaxFails /\ fails' = fails + 1
          /\ unswept' = unswept \cup {tracked[left]} /\ UNCHANGED mounted
    /\ UNCHANGED <<pc, why, procVars, gnsPid, p9Vars, sigVars, ready, hostVars, force, tracked,
                   others>>

(* sync() and exit(0). *)
Exit ==
    /\ pc = "unmount" /\ left = 0
    /\ pc' = "exited"
    /\ UNCHANGED <<why, procVars, gnsPid, p9Vars, sigVars, ready, hostVars, force, mountVars,
                   others>>

-----------------------------------------------------------------------------
(*                       Children, others, the host                        *)

(* plan9_child_run: lib9p is set up and the readiness pipe closed. *)
P9Serve(p) ==
    /\ kind[p] = "p9" /\ st[p] = "starting" /\ pc # "exited"
    /\ st' = [st EXCEPT ![p] = "alive"] /\ p9Served' = TRUE
    /\ UNCHANGED <<pc, why, kind, gnsPid, p9Pid, sigVars, ready, hostVars, force, mountVars,
                   others>>

(* A process ends, by itself or of a signal. A child of hvinit stays as a  *)
(* zombie and its parent gets SIGCHLD.                                     *)
Die(p) ==
    /\ Live(p) /\ pc # "exited"
    /\ IF Own(p)
         THEN /\ st' = [st EXCEPT ![p] = "zombie"]
              /\ pipe' = (pipe \/ handler)
              /\ unnoticed' = IF handler THEN unnoticed ELSE unnoticed \cup {p}
              /\ UNCHANGED kind
         ELSE Freed({p}) /\ UNCHANGED <<pipe, unnoticed>>
    /\ UNCHANGED <<pc, why, gnsPid, p9Vars, handler, ready, hostVars, force, mountVars, others>>

(* A relay was forked after signal(): when a child of its own ends, the    *)
(* handler it inherited writes into hvinit's pipe.                         *)
RelayWrites(p) ==
    /\ kind[p] = "relay" /\ Live(p) /\ handler /\ pc # "exited"
    /\ pipe' = TRUE
    /\ UNCHANGED <<pc, why, procVars, gnsPid, p9Vars, handler, unnoticed, ready, hostVars, force,
                   mountVars, others>>

(* Any other process of the guest. *)
OtherStarts(p) ==
    /\ pc # "exited" /\ others < MaxOthers /\ others' = others + 1
    /\ Fork(p, "other", "alive")
    /\ UNCHANGED <<pc, why, gnsPid, p9Vars, sigVars, ready, hostVars, force, mountVars>>

HostSend(m) ==
    /\ connected /\ ~closed /\ pc \in InLoop
    /\ requests < MaxRequests /\ Len(inbox) < MaxInbox
    /\ inbox' = Append(inbox, m) /\ requests' = requests + 1
    /\ UNCHANGED <<pc, why, procVars, gnsPid, p9Vars, sigVars, ready, connected, closed, force,
                   mountVars, others>>

HostClose ==
    /\ connected /\ ~closed /\ pc # "exited"
    /\ closed' = TRUE
    /\ UNCHANGED <<pc, why, procVars, gnsPid, p9Vars, sigVars, ready, connected, inbox, requests,
                   force, mountVars, others>>

(* service wsl_init stop: SIGTERM has its default effect. It is taken      *)
(* while hvinit waits in poll(); elsewhere it leaves the same behind.      *)
SigTerm ==
    /\ pc = "poll"
    /\ pc' = "exited" /\ why' = "killed"
    /\ UNCHANGED <<procVars, gnsPid, p9Vars, sigVars, ready, hostVars, force, mountVars, others>>

-----------------------------------------------------------------------------

Handle ==
    \/ HandleTerminateInstance \/ HandleRemountDrvfs \/ HandleVirtioFs
    \/ HandleStartSocketRelay \/ HandleOther
    \/ HandleStopPlan9("StopPlan9Force") \/ HandleStopPlan9("StopPlan9Graceful")

Hvinit ==
    \/ Boot \/ Initialize \/ InitializeFail \/ P9StartFail \/ Session \/ GnsStartFail
    \/ EnterLoop \/ Poll \/ Drain \/ Reap \/ Disconnect \/ Handle
    \/ GnsStop \/ GnsStopNone \/ GnsWait
    \/ P9StopNone \/ P9Stop \/ P9Gone \/ P9Timeout \/ P9Wait \/ Unmount \/ Exit
    \/ \E p \in Pids : P9Fork(p) \/ P9Started(p) \/ GnsStart(p)

Next ==
    \/ Hvinit
    \/ \E p \in Pids : P9Serve(p) \/ Die(p) \/ RelayWrites(p) \/ OtherStarts(p)
    \/ \E m \in Requests : HostSend(m)
    \/ \E m \in Requests : SigPipe(m)
    \/ HostClose \/ SigTerm

Spec == Init /\ [][Next]_vars

(* hvinit runs, and a process that was sent SIGTERM or SIGKILL dies: none  *)
(* of them catches SIGTERM.                                                *)
Fairness ==
    /\ WF_vars(Hvinit)
    /\ \A p \in Pids : WF_vars(st[p] = "signalled" /\ Die(p))
FairSpec == Spec /\ Fairness

-----------------------------------------------------------------------------
(*                              Properties                                 *)

TypeOK ==
    /\ pc \in {"boot", "initialize", "p9Start", "p9Ready", "session", "gnsStart", "enter",
               "exited"} \cup InLoop
    /\ why \in {"none", "terminate", "disconnect", "failed", "killed"}
    /\ kind \in [Pids -> Children \cup {"none", "other"}]
    /\ st \in [Pids -> {"starting", "alive", "signalled", "zombie"}]
    /\ gnsPid \in Pids \cup {NoPid} /\ p9Pid \in Pids \cup {NoPid}
    /\ p9Served \in BOOLEAN /\ handler \in BOOLEAN /\ pipe \in BOOLEAN
    /\ unnoticed \in SUBSET Pids /\ ready \in BOOLEAN
    /\ connected \in BOOLEAN /\ closed \in BOOLEAN
    /\ inbox \in Seq(Requests) /\ force \in BOOLEAN
    /\ mounted \in [Points -> Nat] /\ tracked \in Seq(Points) /\ Len(tracked) <= MaxMounts
    /\ left \in 0..Len(tracked) /\ unswept \in SUBSET Points
    /\ requests \in Nat /\ others \in Nat /\ fails \in Nat

(* While event_loop runs with its self-pipe, a dead child is either about  *)
(* to be reaped or still announced in the pipe, however deaths, poll() and *)
(* the drain of the pipe interleave: none is left as a zombie for good.    *)
(* Children that died before signal() are the exception.                   *)
NoLostDeath ==
    \A p \in Pids :
        (handler /\ pc # "exited" /\ p \in Zombies \ unnoticed)
            => pipe \/ pc = "reap"

(* handle_terminate_instance leaves no GNS engine and no Plan9 server      *)
(* behind, alive or as a zombie, whatever died or was stopped before,      *)
(* unless hvinit was killed: by SIGTERM, or because the host had closed    *)
(* the channel before it read the answer.                                  *)
NoChildOutlives ==
    pc = "exited" /\ why = "terminate" => \A p \in Pids : kind[p] \notin {"gns", "p9"}

(* After handle_terminate_instance nothing is mounted but what could not   *)
(* be unmounted, what g_mounted_fs had no room for, and virtiofs shares,   *)
(* again unless hvinit was killed.                                         *)
AllUnmounted ==
    pc = "exited" /\ why = "terminate" => \A m \in Points \ unswept : mounted[m] = 0

(* A TerminateInstance whose host stays to read the answer leaves a clean  *)
(* guest: no server and no mount behind.                                   *)
CleanStop == TypeOK /\ NoChildOutlives /\ AllUnmounted

(* Stopping a child ends, also when it is already dead and its pid given   *)
(* away: hvinit takes messages again or exits.                             *)
StopReturns == pc \in Stopping ~> pc \in {"poll", "exited"}

(* plan9_start_server returns a port, which the host is told, only if the  *)
(* server came up ("Returns the port number on success, 0 on failure").    *)
PortMeansServer == p9Pid # NoPid => p9Served

(* g_plan9.child_pid is the server's pid, "-1 if not running".             *)
PidNamesServer == pc # "exited" /\ p9Pid # NoPid => kind[p9Pid] = "p9"

=============================================================================
