------------------------------ MODULE DistroInit ------------------------------
(***************************************************************************)
(* The init process of a distribution (linux/init/init.cpp, config.cpp):   *)
(* its loop over the service's messages, the boot of the distribution's    *)
(* own init (systemd) before the first session, session leaders, the       *)
(* interop thread that creates login sessions for the processes that ask   *)
(* for one, and the end of the instance.                                   *)
(*                                                                         *)
(* The loop and the interop thread are two threads.  They share the        *)
(* disposition of SIGCHLD: ignored, so that children need no waiting, but  *)
(* set to its default around each child that one of them waits for.        *)
(***************************************************************************)
EXTENDS Integers, Sequences, FiniteSets

CONSTANTS Procs,      \* processes the service creates
          UidOf,      \* the user of each
          Leaders,    \* session leaders
          BootInitTimeout, \* from /etc/wsl.conf; 0: never wait for systemd
          MaxRequests \* messages the service sends after Initialize

ASSUME BootInitTimeout \in Nat

VARIABLES
    diPc,      \* what the loop is doing
    diReq,     \* the message it handles
    diSent,    \* messages received
    diAnswer,  \* the last answer
    diWatch,   \* a distro init pid was passed: the loop watches it
    diBoot,    \* the distribution's init: off, waiting, booting, up
    diSig,     \* the disposition of SIGCHLD
    diSaved,   \* the disposition UtilCreateProcessAndWait found
    diMount,   \* its child
    diSignal,  \* SIGCHLD is pending on the signalfd
    diLeader,  \* the session leaders
    distro,    \* the watched process
    diPlan9,   \* the Plan 9 server: none, idle, busy, stopped
    diWorker,  \* what the interop thread is doing; none: never started, ended
    diClient,  \* its client
    diWait,    \* clients not yet accepted
    diProc,    \* the processes
    sessions,  \* LoginSessions
    unit       \* user@uid.service

diVars == <<diPc, diReq, diSent, diAnswer, diWatch, diBoot, diSig, diSaved, diMount, diSignal,
            diLeader, distro, diPlan9, diWorker, diClient, diWait, diProc, sessions, unit>>
loopVars == <<diPc, diReq, diSent, diAnswer, diSaved, diMount, diPlan9, diBoot>>
childVars == <<diSignal, diLeader, distro>>
loginVars == <<diWorker, diClient, diWait, sessions, unit>>

Uids == {UidOf[p] : p \in Procs}
NoClient == "nobody"
BootInit == diBoot # "off"

\* InitEntryUtilityVm up to its loop.  The pid to watch is passed to the init of
\* the system distribution, which boots no init of its own.
DiInit ==
    /\ diPc = "start" /\ diReq = "none" /\ diSent = 0 /\ diAnswer = "none"
    /\ diWatch \in BOOLEAN /\ diBoot \in {"off", "waiting"} /\ (diWatch => diBoot = "off")
    /\ diSig = (IF diWatch THEN "dfl" ELSE "ign") /\ diSaved = "ign" /\ diMount = "none"
    /\ diSignal = FALSE /\ diLeader = [l \in Leaders |-> "none"]
    /\ distro = (IF diWatch THEN "alive" ELSE "none")
    /\ diPlan9 = "none" /\ diWorker = "none" /\ diClient = NoClient /\ diWait = {}
    /\ diProc = [p \in Procs |-> "none"] /\ sessions = {} /\ unit = [u \in Uids |-> "none"]

\* A child ends: with SIGCHLD ignored nothing of it is left.
Ended == IF diSig = "ign" THEN "gone" ELSE "zombie"
Signals == diSignal' = (diSignal \/ (diWatch /\ diSig = "dfl"))

-----------------------------------------------------------------------------
(* The loop: Initialize, then the other messages.                          *)

\* FATAL_ERROR, or the end of the loop: the instance is powered off, through
\* systemctl when the distribution's init was booted.
DistroPowerOff == diPc' = "down"

\* ConfigInitializeInstance, its last part: the response, the interop thread.  An
\* exception before the response is only logged: init goes on without either.
InteropStarts(end) ==
    CASE end = "done"   -> diPc' = "idle" /\ diWorker' = "accept"
      [] end = "thrown" -> diPc' = "idle" /\ UNCHANGED diWorker
      [] end = "fatal"  -> DistroPowerOff /\ UNCHANGED diWorker

\* The Plan 9 server: what fails is logged, and leaves the instance without it.
StartsPlan9(p9) == diPlan9' = p9

\* Before that the message, the mounts and the environment, then these two.
InitializeInstance(end, p9) ==
    /\ diPc = "start" /\ StartsPlan9(p9) /\ InteropStarts(end)
    /\ UNCHANGED <<diReq, diSent, diAnswer, diWatch, diBoot, diSig, diSaved, diMount, childVars,
                   diClient, diWait, diProc, sessions, unit>>

LoopFrame == UNCHANGED <<diWatch, loginVars, diProc>>

\* The service sends nothing before it has the response.  CreateSession and
\* RemountDrvfs wait for the boot process first, if it was not started.
Receives(req) ==
    /\ diPc = "idle" /\ diWorker # "none" /\ diSent < MaxRequests
    /\ diSent' = diSent + 1 /\ diReq' = req /\ diAnswer' = "none"
    /\ diPc' = IF req \in {"session", "remount"} /\ diBoot = "waiting" THEN "boot" ELSE req
    /\ UNCHANGED <<diBoot, diSig, diSaved, diMount, diPlan9, childVars>> /\ LoopFrame

\* WaitForBootProcess: the waiting process is told to exec systemd ...
WaitForBootProcess ==
    /\ diPc = "boot" /\ diBoot' = "booting"
    /\ IF BootInitTimeout > 0 THEN diPc' = "booting" /\ diSig' = "dfl"
                              ELSE diPc' = diReq /\ UNCHANGED diSig
    /\ UNCHANGED <<diReq, diSent, diAnswer, diSaved, diMount, diPlan9, childVars>> /\ LoopFrame

\* ... and is asked until it runs or BootInitTimeout has passed.
BootWaited ==
    /\ diPc = "booting" /\ diPc' = diReq /\ diSig' = "ign"
    /\ UNCHANGED <<diReq, diSent, diAnswer, diBoot, diSaved, diMount, diPlan9, childVars>> /\ LoopFrame

\* InitCreateSessionLeader: the port is sent and the leader is forked; without a
\* socket the answer is no port, and init ends, as it does when the fork fails
\* after the port was sent.
CreateSessionLeader(l, end) ==
    /\ diPc = "session" /\ diLeader[l] = "none"
    /\ diAnswer' = IF end = "no socket" THEN "no port" ELSE "port"
    /\ IF end = "forked" THEN diPc' = "idle" /\ diLeader' = [diLeader EXCEPT ![l] = "alive"]
                         ELSE DistroPowerOff /\ UNCHANGED diLeader
    /\ UNCHANGED <<diReq, diSent, diBoot, diSig, diSaved, diMount, diPlan9, diSignal, distro>> /\ LoopFrame

\* ConfigRemountDrvFs mounts through UtilCreateProcessAndWait: SIGCHLD gets its
\* default, the mount process is forked ...
MountForks ==
    /\ diPc = "remount" /\ diPc' = "waitpid"
    /\ diSaved' = diSig /\ diSig' = "dfl" /\ diMount' = "running"
    /\ UNCHANGED <<diReq, diSent, diAnswer, diBoot, diPlan9, childVars>> /\ LoopFrame

\* ... it ends ...
MountEnds ==
    /\ diMount = "running" /\ diMount' = Ended /\ Signals
    /\ UNCHANGED <<diPc, diReq, diSent, diAnswer, diBoot, diSig, diSaved, diPlan9, diLeader, distro>>
    /\ LoopFrame

\* ... and is waited for, or is gone already; the disposition found is set again.
MountWaited ==
    /\ diPc = "waitpid" /\ diMount \in {"zombie", "gone"}
    /\ diPc' = "idle" /\ diMount' = "none" /\ diSig' = diSaved
    /\ diAnswer' = IF diMount = "zombie" THEN "mounted" ELSE "not mounted"
    /\ UNCHANGED <<diReq, diSent, diBoot, diSaved, diPlan9, childVars>> /\ LoopFrame

\* StopPlan9Server sends the field of the message it fills in, never the caller's
\* Force; a server that is busy refuses.
StopPlan9Server(force) == IF diPlan9 = "busy" THEN diPlan9
                          ELSE IF diPlan9 = "none" THEN "none" ELSE "stopped"

TerminateInstance(force) ==
    /\ diPc = (IF force THEN "force" ELSE "terminate") /\ diPc' = "idle"
    /\ diPlan9' = StopPlan9Server(force)
    /\ diAnswer' = IF diPlan9' = "busy" THEN "refused" ELSE "stopped"
    /\ UNCHANGED <<diReq, diSent, diBoot, diSig, diSaved, diMount, childVars>> /\ LoopFrame

\* ProcessCreateProcessMessage: a process outside the sessions.  Without a socket an
\* exception ends init.
CreateProcessMessage(ok) ==
    /\ diPc = "create"
    /\ IF ok THEN diPc' = "idle" /\ diAnswer' = "port" ELSE DistroPowerOff /\ UNCHANGED diAnswer
    /\ UNCHANGED <<diReq, diSent, diBoot, diSig, diSaved, diMount, diPlan9, childVars>> /\ LoopFrame

\* A message that changes nothing here: the time zone.
UpdateTimezone ==
    /\ diPc = "timezone" /\ diPc' = "idle"
    /\ UNCHANGED <<diReq, diSent, diAnswer, diBoot, diSig, diSaved, diMount, diPlan9, childVars>> /\ LoopFrame

\* The service hangs up, or sends an unexpected message.
ServiceHangsUp ==
    /\ diPc = "idle" /\ DistroPowerOff
    /\ UNCHANGED <<diReq, diSent, diAnswer, diBoot, diSig, diSaved, diMount, diPlan9, childVars>> /\ LoopFrame

\* One SIGCHLD is read and one child is reaped; the watched process ends the loop.
ReapsOne ==
    /\ diPc = "idle" /\ diSignal
    /\ diSignal' = FALSE
    /\ \/ distro = "zombie" /\ distro' = "gone" /\ DistroPowerOff /\ UNCHANGED diLeader
       \/ \E l \in Leaders : /\ diLeader[l] = "zombie"
                             /\ diLeader' = [diLeader EXCEPT ![l] = "gone"]
                             /\ UNCHANGED <<distro, diPc>>
       \/ /\ distro # "zombie" /\ \A l \in Leaders : diLeader[l] # "zombie"
          /\ UNCHANGED <<diLeader, distro, diPc>>
    /\ UNCHANGED <<diReq, diSent, diAnswer, diBoot, diSig, diSaved, diMount, diPlan9>> /\ LoopFrame

\* A session leader exits when the service closes its channel; the watched
\* process exits.
LeaderExits(l) ==
    /\ diPc # "down" /\ diLeader[l] = "alive" /\ diLeader' = [diLeader EXCEPT ![l] = Ended] /\ Signals
    /\ UNCHANGED <<loopVars, diSig, distro>> /\ LoopFrame

UserInitExits ==
    /\ distro = "alive" /\ distro' = "zombie" /\ Signals
    /\ UNCHANGED <<loopVars, diSig, diLeader>> /\ LoopFrame

-----------------------------------------------------------------------------
(* A process: CreateProcessCommon, in a child of a session leader.         *)

ProcFrame == UNCHANGED <<loopVars, diWatch, diSig, childVars, diWorker, diClient, sessions, unit>>
Becomes(p, s) == diProc' = [diProc EXCEPT ![p] = s]

\* A login session is asked for if init is not pid 1.  Without a server to connect
\* to the exception ends the process.
AsksForSession(p) ==
    CASE ~BootInit                      -> Becomes(p, "runs") /\ UNCHANGED diWait
      [] BootInit /\ diWorker # "ended" -> Becomes(p, "asks") /\ diWait' = diWait \cup {p}
      [] BootInit /\ diWorker = "ended" -> Becomes(p, "ended") /\ UNCHANGED diWait

\* The signal mask, the environment and the first-run command, if it was asked for:
\* when that fails the process ends.
ProcessBegins(p, ok) ==
    /\ diProc[p] = "none" /\ \E l \in Leaders : diLeader[l] = "alive"
    /\ diPc # "down"
    /\ IF ok THEN AsksForSession(p) ELSE Becomes(p, "ended") /\ UNCHANGED diWait
    /\ ProcFrame

\* It execs whatever the answer was; a failure is only printed.
ProcessExecs(p) ==
    /\ diProc[p] \in {"has session", "no session"} /\ Becomes(p, "runs")
    /\ UNCHANGED diWait /\ ProcFrame

\* It is killed while it waits for the answer: its connection stays in the queue.
ProcessKilled(p) ==
    /\ diProc[p] = "asks" /\ Becomes(p, "ended")
    /\ UNCHANGED diWait /\ ProcFrame

-----------------------------------------------------------------------------
(* The interop thread.                                                     *)

WorkerFrame == diPc # "down" /\ UNCHANGED <<diReq, diSent, diAnswer, diSaved, diMount, diPlan9, diBoot,
                                            diWatch, childVars>>
Uid == UidOf[diClient]

\* A client is accepted and its message received; one that has closed before it
\* sent, or sends a part within the socket's time limit, is dropped.
InteropAccepts(p) ==
    /\ diWorker = "accept" /\ p \in diWait /\ diWait' = diWait \ {p}
    /\ \/ diWorker' = "message" /\ diClient' = p
       \/ diProc[p] = "ended" /\ UNCHANGED <<diWorker, diClient>>
    /\ UNCHANGED <<diPc, diProc, diSig, sessions, unit>> /\ WorkerFrame

\* Somebody sends a header with a wrong sequence number: ReceiveMessageOrClosed
\* throws, UtilCreateWorkerThread logs it and the thread is over for good.  Its
\* server goes with it, so that the clients in the queue see their sockets closed.
InteropThrows ==
    /\ diWorker = "accept" /\ diWorker' = "ended" /\ diWait' = {}
    /\ diProc' = [p \in Procs |-> IF p \in diWait THEN "ended" ELSE diProc[p]]
    /\ UNCHANGED <<diPc, diClient, diSig, sessions, unit>> /\ WorkerFrame

\* Slip: only success is answered.
LoginAnswer_Success(success) ==
    /\ IF success THEN Becomes(diClient, "has session") ELSE UNCHANGED diProc
    /\ diWorker' = "accept" /\ diClient' = NoClient /\ UNCHANGED diPc

\* The answer is sent when ConfigHandleInteropMessage returns, whatever it was, by
\* a scope_exit: when the client is gone it throws, which terminates init.
LoginAnswer(success) ==
    /\ IF diProc[diClient] = "ended"
       THEN DistroPowerOff /\ UNCHANGED diProc
       ELSE Becomes(diClient, IF success THEN "has session" ELSE "no session") /\ UNCHANGED diPc
    /\ diWorker' = "accept" /\ diClient' = NoClient

\* CreateLoginSession: a user whose session was asked for before has one; else
\* login is started on a terminal of its own.
CreateLoginSession(ok) ==
    /\ diWorker = "message"
    /\ CASE Uid \in sessions -> LoginAnswer(TRUE) /\ UNCHANGED <<sessions, unit, diSig>>
         [] Uid \notin sessions /\ ~ok -> LoginAnswer(FALSE) /\ UNCHANGED <<sessions, unit, diSig>>
         [] OTHER -> /\ sessions' = sessions \cup {Uid} /\ diSig' = "dfl"
                     /\ unit' = [unit EXCEPT ![Uid] = "starting"]
                     /\ diWorker' = "check" /\ UNCHANGED <<diProc, diClient, diPc>>
    /\ UNCHANGED diWait /\ WorkerFrame

\* UtilExecCommandLine: pclose finds its child only if nobody ignores SIGCHLD by now.
ExitCodeKnown == diSig = "dfl"

\* systemctl is-active must exit with 0; "failed" is read from its output.  The wait ends with either or with the
\* timeout.
LoginChecked ==
    /\ diWorker = "check"
    /\ LoginAnswer(BootInitTimeout = 0 \/ (unit[Uid] = "active" /\ ExitCodeKnown))
    /\ diSig' = "ign"
    /\ UNCHANGED <<diWait, sessions, unit>> /\ WorkerFrame

UnitStarts(u, ok) ==
    /\ unit[u] = "starting" /\ unit' = [unit EXCEPT ![u] = IF ok THEN "active" ELSE "failed"]
    /\ UNCHANGED <<diPc, diWorker, diClient, diWait, diProc, diSig, sessions>> /\ WorkerFrame

-----------------------------------------------------------------------------

DistroLoop ==
    \/ \E end \in {"done", "thrown", "fatal"}, p9 \in {"none", "idle"} : InitializeInstance(end, p9)
    \/ WaitForBootProcess \/ BootWaited \/ MountForks \/ MountWaited \/ UpdateTimezone \/ ReapsOne
    \/ \E l \in Leaders, end \in {"forked", "no fork", "no socket"} : CreateSessionLeader(l, end)
    \/ \E force \in BOOLEAN : TerminateInstance(force)
    \/ \E ok \in BOOLEAN : CreateProcessMessage(ok)

Interop == \/ \E p \in Procs : InteropAccepts(p)
           \/ \E ok \in BOOLEAN : CreateLoginSession(ok)
           \/ LoginChecked

\* Somebody opens or closes a file through the Plan 9 server.
Plan9Used ==
    /\ diPlan9 \in {"idle", "busy"} /\ diPlan9' = (IF diPlan9 = "idle" THEN "busy" ELSE "idle")
    /\ UNCHANGED <<diPc, diReq, diSent, diAnswer, diBoot, diSaved, diMount, diSig, childVars>> /\ LoopFrame

DiNext ==
    \/ DistroLoop \/ Interop \/ InteropThrows \/ MountEnds \/ ServiceHangsUp \/ UserInitExits \/ Plan9Used
    \/ \E req \in {"session", "remount", "terminate", "force", "timezone", "create"} :
          /\ req = "session" => \E l \in Leaders : diLeader[l] = "none"
          /\ Receives(req)
    \/ \E l \in Leaders : LeaderExits(l)
    \/ \E p \in Procs : ProcessExecs(p) \/ ProcessKilled(p) \/ \E ok \in BOOLEAN : ProcessBegins(p, ok)
    \/ \E u \in Uids, ok \in BOOLEAN : UnitStarts(u, ok)

DiSpec == DiInit /\ [][DiNext]_diVars

\* Both threads run, and the mount process ends.  Processes and the service owe
\* nothing, and the waits for systemd's boot and for a unit have timeouts; the
\* answer of the Plan 9 server to its stop, a systemctl that was started and the
\* mount process are waited for without one and are assumed to end.
DiFairSpec == DiSpec /\ WF_diVars(DistroLoop) /\ WF_diVars(Interop) /\ WF_diVars(MountEnds)

-----------------------------------------------------------------------------

(* Type invariant. *)
DiTypeOK ==
    /\ diSig \in {"ign", "dfl"} /\ diSaved \in {"ign", "dfl"}
    /\ diBoot \in {"off", "waiting", "booting"} /\ diWait \subseteq Procs
    /\ diClient \in Procs \cup {NoClient} /\ sessions \subseteq Uids
    /\ diPlan9 \in {"none", "idle", "busy", "stopped"}
    /\ diWorker \in {"none", "accept", "message", "check", "ended"}

(* No process asks for a login session while pid 1 still waits to become   *)
(* systemd, and login is run once for a user: the unit of a user, up or    *)
(* failed, is not started again for the user's next process.               *)
LoginsInOrder ==
    /\ [](diBoot = "waiting" => \A p \in Procs : diProc[p] # "asks")
    /\ [][\A u \in Uids : unit[u] \in {"active", "failed"} => unit'[u] = unit[u]]_diVars

(* Every process that asks for a login session is told whether it has one, *)
(* or finds the server gone and ends: none waits for ever, whatever        *)
(* systemd, the other clients and the other thread do, unless the instance *)
(* goes down.                                                              *)
LoginsAnswered == \A p \in Procs : diProc[p] # "asks" \/ diPc = "down"

(* Every message is handled to its end, or init powers the instance off.   *)
MessagesHandled == diPc \in {"start", "idle", "down"}

(* "Ignoring SIGCHLD automatically reaps zombie processes": between the    *)
(* windows in which a thread waits for a child, SIGCHLD is ignored.        *)
SigchldIgnored ==
    (~diWatch /\ diPc \in {"idle", "down"} /\ diWorker \in {"none", "accept", "message", "ended"}) => diSig = "ign"

(* "Keep track of login sessions that have been created": a process is     *)
(* told that it has a session only if it was created.                      *)
LoginTruthful ==
    \A p \in Procs : diProc[p] = "has session" => unit[UidOf[p]] = "active"

(* "watch it so the distribution can be terminated when that process       *)
(* exits".                                                                 *)
DistroEndsWithInit == (distro = "zombie") ~> (diPc = "down")

(* A forced TerminateInstance stops the Plan 9 server.                     *)
ForceHonoured == diReq = "force" => diAnswer # "refused"

(* What the init of a distribution promises: logins are made once and in   *)
(* order, and, processes and messages being finitely many, from some       *)
(* moment on every login is answered and every message handled.            *)
DistroServes == []DiTypeOK /\ LoginsInOrder /\ <>[](LoginsAnswered /\ MessagesHandled)
=============================================================================
