------------------------------ MODULE MiniInit ------------------------------
(***************************************************************************)
(* mini_init, the first process of the utility VM (linux/init/main.cpp):   *)
(* its boot, the loop that takes the service's messages and reaps its      *)
(* children, the children that carry requests out, and the way it ends:    *)
(* kill every process, detach every disk, power off.                       *)
(*                                                                         *)
(* mini_init handles one message at a time; what a message does before it  *)
(* returns is one step, except the wait for dhclient.  A request that runs *)
(* in a child goes on beside the loop, step by step.  Distributions run in *)
(* a mount namespace of their own, which dies with them, and disk requests *)
(* in mini_init's.                                                         *)
(*                                                                         *)
(* Any system call may fail, MaxFaults times in a run.  The service (which *)
(* is not part of this repository) sends requests, connects to a port it   *)
(* was told of when the answer says the request goes well, and may close   *)
(* the channel, which tells mini_init to end.                              *)
(***************************************************************************)
EXTENDS Integers, Sequences, FiniteSets

CONSTANTS Scripts,      \* sequences of messages the service may send
          MaxReqs,      \* longest of them
          Luns,         \* SCSI disks
          Names,        \* mount targets
          MaxFaults     \* failing calls

Reqs == 1..MaxReqs
MessageTypes == {"early", "initial", "launch", "import", "inplace", "export", "mount", "unmount",
                 "detach", "pmem", "resize", "eject", "folder", "process", "unknown"}
MiniMessages == [type : MessageTypes, lun : Luns \cup {0}, name : Names, flag : BOOLEAN]

ASSUME MiniAssumption ==
    /\ MaxReqs \in Nat /\ MaxFaults \in Nat
    /\ \A s \in Scripts : s \in Seq(MiniMessages) /\ Len(s) <= MaxReqs

VARIABLES
    phase,      \* what mini_init does
    cause,      \* the message it left its loop for, or why
    script,     \* messages received so far, in order
    inbox,      \* requests in the channel
    hup,        \* the service closed the channel
    config,     \* VmConfiguration
    child,      \* the process that carries a request out
    open,       \* guest ends of the sockets made for a request
    ans,        \* answers the service has got for a request
    daemons,    \* other children
    sigchld,    \* SIGCHLD is pending in the signalfd
    notified,   \* whether the service was told of a child's exit
    mounts,     \* disk mounts of mini_init's namespace: name -> lun, or 0
    disks,      \* disks that are attached
    torn,       \* disks that an eject, a failing umount or an exception left mounted
    unkilled,   \* the killing of the processes was given up
    faults

vars == <<phase, cause, script, inbox, hup, config, child, open, ans, daemons,
          sigchld, notified, mounts, disks, torn, unkilled, faults>>
exitVars == <<torn, unkilled>>

NoChild == [pc |-> "none", mnt |-> 0, good |-> FALSE, user |-> "none", linked |-> FALSE]

Init ==
    /\ phase = "boot" /\ cause = "none"
    /\ script = <<>> /\ inbox = <<>> /\ hup = FALSE
    /\ config = [sys |-> FALSE, gui |-> FALSE, gpu |-> FALSE, mods |-> FALSE, shared |-> FALSE]
    /\ child = [r \in Reqs |-> NoChild]
    /\ open = [r \in Reqs |-> {}]
    /\ ans = [r \in Reqs |-> <<>>]
    /\ daemons = {} /\ sigchld = FALSE /\ notified = [r \in Reqs |-> "no"]
    /\ mounts = [n \in Names |-> 0]
    /\ disks = Luns
    /\ torn = {} /\ unkilled = FALSE /\ faults = 0

-----------------------------------------------------------------------------
(* Calls that can fail.                                                    *)

Works == UNCHANGED faults
Breaks == faults < MaxFaults /\ faults' = faults + 1
Choose(ok) == IF ok THEN Works ELSE Breaks

Kind(r) == script[r].type
Lun(r) == script[r].lun
Name(r) == script[r].name
\* What a message's flag asks for: GUI applications (the configuration), the
\* system distro (a launch), a partition (a mount).
Flag(r) == script[r].flag

\* GetLunDevicePath: the device of a disk that is attached.
Found(r) == Lun(r) \in disks

-----------------------------------------------------------------------------
(* The service                                                             *)

ServiceSends(s) ==
    /\ phase \notin {"off", "panic"} /\ ~hup
    /\ Len(script) < Len(s) /\ \A i \in 1..Len(script) : script[i] = s[i]
    /\ script' = Append(script, s[Len(script) + 1])
    /\ inbox' = Append(inbox, Len(script) + 1)
    /\ UNCHANGED <<phase, cause, hup, config, child, open, ans, daemons, sigchld,
                   notified, mounts, disks, exitVars, faults>>

ServiceCloses ==
    /\ phase \notin {"off", "panic"} /\ ~hup
    /\ hup' = TRUE
    /\ UNCHANGED <<phase, cause, script, inbox, config, child, open, ans, daemons, sigchld,
                   notified, mounts, disks, exitVars, faults>>

\* It connects the data and error sockets of an import or export that is ready.
ServiceConnects(r) ==
    /\ child[r].pc = "accept" /\ ans[r] = <<"ok">> /\ ~child[r].linked
    /\ child' = [child EXCEPT ![r].linked = TRUE]
    /\ UNCHANGED <<phase, cause, script, inbox, hup, config, open, ans, daemons, sigchld,
                   notified, mounts, disks, exitVars, faults>>

-----------------------------------------------------------------------------
(* main: boot and the messages                                             *)

\* The channels to the service, procfs, sysfs and the signalfd: some failures
\* end in the shutdown path, others return from main, which the kernel of a VM
\* whose first process ends does not survive.
Boot ==
    /\ phase = "boot"
    /\ \/ Works /\ phase' = "run" /\ cause' = "none"
       \/ Breaks /\ phase' \in {"kill", "panic"} /\ cause' = "boot"
    /\ UNCHANGED <<script, inbox, hup, config, child, open, ans, daemons, sigchld,
                   notified, mounts, disks, exitVars>>

Taking(types) == /\ phase = "run" /\ inbox # <<>>
                 /\ Kind(Head(inbox)) \in types
                 /\ inbox' = Tail(inbox)
                 /\ UNCHANGED <<script, hup>>
\* ProcessMessage returns 0, or a failure that ends the loop.
Stays == UNCHANGED <<phase, cause>>
Leaves(r) == phase' = "kill" /\ cause' = Kind(r)

\* What the parts of EarlyConfig do: MountSystemDistro mounts the device and an
\* overlay, moves devtmpfs, procfs and sysfs over and chroots; the debug shell
\* and the time agent are children; the modules' disk is mounted; Initialize
\* makes the shared mounts LaunchInit moves; GNS is a child.
MountSystemDistro(c) == [c EXCEPT !.sys = TRUE]
StartDebugShell == {"shell"}
StartTimeSyncAgent == {"chronyd"}
MountModules(c) == [c EXCEPT !.mods = TRUE]
Initialize(c) == [c EXCEPT !.shared = TRUE]
StartGuestNetworkService == {"gns"}

\* LxMiniInitMessageEarlyConfig: connect for GNS (and DNS tunneling), then these
\* in order.  A failure ends it and leaves what was done so far.
EarlyConfig ==
    /\ Taking({"early"})
    /\ \E done \in 0..4 :
         /\ Choose(done = 4)
         /\ IF done = 4 THEN Stays ELSE Leaves(Head(inbox))
         /\ LET c1 == IF done >= 1 THEN MountSystemDistro(config) ELSE config
                c2 == IF done >= 2 THEN MountModules(c1) ELSE c1
            IN config' = IF done >= 3 THEN Initialize(c2) ELSE c2
         /\ daemons' = daemons
               \cup (IF done >= 1 THEN StartDebugShell \cup StartTimeSyncAgent ELSE {})
               \cup (IF done = 4 THEN StartGuestNetworkService ELSE {})
    /\ UNCHANGED <<child, open, ans, sigchld, notified, mounts, disks, exitVars>>

\* StartPortTracker: nothing, when a connection or the seccomp hook fails.
StartPortTracker(ok) == IF ok THEN {"tracker"} ELSE {}

\* LxMiniInitMessageInitialConfig up to StartDhcpClient, which waits for
\* dhclient to configure the interface ...
InitialConfig ==
    /\ Taking({"initial"})
    /\ phase' = "dhcp" /\ UNCHANGED cause
    /\ \E ok \in BOOLEAN : Choose(ok) /\ daemons' = daemons \cup StartPortTracker(ok)
    /\ UNCHANGED <<config, child, open, ans, sigchld, notified, mounts, disks, exitVars>>

\* StartDhcpClient: dhclient leaves a daemon, which becomes mini_init's child, or
\* fails, which the caller ignores.
StartDhcpClient(ok) == IF ok THEN {"dhclient"} ELSE {}

\* ... and the rest: the port range, the entropy, the GPU shares, the settings.
InitialConfigRest(r) ==
    /\ phase = "dhcp" /\ Kind(r) = "initial"
    /\ \E dhcp, rest \in BOOLEAN :
         /\ (dhcp \/ rest) /\ Choose(dhcp /\ rest)
         /\ daemons' = daemons \cup StartDhcpClient(dhcp)
         /\ config' = IF rest THEN [config EXCEPT !.gpu = TRUE, !.gui = Flag(r)] ELSE config
         /\ IF rest THEN phase' = "run" /\ UNCHANGED cause ELSE Leaves(r)
    /\ sigchld' = TRUE
    /\ UNCHANGED <<script, inbox, hup, child, open, ans, notified, mounts, disks, exitVars>>

\* LaunchInit, Import, ImportInplace and Export: connect, a second time when the
\* service waits for the system distro too, and create the child.
ChildStart(k) == CASE k = "launch" -> "mount" [] k = "import" -> "format" [] OTHER -> "prepare"
LaunchTypes == {"launch", "import", "inplace", "export"}
WantsSystem(r) == Kind(r) = "launch" /\ Flag(r) /\ config.gui

Launch ==
    /\ Taking(LaunchTypes)
    /\ LET r == Head(inbox)
       IN \/ /\ Works /\ Stays
             /\ open' = [open EXCEPT ![r] = IF WantsSystem(r) THEN {"init", "system"} ELSE {"init"}]
             /\ child' = [child EXCEPT ![r].pc = ChildStart(Kind(r))]
          \/ Breaks /\ Leaves(r) /\ UNCHANGED <<open, child>>
    /\ UNCHANGED <<config, ans, daemons, sigchld, notified, mounts, disks, exitVars>>

Answer(r, a) == ans' = [ans EXCEPT ![r] = Append(@, a)]

\* Mount, Unmount, Detach, WaitForPmemDevice and ResizeDistribution: the same,
\* but a failure to connect or to create the child does not end the loop, unless
\* pmem's report of it fails too and throws.
TaskStart(k) == CASE k = "mount" -> "find" [] k = "unmount" -> "umount"
                  [] k = "detach" -> "detach" [] k = "pmem" -> "poll" [] k = "resize" -> "fsck"

DiskTask ==
    /\ Taking({"mount", "unmount", "detach", "pmem", "resize"})
    /\ LET r == Head(inbox)
       IN \/ /\ Works /\ Stays
             /\ open' = [open EXCEPT ![r] = {"init"}]
             /\ child' = [child EXCEPT ![r].pc = TaskStart(Kind(r))]
             /\ UNCHANGED ans
          \/ Breaks /\ Stays /\ UNCHANGED <<open, child, ans>>
          \/ Breaks /\ Stays /\ Kind(r) = "pmem" /\ Answer(r, "err") /\ UNCHANGED <<open, child>>
          \/ Breaks /\ Leaves(r) /\ Kind(r) = "pmem" /\ UNCHANGED <<open, child, ans>>
    /\ UNCHANGED <<config, daemons, sigchld, notified, mounts, disks, exitVars>>

\* LxMiniInitMessageEjectVhd: EjectScsi, which unmounts nothing, and its result,
\* which throws when it cannot be sent.
EjectScsi(l) == disks' = disks \ {l} /\ torn' = torn \cup {l}
Eject ==
    /\ Taking({"eject"})
    /\ LET r == Head(inbox)
       IN \/ Found(r) /\ Works /\ Stays /\ Answer(r, "ok") /\ EjectScsi(Lun(r))
          \/ /\ IF Found(r) THEN Breaks ELSE Works
             /\ Stays /\ Answer(r, "err") /\ UNCHANGED <<disks, torn>>
          \/ Found(r) /\ Breaks /\ Leaves(r) /\ EjectScsi(Lun(r)) /\ UNCHANGED ans
          \/ Breaks /\ Leaves(r) /\ UNCHANGED <<disks, torn, ans>>
    /\ UNCHANGED <<config, child, open, daemons, sigchld, notified, mounts, unkilled>>

\* LxMiniInitMountFolder: MountPlan9 and its result.
MountFolder ==
    /\ Taking({"folder"})
    /\ LET r == Head(inbox)
       IN \/ Works /\ Stays /\ Answer(r, "ok")
          \/ Breaks /\ Stays /\ Answer(r, "err")
          \/ Breaks /\ Leaves(r) /\ UNCHANGED ans
    /\ UNCHANGED <<config, child, open, daemons, sigchld, notified, mounts, disks, exitVars>>

\* LxInitCreateProcess: it tells the port, then waits until the child has
\* exec'ed or failed to, and tells the outcome.
CreateProcess ==
    /\ Taking({"process"})
    /\ LET r == Head(inbox)
           Tells(a) == ans' = [ans EXCEPT ![r] = <<"port", a>>]
       IN \/ Works /\ Stays /\ Tells("ok") /\ daemons' = daemons \cup {"process"} /\ UNCHANGED sigchld
          \/ Breaks /\ Stays /\ Tells("err") /\ sigchld' = TRUE /\ UNCHANGED daemons
          \/ Breaks /\ Leaves(r) /\ UNCHANGED <<ans, daemons, sigchld>>
    /\ UNCHANGED <<config, child, open, notified, mounts, disks, exitVars>>

\* The default of ProcessMessage, and a message too short for its type.
Unknown ==
    /\ Taking({"unknown"})
    /\ Leaves(Head(inbox))
    /\ UNCHANGED <<config, child, open, ans, daemons, sigchld, notified, mounts, disks, exitVars, faults>>

\* The service closed the channel.
Closed ==
    /\ phase = "run" /\ hup
    /\ phase' = "kill" /\ cause' = "closed"
    /\ UNCHANGED <<script, inbox, hup, config, child, open, ans, daemons, sigchld,
                   notified, mounts, disks, exitVars, faults>>

\* poll or the read of the signalfd fails.
LoopFails ==
    /\ phase = "run" /\ Breaks
    /\ phase' = "kill" /\ cause' = "poll"
    /\ UNCHANGED <<script, inbox, hup, config, child, open, ans, daemons, sigchld,
                   notified, mounts, disks, exitVars>>

\* The signalfd is readable: reap every child that exited and tell the service; a
\* notice that cannot be written is lost.
Zombies == {r \in Reqs : child[r].pc = "zombie"}

Reap ==
    /\ phase = "run" /\ sigchld
    /\ sigchld' = FALSE
    /\ \E lost \in SUBSET Zombies :
         /\ Choose(lost = {})
         /\ notified' = [r \in Reqs |-> IF r \in lost THEN "failed"
                                        ELSE IF r \in Zombies THEN "told" ELSE notified[r]]
    /\ child' = [r \in Reqs |-> IF r \in Zombies THEN [child[r] EXCEPT !.pc = "gone"] ELSE child[r]]
    /\ UNCHANGED <<phase, cause, script, inbox, hup, config, open, ans, daemons, mounts, disks, exitVars>>

-----------------------------------------------------------------------------
(* The children                                                            *)

ChildFrame == UNCHANGED <<phase, cause, script, inbox, hup, config, daemons, notified, unkilled>>
At(r, pc) == child[r].pc = pc /\ phase # "off"

\* A child exits: its sockets close, its mount namespace goes, its parent gets
\* SIGCHLD.
Dies(r) ==
    /\ child' = [child EXCEPT ![r].pc = "zombie", ![r].mnt = 0,
                              ![r].user = IF @ = "none" THEN @ ELSE "dead"]
    /\ open' = [open EXCEPT ![r] = {}]
    /\ sigchld' = TRUE
GoesOn(r, pc) == child' = [child EXCEPT ![r].pc = pc] /\ UNCHANGED <<open, sigchld>>

\* A call on the device of a request succeeds, or fails: because the disk is not
\* attached (any more), or for another reason.
OnDevice(r, yes, no) == \/ Found(r) /\ Works /\ yes
                        \/ (IF Found(r) THEN Breaks ELSE Works) /\ no

\* ProcessLaunchInitMessage mounts the disk of the distribution (MountDevice, in
\* the child's own mount namespace), or reports that it could not.
LaunchMounts(r) ==
    /\ At(r, "mount")
    /\ OnDevice(r, /\ child' = [child EXCEPT ![r].mnt = Lun(r), ![r].pc = "gui"]
                   /\ UNCHANGED <<open, ans, sigchld>>,
                   Answer(r, "err") /\ Dies(r))
    /\ UNCHANGED <<mounts, disks, torn>> /\ ChildFrame

\* It launches the system distro unless /etc/wsl.conf opts out: a clone becomes
\* the init of the user's distribution, this process that of the system distro.
LaunchSystem(r) ==
    /\ At(r, "gui")
    /\ \/ "system" \in open[r] /\ Works /\ UNCHANGED <<ans, sigchld>>
          /\ open' = open
          /\ child' = [child EXCEPT ![r].pc = "system", ![r].user = "exec"]
       \/ Works /\ UNCHANGED <<ans, sigchld>>          \* no system distro
          /\ open' = [open EXCEPT ![r] = @ \ {"system"}]
          /\ child' = [child EXCEPT ![r].pc = "exec"]
       \/ "system" \in open[r] /\ Breaks /\ Answer(r, "err") /\ Dies(r)
    /\ UNCHANGED <<mounts, disks, torn>> /\ ChildFrame

\* LaunchSystemDistro makes a writable layer over the system distro's disk.
LaunchSystemDistro(r) ==
    /\ At(r, "system")
    /\ UNCHANGED ans
    /\ \/ Works /\ GoesOn(r, "exec")
       \/ Breaks /\ Dies(r)
    /\ UNCHANGED <<mounts, disks, torn>> /\ ChildFrame

\* LaunchInit moves the shared mounts into the distribution (over a writable
\* overlay if it is read-only or full) and makes its environment ...
LaunchInit(r) ==
    /\ At(r, "exec")
    /\ UNCHANGED ans
    /\ \/ config.shared /\ Works /\ GoesOn(r, "enter")
       \/ (IF config.shared THEN Breaks ELSE Works) /\ Dies(r)
    /\ UNCHANGED <<mounts, disks, torn>> /\ ChildFrame

\* ... bind mounts init, chroots and execs it.  Whatever fails, it ends the
\* process without a report.
EnterDistro(r) ==
    /\ At(r, "enter")
    /\ UNCHANGED ans
    /\ \/ Works /\ GoesOn(r, "running")
       \/ Breaks /\ Dies(r)
    /\ UNCHANGED <<mounts, disks, torn>> /\ ChildFrame

\* The same for the clone that becomes the user's distribution.
LaunchUser(r) ==
    /\ phase # "off" /\ child[r].user = "exec"
    /\ \/ /\ Works /\ child' = [child EXCEPT ![r].user = "running"]
          /\ UNCHANGED open
       \/ /\ Breaks /\ child' = [child EXCEPT ![r].user = "dead"]
          /\ open' = [open EXCEPT ![r] = @ \ {"init"}]
    /\ UNCHANGED <<ans, sigchld, mounts, disks, torn>> /\ ChildFrame

\* A distribution ends, for any reason.
DistroExits(r) ==
    /\ At(r, "running")
    /\ Dies(r)
    /\ UNCHANGED <<ans, mounts, disks, torn, faults>> /\ ChildFrame

\* ProcessImportExportMessage: FormatDevice runs mkfs for an import.  A failure
\* is a positive errno, and "Result < 0" does not return: after the report the
\* child goes on to wait for the connections.
Unprepared(r) == /\ Answer(r, "err")
                 /\ child' = [child EXCEPT ![r].pc = "accept"]
FormatDevice(r) ==
    /\ At(r, "format")
    /\ OnDevice(r, child' = [child EXCEPT ![r].pc = "prepare"] /\ UNCHANGED ans, Unprepared(r))
    /\ UNCHANGED <<open, sigchld, mounts, disks, torn>> /\ ChildFrame

\* It mounts the device and reports that the request is ready.
ImportPrepares(r) ==
    /\ At(r, "prepare")
    /\ OnDevice(r, /\ child' = [child EXCEPT ![r].pc = "accept", ![r].good = TRUE, ![r].mnt = Lun(r)]
                   /\ Answer(r, "ok"),
                   Unprepared(r))
    /\ UNCHANGED <<open, sigchld, mounts, disks, torn>> /\ ChildFrame

\* The data and error sockets are accepted, or the 30 s pass and the scope_exit
\* reports the failure.
AcceptSockets(r) ==
    /\ At(r, "accept")
    /\ \/ /\ child[r].linked /\ Works
          /\ GoesOn(r, IF Kind(r) = "inplace" THEN "post" ELSE "tar") /\ UNCHANGED ans
       \/ (IF child[r].linked THEN Breaks ELSE Works) /\ Answer(r, "failed") /\ Dies(r)
    /\ UNCHANGED <<mounts, disks, torn>> /\ ChildFrame

\* ImportFromSocket: bsdtar extracts.
ImportFromSocket(r) ==
    /\ At(r, "tar") /\ Kind(r) = "import"
    /\ \/ Works /\ GoesOn(r, "post") /\ UNCHANGED ans
       \/ Breaks /\ Answer(r, "failed") /\ Dies(r)
    /\ UNCHANGED <<mounts, disks, torn>> /\ ChildFrame

\* ExportToSocket: bsdtar archives, and the scope_exit writes its result.
ExportToSocket(r) ==
    /\ At(r, "tar") /\ Kind(r) = "export"
    /\ \/ Works /\ Answer(r, "done")
       \/ Breaks /\ Answer(r, "failed")
    /\ Dies(r)
    /\ UNCHANGED <<mounts, disks, torn>> /\ ChildFrame

\* PostProcessImportedDistribution reads the distribution's own settings for
\* the report of success.  It runs in the scope_exit: if it throws, the child
\* is terminated and reports nothing.
PostProcessImportedDistribution(r) ==
    /\ At(r, "post")
    /\ \/ Works /\ Answer(r, "done")
       \/ Breaks /\ UNCHANGED ans
    /\ Dies(r)
    /\ UNCHANGED <<mounts, disks, torn>> /\ ChildFrame

Reports(r, a) == Answer(r, a) /\ Dies(r)

\* ProcessMountMessage, mount: find the device ...
MountFinds(r) ==
    /\ At(r, "find")
    /\ OnDevice(r, GoesOn(r, IF Flag(r) THEN "part" ELSE "detect") /\ UNCHANGED ans, Reports(r, "err"))
    /\ UNCHANGED <<mounts, disks, torn>> /\ ChildFrame

\* ... look for the partition until it shows up or the retries end ...
FindPartition(r) ==
    /\ At(r, "part")
    /\ OnDevice(r, GoesOn(r, "detect") /\ UNCHANGED ans, Reports(r, "err"))
    /\ UNCHANGED <<mounts, disks, torn>> /\ ChildFrame

\* Slip: blkid's failure leaves the child waiting.
DetectFilesystem_Hangs(r) ==
    /\ At(r, "detect")
    /\ OnDevice(r, GoesOn(r, "mnt"), GoesOn(r, "stuck"))
    /\ UNCHANGED <<ans, mounts, disks, torn>> /\ ChildFrame

\* ... let blkid detect its file system ...
DetectFilesystem(r) ==
    /\ At(r, "detect")
    /\ OnDevice(r, GoesOn(r, "mnt") /\ UNCHANGED ans, Reports(r, "err"))
    /\ UNCHANGED <<mounts, disks, torn>> /\ ChildFrame

\* ... and mount it (UtilMount, MountDiskPartition).
MountDiskPartition(r) ==
    /\ At(r, "mnt")
    /\ OnDevice(r, /\ Reports(r, "ok")
                   /\ mounts' = [mounts EXCEPT ![Name(r)] = Lun(r)],
                   Reports(r, "err") /\ UNCHANGED mounts)
    /\ UNCHANGED <<disks, torn>> /\ ChildFrame

\* Unmount: umount, then remove the directory.
Unmounts(r) ==
    /\ At(r, "umount")
    /\ \/ /\ mounts[Name(r)] # 0 /\ Works /\ GoesOn(r, "rmdir") /\ UNCHANGED ans
          /\ mounts' = [mounts EXCEPT ![Name(r)] = 0]
       \/ /\ IF mounts[Name(r)] # 0 THEN Breaks ELSE Works
          /\ Reports(r, "err") /\ UNCHANGED mounts
    /\ UNCHANGED <<disks, torn>> /\ ChildFrame

UnmountRmdir(r) ==
    /\ At(r, "rmdir")
    /\ \/ Works /\ Reports(r, "ok")
       \/ Breaks /\ Reports(r, "err")
    /\ UNCHANGED <<mounts, disks, torn>> /\ ChildFrame

\* DetachScsiDisk, of each of these disks: unmount the disk and its partitions
\* wherever this namespace has them mounted (a failure, here at stuck, is only
\* logged), flush its buffers and delete it, which fails for the disks in left.
DetachScsiDisk(luns, left, stuck) ==
    /\ disks' = (disks \ luns) \cup left
    /\ mounts' = [n \in Names |-> IF mounts[n] \in luns /\ n \notin stuck THEN 0 ELSE mounts[n]]
    /\ torn' = torn \cup {mounts[n] : n \in stuck}

Detaches(r) ==
    /\ At(r, "detach")
    /\ \/ /\ Found(r)
          /\ \E left \in SUBSET {Lun(r)}, stuck \in SUBSET {n \in Names : mounts[n] = Lun(r)} :
               /\ Choose(left = {} /\ stuck = {})
               /\ Reports(r, IF left = {} THEN "ok" ELSE "err")
               /\ DetachScsiDisk({Lun(r)}, left, stuck)
       \/ ~Found(r) /\ Works /\ Reports(r, "err") /\ UNCHANGED <<disks, mounts, torn>>
    /\ ChildFrame

\* ProcessWaitForPmemDeviceMessage: the device appears, or the retries end.
WaitForPmem(r) ==
    /\ At(r, "poll")
    /\ \/ Works /\ Reports(r, "ok")
       \/ Breaks /\ Reports(r, "err")
    /\ UNCHANGED <<mounts, disks, torn>> /\ ChildFrame

\* ProcessResizeDistributionMessage: e2fsck, then resize2fs.
ResizeChecks(r) ==
    /\ At(r, "fsck")
    /\ OnDevice(r, GoesOn(r, "resize") /\ UNCHANGED ans, Reports(r, "err"))
    /\ UNCHANGED <<mounts, disks, torn>> /\ ChildFrame

ResizeDistribution(r) ==
    /\ At(r, "resize")
    /\ OnDevice(r, Reports(r, "ok"), Reports(r, "err"))
    /\ UNCHANGED <<mounts, disks, torn>> /\ ChildFrame

-----------------------------------------------------------------------------
(* ErrorExit                                                               *)

Living == {r \in Reqs : child[r].pc \notin {"none", "gone"}}

\* What processes killed now leave to mini_init: the debug shell its agetty, a
\* disk task the blkid, e2fsck or resize2fs it waits for.  A launched child has
\* a pid namespace, whose processes die with it.
Orphans == (IF "shell" \in daemons THEN {"agetty"} ELSE {})
           \cup (IF \E r \in Reqs : child[r].pc \in {"detect", "fsck", "resize"} THEN {"helper"} ELSE {})

\* SIGKILL to all children that exist now and wait for each, then look again.
KillChildren ==
    /\ phase = "kill"
    /\ Living # {} \/ daemons # {}
    /\ child' = [r \in Reqs |-> IF r \in Living
                                THEN [child[r] EXCEPT !.pc = "gone", !.mnt = 0,
                                                      !.user = IF @ = "none" THEN @ ELSE "dead"]
                                ELSE child[r]]
    /\ open' = [r \in Reqs |-> {}]
    /\ daemons' = Orphans
    /\ UNCHANGED <<phase, cause, script, inbox, hup, config, ans, sigchld, notified, mounts, disks, exitVars, faults>>

\* The list of the children cannot be read, or waitpid fails after the signals were
\* sent: the exception is logged, and mini_init goes on with whatever is left.
KillThrows(sent) ==
    /\ phase = "kill" /\ Breaks
    /\ phase' = "detach" /\ unkilled' = TRUE
    /\ child' = [r \in Reqs |-> IF sent /\ r \in Living
                                THEN [child[r] EXCEPT !.pc = "zombie", !.mnt = 0,
                                                      !.user = IF @ = "none" THEN @ ELSE "dead"]
                                ELSE child[r]]
    /\ open' = IF sent THEN [r \in Reqs |-> {}] ELSE open
    /\ daemons' = IF sent THEN Orphans ELSE daemons
    /\ UNCHANGED <<cause, script, inbox, hup, config, ans, sigchld, notified, mounts, disks, torn>>

\* Slip: one round of killing, whose orphans nobody looks for.
KilledAll_OneRound ==
    /\ phase = "kill"
    /\ Living = {}
    /\ phase' = "detach"
    /\ UNCHANGED <<cause, script, inbox, hup, config, child, open, ans, daemons, sigchld,
                   notified, mounts, disks, exitVars, faults>>

KilledAll ==
    /\ phase = "kill"
    /\ Living = {} /\ daemons = {}
    /\ phase' = "detach"
    /\ UNCHANGED <<cause, script, inbox, hup, config, child, open, ans, daemons, sigchld,
                   notified, mounts, disks, exitVars, faults>>

\* DetachScsiDisk for each disk, where a failure is logged, and
\* reboot(RB_POWER_OFF).  An exception of ListScsiDisks or GetLunDeviceName ends
\* the loop for all the disks it has not come to.
PowerOff ==
    /\ phase = "detach"
    /\ phase' = "off"
    /\ \/ Works /\ DetachScsiDisk(disks, {}, {})
       \/ /\ Breaks
          /\ \E done \in SUBSET disks : \E left \in SUBSET done :
             \E stuck \in SUBSET {n \in Names : mounts[n] \in disks} :
               /\ {n \in Names : mounts[n] \in disks \ done} \subseteq stuck
               /\ DetachScsiDisk(done, left, stuck)
    /\ UNCHANGED <<cause, script, inbox, hup, config, child, open, ans, daemons, sigchld, notified,
                   unkilled>>

-----------------------------------------------------------------------------

Messages == \/ EarlyConfig \/ InitialConfig \/ Launch \/ DiskTask \/ Eject
            \/ MountFolder \/ CreateProcess \/ Unknown
            \/ \E r \in Reqs : r <= Len(script) /\ InitialConfigRest(r)
Loop == Boot \/ Messages \/ Closed \/ Reap
ErrorExit == KillChildren \/ KilledAll \/ PowerOff \/ \E sent \in BOOLEAN : KillThrows(sent)
ChildSteps(r) ==
    \/ LaunchMounts(r) \/ LaunchSystem(r) \/ LaunchUser(r)
    \/ LaunchSystemDistro(r) \/ LaunchInit(r) \/ EnterDistro(r)
    \/ FormatDevice(r) \/ ImportPrepares(r) \/ AcceptSockets(r)
    \/ ImportFromSocket(r) \/ ExportToSocket(r) \/ PostProcessImportedDistribution(r)
    \/ MountFinds(r) \/ FindPartition(r) \/ DetectFilesystem(r) \/ MountDiskPartition(r)
    \/ Unmounts(r) \/ UnmountRmdir(r) \/ Detaches(r)
    \/ WaitForPmem(r) \/ ResizeChecks(r) \/ ResizeDistribution(r)

Next == \/ Loop \/ LoopFails \/ ErrorExit
        \/ \E r \in Reqs : ChildSteps(r) \/ DistroExits(r) \/ ServiceConnects(r)
        \/ \E s \in Scripts : ServiceSends(s)
        \/ ServiceCloses

Spec == Init /\ [][Next]_vars
FairSpec ==
    /\ Spec
    /\ WF_vars(Loop) /\ WF_vars(ErrorExit)
    /\ \A r \in Reqs : WF_vars(ChildSteps(r))
-----------------------------------------------------------------------------

(* Type invariant. *)
TypeOK ==
    /\ phase \in {"boot", "run", "dhcp", "kill", "detach", "off", "panic"}
    /\ Len(script) <= MaxReqs
    /\ config \in [sys : BOOLEAN, gui : BOOLEAN, gpu : BOOLEAN, mods : BOOLEAN, shared : BOOLEAN]
    /\ \A r \in Reqs : /\ child[r].mnt \in Luns \cup {0}
                       /\ child[r].user \in {"none", "exec", "running", "dead"}
                       /\ open[r] \subseteq {"init", "system"}
                       /\ Len(ans[r]) <= 2
    /\ notified \in [Reqs -> {"no", "told", "failed"}]
    /\ torn \subseteq Luns /\ unkilled \in BOOLEAN
    /\ mounts \in [Names -> Luns \cup {0}] /\ disks \subseteq Luns
    /\ faults \in 0..MaxFaults

(* "Ignore the return code from ProcessWaitForPmemDeviceMessage so that we *)
(* don't exit on error" (and the same of ProcessMountMessage): no failure  *)
(* of a disk request ends the VM.  It does not hold: pmem's report of the  *)
(* failure may throw.                                                      *)
DiskFailureContained == cause \notin {"mount", "unmount", "detach", "pmem", "resize"}

Running == {r \in Reqs : child[r].pc \notin {"none", "gone", "zombie"}}

(* The VM is powered off only when no process is left that could write,   *)
(* orphans of killed children included, and nothing is mounted any more    *)
(* from a disk, in any namespace: unless a call failed that had to bring   *)
(* this about, or the service ejected the disk: a disk that stays mounted  *)
(* is one whose own unmounting failed or was not come to.                  *)
CleanPowerOff ==
    (phase = "off" /\ ~unkilled) => /\ Running = {} /\ daemons = {}
                                    /\ \A r \in Reqs : child[r].mnt = 0
                                    /\ \A n \in Names : mounts[n] = 0 \/ mounts[n] \in torn

(* An import or export is reported done only when its disk was mounted:   *)
(* a child that goes on after a failed preparation never says so.          *)
DoneWasPrepared ==
    \A r \in Reqs : (\E i \in 1..Len(ans[r]) : ans[r][i] = "done") => child[r].good

Received(r) == r <= Len(script) /\ \A i \in 1..Len(inbox) : inbox[i] # r
Settled(r) ==
    \/ phase \in {"off", "panic"}
    \/ Kind(r) \in {"early", "initial", "unknown"}
    \/ Kind(r) \in {"eject", "folder", "process"} /\ ans[r] # <<>>
    \/ Kind(r) \notin {"eject", "folder", "process"} /\ "init" \notin open[r]
    \/ Kind(r) = "launch" /\ IF child[r].user = "none" THEN child[r].pc = "running"
                                                       ELSE child[r].user = "running"

(* Whatever fails, the service does not wait for ever: every request that  *)
(* mini_init took is answered, its distribution runs, or its socket closes. *)
RequestsSettle == \A r \in Reqs : (r <= Len(script) /\ Received(r)) => Settled(r)

GoingDown == phase \in {"kill", "detach", "off", "panic"}

(* A child that mini_init has reaped was reported to the service, unless   *)
(* the write of the notice failed or the VM is going down: SIGCHLDs merge  *)
(* in the signalfd, and none of the children behind one is passed over.    *)
ExitTold == \A r \in Reqs : child[r].pc = "gone" => notified[r] # "no" \/ GoingDown

(* The exit of every child is told to the service in the end, though       *)
(* SIGCHLDs merge and mini_init may be waiting for dhclient.               *)
ExitNotified ==
    \A r \in Reqs : child[r].pc \in {"zombie", "gone"} => notified[r] # "no" \/ GoingDown

(* What mini init promises in every state: no process runs and no disk is  *)
(* mounted when the power goes off, no reaped child goes unreported, and   *)
(* what was reported done had been prepared.                               *)
MiniSafe == TypeOK /\ CleanPowerOff /\ DoneWasPrepared /\ ExitTold

(* What it promises in the end, the requests being finitely many: from     *)
(* some moment on all that were taken are settled and all exits told.      *)
MiniLive == <>[](RequestsSettle /\ ExitNotified)
=============================================================================
