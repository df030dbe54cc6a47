-------------------------------- MODULE DrvFs --------------------------------
(***************************************************************************)
(* The Windows drives of a distribution (linux/init/config.cpp, drvfs.cpp).*)
(* Init mounts them when the instance is created, for the side - elevated  *)
(* ("admin") or not ("user") - that created it; when the other side first  *)
(* uses the distribution, it makes a second mount namespace and mounts     *)
(* there what the first one has, from the other side's file server.        *)
(* Meanwhile users may mount drives with mount.drvfs.                      *)
(*                                                                         *)
(* A mount is a drive, a mount point ("auto" below the automount prefix or *)
(* "own"), the side whose server it uses, and a layer: 2 is a mount on top *)
(* of a mount of the same drive.  Options, owners and paths are left out.  *)
(* Left out too: that the new namespace cannot be opened and init then     *)
(* cannot go back either.                                                  *)
(***************************************************************************)
EXTENDS Integers, FiniteSets

CONSTANTS Drives,        \* drive letters, as numbers
          Transports,    \* which of "hvsocket", "virtio9p" and "virtiofs" the VM may use
          FsTabSettings, \* values of automount.mountFsTab
          MaxUserMounts  \* mounts made by users

ASSUME DrAssumption ==
    /\ Transports \subseteq {"hvsocket", "virtio9p", "virtiofs"}
    /\ FsTabSettings \subseteq BOOLEAN /\ MaxUserMounts \in Nat

VARIABLES
    drPc,     \* what init is doing
    drTrans,  \* the transport, from the feature flags
    drFsTab,  \* Config.MountFsTab
    drAuto,   \* Config.AutoMount
    drReg,    \* sides whose mount namespace is registered
    drNs,     \* the drvfs mounts of each side's namespace
    drCur,    \* the namespace init is in
    drSide,   \* the side of the request
    drVols,   \* Message->VolumesToMount
    drUnread, \* Message->UnreadableVolumes
    drRead,   \* the mounts the mountinfo file listed
    drTodo,   \* those still to be mounted again
    drBits,   \* volumesToMount
    drFail,   \* a mount failed
    drResult, \* the answer
    drUser    \* mounts made by users

drVars == <<drPc, drTrans, drFsTab, drAuto, drReg, drNs, drCur, drSide, drVols, drUnread, drRead,
            drTodo, drBits, drFail, drResult, drUser>>

Sides == {"admin", "user"}
Opposite(s) == IF s = "admin" THEN "user" ELSE "admin"
DriveMount == [drive : Drives, point : {"auto", "own"}, side : Sides, layer : 1..2]

DrInit ==
    /\ drPc = "off" /\ drTrans \in Transports /\ drFsTab \in FsTabSettings
    /\ drAuto \in BOOLEAN /\ drReg = {} /\ drNs = [s \in Sides |-> {}] /\ drCur = "user" /\ drSide = "user"
    /\ drVols = {} /\ drUnread = {} /\ drRead = {} /\ drTodo = {} /\ drBits = {}
    /\ drFail = FALSE /\ drResult = "none" /\ drUser = 0

\* A mount on a point that has one already covers it.
Over(mounts, d, p, s) ==
    [drive |-> d, point |-> p, side |-> s,
     layer |-> IF \E m \in mounts : m.drive = d /\ m.point = p THEN 2 ELSE 1]

\* Drives that mountinfo shows at their automount point.
MountedDrvFsVolumes(mounts) == {m.drive : m \in {n \in mounts : n.point = "auto"}}

\* Slip: the bit is cleared after the index was increased.
MountDrvFsVolumes_NextBit(mounts, bits, side, ok) ==
    mounts \cup {Over(mounts, d, "auto", side) : d \in {e \in bits : e - 1 \notin bits} \cap ok}

\* ConfigMountDrvFsVolumes: drives that are mounted at their place are looked for
\* only when fstab was processed.  The mounts of the drives in ok succeed.
MountDrvFsVolumes(mounts, bits, side, ok) ==
    LET mounted == IF drFsTab THEN MountedDrvFsVolumes(mounts) ELSE {}
    IN mounts \cup {Over(mounts, d, "auto", side) : d \in (bits \ mounted) \cap ok}

\* ConfigInitializeInstance: mount -a with the environment telling mount.drvfs
\* the side, ConfigInitializeVmMode, then, if configured, the drives the message
\* lists.
Initialize(side, tab, vols, ok) ==
    /\ drPc = "off"
    /\ drFsTab \/ tab = {}
    /\ drPc' = "idle" /\ drReg' = {side} /\ drCur' = side
    /\ LET first == {[drive |-> t[1], point |-> t[2], side |-> side, layer |-> 1] : t \in tab}
       IN drNs' = [drNs EXCEPT ![side] = 
              IF drAuto THEN MountDrvFsVolumes(first, vols, side, ok) ELSE first]
    /\ UNCHANGED <<drTrans, drFsTab, drAuto, drSide, drVols, drUnread, drRead, drTodo, drBits, drFail,
                   drResult, drUser>>

\* IsDrvfsElevated: the interop server knows the side of its processes; one that
\* cannot be reached means the user's.
IsDrvfsElevated(s, reached) == IF reached THEN s ELSE "user"

\* MountDrvfs: a drive is mounted from the server of side s.
MountDrvfs(mounts, d, p, s) == mounts \cup {Over(mounts, d, p, s)}

\* MountDrvfsEntry in a process of side s.
UserMounts(s, d, reached) ==
    /\ s \in drReg /\ drUser < MaxUserMounts /\ drUser' = drUser + 1
    /\ \A m \in drNs[s] : ~(m.drive = d /\ m.point = "own")
    /\ drNs' = [drNs EXCEPT ![s] = MountDrvfs(@, d, "own", IsDrvfsElevated(s, reached))]
    /\ UNCHANGED <<drPc, drTrans, drFsTab, drAuto, drReg, drCur, drSide, drVols, drUnread, drRead, drTodo,
                   drBits, drFail, drResult>>

-----------------------------------------------------------------------------
(* ConfigRemountDrvFsImpl.                                                 *)

\* The answer is sent; a request that has made its namespace goes back to the
\* original one, and only logs it when it cannot (back).  What a request that did
\* not succeed has read is forgotten.
Answers(result, back) ==
    /\ drPc' = "idle" /\ drResult' = result /\ drTodo' = {} /\ drBits' = {}
    /\ IF result = "done"
       THEN UNCHANGED <<drSide, drVols, drUnread, drRead>>
       ELSE drSide' = drSide /\ drVols' = {} /\ drUnread' = {} /\ drRead' = {}
    /\ drCur' = IF back /\ drPc \in {"parse", "mount"} THEN Opposite(drSide) ELSE drCur

\* Refused: a side that is registered, or mountinfo or the namespace cannot be read.
RemountRefused ==
    /\ drPc = "idle" /\ drReg # {}
    /\ Answers("failed", TRUE)
    /\ UNCHANGED <<drTrans, drFsTab, drAuto, drReg, drNs, drFail, drUser>>

\* Else mountinfo is read.
RemountBegins(side, vols, unread) ==
    /\ drPc = "idle" /\ drReg # {} /\ side \notin drReg
    /\ drPc' = "unshare" /\ drRead' = drNs[drCur] /\ drFail' = FALSE
    /\ drSide' = side /\ drVols' = vols /\ drUnread' = unread
    /\ UNCHANGED <<drTrans, drFsTab, drAuto, drReg, drNs, drCur, drTodo, drBits, drResult, drUser>>

\* Slip: the mounts are changed in the namespace init is in.
RemountUnshares_Not(ok) ==
    /\ drPc = "unshare"
    /\ drPc' = "parse" /\ drReg' = drReg \cup {drSide}
    /\ drNs' = [drNs EXCEPT ![drSide] = drNs[drCur]]
    /\ UNCHANGED <<drTrans, drFsTab, drAuto, drCur, drSide, drVols, drUnread, drRead, drTodo, drBits,
                   drFail, drResult, drUser>>

\* unshare copies the mounts there are now; the new namespace is registered.
RemountUnshares(ok) ==
    /\ drPc = "unshare"
    /\ IF ok
       THEN /\ drPc' = "parse" /\ drCur' = drSide /\ drReg' = drReg \cup {drSide}
            /\ drNs' = [drNs EXCEPT ![drSide] = drNs[drCur]]
            /\ UNCHANGED <<drSide, drVols, drUnread, drRead, drTodo, drBits, drResult>>
       ELSE Answers("failed", TRUE) /\ UNCHANGED <<drReg, drNs>>
    /\ UNCHANGED <<drTrans, drFsTab, drAuto, drFail, drUser>>

\* What was read is unmounted; a mount that umount2 fails for stays.
RemountParses(stuck) ==
    /\ drPc = "parse"
    /\ drPc' = "mount" /\ drTodo' = drRead /\ drBits' = drVols
    /\ drNs' = [drNs EXCEPT ![drCur] = @ \ (drRead \ stuck)]
    /\ UNCHANGED <<drTrans, drFsTab, drAuto, drReg, drCur, drSide, drVols, drUnread, drRead, drFail,
                   drResult, drUser>>

\* A line that cannot be parsed, or an exception, ends the request where it is.
RemountAbandons(back) ==
    /\ drPc \in {"parse", "mount"}
    /\ Answers("failed", back)
    /\ UNCHANGED <<drTrans, drFsTab, drAuto, drReg, drNs, drFail, drUser>>

\* Whether the source of mount m has the tag of the other side.  (The user's tag
\* is a prefix of the administrator's.)
HasOldTag(m) == CASE drTrans = "hvsocket" -> TRUE
                  [] drTrans = "virtio9p" -> m.side = Opposite(drSide)
                  [] drTrans = "virtiofs" -> m.side = Opposite(drSide) \/ drSide = "admin"

Unreadable(m) == drTrans # "virtiofs" /\ m.drive \in drUnread

\* The mount again from the other server: a new connection or, with virtio, the
\* other side's device, which is waited for for two seconds; for virtiofs the
\* service first makes a share for the side.
MountPlan9Filesystem(m, ok) == IF ok THEN {Over(drNs[drCur], m.drive, m.point, drSide)} ELSE {}
RemountVirtioFs(m, ok) == IF ok THEN {Over(drNs[drCur], m.drive, m.point, drSide)} ELSE {}

RemountsOne(m, ok) ==
    /\ drPc = "mount" /\ m \in drTodo
    /\ drTodo' = drTodo \ {m}
    /\ drBits' = IF Unreadable(m) \/ drTrans = "virtiofs" THEN drBits ELSE drBits \ {m.drive}
    /\ IF HasOldTag(m) /\ ~Unreadable(m)
       THEN /\ drFail' = (drFail \/ ~ok)
            /\ drNs' = [drNs EXCEPT ![drCur] = @ \cup
                   IF drTrans = "virtiofs" THEN RemountVirtioFs(m, ok) ELSE MountPlan9Filesystem(m, ok)]
       ELSE UNCHANGED <<drFail, drNs>>
    /\ UNCHANGED <<drPc, drTrans, drFsTab, drAuto, drReg, drCur, drSide, drVols, drUnread, drRead, drResult, drUser>>

\* If configured, the drives that were not in mountinfo.
RemountsRest(ok, back) ==
    /\ drPc = "mount" /\ drTodo = {}
    /\ IF drAuto
       THEN /\ drNs' = [drNs EXCEPT ![drCur] = MountDrvFsVolumes(@, drBits, drSide, ok)]
            /\ drFail' = (drFail \/ ~(drBits \subseteq ok))
       ELSE UNCHANGED <<drNs, drFail>>
    /\ Answers("done", back)
    /\ UNCHANGED <<drTrans, drFsTab, drAuto, drReg, drUser>>

DrNext ==
    \/ \E side \in Sides, tab \in SUBSET (Drives \X {"auto", "own"}), vols, ok \in SUBSET Drives :
          Cardinality(tab) <= 1 /\ Initialize(side, tab, vols, ok)
    \/ \E s \in Sides, d \in Drives, reached \in BOOLEAN : UserMounts(s, d, reached)
    \/ RemountRefused
    \/ \E side \in Sides, vols, unread \in SUBSET Drives : RemountBegins(side, vols, unread)
    \/ \E ok \in BOOLEAN : RemountUnshares(ok)
    \/ \E stuck \in SUBSET drRead : RemountParses(stuck)
    \/ \E back \in BOOLEAN : RemountAbandons(back)
    \/ \E m \in drTodo, ok \in BOOLEAN : RemountsOne(m, ok)
    \/ \E ok \in SUBSET Drives, back \in BOOLEAN : RemountsRest(ok, back)

DrSpec == DrInit /\ [][DrNext]_drVars

-----------------------------------------------------------------------------

(* Type invariant. *)
DrTypeOK ==
    /\ drNs \in [Sides -> SUBSET DriveMount] /\ drReg \subseteq Sides
    /\ drPc \in {"off", "idle", "unshare", "parse", "mount"}
    /\ drTodo \subseteq drRead /\ drBits \subseteq Drives

(* Mounting the drives for one side takes nothing away from the other      *)
(* side's processes, whatever fails on the way.                            *)
OtherSideKept ==
    [][drPc # "off" => \A s \in Sides : s \in drReg /\ (drPc = "idle" \/ s # drSide)
           => drNs[s] \subseteq drNs'[s]]_drVars

(* After a request that succeeded the side has every drive it was told to  *)
(* mount and can read, unless mounting it failed or the drive was mounted  *)
(* from this side's server before.  With automount off, that is every such *)
(* drive that the other side had when the request was made.                *)
RemountComplete ==
    (drPc = "idle" /\ drResult = "done" /\ ~drFail) =>
        \A d \in drVols \ drUnread : drAuto \/ (\E m \in drRead : m.drive = d) =>
            \/ \E m \in drNs[drSide] : m.drive = d
            \/ \E m \in drRead : m.drive = d /\ m.side = drSide

(* "Read the mountinfo file for the namespace that is already configured"  *)
(* and mount again what is in it: a side's processes use the drives        *)
(* through their own side's server, except where a user's mount.drvfs      *)
(* could not ask for the side.                                             *)
SidesApart ==
    drPc = "idle" /\ drResult = "done" => \A m \in drNs["user"] : m.side = "user"

(* "mount any drive that hasn't been found in MountInfo": no drive is      *)
(* mounted over itself.                                                    *)
NoDoubleMount == drPc = "idle" => \A s \in Sides : \A m \in drNs[s] : m.layer = 1

(* What mounting the drives for a side promises when it is over: the side  *)
(* has the drives it was told of.                                          *)
DrvFsSafe == DrTypeOK /\ RemountComplete
=============================================================================
