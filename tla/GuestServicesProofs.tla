------------------------- MODULE GuestServicesProofs -------------------------
(***************************************************************************)
(* What is proved of the services of the guest that share no state, for    *)
(* every value of their constants.  Each service has a section.            *)
(***************************************************************************)
EXTENDS DrvFs, Plan9Stub, MemoryReclaim, LocalhostRelay, DnsServer, FiniteSetTheorems,
        WellFoundedInduction, TLAPS

-----------------------------------------------------------------------------
(***************************************************************************)
(* The Windows drives: DrvFsSafe and OtherSideKept.                        *)
(*                                                                         *)
(* Init leaves its namespace for the new one in the middle of a request,   *)
(* so the invariant ties the namespace it is in and the ones that are      *)
(* registered to the step it has reached (DrPlace).  While it mounts, each *)
(* drive it owes is still to be mounted, mounted, or left alone because    *)
(* its mount came from this side's server (DrProgress).                    *)
(***************************************************************************)

(* The types of what init keeps. *)
DrTypes ==
    /\ drTrans \in {"hvsocket", "virtio9p", "virtiofs"} /\ drFsTab \in BOOLEAN /\ drAuto \in BOOLEAN
    /\ drNs \in [Sides -> SUBSET DriveMount] /\ drReg \subseteq Sides
    /\ drPc \in {"off", "idle", "unshare", "parse", "mount"}
    /\ drCur \in Sides /\ drSide \in Sides /\ drVols \subseteq Drives
    /\ drRead \subseteq DriveMount /\ drBits \subseteq Drives /\ drFail \in BOOLEAN
    /\ drTodo \subseteq drRead

(* The namespaces there are and the one init is in, at each of its steps. *)
DrPlace ==
    /\ drPc = "off" => drReg = {} /\ drResult = "none"
    /\ drPc = "idle" => drReg = {drCur} \/ drReg = Sides
    /\ drPc = "unshare" => drReg = {drCur} /\ drCur = Opposite(drSide)
    /\ drPc \in {"parse", "mount"} => drReg = Sides /\ drCur = drSide
    /\ drPc # "mount" => drTodo = {}

(* A drive that was dealt with is mounted, or was this side's before. *)
DriveDone(d) == \/ \E m \in drNs[drSide] : m.drive = d
                \/ \E m \in drRead : m.drive = d /\ m.side = drSide
Owed(d) == d \in drVols \ drUnread /\ (drAuto \/ \E m \in drRead : m.drive = d)
StillToDo(d) == (drAuto /\ d \in drBits) \/ \E m \in drTodo : m.drive = d
DrProgress ==
    /\ drPc = "mount" /\ ~drFail => \A d \in Drives : Owed(d) => DriveDone(d) \/ StillToDo(d)
    /\ drPc = "idle" /\ drResult = "done" => drReg = Sides

DrInv == DrTypes /\ DrPlace /\ DrProgress /\ RemountComplete

(* A mount over another is a mount. *)
LEMMA OverMount ==
    ASSUME NEW mounts, NEW d \in Drives, NEW p \in {"auto", "own"}, NEW s \in Sides
    PROVE  Over(mounts, d, p, s) \in DriveMount
  BY DEF Over, DriveMount

(* Mounting the listed drives keeps what is mounted and adds mounts, and   *)
(* each listed drive has a mount when none of them failed.                 *)
LEMMA MountsVolumes ==
    ASSUME NEW mounts \in SUBSET DriveMount, NEW bits \in SUBSET Drives, NEW s \in Sides,
           NEW ok
    PROVE  LET after == MountDrvFsVolumes(mounts, bits, s, ok)
           IN /\ mounts \subseteq after /\ after \subseteq DriveMount
              /\ bits \subseteq ok => \A d \in bits : \E m \in after : m.drive = d
<1> DEFINE mounted == IF drFsTab THEN MountedDrvFsVolumes(mounts) ELSE {}
           added == {Over(mounts, d, "auto", s) : d \in (bits \ mounted) \cap ok}
<1>1. MountDrvFsVolumes(mounts, bits, s, ok) = mounts \cup added
  BY DEF MountDrvFsVolumes
<1>2. added \subseteq DriveMount
  BY OverMount
<1>3. ASSUME NEW d \in bits, bits \subseteq ok
      PROVE  \E m \in mounts \cup added : m.drive = d
  <2>1. CASE d \in mounted
    BY <2>1 DEF MountedDrvFsVolumes
  <2>2. CASE d \notin mounted
    <3>1. Over(mounts, d, "auto", s) \in added
      BY <1>3, <2>2
    <3>2. Over(mounts, d, "auto", s).drive = d
      BY DEF Over
    <3> QED BY <3>1, <3>2
  <2> QED BY <2>1, <2>2
<1> QED BY <1>1, <1>2, <1>3

LEMMA Opposites == /\ \A s \in Sides : Opposite(s) \in Sides /\ Opposite(s) # s
                   /\ \A s, t \in Sides : s # t => t = Opposite(s)
  BY DEF Sides, Opposite

(* Every step keeps the types. *)
LEMMA DrTypesStep ==
    ASSUME DrTypes, DrPlace, [DrNext]_drVars
    PROVE  DrTypes'
<1>1. ASSUME NEW side \in Sides, NEW tab \in SUBSET (Drives \X {"auto", "own"}), NEW vols \in
            SUBSET Drives, NEW ok \in SUBSET Drives, Initialize(side, tab, vols, ok)
      PROVE  DrTypes'
  <2> DEFINE first == {[drive |-> t[1], point |-> t[2], side |-> side, layer |-> 1] : t \in tab}
             after == IF drAuto THEN MountDrvFsVolumes(first, vols, side, ok) ELSE first
  <2>1. first \in SUBSET DriveMount
    BY DEF DriveMount
  <2>2. after \subseteq DriveMount
    <3> HIDE DEF first
    <3> QED BY <2>1, MountsVolumes
  <2>3. drNs' = [drNs EXCEPT ![side] = after] /\ drTodo' = drTodo
    BY <1>1 DEF Initialize
  <2> HIDE DEF after, first
  <2> QED BY <1>1, <2>2, <2>3 DEF Initialize, DrTypes
<1>2. ASSUME NEW s \in Sides, NEW d \in Drives, NEW reached \in BOOLEAN, UserMounts(s, d, reached)
      PROVE  DrTypes'
  <2> DEFINE new == Over(drNs[s], d, "own", IsDrvfsElevated(s, reached))
  <2>1. new \in DriveMount
    BY OverMount DEF IsDrvfsElevated, Sides
  <2>2. drNs' = [drNs EXCEPT ![s] = @ \cup {new}]
    BY <1>2 DEF UserMounts, MountDrvfs
  <2> HIDE DEF new
  <2> QED BY <1>2, <2>1, <2>2 DEF UserMounts, DrTypes
<1>3. ASSUME NEW side \in Sides, NEW vols \in SUBSET Drives, NEW unread \in SUBSET Drives,
             RemountBegins(side, vols, unread)
      PROVE  DrTypes'
  <2>1. drNs[drCur] \subseteq DriveMount /\ drTodo = {}
    BY <1>3 DEF DrTypes, DrPlace, RemountBegins
  <2>2. drTodo' = {}
    BY <1>3, <2>1 DEF RemountBegins
  <2>3. drRead' \subseteq DriveMount
    BY <1>3, <2>1 DEF RemountBegins, DrTypes
  <2> QED BY <1>3, <2>2, <2>3 DEF RemountBegins, DrTypes
<1>4. ASSUME NEW ok \in BOOLEAN, RemountUnshares(ok)
      PROVE  DrTypes'
  BY Opposites, <1>4 DEF RemountUnshares, Answers, DrTypes, DrPlace
<1>5. ASSUME NEW stuck \in SUBSET drRead, RemountParses(stuck)
      PROVE  DrTypes'
  BY Opposites, <1>5 DEF RemountParses, Answers, DrTypes, DrPlace
<1>6. ASSUME NEW m \in drTodo, NEW ok \in BOOLEAN, RemountsOne(m, ok)
      PROVE  DrTypes'
  <2> DEFINE new == Over(drNs[drCur], m.drive, m.point, drSide)
  <2>1. new \in DriveMount
    <3>1. m.drive \in Drives /\ m.point \in {"auto", "own"}
      BY DEF DrTypes, DriveMount
    <3> QED BY <3>1, OverMount DEF DrTypes
  <2>2. drNs' = drNs \/ drNs' = [drNs EXCEPT ![drCur] = @ \cup {new}]
                    \/ drNs' = [drNs EXCEPT ![drCur] = @ \cup {}]
    BY <1>6 DEF RemountsOne, RemountVirtioFs, MountPlan9Filesystem
  <2>3. drNs' \in [Sides -> SUBSET DriveMount]
    <3> HIDE DEF new
    <3> QED BY <2>1, <2>2 DEF DrTypes
  <2>4. drTodo' \subseteq drRead /\ drBits' \subseteq Drives /\ drFail' \in BOOLEAN
    BY <1>6 DEF RemountsOne, DrTypes
  <2> QED BY <1>6, <2>3, <2>4 DEF RemountsOne, DrTypes
<1>7. ASSUME NEW ok \in SUBSET Drives, NEW back \in BOOLEAN, RemountsRest(ok, back)
      PROVE  DrTypes'
  <2> DEFINE after == MountDrvFsVolumes(drNs[drCur], drBits, drSide, ok)
  <2>1. after \subseteq DriveMount
    BY MountsVolumes DEF DrTypes
  <2>2. drNs' = drNs \/ drNs' = [drNs EXCEPT ![drCur] = after]
    BY <1>7 DEF RemountsRest
  <2>3. drCur' \in Sides /\ drFail' \in BOOLEAN
    BY <1>7, Opposites DEF RemountsRest, Answers, DrTypes
  <2> HIDE DEF after
  <2> QED BY <1>7, <2>1, <2>2, <2>3 DEF RemountsRest, Answers, DrTypes
<1>8. CASE UNCHANGED drVars
  BY Opposites, <1>8 DEF drVars, DrTypes, DrPlace
<1>9. ASSUME RemountRefused
      PROVE  DrTypes'
  BY Opposites, <1>9 DEF RemountRefused, Answers, DrTypes, DrPlace
<1>10. ASSUME NEW back \in BOOLEAN, RemountAbandons(back)
      PROVE  DrTypes'
  BY Opposites, <1>10 DEF RemountAbandons, Answers, DrTypes, DrPlace
<1> QED BY <1>1, <1>2, <1>3, <1>4, <1>5, <1>6, <1>7, <1>8, <1>9, <1>10 DEF DrNext

(* Every step moves init to the place it says. *)
LEMMA DrPlaceStep ==
    ASSUME DrTypes, DrPlace, [DrNext]_drVars
    PROVE  DrPlace'
<1>1. ASSUME NEW side \in Sides, NEW tab \in SUBSET (Drives \X {"auto", "own"}), NEW vols \in
            SUBSET Drives, NEW ok \in SUBSET Drives, Initialize(side, tab, vols, ok)
      PROVE  DrPlace'
  BY Opposites, <1>1 DEF Initialize, DrTypes, DrPlace
<1>2. ASSUME NEW s \in Sides, NEW d \in Drives, NEW reached \in BOOLEAN, UserMounts(s, d, reached)
      PROVE  DrPlace'
  BY Opposites, <1>2 DEF UserMounts, MountDrvfs, IsDrvfsElevated, DrTypes, DrPlace
<1>3. ASSUME NEW side \in Sides, NEW vols \in SUBSET Drives, NEW unread \in SUBSET Drives,
             RemountBegins(side, vols, unread)
      PROVE  DrPlace'
  BY Opposites, <1>3 DEF RemountBegins, Answers, DrTypes, DrPlace
<1>4. ASSUME NEW ok \in BOOLEAN, RemountUnshares(ok)
      PROVE  DrPlace'
  BY Opposites, <1>4 DEF RemountUnshares, Answers, DrTypes, DrPlace
<1>5. ASSUME NEW stuck \in SUBSET drRead, RemountParses(stuck)
      PROVE  DrPlace'
  BY Opposites, <1>5 DEF RemountParses, Answers, DrTypes, DrPlace
<1>6. ASSUME NEW m \in drTodo, NEW ok \in BOOLEAN, RemountsOne(m, ok)
      PROVE  DrPlace'
  BY Opposites, <1>6 DEF RemountsOne, HasOldTag, Unreadable, RemountVirtioFs,
     MountPlan9Filesystem, DrTypes, DrPlace
<1>7. ASSUME NEW ok \in SUBSET Drives, NEW back \in BOOLEAN, RemountsRest(ok, back)
      PROVE  DrPlace'
  BY Opposites, <1>7 DEF RemountsRest, Answers, DrTypes, DrPlace
<1>8. CASE UNCHANGED drVars
  BY Opposites, <1>8 DEF drVars, DrTypes, DrPlace
<1>9. ASSUME RemountRefused
      PROVE  DrPlace'
  BY Opposites, <1>9 DEF RemountRefused, Answers, DrTypes, DrPlace
<1>10. ASSUME NEW back \in BOOLEAN, RemountAbandons(back)
      PROVE  DrPlace'
  BY Opposites, <1>10 DEF RemountAbandons, Answers, DrTypes, DrPlace
<1> QED BY <1>1, <1>2, <1>3, <1>4, <1>5, <1>6, <1>7, <1>8, <1>9, <1>10 DEF DrNext

(* A drive is dealt with before it is forgotten. *)
LEMMA DrProgressStep ==
    ASSUME DrTypes, DrPlace, DrProgress, RemountComplete, [DrNext]_drVars
    PROVE  DrProgress' /\ RemountComplete'
<1>1. ASSUME NEW side \in Sides, NEW tab \in SUBSET (Drives \X {"auto", "own"}), NEW vols \in
            SUBSET Drives, NEW ok \in SUBSET Drives, Initialize(side, tab, vols, ok)
      PROVE  DrProgress' /\ RemountComplete'
  BY Opposites, <1>1 DEF Initialize, DrTypes, DrPlace, DrProgress, RemountComplete,
     DriveDone, Owed, StillToDo
<1>2. ASSUME NEW s \in Sides, NEW d \in Drives, NEW reached \in BOOLEAN, UserMounts(s, d, reached)
      PROVE  DrProgress' /\ RemountComplete'
  BY Opposites, <1>2 DEF UserMounts, MountDrvfs, IsDrvfsElevated, DrTypes, DrPlace,
     DrProgress, RemountComplete, DriveDone, Owed, StillToDo
<1>3. ASSUME NEW side \in Sides, NEW vols \in SUBSET Drives, NEW unread \in SUBSET Drives,
             RemountBegins(side, vols, unread)
      PROVE  DrProgress' /\ RemountComplete'
  BY Opposites, <1>3 DEF RemountBegins, Answers, DrTypes, DrPlace, DrProgress,
     RemountComplete, DriveDone, Owed, StillToDo
<1>4. ASSUME NEW ok \in BOOLEAN, RemountUnshares(ok)
      PROVE  DrProgress' /\ RemountComplete'
  BY Opposites, <1>4 DEF RemountUnshares, Answers, DrTypes, DrPlace, DrProgress,
     RemountComplete, DriveDone, Owed, StillToDo
<1>5. ASSUME NEW stuck \in SUBSET drRead, RemountParses(stuck)
      PROVE  DrProgress' /\ RemountComplete'
  BY Opposites, <1>5 DEF RemountParses, Answers, DrTypes, DrPlace, DrProgress,
     RemountComplete, DriveDone, Owed, StillToDo
<1>6. ASSUME NEW m \in drTodo, NEW ok \in BOOLEAN, RemountsOne(m, ok)
      PROVE  DrProgress' /\ RemountComplete'
  <2> DEFINE new == Over(drNs[drCur], m.drive, m.point, drSide)
  <2>1. m \in drRead /\ m.side \in Sides /\ new.drive = m.drive
    BY DEF DrTypes, DriveMount, Over
  <2>2. /\ drCur = drSide /\ drPc = "mount"
        /\ UNCHANGED <<drPc, drVols, drUnread, drSide, drRead, drReg, drResult>>
    BY <1>6 DEF RemountsOne, DrPlace
  <2>3. drNs[drSide] \subseteq drNs'[drSide] /\ (drFail => drFail')
    BY <1>6, <2>2 DEF RemountsOne, DrTypes
  <2>4. drBits \ {m.drive} \subseteq drBits' /\ drTodo' = drTodo \ {m} /\ drAuto' = drAuto
    BY <1>6 DEF RemountsOne
  <2>5. ASSUME Owed(m.drive), ~drFail'
        PROVE  DriveDone(m.drive)'
    <3>1. ~Unreadable(m)
      BY <2>5 DEF Unreadable, Owed
    <3>2. CASE HasOldTag(m)
      <4>1. drNs' = [drNs EXCEPT ![drCur] = @ \cup {new}]
        BY <1>6, <2>5, <3>1, <3>2 DEF RemountsOne, MountPlan9Filesystem, RemountVirtioFs
      <4>2. new \in drNs'[drSide]
        <5> HIDE DEF new
        <5> QED BY <4>1, <2>2 DEF DrTypes
      <4> QED BY <4>2, <2>1, <2>2 DEF DriveDone
    <3>3. CASE ~HasOldTag(m)
      <4>1. m.side = drSide
        BY <2>1, <3>3, Opposites DEF HasOldTag, DrTypes
      <4> QED BY <4>1, <2>1, <2>2 DEF DriveDone
    <3> QED BY <3>2, <3>3
  <2>6. ASSUME NEW d, DriveDone(d) PROVE DriveDone(d)'
    BY <2>6, <2>2, <2>3 DEF DriveDone
  <2>7. ASSUME NEW d, StillToDo(d), d # m.drive PROVE StillToDo(d)'
    BY <2>7, <2>4 DEF StillToDo
  <2>8. ASSUME NEW d, Owed(d)' PROVE Owed(d)
    BY <2>8, <2>2, <2>4 DEF Owed
  <2>9. ASSUME NEW d \in Drives, Owed(d)', ~drFail' PROVE (DriveDone(d) \/ StillToDo(d))'
    <3>1. CASE d = m.drive
      BY <3>1, <2>9, <2>8, <2>5
    <3>2. CASE d # m.drive
      <4>1. DriveDone(d) \/ StillToDo(d)
        BY <2>9, <2>8, <2>2, <2>3 DEF DrProgress
      <4> QED BY <4>1, <3>2, <2>6, <2>7
    <3> QED BY <3>1, <3>2
  <2>10. DrProgress'
    BY <2>2, <2>9 DEF DrProgress
  <2> QED BY <2>2, <2>10 DEF RemountComplete
<1>7. ASSUME NEW ok \in SUBSET Drives, NEW back \in BOOLEAN, RemountsRest(ok, back)
      PROVE  DrProgress' /\ RemountComplete'
  <2> DEFINE after == MountDrvFsVolumes(drNs[drCur], drBits, drSide, ok)
  <2>1. drCur = drSide /\ drPc = "mount" /\ drReg = Sides /\ drTodo = {}
    BY <1>7 DEF RemountsRest, DrPlace
  <2>2. /\ drPc' = "idle" /\ UNCHANGED <<drVols, drUnread, drSide, drRead, drReg, drAuto>>
        /\ drNs'[drSide] = IF drAuto THEN after ELSE drNs[drSide]
    BY <1>7, <2>1 DEF RemountsRest, Answers, DrTypes
  <2>3. drNs[drSide] \subseteq after
    BY <2>1, MountsVolumes DEF DrTypes
  <2>4. ~drFail' => ~drFail /\ (drAuto => \A d \in drBits : \E m \in after : m.drive = d)
    BY <1>7, MountsVolumes DEF RemountsRest, DrTypes
  <2> HIDE DEF after
  <2>5. ASSUME NEW d \in Drives, Owed(d), ~drFail' PROVE DriveDone(d)'
    <3>1. DriveDone(d) \/ (drAuto /\ d \in drBits)
      BY <2>1, <2>4, <2>5 DEF DrProgress, StillToDo
    <3>2. CASE DriveDone(d)
      BY <3>2, <2>2, <2>3 DEF DriveDone
    <3>3. CASE drAuto /\ d \in drBits
      BY <3>3, <2>2, <2>4, <2>5 DEF DriveDone
    <3> QED BY <3>1, <3>2, <3>3
  <2>6. ASSUME NEW d \in drVols' \ drUnread', drAuto' \/ (\E m \in drRead' : m.drive = d), ~drFail'
        PROVE  DriveDone(d)'
    BY <2>2, <2>5, <2>6 DEF Owed, DrTypes
  <2>7. RemountComplete'
    BY <2>6 DEF RemountComplete, DriveDone
  <2> QED BY <2>1, <2>2, <2>7 DEF DrProgress
<1>8. CASE UNCHANGED drVars
  BY Opposites, <1>8 DEF drVars, DrTypes, DrPlace, DrProgress, RemountComplete, DriveDone, Owed, StillToDo
<1>9. ASSUME RemountRefused
      PROVE  DrProgress' /\ RemountComplete'
  BY Opposites, <1>9 DEF RemountRefused, Answers, DrTypes, DrPlace, DrProgress, RemountComplete, DriveDone,
     Owed, StillToDo
<1>10. ASSUME NEW back \in BOOLEAN, RemountAbandons(back)
      PROVE  DrProgress' /\ RemountComplete'
  BY Opposites, <1>10 DEF RemountAbandons, Answers, DrTypes, DrPlace, DrProgress, RemountComplete, DriveDone,
     Owed, StillToDo
<1> QED BY <1>1, <1>2, <1>3, <1>4, <1>5, <1>6, <1>7, <1>8, <1>9, <1>10 DEF DrNext

(* The invariant holds of every behaviour. *)
LEMMA DrInvariant == DrSpec => []DrInv
<1>1. DrInit => DrInv
  BY DrAssumption DEF DrInit, DrInv, DrTypes, DrPlace, DrProgress, RemountComplete, DriveDone, Owed, StillToDo, Sides
<1>2. DrInv /\ [DrNext]_drVars => DrInv'
  BY DrTypesStep, DrPlaceStep, DrProgressStep DEF DrInv
<1> QED BY <1>1, <1>2, PTL DEF DrSpec

(* After a request that succeeded the side has every drive it was told of, *)
(* for every number of drives, every transport and whatever users mount    *)
(* meanwhile.                                                              *)
THEOREM DrivesMounted == DrSpec => []DrvFsSafe
<1>1. DrInv => DrvFsSafe
  BY DEF DrInv, DrTypes, DrvFsSafe, DrTypeOK
<1> QED BY <1>1, DrInvariant, PTL

(* Mounting the drives for one side takes no mount away from the other     *)
(* side's namespace, at no step and whatever fails.                        *)
THEOREM OtherSideUntouched == DrSpec => OtherSideKept
<1> DEFINE Kept == drPc # "off" => \A s \in Sides : s \in drReg /\ (drPc = "idle" \/ s # drSide)
                       => drNs[s] \subseteq drNs'[s]
<1>1. DrInv /\ [DrNext]_drVars => [Kept]_drVars
  <2> SUFFICES ASSUME DrInv, [DrNext]_drVars, UNCHANGED drVars \/ ~UNCHANGED drVars
               PROVE  Kept
    OBVIOUS
  <2>1. ASSUME NEW side \in Sides, NEW tab \in SUBSET (Drives \X {"auto", "own"}), NEW vols \in
            SUBSET Drives, NEW ok \in SUBSET Drives, Initialize(side, tab, vols, ok)
      PROVE  Kept
    BY Opposites, <2>1 DEF Initialize, DrInv, DrTypes, DrPlace
  <2>2. ASSUME NEW s \in Sides, NEW d \in Drives, NEW reached \in BOOLEAN, UserMounts(s, d, reached)
      PROVE  Kept
    BY Opposites, <2>2 DEF UserMounts, MountDrvfs, IsDrvfsElevated, DrInv, DrTypes, DrPlace
  <2>3. ASSUME NEW side \in Sides, NEW vols \in SUBSET Drives, NEW unread \in SUBSET Drives,
             RemountBegins(side, vols, unread)
      PROVE  Kept
    BY Opposites, <2>3 DEF RemountBegins, Answers, DrInv, DrTypes, DrPlace
  <2>4. ASSUME NEW ok \in BOOLEAN, RemountUnshares(ok)
      PROVE  Kept
    BY Opposites, <2>4 DEF RemountUnshares, Answers, DrInv, DrTypes, DrPlace
  <2>5. ASSUME NEW stuck \in SUBSET drRead, RemountParses(stuck)
      PROVE  Kept
    BY Opposites, <2>5 DEF RemountParses, Answers, DrInv, DrTypes, DrPlace
  <2>6. ASSUME NEW m \in drTodo, NEW ok \in BOOLEAN, RemountsOne(m, ok)
      PROVE  Kept
    BY Opposites, <2>6 DEF RemountsOne, HasOldTag, Unreadable, RemountVirtioFs,
       MountPlan9Filesystem, DrInv, DrTypes, DrPlace
  <2>7. ASSUME NEW ok \in SUBSET Drives, NEW back \in BOOLEAN, RemountsRest(ok, back)
      PROVE  Kept
    BY Opposites, <2>7 DEF RemountsRest, Answers, DrInv, DrTypes, DrPlace
  <2>8. CASE UNCHANGED drVars
    BY Opposites, <2>8 DEF drVars, DrInv, DrTypes, DrPlace
  <2>9. ASSUME RemountRefused
      PROVE  Kept
    BY Opposites, <2>9 DEF RemountRefused, Answers, DrInv, DrTypes, DrPlace
  <2>10. ASSUME NEW back \in BOOLEAN, RemountAbandons(back)
      PROVE  Kept
    BY Opposites, <2>10 DEF RemountAbandons, Answers, DrInv, DrTypes, DrPlace
  <2> QED BY <2>1, <2>2, <2>3, <2>4, <2>5, <2>6, <2>7, <2>8, <2>9, <2>10 DEF DrNext
<1> QED BY <1>1, DrInvariant, PTL DEF DrSpec, OtherSideKept

-----------------------------------------------------------------------------
(***************************************************************************)
(* The localhost relay: LocalhostSafe.                                     *)
(*                                                                         *)
(* The scanner's relays vector is what it believes the host listens for.   *)
(* The belief is right until a message could not be sent (ScanInv), and a  *)
(* failed message is noticed only after the round.  A worker's bytes are   *)
(* in five places; the invariant follows them as one stream per direction  *)
(* (StreamAt), and the shared buffer is empty unless one of the two ends   *)
(* is being served (BufferAt).                                             *)
(***************************************************************************)

ScanInv ==
    /\ lhEcho = FALSE /\ lhChan \in BOOLEAN /\ lhFailed \in BOOLEAN
    /\ lhListen \subseteq Sockets /\ lhTodo \subseteq lhSeen
    /\ \A s \in lhSeen : s.v6 => s.low = 0
    /\ lhFailed => ~lhChan
    /\ ~lhFailed => lhHost = lhRelays
    /\ lhScan # "start" => lhTodo = {}
    /\ lhScan \in {"start", "sleep"} => lhRelays \subseteq lhSeen
    /\ (lhScan \in {"start", "sleep"} /\ ~lhFailed) => lhSeen \ lhTodo \subseteq lhRelays
    /\ lhScan = "sleep" => ~lhFailed

(* The entries of a file: those of IPv6 have lost half of the address. *)
LEMMA ParsedEntries ==
    ASSUME lhListen \subseteq Sockets, NEW v6 \in BOOLEAN
    PROVE  \A s \in ParseTcpFile(v6) : s.v6 => s.low = 0
  BY LhAssumption DEF ParseTcpFile

LEMMA ScanStep == ScanInv /\ [ScanNext]_scanVars => ScanInv'
<1> SUFFICES ASSUME ScanInv, [ScanNext]_scanVars PROVE ScanInv'
  OBVIOUS
<1>1. CASE OpensTcp4
  BY <1>1, ParsedEntries DEF OpensTcp4, ScanInv
<1>2. CASE OpensTcp6
  BY <1>2, ParsedEntries DEF OpensTcp6, ScanInv
<1>3. CASE Stopped
  BY <1>3 DEF Stopped, ScanInv
<1>4. CASE Started
  BY <1>4 DEF Started, ScanInv
<1>5. CASE Wakes
  BY <1>5 DEF Wakes, ScanInv
<1>6. CASE Listens
  BY <1>6 DEF Listens, ScanInv
<1>7. CASE ChannelCloses
  BY <1>7 DEF ChannelCloses, ScanInv
<1>8. ASSUME NEW s \in lhRelays, StopHostListener(s) PROVE ScanInv'
  BY <1>8 DEF StopHostListener, ScanInv
<1>9. ASSUME NEW s \in lhTodo, StartHostListener(s) PROVE ScanInv'
  BY <1>9 DEF StartHostListener, ScanInv
<1>10. CASE UNCHANGED scanVars
  BY <1>10 DEF scanVars, ScanInv
<1> QED
  BY <1>1, <1>2, <1>3, <1>4, <1>5, <1>6, <1>7, <1>8, <1>9, <1>10 DEF ScanNext

(* The bytes of one end in order. *)
Counting(n) == [i \in 1..n |-> i]
WorkerStates == {"none", "hello", "connect", "poll", "first", "second", "ended"}

(* The types of what the workers keep. *)
WorkTypes ==
    /\ lhWork \in [Workers -> WorkerStates]
    /\ lhBuf \in [Workers -> [to : Ends, bytes : Seq(Nat)]]
    /\ lhIn \in [Workers -> [Ends -> Seq(Nat)]]
    /\ lhOut \in [Workers -> [Ends -> Seq(Nat)]]
    /\ lhGot \in [Workers -> [Ends -> Seq(Nat)]]
    /\ lhSent \in [Workers -> [Ends -> Nat]]
    /\ lhEof \in [Workers -> SUBSET Ends]
    /\ \A w \in Workers : \A e \in Ends : Len(lhOut[w][e]) <= Capacity

(* What the buffer holds for the end that e's bytes go to, and the stream  *)
(* of e's bytes.                                                           *)
Held(w, e) == IF lhBuf[w].to = OtherEnd(e) THEN lhBuf[w].bytes ELSE <<>>
Stream(w, e) == lhGot[w][OtherEnd(e)] \o lhOut[w][OtherEnd(e)] \o Held(w, e) \o lhIn[w][e]

BufferAt(w) == lhBuf[w].bytes # <<>> => lhWork[w] \in {"first", "second"}
StreamAt(w) == lhWork[w] # "ended" => \A e \in Ends : Stream(w, e) = Counting(lhSent[w][e])

WorkInv == WorkTypes /\ \A w \in Workers : BufferAt(w) /\ StreamAt(w)

(* Concatenation: what a step may do to the stream is to move its bytes on *)
(* or to add one.                                                          *)
LEMMA MoveHead ==
    ASSUME NEW g \in Seq(Nat), NEW p \in Seq(Nat), p # <<>>
    PROVE  Append(g, Head(p)) \o Tail(p) = g \o p
  BY SMTT(40)

LEMMA ConcatAppend ==
    ASSUME NEW g \in Seq(Nat), NEW p \in Seq(Nat), NEW x \in Nat
    PROVE  g \o Append(p, x) = Append(g \o p, x)
  OBVIOUS

LEMMA ConcatType ==
    ASSUME NEW g \in Seq(Nat), NEW p \in Seq(Nat)
    PROVE  g \o p \in Seq(Nat)
  OBVIOUS

LEMMA ConcatEmpty ==
    ASSUME NEW g \in Seq(Nat)
    PROVE  g \o <<>> = g
  OBVIOUS

LEMMA HeadTail ==
    ASSUME NEW h \in Seq(Nat), h # <<>>
    PROVE  Head(h) \in Nat /\ Tail(h) \in Seq(Nat) /\ (Len(h) = 1 <=> Tail(h) = <<>>)
<1>1. Head(h) \in Nat /\ Tail(h) \in Seq(Nat) /\ Len(Tail(h)) = Len(h) - 1 /\ Len(h) \in Nat
  OBVIOUS
<1>2. \A t \in Seq(Nat) : Len(t) = 0 <=> t = <<>>
  OBVIOUS
<1>3. \A n \in Nat : n - 1 = 0 <=> n = 1
  OBVIOUS
<1> QED BY <1>1, <1>2, <1>3, Zenon

LEMMA CountingAppend ==
    ASSUME NEW n \in Nat
    PROVE  Append(Counting(n), n + 1) = Counting(n + 1)
  BY DEF Counting

LEMMA TwoEnds == /\ \A e \in Ends : OtherEnd(e) \in Ends /\ OtherEnd(e) # e /\ OtherEnd(OtherEnd(e)) = e
                 /\ \A e, f \in Ends : e # f => f = OtherEnd(e)
  BY DEF Ends, OtherEnd

(* A step of worker w or of the ends of its connection. *)
WorkerNext(w) ==
    \/ ListenThread(w) \/ Hello(w) \/ Connect(w) \/ WorkerPolls(w) \/ WorkerReads(w)
    \/ WorkerWrites(w) \/ WriteFails(w)
    \/ \E e \in Ends : EndWrites(w, e) \/ EndReads(w, e) \/ EndCloses(w, e)

(* Nothing of what a worker's stream depends on changes. *)
SameWorker(v) ==
    /\ lhWork'[v] = lhWork[v] /\ lhBuf'[v] = lhBuf[v] /\ lhIn'[v] = lhIn[v]
    /\ lhOut'[v] = lhOut[v] /\ lhGot'[v] = lhGot[v] /\ lhSent'[v] = lhSent[v]

(* A worker's step changes nothing of another worker. *)
LEMMA OtherWorkers ==
    ASSUME WorkTypes, NEW v \in Workers, NEW w \in Workers, WorkerNext(w)
    PROVE  v = w \/ SameWorker(v)
<1>1. CASE ListenThread(w)
  BY <1>1 DEF ListenThread, Goes, WorkTypes, SameWorker
<1>2. CASE Hello(w)
  BY <1>2 DEF Hello, Goes, WorkTypes, SameWorker
<1>3. CASE Connect(w)
  BY <1>3 DEF Connect, Goes, WorkTypes, SameWorker
<1>4. CASE WorkerPolls(w)
  BY <1>4 DEF WorkerPolls, Goes, WorkTypes, SameWorker
<1>5. CASE WorkerReads(w)
  BY <1>5 DEF WorkerReads, Skips, ReadsEof, ReadsBytes, ReadFails, Onward, WorkTypes, SameWorker
<1>6. CASE WorkerWrites(w)
  BY <1>6 DEF WorkerWrites, Onward, WorkTypes, SameWorker
<1>7. CASE WriteFails(w)
  BY <1>7 DEF WriteFails, Goes, Nothing, WorkTypes, SameWorker
<1>8. ASSUME NEW e \in Ends, EndWrites(w, e) PROVE v = w \/ SameWorker(v)
  BY <1>8 DEF EndWrites, WorkTypes, SameWorker
<1>9. ASSUME NEW e \in Ends, EndReads(w, e) PROVE v = w \/ SameWorker(v)
  BY <1>9 DEF EndReads, WorkTypes, SameWorker
<1>10. ASSUME NEW e \in Ends, EndCloses(w, e) PROVE v = w \/ SameWorker(v)
  BY <1>10 DEF EndCloses, WorkTypes, SameWorker
<1> QED BY <1>1, <1>2, <1>3, <1>4, <1>5, <1>6, <1>7, <1>8, <1>9, <1>10 DEF WorkerNext

(* The types are kept. *)
LEMMA WorkTypesStep ==
    ASSUME WorkTypes, NEW w \in Workers, WorkerNext(w)
    PROVE  WorkTypes'
<1>1. CASE ListenThread(w)
  BY LhAssumption, TwoEnds, <1>1 DEF ListenThread, Goes, WorkTypes, WorkerStates
<1>2. CASE Hello(w)
  BY LhAssumption, TwoEnds, <1>2 DEF Hello, Goes, WorkTypes, WorkerStates
<1>3. CASE Connect(w)
  BY LhAssumption, TwoEnds, <1>3 DEF Connect, Goes, WorkTypes, WorkerStates
<1>4. CASE WorkerPolls(w)
  BY LhAssumption, TwoEnds, <1>4 DEF WorkerPolls, Goes, WorkTypes, WorkerStates
<1>5. CASE WorkerReads(w)
  <2>1. PICK e \in Ends : Skips(w, e) \/ ReadsEof(w, e) \/ ReadsBytes(w, e) \/ ReadFails(w, e)
    BY <1>5 DEF WorkerReads, Ends
  <2>2. UNCHANGED <<lhOut, lhGot, lhSent>>
    BY <1>5 DEF WorkerReads
  <2>x. lhWork' = lhWork \/ \E to \in WorkerStates : lhWork' = [lhWork EXCEPT ![w] = to]
    BY <2>1 DEF Skips, ReadsEof, ReadsBytes, ReadFails, Onward, WorkerStates
  <2>y. lhEof' = lhEof \/ lhEof' = [lhEof EXCEPT ![w] = lhEof[w] \cup {e}]
    BY <2>1 DEF Skips, ReadsEof, ReadsBytes, ReadFails
  <2>3. lhWork' \in [Workers -> WorkerStates] /\ lhEof' \in [Workers -> SUBSET Ends]
    <3>1. lhWork' \in [Workers -> WorkerStates]
      BY <2>x DEF WorkTypes
    <3>2. lhEof' \in [Workers -> SUBSET Ends]
      <4>1. lhEof[w] \cup {e} \in SUBSET Ends /\ lhEof \in [Workers -> SUBSET Ends]
        BY DEF WorkTypes
      <4> QED BY <2>y, <4>1
    <3> QED BY <3>1, <3>2
  <2>4. lhIn' = lhIn \/ lhIn' = [lhIn EXCEPT ![w][e] = <<>>]
    BY <2>1 DEF Skips, ReadsEof, ReadsBytes, ReadFails
  <2>z. <<>> \in Seq(Nat)
    OBVIOUS
  <2>5. lhIn' \in [Workers -> [Ends -> Seq(Nat)]]
    <3>1. CASE lhIn' = lhIn
      BY <3>1 DEF WorkTypes
    <3>2. CASE lhIn' = [lhIn EXCEPT ![w][e] = <<>>]
      <4> DEFINE none == <<>>
      <4>1. none \in Seq(Nat) /\ lhIn' = [lhIn EXCEPT ![w][e] = none]
        BY <3>2, <2>z
      <4> HIDE DEF none
      <4> QED BY <4>1 DEF WorkTypes
    <3> QED BY <2>4, <3>1, <3>2
  <2>6. lhBuf' = lhBuf \/ lhBuf' = [lhBuf EXCEPT ![w] = [to |-> OtherEnd(e), bytes |-> lhIn[w][e]]]
    BY <2>1 DEF Skips, ReadsEof, ReadsBytes, ReadFails
  <2>7. [to |-> OtherEnd(e), bytes |-> lhIn[w][e]] \in [to : Ends, bytes : Seq(Nat)]
    BY TwoEnds DEF WorkTypes
  <2>8. lhBuf' \in [Workers -> [to : Ends, bytes : Seq(Nat)]]
    BY <2>6, <2>7 DEF WorkTypes
  <2> QED BY <2>2, <2>3, <2>5, <2>8 DEF WorkTypes
<1>6. CASE WorkerWrites(w)
  <2> DEFINE to == lhBuf[w].to
             b == lhBuf[w].bytes
             p == lhOut[w][to]
             q == Append(p, Head(b))
             rec == [lhBuf[w] EXCEPT !.bytes = Tail(b)]
  <2>1. /\ to \in Ends /\ b \in Seq(Nat) /\ p \in Seq(Nat) /\ b # <<>>
        /\ Len(p) < Capacity /\ UNCHANGED <<lhIn, lhGot, lhSent, lhEof>>
    BY <1>6 DEF WorkerWrites, WorkTypes
  <2>2. /\ lhOut' = [lhOut EXCEPT ![w][to] = q]
        /\ lhBuf' = [lhBuf EXCEPT ![w] = rec]
        /\ lhWork' = lhWork \/ lhWork' = [lhWork EXCEPT ![w] = Onward(w, lhEof[w])]
    BY <1>6 DEF WorkerWrites, WorkTypes
  <2>3. Head(b) \in Nat /\ Tail(b) \in Seq(Nat)
    BY <2>1, HeadTail
  <2>4. q \in Seq(Nat) /\ Len(q) = Len(p) + 1
    BY <2>1, <2>3
  <2>5. Len(q) <= Capacity
    <3> DEFINE n == Len(p)
    <3>1. n \in Nat
      BY <2>1
    <3> HIDE DEF p, q
    <3> QED BY <2>1, <2>4, <3>1, LhAssumption
  <2>6. rec \in [to : Ends, bytes : Seq(Nat)]
    BY <2>1, <2>3 DEF WorkTypes
  <2>7. lhWork' \in [Workers -> WorkerStates]
    BY <2>2 DEF WorkTypes, WorkerStates, Onward
  <2> HIDE DEF to, p, q, rec
  <2>8. lhBuf' \in [Workers -> [to : Ends, bytes : Seq(Nat)]]
    BY <2>2, <2>6 DEF WorkTypes
  <2>9. /\ lhOut' \in [Workers -> [Ends -> Seq(Nat)]]
        /\ \A v \in Workers : \A e \in Ends : Len(lhOut'[v][e]) <= Capacity
    BY <2>1, <2>2, <2>4, <2>5 DEF WorkTypes
  <2> QED BY <2>1, <2>7, <2>8, <2>9 DEF WorkTypes
<1>7. CASE WriteFails(w)
  <2>1. Nothing \in [to : Ends, bytes : Seq(Nat)]
    BY DEF Nothing, Ends
  <2>2. /\ lhBuf' = [lhBuf EXCEPT ![w] = Nothing] /\ lhWork' = [lhWork EXCEPT ![w] = "ended"]
        /\ UNCHANGED <<lhIn, lhOut, lhGot, lhSent, lhEof>>
    BY <1>7 DEF WriteFails, Goes
  <2> QED BY <2>1, <2>2 DEF WorkTypes, WorkerStates
<1>8. ASSUME NEW e \in Ends, EndWrites(w, e) PROVE WorkTypes'
  <2> DEFINE n == lhSent[w][e] + 1
             i == Append(lhIn[w][e], n)
  <2>1. n \in Nat /\ i \in Seq(Nat)
    BY DEF WorkTypes
  <2>2. /\ lhIn' = [lhIn EXCEPT ![w][e] = i] /\ lhSent' = [lhSent EXCEPT ![w][e] = n]
        /\ UNCHANGED <<lhWork, lhBuf, lhOut, lhGot, lhEof>>
    BY <1>8 DEF EndWrites, WorkTypes
  <2> HIDE DEF n, i
  <2> QED BY <2>1, <2>2 DEF WorkTypes
<1>9. ASSUME NEW e \in Ends, EndReads(w, e) PROVE WorkTypes'
  BY LhAssumption, TwoEnds, <1>9, SMTT(40) DEF EndReads, WorkTypes, WorkerStates
<1>10. ASSUME NEW e \in Ends, EndCloses(w, e) PROVE WorkTypes'
  BY LhAssumption, TwoEnds, <1>10 DEF EndCloses, WorkTypes, WorkerStates
<1> QED BY <1>1, <1>2, <1>3, <1>4, <1>5, <1>6, <1>7, <1>8, <1>9, <1>10 DEF WorkerNext

(* A worker's step keeps its buffer and its streams. *)
LEMMA WorkerStep ==
    ASSUME WorkTypes, NEW w \in Workers, BufferAt(w), StreamAt(w), WorkerNext(w)
    PROVE  BufferAt(w)' /\ StreamAt(w)'
<1>1. CASE ListenThread(w)
  BY <1>1 DEF ListenThread, Goes, WorkTypes, BufferAt, StreamAt, Stream, Held
<1>2. CASE Hello(w)
  BY <1>2 DEF Hello, Goes, WorkTypes, BufferAt, StreamAt, Stream, Held
<1>3. CASE Connect(w)
  BY <1>3 DEF Connect, Goes, WorkTypes, BufferAt, StreamAt, Stream, Held
<1>4. CASE WorkerPolls(w)
  BY <1>4 DEF WorkerPolls, Goes, WorkTypes, BufferAt, StreamAt, Stream, Held
<1>5. CASE WorkerReads(w)
  <2>1. /\ lhBuf[w].bytes = <<>> /\ lhWork[w] \in {"first", "second"}
        /\ UNCHANGED <<lhOut, lhGot, lhSent>>
    BY <1>5 DEF WorkerReads
  <2>e. PICK e \in Ends : Skips(w, e) \/ ReadsEof(w, e) \/ ReadsBytes(w, e) \/ ReadFails(w, e)
    BY <1>5 DEF WorkerReads, Ends
  <2>2. CASE Skips(w, e) \/ ReadsEof(w, e)
    BY <2>1, <2>2 DEF Skips, ReadsEof, Stream, Held, BufferAt, StreamAt
  <2>3. CASE ReadsBytes(w, e)
    <3>1. /\ lhBuf'[w] = [to |-> OtherEnd(e), bytes |-> lhIn[w][e]] /\ lhWork' = lhWork
          /\ lhIn'[w] = [lhIn[w] EXCEPT ![e] = <<>>]
      BY <2>3 DEF ReadsBytes, WorkTypes
    <3>2. lhBuf'[w].to = OtherEnd(e) /\ lhBuf'[w].bytes = lhIn[w][e]
      BY <3>1
    <3>3. lhIn'[w][e] = <<>> /\ lhIn'[w][OtherEnd(e)] = lhIn[w][OtherEnd(e)]
      BY <2>1, <3>1, TwoEnds DEF WorkTypes
    <3>4. Held(w, e) = <<>> /\ Held(w, OtherEnd(e)) = <<>>
      BY <2>1 DEF Held
    <3>5. lhBuf'[w].to # OtherEnd(OtherEnd(e))
      BY <2>1, <3>2, TwoEnds
    <3>6. Held(w, e)' = lhIn[w][e] /\ Held(w, OtherEnd(e))' = <<>>
      BY <3>2, <3>5 DEF Held
    <3>7. Stream(w, OtherEnd(e))' = Stream(w, OtherEnd(e))
      BY <2>1, <3>3, <3>4, <3>6 DEF Stream
    <3>8. Stream(w, e)' = Stream(w, e)
      <4> DEFINE o == OtherEnd(e)
                 g == lhGot[w][o]
                 p == lhOut[w][o]
                 i == lhIn[w][e]
      <4>1. g \in Seq(Nat) /\ p \in Seq(Nat) /\ i \in Seq(Nat)
        BY <2>1, TwoEnds DEF WorkTypes
      <4>2. Stream(w, e) = g \o p \o <<>> \o i
        BY <3>4 DEF Stream
      <4>3. Stream(w, e)' = g \o p \o i \o <<>>
        BY <2>1, <3>3, <3>6 DEF Stream
      <4> HIDE DEF g, p, i
      <4>4. g \o p \in Seq(Nat) /\ g \o p \o i \in Seq(Nat)
        BY <4>1, ConcatType
      <4>5. g \o p \o <<>> = g \o p /\ g \o p \o i \o <<>> = g \o p \o i
        BY <4>4, ConcatEmpty
      <4> QED BY <4>2, <4>3, <4>5
    <3>9. \A f \in Ends : Stream(w, f)' = Stream(w, f)
      BY <2>1, <3>7, <3>8, TwoEnds
    <3> QED BY <2>1, <3>1, <3>2, <3>9 DEF BufferAt, StreamAt
  <2>4. CASE ReadFails(w, e)
    <3>1. lhBuf' = lhBuf /\ lhWork'[w] = "ended"
      BY <2>4 DEF ReadFails, WorkTypes
    <3> QED BY <3>1, <2>1 DEF BufferAt, StreamAt
  <2> QED BY <2>e, <2>2, <2>3, <2>4
<1>6. CASE WorkerWrites(w)
  <2>t. PICK to \in Ends, e \in Ends : lhBuf[w].to = to /\ e = OtherEnd(to)
    BY TwoEnds DEF WorkTypes
  <2> DEFINE b == lhBuf[w].bytes
             g == lhGot[w][to]
             p == lhOut[w][to]
             i == lhIn[w][e]
  <2>1. /\ lhBuf[w].to = to /\ OtherEnd(e) = to /\ e # to
        /\ g \in Seq(Nat) /\ p \in Seq(Nat) /\ b \in Seq(Nat) /\ i \in Seq(Nat)
    BY <2>t, TwoEnds DEF WorkTypes
  <2>2. /\ b # <<>> /\ UNCHANGED <<lhIn, lhGot, lhSent, lhEof>>
        /\ lhOut' = [lhOut EXCEPT ![w][to] = Append(@, Head(b))]
        /\ lhBuf' = [lhBuf EXCEPT ![w].bytes = Tail(b)]
        /\ lhWork' = IF Len(b) = 1 THEN [lhWork EXCEPT ![w] = Onward(w, lhEof[w])] ELSE lhWork
    BY <1>6, <2>1 DEF WorkerWrites
  <2>3. lhOut'[w][to] = Append(p, Head(b)) /\ lhOut'[w][e] = lhOut[w][e]
    BY <2>1, <2>2 DEF WorkTypes
  <2>4. lhBuf'[w].to = to /\ lhBuf'[w].bytes = Tail(b)
    BY <2>1, <2>2 DEF WorkTypes
  <2>5. Stream(w, e)' = g \o Append(p, Head(b)) \o Tail(b) \o i
    BY <2>1, <2>2, <2>3, <2>4 DEF Stream, Held
  <2>6. Stream(w, e) = g \o p \o b \o i
    BY <2>1 DEF Stream, Held
  <2>7. Stream(w, to)' = Stream(w, to)
    BY <2>t, <2>1, <2>2, <2>3, <2>4 DEF Stream, Held
  <2>8. Len(b) # 1 => Tail(b) # <<>> /\ lhWork' = lhWork
    BY <2>1, <2>2, HeadTail
  <2>9. Len(b) = 1 => Tail(b) = <<>>
    BY <2>1, <2>2, HeadTail
  <2>10. lhWork[w] \in {"first", "second"}
    BY <2>2 DEF BufferAt
  <2>11. lhBuf'[w].bytes # <<>> => lhWork'[w] \in {"first", "second"}
    BY <2>4, <2>8, <2>9, <2>10
  <2>12. Stream(w, e)' = Stream(w, e)
    <3> HIDE DEF g, p, b, i
    <3>1. g \o Append(p, Head(b)) \o Tail(b) \o i = g \o p \o b \o i
      <4>1. g \o p \in Seq(Nat) /\ Head(b) \in Nat
        BY <2>1, <2>2, ConcatType, HeadTail
      <4>2. g \o Append(p, Head(b)) = Append(g \o p, Head(b))
        BY <2>1, <4>1, ConcatAppend
      <4>3. Append(g \o p, Head(b)) \o Tail(b) = g \o p \o b
        BY <2>1, <2>2, <4>1, MoveHead
      <4> QED BY <4>2, <4>3
    <3> QED BY <2>5, <2>6, <3>1
  <2>13. \A f \in Ends : Stream(w, f)' = Stream(w, f)
    BY <2>1, <2>7, <2>12, TwoEnds
  <2> HIDE DEF b, g, p, i
  <2> QED BY <2>2, <2>10, <2>11, <2>13 DEF BufferAt, StreamAt
<1>7. CASE WriteFails(w)
  BY <1>7 DEF WriteFails, Goes, Nothing, WorkTypes, BufferAt, StreamAt, Stream, Held
<1>8. ASSUME NEW e \in Ends, EndWrites(w, e) PROVE BufferAt(w)' /\ StreamAt(w)'
  <2> DEFINE n == lhSent[w][e] + 1
             o == OtherEnd(e)
             g == lhGot[w][o]
             p == lhOut[w][o]
             h == Held(w, e)
             i == lhIn[w][e]
  <2>1. /\ g \in Seq(Nat) /\ p \in Seq(Nat) /\ h \in Seq(Nat) /\ i \in Seq(Nat)
        /\ n \in Nat /\ lhSent[w][e] \in Nat
    BY TwoEnds DEF WorkTypes, Held
  <2>2. /\ UNCHANGED <<lhWork, lhBuf, lhOut, lhGot>>
        /\ lhIn' = [lhIn EXCEPT ![w][e] = Append(@, n)]
        /\ lhSent' = [lhSent EXCEPT ![w][e] = @ + 1]
        /\ lhWork[w] # "ended"
    BY <1>8 DEF EndWrites
  <2>3. lhSent'[w][e] = n /\ \A f \in Ends \ {e} : lhSent'[w][f] = lhSent[w][f]
    BY <2>2 DEF WorkTypes
  <2>4. lhIn'[w][e] = Append(i, n) /\ \A f \in Ends \ {e} : lhIn'[w][f] = lhIn[w][f]
    BY <2>2 DEF WorkTypes
  <2>5. Stream(w, e) = Counting(lhSent[w][e])
    BY <2>2 DEF StreamAt
  <2>6. Stream(w, e) = g \o p \o h \o i
    BY DEF Stream
  <2>7. Held(w, e)' = h
    BY <2>2 DEF Held
  <2>8. Stream(w, e)' = g \o p \o h \o Append(i, n)
    BY <2>2, <2>4, <2>7 DEF Stream
  <2>9. Append(Stream(w, e), n) = Counting(n)
    BY <2>5, <2>1, CountingAppend
  <2>10. Stream(w, e)' = Counting(n)
    <3> HIDE DEF g, p, h, i, n
    <3>1. g \o p \o h \o Append(i, n) = Append(g \o p \o h \o i, n)
      <4>1. g \o p \o h \in Seq(Nat)
        BY <2>1, ConcatType
      <4> QED BY <2>1, <4>1, ConcatAppend
    <3> QED BY <2>6, <2>8, <2>9, <3>1
  <2>11. \A f \in Ends \ {e} : Stream(w, f)' = Stream(w, f)
    BY <2>2, <2>4 DEF Stream, Held
  <2> HIDE DEF n, o, g, p, h, i
  <2> QED BY <2>2, <2>3, <2>10, <2>11 DEF BufferAt, StreamAt
<1>9. ASSUME NEW e \in Ends, EndReads(w, e) PROVE BufferAt(w)' /\ StreamAt(w)'
  <2> DEFINE f == OtherEnd(e)
             g == lhGot[w][e]
             p == lhOut[w][e]
             h == Held(w, f)
             i == lhIn[w][f]
  <2>1. /\ g \in Seq(Nat) /\ p \in Seq(Nat) /\ h \in Seq(Nat) /\ i \in Seq(Nat)
        /\ f \in Ends /\ OtherEnd(f) = e
    BY TwoEnds DEF WorkTypes, Held
  <2>2. /\ UNCHANGED <<lhWork, lhBuf, lhIn, lhSent>> /\ p # <<>>
        /\ lhGot' = [lhGot EXCEPT ![w][e] = Append(@, Head(p))]
        /\ lhOut' = [lhOut EXCEPT ![w][e] = Tail(@)]
    BY <1>9 DEF EndReads
  <2>3. lhGot'[w][e] = Append(g, Head(p)) /\ \A d \in Ends \ {e} : lhGot'[w][d] = lhGot[w][d]
    BY <2>2 DEF WorkTypes
  <2>4. lhOut'[w][e] = Tail(p) /\ \A d \in Ends \ {e} : lhOut'[w][d] = lhOut[w][d]
    BY <2>2 DEF WorkTypes
  <2>5. Stream(w, f) = g \o p \o h \o i
    BY <2>1 DEF Stream
  <2>6. Held(w, f)' = h
    BY <2>2 DEF Held
  <2>7. Stream(w, f)' = Append(g, Head(p)) \o Tail(p) \o h \o i
    BY <2>1, <2>2, <2>3, <2>4, <2>6 DEF Stream
  <2>8. Stream(w, f)' = Stream(w, f)
    <3> HIDE DEF g, p, h, i, f
    <3>1. Append(g, Head(p)) \o Tail(p) \o h \o i = g \o p \o h \o i
      <4>1. Append(g, Head(p)) \o Tail(p) = g \o p
        BY <2>1, <2>2, MoveHead
      <4> QED BY <4>1
    <3> QED BY <2>5, <2>7, <3>1
  <2>9. Stream(w, e)' = Stream(w, e)
    BY <2>1, <2>2, <2>3, <2>4, TwoEnds DEF Stream, Held
  <2>10. \A d \in Ends : Stream(w, d)' = Stream(w, d)
    BY <2>1, <2>8, <2>9, TwoEnds
  <2> HIDE DEF g, p, h, i, f
  <2> QED BY <2>2, <2>10 DEF BufferAt, StreamAt
<1>10. ASSUME NEW e \in Ends, EndCloses(w, e) PROVE BufferAt(w)' /\ StreamAt(w)'
  BY <1>10 DEF EndCloses, WorkTypes, BufferAt, StreamAt, Stream, Held
<1> QED BY <1>1, <1>2, <1>3, <1>4, <1>5, <1>6, <1>7, <1>8, <1>9, <1>10 DEF WorkerNext

(* The invariants hold of every behaviour. *)
LEMMA ScanInvariant == ScanSpec => []ScanInv
<1>1. ScanInit => ScanInv
  BY DEF ScanInit, ScanInv
<1> QED BY <1>1, ScanStep, PTL DEF ScanSpec

LEMMA WorkInvariant == WorkSpec => []WorkInv
<1>1. WorkInit => WorkInv
  <2> SUFFICES ASSUME WorkInit PROVE WorkInv
    OBVIOUS
  <2>1. WorkTypes
    BY LhAssumption DEF WorkInit, WorkTypes, WorkerStates, Nothing, Ends
  <2>2. ASSUME NEW w \in Workers, NEW e \in Ends PROVE Stream(w, e) = Counting(lhSent[w][e])
    <3>1. Stream(w, e) = <<>> \o <<>> \o <<>> \o <<>> /\ lhSent[w][e] = 0
      BY TwoEnds DEF WorkInit, Stream, Held, Nothing
    <3>2. <<>> \o <<>> \o <<>> \o <<>> = Counting(0)
      BY DEF Counting
    <3> QED BY <3>1, <3>2
  <2>3. \A w \in Workers : lhBuf[w].bytes = <<>>
    BY DEF WorkInit, Nothing
  <2> QED BY <2>1, <2>2, <2>3 DEF WorkInv, BufferAt, StreamAt
<1>2. WorkInv /\ [WorkNext]_workVars => WorkInv'
  <2> SUFFICES ASSUME WorkInv, [WorkNext]_workVars PROVE WorkInv'
    OBVIOUS
  <2>1. ASSUME NEW w \in Workers, WorkerNext(w) PROVE WorkInv'
    <3>1. WorkTypes'
      BY <2>1, WorkTypesStep DEF WorkInv
    <3>2. BufferAt(w)' /\ StreamAt(w)'
      BY <2>1, WorkerStep DEF WorkInv
    <3>3. ASSUME NEW v \in Workers, v # w PROVE BufferAt(v)' /\ StreamAt(v)'
      <4>1. SameWorker(v)
        BY <2>1, <3>3, OtherWorkers DEF WorkInv
      <4>2. BufferAt(v) /\ StreamAt(v)
        BY DEF WorkInv
      <4> QED BY <4>1, <4>2 DEF SameWorker, BufferAt, StreamAt, Stream, Held
    <3> QED BY <3>1, <3>2, <3>3 DEF WorkInv
  <2>2. CASE UNCHANGED workVars
    BY <2>2 DEF workVars, WorkInv, WorkTypes, BufferAt, StreamAt, Stream, Held
  <2>3. CASE AcceptFails
    BY <2>3 DEF AcceptFails, WorkInv, WorkTypes, BufferAt, StreamAt, Stream, Held
  <2> QED BY <2>1, <2>2, <2>3 DEF WorkNext, WorkerNext
<1> QED BY <1>1, <1>2, PTL DEF WorkSpec

(* The host listens for what the last round saw, and the bytes of every    *)
(* connection arrive whole and in order, for every number of sockets and   *)
(* connections, every amount of bytes and every size of a socket's buffer. *)
THEOREM LocalhostRelayed == ScanSpec /\ WorkSpec => []LocalhostSafe
<1>1. ScanInv /\ WorkInv => LocalhostSafe
  <2> SUFFICES ASSUME ScanInv, WorkInv PROVE LocalhostSafe
    OBVIOUS
  <2>1. LhTypeOK
    BY DEF ScanInv, WorkInv, WorkTypes, LhTypeOK
  <2>2. HostFollowsScan
    BY DEF ScanInv, HostFollowsScan
  <2>3. BytesInOrder
    BY DEF WorkInv, StreamAt, Stream, Held, Counting, BytesInOrder
  <2> QED BY <2>1, <2>2, <2>3 DEF LocalhostSafe
<1> QED BY <1>1, ScanInvariant, WorkInvariant, PTL

-----------------------------------------------------------------------------
(***************************************************************************)
(* The memory reclaim thread: ReclaimSafe.                                 *)
(*                                                                         *)
(* The thread sees only its ring of CPU times.  The invariant says which   *)
(* cycle each slot is of, counted back from ReclaimIndex (RingAt): then    *)
(* its test is the reference's (SameTest).  What it did before is in       *)
(* ReclaimIdling alone; a reclaim that used up its reason, with only quiet *)
(* cycles since, has left "yes" there (EventAt).                           *)
(***************************************************************************)

Cycle == Len(starts)

(* The types of what the thread keeps and of what is recorded. *)
RcTypes ==
    /\ rcPc \in {"check", "compact", "ended"} /\ rcMode \in {"disabled", "gradual", "dropcache"}
    /\ cpu \in Nat /\ index \in 0..Window - 1 /\ ring \in [0..Window - 1 -> Int]
    /\ starts \in Seq(Nat) /\ stops \in Seq(Nat) /\ mems \in Seq(Memory \cup {Low})
    /\ Cycle >= 1 /\ Len(mems) = Cycle /\ Len(stops) >= 1

(* The slot of the cycle j before the last. *)
Slot(j) == IF index >= j THEN index - j ELSE index - j + Window

RingAt ==
    rcMode # "disabled" =>
        \A j \in 0..Window - 1 : ring[Slot(j)] = IF j < Cycle THEN starts[Cycle - j] ELSE Never

(* The test of the thread, on the CPU times it has read. *)
IdleAt(c) == /\ c > Window
             /\ starts[c] - starts[c - 1] < Threshold
             /\ starts[c] - starts[c - Window] < Threshold * (Window + 1)

(* Cycle c is a reason to reclaim again after event e. *)
Breaks(e, c) == ~IdleAt(c) \/ (e.what = "gradual" /\ mems[c] > High)
Quiet(e) == \A c \in (e.cycle + 1)..Cycle : ~Breaks(e, c)

(* An event that is not to be repeated in quiet cycles. *)
Spent(e) == \/ e.what = "drop"
            \/ e.what = "gradual" /\ (mems[e.cycle] * 97) \div 100 < Low

EventAt ==
    \A e \in events :
        /\ e.cycle \in 1..Cycle
        /\ e.what \in {"gradual", "drop"} => IdleAt(e.cycle)
        /\ e.what # "compact" => e.idling # "unset"
        /\ e.what = "gradual" => rcMode = "gradual"
        /\ e.what = "drop" => rcMode = "dropcache"
        /\ (Spent(e) /\ Quiet(e)) => idling = "yes"

IdlingAt == rcMode # "disabled" /\ Cycle > 1 => idling # "unset"

(* Two events of a kind have a reason for the second between them. *)
RepeatAt ==
    \A e, f \in events : (e.what = f.what /\ Spent(e) /\ e.cycle < f.cycle) =>
                              \E c \in (e.cycle + 1)..f.cycle : Breaks(e, c)

RcInv == RcTypes /\ RingAt /\ EventAt /\ IdlingAt /\ RepeatAt

(* The next slot of the ring, without the division. *)
LEMMA NextSlot ==
    ASSUME NEW i \in 0..Window - 1
    PROVE  (i + 1) % Window = IF i + 1 = Window THEN 0 ELSE i + 1
<1>1. \A n \in Nat, k \in Nat : k < n => k % n = k
  OBVIOUS
<1>2. Window % Window = 0
  BY ReclaimAssumption
<1>3. Window \in Nat /\ i + 1 \in Nat /\ (i + 1 # Window => i + 1 < Window)
  BY ReclaimAssumption
<1> QED BY <1>1, <1>2, <1>3

(* The slots of the cycles are where the test looks for them. *)
LEMMA Slots ==
    ASSUME RcTypes
    PROVE  /\ Slot(0) = index /\ Slot(Window - 1) = LastIndex /\ LastIndex \in 0..Window - 1
           /\ \A j \in 0..Window - 1 : Slot(j) \in 0..Window - 1
           /\ \A j \in 0..Window - 2 : Slot(j) # LastIndex
<1>1. LastIndex = IF index + 1 = Window THEN 0 ELSE index + 1
  BY NextSlot DEF RcTypes, LastIndex
<1> QED BY <1>1, ReclaimAssumption DEF RcTypes, Slot

(* One more CPU time: what was recorded before stays. *)
LEMMA Recorded ==
    ASSUME RcTypes, NEW start \in Nat, NEW mem \in Memory \cup {Low},
           starts' = Append(starts, start), mems' = Append(mems, mem)
    PROVE  /\ starts' \in Seq(Nat) /\ mems' \in Seq(Memory \cup {Low})
           /\ Cycle \in Nat /\ Cycle' = Cycle + 1 /\ Len(mems') = Cycle + 1
           /\ \A c \in 1..Cycle : starts'[c] = starts[c] /\ mems'[c] = mems[c]
           /\ starts'[Cycle + 1] = start /\ mems'[Cycle + 1] = mem
           /\ \A c \in 1..Cycle : IdleAt(c)' <=> IdleAt(c)
<1>1. /\ starts' \in Seq(Nat) /\ Cycle \in Nat /\ Cycle' = Cycle + 1
      /\ starts'[Cycle + 1] = start /\ \A c \in 1..Cycle : starts'[c] = starts[c]
  BY DEF RcTypes, Cycle
<1>2. /\ mems' \in Seq(Memory \cup {Low}) /\ Len(mems') = Cycle + 1
      /\ mems'[Cycle + 1] = mem /\ \A c \in 1..Cycle : mems'[c] = mems[c]
  BY DEF RcTypes, Cycle
<1>3. ASSUME NEW c \in 1..Cycle PROVE IdleAt(c)' <=> IdleAt(c)
  <2>1. CASE c > Window
    <3>1. c - 1 \in 1..Cycle /\ c - Window \in 1..Cycle
      BY <1>1, <2>1, ReclaimAssumption
    <3> QED BY <1>1, <3>1 DEF IdleAt
  <2>2. CASE ~(c > Window)
    BY <2>2 DEF IdleAt
  <2> QED BY <2>1, <2>2
<1> QED BY <1>1, <1>2, <1>3

(* The thread's test is the reference's. *)
LEMMA SameTest ==
    ASSUME RcTypes, RingAt, rcMode # "disabled", NEW start \in Nat, NEW mem \in Memory \cup {Low},
           starts' = Append(starts, start), mems' = Append(mems, mem), NEW n, n = Cycle
    PROVE  WindowIdle(start) <=> IdleAt(n + 1)'
<1> DEFINE K == Threshold * (Window + 1)
<1>1. /\ n \in Nat /\ n >= 1 /\ starts'[n + 1] = start
      /\ \A c \in 1..n : starts'[c] = starts[c] /\ starts[c] \in Nat
  <2>1. /\ n \in Nat /\ n >= 1 /\ starts'[n + 1] = start
        /\ \A c \in 1..n : starts'[c] = starts[c]
    BY Recorded DEF RcTypes
  <2>2. \A c \in 1..n : starts[c] \in Nat
    BY DEF RcTypes, Cycle
  <2> QED BY <2>1, <2>2
<1>2. K \in Nat /\ K <= 1000 /\ Threshold \in Nat /\ Window \in Nat /\ Window >= 2
  BY ReclaimAssumption DEF Never
<1>3. ring[index] = starts[n]
  <2>1. 0 \in 0..Window - 1 /\ 0 < n /\ n - 0 = n
    BY <1>1, <1>2
  <2> QED BY <2>1, Slots DEF RingAt
<1>4. ring[LastIndex] = IF Window - 1 < n THEN starts[n - (Window - 1)] ELSE Never
  <2>1. Window - 1 \in 0..Window - 1
    BY <1>2
  <2> QED BY <2>1, Slots DEF RingAt
<1>5. starts[n] > start - Threshold <=> starts'[n + 1] - starts'[(n + 1) - 1] < Threshold
  <2>1. (n + 1) - 1 = n /\ n \in 1..n
    BY <1>1
  <2>2. starts'[(n + 1) - 1] = starts[n] /\ starts[n] \in Nat
    BY <1>1, <2>1
  <2> QED BY <1>1, <1>2, <2>2
<1>6. CASE n + 1 > Window
  <2>1. ring[LastIndex] = starts[(n + 1) - Window] /\ (n + 1) - Window \in 1..n
    BY <1>1, <1>2, <1>4, <1>6
  <2>2. ring[LastIndex] > start - K <=> starts'[n + 1] - starts'[(n + 1) - Window] < K
    <3> HIDE DEF K
    <3>1. starts'[(n + 1) - Window] = starts[(n + 1) - Window] /\ starts[(n + 1) - Window] \in Nat
      BY <1>1, <2>1
    <3> QED BY <1>1, <1>2, <2>1, <3>1
  <2>3. WindowIdle(start) <=> ring[LastIndex] > start - K /\ ring[index] > start - Threshold
    BY DEF WindowIdle
  <2>4. IdleAt(n + 1)' <=> /\ n + 1 > Window /\ starts'[n + 1] - starts'[(n + 1) - 1] < Threshold
                           /\ starts'[n + 1] - starts'[(n + 1) - Window] < K
    BY DEF IdleAt
  <2> HIDE DEF K
  <2> QED BY <1>3, <1>5, <1>6, <2>2, <2>3, <2>4
<1>7. CASE ~(n + 1 > Window)
  <2>1. ring[LastIndex] = -1000
    BY <1>1, <1>2, <1>4, <1>7 DEF Never
  <2>2. ~(ring[LastIndex] > start - K)
    <3> HIDE DEF K
    <3> QED BY <1>2, <2>1
  <2> QED BY <1>7, <2>2 DEF WindowIdle, IdleAt
<1> QED BY <1>6, <1>7

(* A step that reclaims, as the invariant sees it. *)
LEMMA ReclaimsAs ==
    ASSUME RcTypes, Reclaims
    PROVE  \E start \in Nat, mem \in Memory \cup {Low} :
               /\ starts' = Append(starts, start) /\ mems' = Append(mems, mem)
               /\ cpu' = start /\ rcPc' = "compact" /\ UNCHANGED <<rcMode, stops>>
               /\ rcMode = "disabled" => UNCHANGED <<ring, index, idling, events>>
               /\ rcMode # "disabled" =>
                     /\ index' = LastIndex /\ ring' = [ring EXCEPT ![LastIndex] = start]
                     /\ ~WindowIdle(start) => idling' = "no" /\ events' = events
                     /\ WindowIdle(start) =>
                           IF rcMode = "gradual" THEN GradualReclaim(mem) ELSE DropCache
<1>1. PICK used \in Usage, mem \in (IF rcMode = "gradual" THEN Memory ELSE {Low}) :
         LET start == IF Len(starts) = 1 THEN used ELSE stops[Len(stops)] + used
         IN /\ cpu' = start
            /\ IF rcMode = "disabled"
               THEN UNCHANGED <<ring, index, idling, events>>
               ELSE /\ IF ~WindowIdle(start) THEN idling' = "no" /\ UNCHANGED events
                       ELSE IF rcMode = "gradual" THEN GradualReclaim(mem)
                       ELSE DropCache
                    /\ index' = LastIndex
                    /\ ring' = [ring EXCEPT ![LastIndex] = start]
            /\ starts' = Append(starts, start) /\ mems' = Append(mems, mem)
  BY DEF Reclaims
<1> DEFINE start == IF Len(starts) = 1 THEN used ELSE stops[Len(stops)] + used
<1>2. start \in Nat
  <2>1. used \in Nat /\ stops[Len(stops)] \in Nat
    BY ReclaimAssumption DEF RcTypes
  <2> QED BY <2>1
<1>3. mem \in Memory \cup {Low}
  OBVIOUS
<1>4. rcPc' = "compact" /\ UNCHANGED <<rcMode, stops>>
  BY DEF Reclaims
<1> WITNESS start \in Nat, mem \in Memory \cup {Low}
<1> QED BY <1>1, <1>4

(* The types are kept. *)
LEMMA RcTypesStep == RcTypes /\ [RcNext]_rcVars => RcTypes'
<1> SUFFICES ASSUME RcTypes, [RcNext]_rcVars PROVE RcTypes'
  OBVIOUS
<1>1. CASE Reclaims
  <2>1. PICK start \in Nat, mem \in Memory \cup {Low} :
            /\ starts' = Append(starts, start) /\ mems' = Append(mems, mem)
            /\ cpu' = start /\ rcPc' = "compact" /\ UNCHANGED <<rcMode, stops>>
            /\ rcMode = "disabled" => UNCHANGED <<ring, index>>
            /\ rcMode # "disabled" => index' = LastIndex /\ ring' = [ring EXCEPT ![LastIndex] = start]
    BY <1>1, ReclaimsAs
  <2>2. index' \in 0..Window - 1 /\ ring' \in [0..Window - 1 -> Int]
    <3>1. LastIndex \in 0..Window - 1 /\ start \in Int
      BY Slots
    <3>2. CASE rcMode = "disabled"
      BY <2>1, <3>2 DEF RcTypes
    <3>3. CASE rcMode # "disabled"
      BY <2>1, <3>1, <3>3 DEF RcTypes
    <3> QED BY <3>2, <3>3
  <2>3. /\ starts' \in Seq(Nat) /\ mems' \in Seq(Memory \cup {Low})
        /\ Cycle' >= 1 /\ Len(mems') = Cycle'
    BY <2>1, Recorded
  <2> QED BY <2>1, <2>2, <2>3 DEF RcTypes
<1>2. CASE Compacts
  <2>1. cpu' \in Nat
    BY <1>2, ReclaimAssumption DEF Compacts, RcTypes
  <2>2. stops' \in Seq(Nat) /\ Len(stops') >= 1
    BY <1>2, <2>1 DEF Compacts, RcTypes
  <2> QED BY <1>2, <2>1, <2>2 DEF Compacts, RcTypes, Cycle
<1>3. CASE RcFails
  BY <1>3 DEF RcFails, RcTypes, Cycle
<1>4. CASE UNCHANGED rcVars
  BY <1>4 DEF rcVars, RcTypes, Cycle
<1> QED BY <1>1, <1>2, <1>3, <1>4 DEF RcNext

(* The ring keeps the last cycles. *)
LEMMA RingStep == RcTypes /\ RingAt /\ [RcNext]_rcVars => RingAt'
<1> SUFFICES ASSUME RcTypes, RingAt, [RcNext]_rcVars PROVE RingAt'
  OBVIOUS
<1>1. CASE Reclaims
  <2>1. PICK start \in Nat, mem \in Memory \cup {Low} :
            /\ starts' = Append(starts, start) /\ mems' = Append(mems, mem) /\ rcMode' = rcMode
            /\ rcMode # "disabled" => index' = LastIndex /\ ring' = [ring EXCEPT ![LastIndex] = start]
    BY <1>1, ReclaimsAs
  <2> SUFFICES ASSUME rcMode # "disabled", NEW j \in 0..Window - 1
               PROVE  ring'[Slot(j)'] = IF j < Cycle' THEN starts'[Cycle' - j] ELSE Never
    BY <2>1 DEF RingAt
  <2>2. /\ Cycle \in Nat /\ Cycle >= 1 /\ Cycle' = Cycle + 1 /\ starts'[Cycle + 1] = start
        /\ \A c \in 1..Cycle : starts'[c] = starts[c]
    BY <2>1, Recorded DEF RcTypes
  <2>3. CASE j = 0
    <3>1. Slot(j)' = LastIndex
      BY <2>1, <2>3, Slots, ReclaimAssumption DEF Slot
    <3>2. ring'[LastIndex] = start
      BY <2>1, Slots DEF RcTypes
    <3>3. j < Cycle' /\ Cycle' - j = Cycle + 1
      BY <2>2, <2>3
    <3> QED BY <2>2, <3>1, <3>2, <3>3
  <2>4. CASE j # 0
    <3> DEFINE k == j - 1
    <3>1. k \in 0..Window - 2 /\ k \in 0..Window - 1 /\ j = k + 1
      BY <2>4, ReclaimAssumption
    <3>2. LastIndex = IF index + 1 = Window THEN 0 ELSE index + 1
      BY NextSlot DEF RcTypes, LastIndex
    <3>3. Slot(j)' = Slot(k)
      <4>1. /\ index \in 0..Window - 1 /\ Window \in Nat /\ Window >= 2
            /\ index' = IF index + 1 = Window THEN 0 ELSE index + 1
        BY <2>1, <3>2, ReclaimAssumption DEF RcTypes
      <4>2. Slot(j)' = IF index' >= j THEN index' - j ELSE index' - j + Window
        BY DEF Slot
      <4>3. Slot(k) = IF index >= k THEN index - k ELSE index - k + Window
        BY DEF Slot
      <4> QED BY <3>1, <4>1, <4>2, <4>3
    <3>4. Slot(k) # LastIndex /\ Slot(k) \in 0..Window - 1
      BY <3>1, Slots
    <3>5. ring'[Slot(k)] = ring[Slot(k)]
      BY <2>1, <3>4 DEF RcTypes
    <3>6. ring[Slot(k)] = IF k < Cycle THEN starts[Cycle - k] ELSE Never
      BY <3>1 DEF RingAt
    <3>7. j < Cycle' <=> k < Cycle
      BY <2>2, <3>1
    <3>8. k < Cycle => Cycle - k \in 1..Cycle /\ Cycle' - j = Cycle - k
      BY <2>2, <3>1
    <3> HIDE DEF k
    <3> QED BY <2>2, <3>3, <3>5, <3>6, <3>7, <3>8
  <2> QED BY <2>3, <2>4
<1>2. CASE Compacts
  BY <1>2 DEF Compacts, RingAt, Slot, Cycle
<1>3. CASE RcFails
  BY <1>3 DEF RcFails, RingAt, Slot, Cycle
<1>4. CASE UNCHANGED rcVars
  BY <1>4 DEF rcVars, RingAt, Slot, Cycle
<1> QED BY <1>1, <1>2, <1>3, <1>4 DEF RcNext

(* What a cycle does with memory, in the terms of the reference. *)
Takes(n, f) ==
    /\ events' = events \cup {f} /\ f.cycle = n + 1 /\ f.idling # "unset"
    /\ f.what = IF rcMode = "gradual" THEN "gradual" ELSE "drop"
    /\ idling # "yes" \/ (rcMode = "gradual" /\ mems'[n + 1] > High)
    /\ (f.what = "drop" \/ (mems'[n + 1] * 97) \div 100 < Low) => idling' = "yes"
Spares(n) ==
    /\ events' = events
    /\ idling = "yes" => idling' = "yes" \/ (rcMode = "gradual" /\ mems'[n + 1] > High)

LEMMA ReclaimOutcome ==
    ASSUME RcTypes, RingAt, IdlingAt, Reclaims, NEW n, n = Cycle
    PROVE  \/ rcMode = "disabled" /\ UNCHANGED <<events, idling>>
           \/ rcMode # "disabled" /\ events' = events /\ idling' = "no" /\ ~IdleAt(n + 1)'
           \/ /\ rcMode # "disabled" /\ IdleAt(n + 1)' /\ idling' # "unset"
              /\ Spares(n) \/ \E f : Takes(n, f)
<1>1. PICK start \in Nat, mem \in Memory \cup {Low} :
               /\ starts' = Append(starts, start) /\ mems' = Append(mems, mem)
               /\ rcMode = "disabled" => UNCHANGED <<ring, index, idling, events>>
               /\ rcMode # "disabled" =>
                     /\ ~WindowIdle(start) => idling' = "no" /\ events' = events
                     /\ WindowIdle(start) =>
                           IF rcMode = "gradual" THEN GradualReclaim(mem) ELSE DropCache
  BY ReclaimsAs
<1>2. n \in Nat /\ mems'[n + 1] = mem
  BY <1>1, Recorded
<1>3. rcMode # "disabled" => (WindowIdle(start) <=> IdleAt(n + 1)')
  BY <1>1, SameTest
<1>4. IdleAt(n + 1)' => n > 1
  BY <1>2, ReclaimAssumption DEF IdleAt
<1>5. CASE rcMode = "disabled"
  BY <1>1, <1>5
<1>6. CASE rcMode # "disabled" /\ ~WindowIdle(start)
  BY <1>1, <1>3, <1>6
<1>7. CASE rcMode # "disabled" /\ WindowIdle(start)
  <2> DEFINE kind == IF rcMode = "gradual" THEN "gradual" ELSE "drop"
             f == [what |-> kind, cycle |-> n + 1, idling |-> idling]
  <2>1. IdleAt(n + 1)' /\ idling # "unset"
    BY <1>3, <1>4, <1>7 DEF IdlingAt
  <2>2. f.what = kind /\ f.cycle = n + 1 /\ f.idling = idling
    OBVIOUS
  <2>3. CASE rcMode = "gradual"
    <3>1. GradualReclaim(mem) /\ f = [what |-> "gradual", cycle |-> n + 1, idling |-> idling]
      BY <1>1, <1>7, <2>3
    <3>2. idling' # "unset"
      BY <2>1, <3>1 DEF GradualReclaim
    <3> DEFINE reset == IF mem > High THEN "no" ELSE idling
               frees == reset # "yes" /\ mem > Low
    <3>3. CASE frees
      <4>1. events' = events \cup {f}
        BY <3>1, <3>3 DEF GradualReclaim, Event, Cycle
      <4>2. (mem * 97) \div 100 < Low => idling' = "yes"
        BY <3>1, <3>3 DEF GradualReclaim
      <4>3. idling # "yes" \/ mem > High
        BY <3>3
      <4>4. Takes(n, f)
        <5> HIDE DEF f
        <5> QED BY <1>2, <2>1, <2>2, <2>3, <4>1, <4>2, <4>3 DEF Takes
      <4> QED BY <1>7, <2>1, <3>2, <4>4
    <3>4. CASE ~frees
      <4>1. events' = events /\ idling' = reset
        BY <3>1, <3>4 DEF GradualReclaim
      <4>2. Spares(n)
        BY <1>2, <2>3, <4>1 DEF Spares
      <4> QED BY <1>7, <2>1, <3>2, <4>2
    <3> QED BY <3>3, <3>4
  <2>4. CASE rcMode # "gradual"
    <3>1. DropCache /\ f = [what |-> "drop", cycle |-> n + 1, idling |-> idling]
      BY <1>1, <1>7, <2>4
    <3>2. idling' # "unset"
      BY <2>1, <3>1 DEF DropCache
    <3>3. CASE idling # "yes"
      <4>1. events' = events \cup {f} /\ idling' = "yes"
        BY <3>1, <3>3 DEF DropCache, Event, Cycle
      <4>2. Takes(n, f)
        <5> HIDE DEF f
        <5> QED BY <2>1, <2>2, <2>4, <3>3, <4>1 DEF Takes
      <4> QED BY <1>7, <2>1, <3>2, <4>2
    <3>4. CASE idling = "yes"
      <4>1. Spares(n)
        BY <3>1, <3>4 DEF DropCache, Spares
      <4> QED BY <1>7, <2>1, <3>2, <4>1
    <3> QED BY <3>3, <3>4
  <2> QED BY <2>3, <2>4
<1> QED BY <1>5, <1>6, <1>7

(* What was recorded of an event stays as it was. *)
LEMMA EventFrame ==
    ASSUME RcTypes, Reclaims, NEW n, n = Cycle, NEW e, e.cycle \in 1..n
    PROVE  /\ n \in Nat /\ Cycle' = n + 1 /\ rcMode' = rcMode
           /\ Spent(e)' <=> Spent(e)
           /\ \A c \in 1..n : (Breaks(e, c)' <=> Breaks(e, c)) /\ (IdleAt(c)' <=> IdleAt(c))
           /\ Quiet(e)' <=> Quiet(e) /\ ~Breaks(e, n + 1)'
<1>1. PICK start \in Nat, mem \in Memory \cup {Low} :
               starts' = Append(starts, start) /\ mems' = Append(mems, mem) /\ rcMode' = rcMode
  BY ReclaimsAs
<1>2. /\ n \in Nat /\ Cycle' = n + 1
      /\ \A c \in 1..n : mems'[c] = mems[c] /\ (IdleAt(c)' <=> IdleAt(c))
  BY <1>1, Recorded
<1>3. Spent(e)' <=> Spent(e)
  BY <1>2 DEF Spent
<1>4. \A c \in 1..n : Breaks(e, c)' <=> Breaks(e, c)
  BY <1>2 DEF Breaks
<1>5. Quiet(e)' <=> \A c \in (e.cycle + 1)..(n + 1) : ~Breaks(e, c)'
  BY <1>2 DEF Quiet
<1>6. Quiet(e) <=> \A c \in (e.cycle + 1)..n : ~Breaks(e, c)
  BY DEF Quiet
<1>7. /\ \A c \in (e.cycle + 1)..n : c \in 1..n /\ c \in (e.cycle + 1)..(n + 1)
      /\ \A c \in (e.cycle + 1)..(n + 1) : c = n + 1 \/ c \in (e.cycle + 1)..n
      /\ n + 1 \in (e.cycle + 1)..(n + 1)
  BY <1>2
<1>8. Quiet(e)' <=> Quiet(e) /\ ~Breaks(e, n + 1)'
  BY <1>4, <1>5, <1>6, <1>7, Zenon
<1> QED BY <1>1, <1>2, <1>3, <1>4, <1>8

(* Every step keeps what is known of the events. *)
LEMMA EventStep ==
    ASSUME RcTypes, RingAt, EventAt, IdlingAt, RepeatAt, [RcNext]_rcVars
    PROVE  EventAt' /\ IdlingAt' /\ RepeatAt'
<1>1. CASE Reclaims
  <2>1. PICK n : n = Cycle
    OBVIOUS
  <2>2. \A e \in events :
            /\ e.cycle \in 1..n /\ e.cycle \in 1..n + 1
            /\ n \in Nat /\ Cycle' = n + 1 /\ rcMode' = rcMode
            /\ Spent(e)' <=> Spent(e)
            /\ \A c \in 1..n : (Breaks(e, c)' <=> Breaks(e, c)) /\ (IdleAt(c)' <=> IdleAt(c))
            /\ Quiet(e)' <=> Quiet(e) /\ ~Breaks(e, n + 1)'
    <3> SUFFICES ASSUME NEW e \in events
                 PROVE  /\ e.cycle \in 1..n /\ e.cycle \in 1..n + 1
                        /\ n \in Nat /\ Cycle' = n + 1 /\ rcMode' = rcMode
                        /\ Spent(e)' <=> Spent(e)
                        /\ \A c \in 1..n : (Breaks(e, c)' <=> Breaks(e, c)) /\ (IdleAt(c)' <=> IdleAt(c))
                        /\ Quiet(e)' <=> Quiet(e) /\ ~Breaks(e, n + 1)'
      OBVIOUS
    <3>1. e.cycle \in 1..n
      BY <2>1 DEF EventAt
    <3>2. n \in Nat
      BY <2>1 DEF RcTypes, Cycle
    <3>3. e.cycle \in 1..n + 1
      BY <3>1, <3>2
    <3> QED BY <1>1, <2>1, <3>1, <3>3, EventFrame
  <2>3. n \in Nat /\ Cycle' = n + 1 /\ rcMode' = rcMode
    <3>1. PICK start \in Nat, mem \in Memory \cup {Low} :
               starts' = Append(starts, start) /\ mems' = Append(mems, mem) /\ rcMode' = rcMode
      BY <1>1, ReclaimsAs
    <3> QED BY <2>1, <3>1, Recorded
  <2>4. ASSUME NEW e \in events, NEW f \in events, e.what = f.what, Spent(e)', e.cycle < f.cycle
        PROVE  \E c \in (e.cycle + 1)..f.cycle : Breaks(e, c)'
    <3>1. PICK c \in (e.cycle + 1)..f.cycle : Breaks(e, c)
      BY <2>2, <2>4 DEF RepeatAt
    <3>2. c \in 1..n
      BY <2>2, <2>3, <3>1
    <3> QED BY <2>2, <3>1, <3>2
  <2>5. CASE rcMode = "disabled" /\ UNCHANGED <<events, idling>>
    <3>1. \A e \in events : ~Spent(e)
      BY <2>5 DEF EventAt, Spent
    <3>2. EventAt'
      BY <2>2, <2>3, <2>5, <3>1 DEF EventAt
    <3> QED BY <2>3, <2>4, <2>5, <3>2 DEF IdlingAt, RepeatAt
  <2>6. CASE rcMode # "disabled" /\ events' = events /\ idling' = "no" /\ ~IdleAt(n + 1)'
    <3>1. \A e \in events : Breaks(e, n + 1)'
      BY <2>6 DEF Breaks
    <3>2. EventAt'
      BY <2>2, <2>3, <2>6, <3>1 DEF EventAt
    <3> QED BY <2>3, <2>4, <2>6, <3>2 DEF IdlingAt, RepeatAt
  <2>7. CASE rcMode # "disabled" /\ IdleAt(n + 1)' /\ idling' # "unset" /\ Spares(n)
    <3>1. ASSUME NEW e \in events, Spent(e)', Quiet(e)' PROVE idling' = "yes"
      <4>1. idling = "yes" /\ ~Breaks(e, n + 1)'
        BY <2>2, <3>1 DEF EventAt
      <4>2. rcMode = "gradual" => e.what = "gradual"
        BY <2>2, <3>1 DEF EventAt, Spent
      <4> QED BY <2>7, <4>1, <4>2 DEF Spares, Breaks
    <3>2. EventAt'
      BY <2>2, <2>3, <2>7, <3>1 DEF EventAt, Spares
    <3> QED BY <2>3, <2>4, <2>7, <3>2 DEF IdlingAt, RepeatAt, Spares
  <2>8. ASSUME NEW f, rcMode # "disabled", IdleAt(n + 1)', idling' # "unset", Takes(n, f)
        PROVE  EventAt' /\ IdlingAt' /\ RepeatAt'
    <3>1. /\ events' = events \cup {f} /\ f.cycle = n + 1 /\ f.cycle \in 1..n + 1
          /\ f.idling # "unset" /\ f.what \in {"gradual", "drop"}
          /\ f.what = "gradual" => rcMode' = "gradual"
          /\ f.what = "drop" => rcMode' = "dropcache"
      BY <2>3, <2>8 DEF Takes, RcTypes
    <3>2. ASSUME NEW e \in events, Spent(e), Quiet(e) PROVE Breaks(e, n + 1)'
      <4>1. idling = "yes"
        BY <3>2 DEF EventAt
      <4>2. rcMode = "gradual" => e.what = "gradual"
        BY <3>2 DEF EventAt, Spent
      <4> QED BY <2>8, <4>1, <4>2 DEF Takes, Breaks
    <3>3. Spent(f)' => idling' = "yes"
      BY <2>8, <3>1 DEF Spent, Takes
    <3>4. \A e \in events : ~(Spent(e)' /\ Quiet(e)')
      BY <2>2, <3>2
    <3>5. EventAt'
      BY <2>2, <2>3, <2>8, <3>1, <3>3, <3>4 DEF EventAt
    <3>6. ASSUME NEW e \in events, Spent(e)'
          PROVE  \E c \in (e.cycle + 1)..f.cycle : Breaks(e, c)'
      <4>1. CASE Quiet(e)
        <5>1. Breaks(e, n + 1)' /\ n + 1 \in (e.cycle + 1)..(n + 1)
          BY <2>2, <3>2, <3>6, <4>1
        <5> QED BY <3>1, <5>1
      <4>2. CASE ~Quiet(e)
        <5>1. PICK c \in (e.cycle + 1)..n : Breaks(e, c)
          BY <2>1, <4>2 DEF Quiet
        <5>2. c \in 1..n /\ c \in (e.cycle + 1)..(n + 1)
          BY <2>2, <5>1
        <5> QED BY <2>2, <3>1, <5>1, <5>2
      <4> QED BY <4>1, <4>2
    <3>7. \A e \in events' : ~(f.cycle < e.cycle)
      BY <2>2, <2>3, <3>1
    <3>8. RepeatAt'
      BY <2>4, <3>1, <3>6, <3>7 DEF RepeatAt
    <3> QED BY <2>8, <3>5, <3>8 DEF IdlingAt
  <2> QED BY <1>1, <2>1, <2>5, <2>6, <2>7, <2>8, ReclaimOutcome
<1>2. CASE Compacts
  <2>1. /\ UNCHANGED <<rcMode, idling, starts, mems>>
        /\ \/ events' = events
           \/ events' = events \cup {[what |-> "compact", cycle |-> Len(starts), idling |-> idling]}
    BY <1>2 DEF Compacts
  <2>2. Cycle' = Cycle /\ Cycle \in 1..Cycle
    BY <2>1 DEF Cycle, RcTypes
  <2>3. \A e, c : /\ IdleAt(c)' <=> IdleAt(c) 
                  /\ Breaks(e, c)' <=> Breaks(e, c)
    BY <2>1 DEF IdleAt, Breaks
  <2>4. \A e : /\ Spent(e)' <=> Spent(e) 
               /\ Quiet(e)' <=> Quiet(e)
    BY <2>1, <2>2, <2>3 DEF Spent, Quiet
  <2>5. CASE events' = events
    BY <2>1, <2>2, <2>3, <2>4, <2>5 DEF EventAt, IdlingAt, RepeatAt
  <2>6. ASSUME NEW g, g = [what |-> "compact", cycle |-> Len(starts), idling |-> idling],
               events' = events \cup {g}
        PROVE  EventAt' /\ IdlingAt' /\ RepeatAt'
    <3>1. g.what = "compact" /\ g.cycle = Cycle
      BY <2>6 DEF Cycle
    <3>2. ~Spent(g) /\ \A e \in events : Spent(e) => e.what # g.what
      BY <3>1 DEF Spent
    <3>3. EventAt'
      BY <2>1, <2>2, <2>3, <2>4, <2>6, <3>1, <3>2 DEF EventAt
    <3>4. RepeatAt'
      BY <2>3, <2>4, <2>6, <3>2 DEF RepeatAt
    <3> QED BY <2>1, <2>2, <3>3, <3>4 DEF IdlingAt
  <2> QED BY <2>1, <2>5, <2>6
<1>3. CASE RcFails
  BY <1>3 DEF RcFails, EventAt, IdlingAt, RepeatAt, Spent, Quiet, Breaks, IdleAt, Cycle
<1>4. CASE UNCHANGED rcVars
  BY <1>4 DEF rcVars, EventAt, IdlingAt, RepeatAt, Spent, Quiet, Breaks, IdleAt, Cycle
<1> QED BY <1>1, <1>2, <1>3, <1>4 DEF RcNext

(* The invariant holds of every behaviour. *)
LEMMA RcInvariant == RcSpec => []RcInv
<1>1. RcInit => RcInv
  <2> SUFFICES ASSUME RcInit PROVE RcInv
    OBVIOUS
  <2>1. RcTypes /\ Cycle = 1 /\ starts[1] = 0
    BY ReclaimAssumption DEF RcInit, RcTypes, Never, Cycle
  <2>2. ASSUME NEW j \in 0..Window - 1
        PROVE  ring[Slot(j)] = IF j < 1 THEN 0 ELSE Never
    <3>1. Slot(j) = IF j = 0 THEN 0 ELSE Window - j
      BY ReclaimAssumption DEF RcInit, Slot
    <3>2. Slot(j) \in 0..Window - 1 /\ (Slot(j) = 0 <=> j < 1)
      BY <3>1, ReclaimAssumption
    <3> QED BY <3>2 DEF RcInit
  <2>3. RingAt
    BY <2>1, <2>2 DEF RingAt
  <2> QED BY <2>1, <2>3 DEF RcInit, RcInv, EventAt, IdlingAt, RepeatAt
<1>2. RcInv /\ [RcNext]_rcVars => RcInv'
  BY RcTypesStep, RingStep, EventStep DEF RcInv
<1> QED BY <1>1, <1>2, PTL DEF RcSpec

(* Memory is taken only from a machine that was idle for its last cycle    *)
(* and its last window, and not again before there is a reason, for every  *)
(* length of the window, every threshold and every number of cycles.       *)
THEOREM ReclaimedWhenIdle == RcSpec => []ReclaimSafe
<1>1. RcInv => ReclaimSafe
  <2> SUFFICES ASSUME RcInv PROVE ReclaimSafe
    OBVIOUS
  <2>0. starts \in Seq(Nat) /\ \A e \in events : e.cycle \in 1..Len(starts)
    BY DEF RcInv, RcTypes, EventAt, Cycle
  <2>1. RcTypeOK
    BY DEF RcInv, RcTypes, EventAt, RcTypeOK
  <2>2. ASSUME NEW c \in 1..Len(starts), c > Window
        PROVE  Used(c, 1) \in Int /\ Used(c, Window) \in Int
    <3>1. c - 1 \in 1..Len(starts) /\ c - Window \in 1..Len(starts)
      BY <2>0, <2>2, ReclaimAssumption
    <3>2. starts[c] \in Nat /\ starts[c - 1] \in Nat /\ starts[c - Window] \in Nat
      BY <2>0, <3>1
    <3> QED BY <3>2 DEF Used
  <2>3. \A u \in Int : /\ u < Threshold * (Window + 1) => u - Threshold * Window < Threshold
                       /\ u < Threshold * Window => u < Threshold * (Window + 1)
    BY ReclaimAssumption
  <2>4. ReclaimOnlyIdle
    <3> SUFFICES ASSUME NEW e \in Reclaiming
                 PROVE  /\ e.cycle > Window /\ Used(e.cycle, 1) < Threshold
                        /\ Used(e.cycle, Window) - Threshold * Window < Threshold
      BY DEF ReclaimOnlyIdle
    <3>1. e.cycle \in 1..Len(starts) /\ IdleAt(e.cycle)
      BY <2>0 DEF RcInv, EventAt, Reclaiming
    <3> QED BY <2>2, <2>3, <3>1 DEF IdleAt, Used
  <2>5. \A c \in 1..Len(starts) : BelowHalfPercent(c) => IdleAt(c)
    BY <2>2, <2>3 DEF IdleAt, BelowHalfPercent, Used
  <2>6. NoThrashing
    <3> SUFFICES ASSUME NEW e \in Reclaiming, NEW f \in Reclaiming, e.what = f.what, e.cycle < f.cycle,
                        e.what = "gradual" => (mems[e.cycle] * 97) \div 100 < Low
                 PROVE  \E c \in (e.cycle + 1)..f.cycle :
                            ~BelowHalfPercent(c) \/ (e.what = "gradual" /\ mems[c] > High)
      BY DEF NoThrashing
    <3>1. e \in events /\ f \in events /\ Spent(e)
      BY DEF Reclaiming, Spent
    <3>2. PICK c \in (e.cycle + 1)..f.cycle : Breaks(e, c)
      BY <3>1 DEF RcInv, RepeatAt
    <3>3. c \in 1..Len(starts)
      BY <2>0, <3>1
    <3> QED BY <2>5, <3>2, <3>3 DEF Breaks
  <2> QED BY <2>1, <2>4, <2>6 DEF ReclaimSafe
<1> QED BY <1>1, RcInvariant, PTL

-----------------------------------------------------------------------------
(***************************************************************************)
(* The built-in 9P server: StubSafe.                                       *)
(*                                                                         *)
(* The server takes the first free slot and the first free descriptor, so  *)
(* the proof needs that there is a first one whenever the code's test says *)
(* there is one at all; a walk of two names holds two descriptors for a    *)
(* moment and may need the second.  The table is changed in three ways,    *)
(* each with a lemma; every request is one of them or none.                *)
(***************************************************************************)

(* A set of numbers that is not empty has its minimum. *)
LEMMA MinIn ==
    ASSUME NEW S \in SUBSET Nat, S # {}
    PROVE  Min(S) \in S
<1>1. PICK x \in S : \A y \in S : ~(<<y, x>> \in OpToRel(<, Nat))
  BY NatLessThanWellFounded, WFMin
<1>2. ASSUME NEW y \in Nat, y < x PROVE <<y, x>> \in OpToRel(<, Nat)
  BY <1>2 DEF OpToRel
<1>3. \A y \in S : y \in Nat /\ ~(y < x)
  BY <1>1, <1>2, Zenon
<1>4. \A y \in S : x <= y
  BY <1>3
<1> QED BY <1>4 DEF Min

(* A server that is down has forgotten its last answer. *)
SbInv == StubSafe /\ (~sbUp => sbReply.type # "Rwalk")

(* The slot that fid_find returns is the fid's. *)
LEMMA Found ==
    ASSUME SbTypeOK, NEW f, fid_find(f) # 0
    PROVE  LET i == fid_find(f)
           IN /\ i \in 1..MaxFidMap /\ sbMap[i].fd # 0 /\ sbMap[i].fid = f
              /\ sbMap[i].path \in SbPaths /\ sbMap[i].fd \in 1..MaxFds
<1> DEFINE slots == {i \in 1..MaxFidMap : sbMap[i].fd # 0 /\ sbMap[i].fid = f}
<1>1. slots \in SUBSET Nat
  OBVIOUS
<1>2. slots # {} /\ fid_find(f) = Min(slots)
  BY DEF fid_find
<1>3. Min(slots) \in slots
  <2> HIDE DEF slots
  <2> QED BY <1>1, <1>2, MinIn
<1>4. PICK i : i = fid_find(f)
  OBVIOUS
<1>5. i \in 1..MaxFidMap /\ sbMap[i].fd # 0 /\ sbMap[i].fid = f
  BY <1>2, <1>3, <1>4
<1>6. sbMap[i].path \in SbPaths /\ sbMap[i].fd \in 0..MaxFds
  BY <1>5 DEF SbTypeOK
<1> QED BY <1>4, <1>5, <1>6, SbAssumption

(* A new fid in a free slot with a free descriptor. *)
LEMMA FidAdded ==
    ASSUME SbTypeOK, DescriptorsOwned, FreeSlots # {}, NEW g \in Fids, NEW fd \in FreeFds,
           NEW p \in SbPaths, sbMap' = fid_add(g, fd, p),
           sbFds \cup {fd} \subseteq sbFds'
    PROVE  /\ sbMap' \in [1..MaxFidMap -> [fid : Fids \cup {0}, fd : 0..MaxFds, path : SbPaths]]
           /\ DescriptorsOwned'
           /\ \E i \in 1..MaxFidMap : sbMap'[i].fd # 0 /\ sbMap'[i].fid = g
<1> DEFINE slot == Min(FreeSlots)
           rec == [fid |-> g, fd |-> fd, path |-> p]
<1>1. slot \in 1..MaxFidMap /\ sbMap[slot].fd = 0
  <2>1. FreeSlots \in SUBSET Nat
    BY DEF FreeSlots
  <2> QED BY <2>1, MinIn DEF FreeSlots
<1>2. fd \in 1..MaxFds /\ fd \notin sbFds /\ fd # 0
  BY DEF FreeFds
<1>3. rec.fd = fd /\ rec.fid = g /\ rec \in [fid : Fids \cup {0}, fd : 0..MaxFds, path : SbPaths]
  BY <1>2, SbAssumption
<1>4. sbMap' = [sbMap EXCEPT ![slot] = rec]
  BY DEF fid_add
<1> HIDE DEF slot, rec
<1>5. /\ sbMap'[slot] = rec
      /\ \A i \in 1..MaxFidMap : i # slot => sbMap'[i] = sbMap[i]
  BY <1>1, <1>4 DEF SbTypeOK
<1>6. sbMap' \in [1..MaxFidMap -> [fid : Fids \cup {0}, fd : 0..MaxFds, path : SbPaths]]
  BY <1>1, <1>3, <1>4 DEF SbTypeOK
<1>7. DescriptorsOwned'
  <2> SUFFICES ASSUME NEW i \in 1..MaxFidMap, NEW j \in 1..MaxFidMap, sbMap'[i].fd # 0
               PROVE  sbMap'[i].fd \in sbFds' /\ (i # j => sbMap'[i].fd # sbMap'[j].fd)
    BY DEF DescriptorsOwned
  <2>1. \A k \in 1..MaxFidMap : sbMap[k].fd # 0 => sbMap[k].fd \in sbFds
    BY DEF DescriptorsOwned
  <2>2. CASE i = slot
    BY <1>2, <1>3, <1>5, <2>1, <2>2
  <2>3. CASE i # slot
    BY <1>2, <1>3, <1>5, <2>1, <2>3 DEF DescriptorsOwned
  <2> QED BY <2>2, <2>3
<1> QED BY <1>1, <1>2, <1>3, <1>5, <1>6, <1>7

(* A fid that is forgotten closes its own descriptor only. *)
LEMMA FidRemoved ==
    ASSUME SbTypeOK, DescriptorsOwned, NEW f, fid_remove(f)
    PROVE  /\ sbMap' \in [1..MaxFidMap -> [fid : Fids \cup {0}, fd : 0..MaxFds, path : SbPaths]]
           /\ sbFds' \subseteq 1..MaxFds /\ DescriptorsOwned'
<1>1. CASE fid_find(f) = 0
  <2>1. sbMap' = sbMap /\ sbFds' = sbFds
    BY <1>1 DEF fid_remove
  <2> QED BY <2>1 DEF SbTypeOK, DescriptorsOwned
<1>2. CASE fid_find(f) # 0
  <2>1. PICK slot \in 1..MaxFidMap : slot = fid_find(f) /\ sbMap[slot].fd # 0
    BY <1>2, Found
  <2>2. sbMap' = [sbMap EXCEPT ![slot] = UnusedSlot] /\ sbFds' = sbFds \ {sbMap[slot].fd}
    BY <1>2, <2>1 DEF fid_remove
  <2>3. /\ UnusedSlot \in [fid : Fids \cup {0}, fd : 0..MaxFds, path : SbPaths]
        /\ UnusedSlot.fd = 0
    BY SbAssumption DEF UnusedSlot, SbPaths
  <2>4. /\ sbMap'[slot] = UnusedSlot
        /\ \A i \in 1..MaxFidMap : i # slot => sbMap'[i] = sbMap[i]
    BY <2>1, <2>2 DEF SbTypeOK
  <2>5. sbMap' \in [1..MaxFidMap -> [fid : Fids \cup {0}, fd : 0..MaxFds, path : SbPaths]]
    BY <2>1, <2>2, <2>3 DEF SbTypeOK
  <2>6. DescriptorsOwned'
    BY <2>1, <2>2, <2>3, <2>4 DEF DescriptorsOwned
  <2>7. sbFds' \subseteq 1..MaxFds
    BY <2>2 DEF SbTypeOK
  <2> QED BY <2>5, <2>6, <2>7
<1> QED BY <1>1, <1>2

(* A fid that gets another descriptor. *)
LEMMA FidReplaced ==
    ASSUME SbTypeOK, DescriptorsOwned, NEW f \in Fids, fid_find(f) # 0, NEW fd \in FreeFds,
           NEW p \in SbPaths, fid_replace(f, fd, p)
    PROVE  /\ sbMap' \in [1..MaxFidMap -> [fid : Fids \cup {0}, fd : 0..MaxFds, path : SbPaths]]
           /\ sbFds' \subseteq 1..MaxFds /\ DescriptorsOwned'
<1> DEFINE rec == [fid |-> f, fd |-> fd, path |-> p]
<1>1. PICK slot \in 1..MaxFidMap : slot = fid_find(f) /\ sbMap[slot].fd # 0
  BY Found
<1>2. fd \in 1..MaxFds /\ fd \notin sbFds /\ fd # 0
  BY DEF FreeFds
<1>3. rec.fd = fd /\ rec \in [fid : Fids \cup {0}, fd : 0..MaxFds, path : SbPaths]
  BY <1>2, SbAssumption
<1>4. sbMap' = [sbMap EXCEPT ![slot] = rec] /\ sbFds' = (sbFds \cup {fd}) \ {sbMap[slot].fd}
  BY <1>1 DEF fid_replace
<1> HIDE DEF rec
<1>5. /\ sbMap'[slot] = rec
      /\ \A i \in 1..MaxFidMap : i # slot => sbMap'[i] = sbMap[i]
  BY <1>1, <1>4 DEF SbTypeOK
<1>6. sbMap' \in [1..MaxFidMap -> [fid : Fids \cup {0}, fd : 0..MaxFds, path : SbPaths]]
  BY <1>1, <1>3, <1>4 DEF SbTypeOK
<1>7. sbFds' \subseteq 1..MaxFds
  BY <1>2, <1>4 DEF SbTypeOK
<1>8. DescriptorsOwned'
  <2> SUFFICES ASSUME NEW i \in 1..MaxFidMap, NEW j \in 1..MaxFidMap, sbMap'[i].fd # 0
               PROVE  sbMap'[i].fd \in sbFds' /\ (i # j => sbMap'[i].fd # sbMap'[j].fd)
    BY DEF DescriptorsOwned
  <2>1. \A k \in 1..MaxFidMap : sbMap[k].fd # 0 => sbMap[k].fd \in sbFds
    BY DEF DescriptorsOwned
  <2>2. CASE i = slot
    BY <1>1, <1>2, <1>3, <1>4, <1>5, <2>1, <2>2
  <2>3. CASE i # slot
    BY <1>1, <1>2, <1>3, <1>4, <1>5, <2>1, <2>3 DEF DescriptorsOwned
  <2> QED BY <2>2, <2>3
<1> QED BY <1>6, <1>7, <1>8

(* The first free descriptor. *)
LEMMA NewFdFree == FreeFds # {} => NewFd \in FreeFds
<1>1. FreeFds \in SUBSET Nat
  BY DEF FreeFds
<1> QED BY <1>1, MinIn DEF NewFd

(* Two free descriptors: one is left when the first is taken. *)
LEMMA SecondFree ==
    ASSUME NEW fd, Cardinality(FreeFds) >= 2
    PROVE  FreeFds \ {fd} # {} /\ Min(FreeFds \ {fd}) \in FreeFds \ {fd}
<1>1. FreeFds \subseteq 1..MaxFds /\ IsFiniteSet(1..MaxFds)
  BY SbAssumption, FS_Interval DEF FreeFds
<1>2. FreeFds \ {fd} # {}
  <2> SUFFICES ASSUME FreeFds \subseteq {fd} PROVE FALSE
    OBVIOUS
  <2>1. IsFiniteSet({fd}) /\ Cardinality({fd}) = 1
    BY FS_Singleton
  <2>2. Cardinality(FreeFds) <= 1 /\ Cardinality(FreeFds) \in Nat
    BY <2>1, FS_Subset, FS_CardinalityType
  <2> QED BY <2>2
<1>3. FreeFds \ {fd} \in SUBSET Nat
  BY DEF FreeFds
<1> QED BY <1>2, <1>3, MinIn

LEMMA OneFree ==
    ASSUME Cardinality(FreeFds) >= 1
    PROVE  FreeFds # {}
  BY FS_EmptySet

(* An answer that is not of a walk. *)
LEMMA PlainAnswer ==
    ASSUME NEW type, type # "Rwalk", NEW f, NEW p, Replies(type, f, p)
    PROVE  sbReply'.type # "Rwalk"
  BY DEF Replies, NoReply

LEMMA WalkAnswer ==
    ASSUME NEW f, NEW p, Replies("Rwalk", f, p)
    PROVE  sbReply'.fid = f
  BY DEF Replies

(* A request that changes no table keeps the invariant. *)
LEMMA TableKept ==
    ASSUME SbInv, UNCHANGED <<sbMap, sbTree>>, sbFds \subseteq sbFds', sbFds' \subseteq 1..MaxFds,
           UNCHANGED <<sbOn, sbUp>>, sbConn' = sbConn, sbReply'.type # "Rwalk"
    PROVE  SbInv'
  BY DEF SbInv, StubSafe, SbTypeOK, DescriptorsOwned, WalkTruthful

(* The table was changed by one of the three operations. *)
LEMMA TableChanged ==
    ASSUME SbInv,
           sbMap' \in [1..MaxFidMap -> [fid : Fids \cup {0}, fd : 0..MaxFds, path : SbPaths]],
           sbFds' \subseteq 1..MaxFds, DescriptorsOwned', sbTree' \subseteq Dirs \cup Files,
           UNCHANGED <<sbOn, sbUp>>, sbUp, sbConn' = sbConn, WalkTruthful'
    PROVE  SbInv'
  BY DEF SbInv, StubSafe, SbTypeOK

LEMMA DuplicatesStep ==
    ASSUME SbInv, sbUp, NEW type, NEW g \in Fids, NEW p \in SbPaths, Duplicates(type, g, p),
           ServerFrame
    PROVE  SbInv'
<1>1. UNCHANGED <<sbOn, sbUp>> /\ sbConn' = sbConn
  BY DEF ServerFrame
<1>2. SbTypeOK /\ DescriptorsOwned
  BY DEF SbInv, StubSafe
<1>3. CASE FreeFds = {} \/ FreeSlots = {}
  <2>1. Replies("Rerror", 0, <<>>) /\ UNCHANGED <<sbMap, sbTree, sbFds>>
    BY <1>3 DEF Duplicates, p9_send_error, Keeps
  <2>2. sbReply'.type # "Rwalk" /\ sbFds' \subseteq 1..MaxFds /\ sbFds \subseteq sbFds'
    BY <1>2, <2>1, PlainAnswer DEF SbTypeOK
  <2> QED BY <1>1, <2>1, <2>2, TableKept
<1>4. CASE FreeFds # {} /\ FreeSlots # {}
  <2>1. /\ sbMap' = fid_add(g, NewFd, p) /\ sbFds' = sbFds \cup {NewFd} /\ sbTree' = sbTree
        /\ Replies(type, g, p)
    BY <1>4 DEF Duplicates
  <2>2. NewFd \in FreeFds
    BY <1>4, NewFdFree
  <2>3. /\ sbMap' \in [1..MaxFidMap -> [fid : Fids \cup {0}, fd : 0..MaxFds, path : SbPaths]]
        /\ DescriptorsOwned'
        /\ \E i \in 1..MaxFidMap : sbMap'[i].fd # 0 /\ sbMap'[i].fid = g
    BY <1>2, <1>4, <2>1, <2>2, FidAdded
  <2>4. WalkTruthful'
    BY <2>1, <2>3, PlainAnswer, WalkAnswer DEF WalkTruthful
  <2>5. sbFds' \subseteq 1..MaxFds /\ sbTree' \subseteq Dirs \cup Files
    BY <1>2, <2>1, <2>2 DEF SbTypeOK, FreeFds
  <2> QED BY <1>1, <2>3, <2>4, <2>5, TableChanged
<1> QED BY <1>3, <1>4

(* A walk of some names: the descriptor of the last name is another than   *)
(* the one that stays open on the way.                                     *)
LEMMA WalkStep ==
    ASSUME SbInv, sbUp, NEW g \in Fids, NEW from \in SbPaths, NEW names \in SbNames, names # <<>>,
           NEW short \in BOOLEAN, Walk(g, from, names, short), UNCHANGED sbTree, ServerFrame
    PROVE  SbInv'
<1> DEFINE n == Len(names)
           At(k) == from \o SubSeq(names, 1, k)
           Opens(k) == \A j \in 1..k : At(j) \in sbTree /\ Cardinality(FreeFds) >= (IF j = 1 THEN 1 ELSE 2)
           between == \E k \in 1..n : Opens(k) /\ (k < n \/ short)
           forgotten == IF between THEN {NewFd} ELSE {}
           last == Min(FreeFds \ forgotten)
<1>1. n \in {1, 2}
  BY DEF SbNames
<1>2. /\ SbTypeOK /\ DescriptorsOwned /\ UNCHANGED <<sbOn, sbUp>> /\ sbConn' = sbConn
      /\ sbTree \subseteq Dirs \cup Files /\ sbFds \subseteq 1..MaxFds
  BY DEF SbInv, StubSafe, SbTypeOK, ServerFrame
<1>3. \A k \in 1..n : Opens(k) => At(k) \in sbTree
  BY <1>1
<1>4. ASSUME NEW k \in 1..n, Opens(k) PROVE FreeFds # {}
  <2>1. 1 \in 1..k
    BY <1>1
  <2>2. Cardinality(FreeFds) >= 1
    BY <1>4, <2>1
  <2> QED BY <2>2, OneFree
<1>5. forgotten \subseteq FreeFds
  BY <1>4, NewFdFree
<1>6. CASE Opens(n) /\ ~short /\ FreeSlots # {}
  <2>1. /\ sbMap' = fid_add(g, last, At(n)) /\ sbFds' = sbFds \cup forgotten \cup {last}
        /\ Replies("Rwalk", g, At(n))
    BY <1>6 DEF Walk
  <2>2. At(n) \in SbPaths
    BY <1>1, <1>2, <1>3, <1>6 DEF SbPaths
  <2>3. last \in FreeFds
    <3>1. CASE n = 1
      <4>1. ~between
        BY <1>6, <3>1
      <4>2. last = NewFd
        BY <4>1 DEF NewFd
      <4> QED BY <1>1, <1>4, <1>6, <4>2, NewFdFree
    <3>2. CASE n = 2
      <4>1. Cardinality(FreeFds) >= 2
        <5>1. 2 \in 1..n
          BY <3>2
        <5>2. Cardinality(FreeFds) >= (IF 2 = 1 THEN 1 ELSE 2)
          BY <1>6, <5>1
        <5> QED BY <5>2
      <4>2. CASE between
        BY <4>1, <4>2, SecondFree
      <4>3. CASE ~between
        <5>1. last = NewFd
          BY <4>3 DEF NewFd
        <5> QED BY <1>1, <1>4, <1>6, <5>1, NewFdFree
      <4> QED BY <4>2, <4>3
    <3> QED BY <1>1, <3>1, <3>2
  <2> HIDE DEF n, At, last, forgotten
  <2>4. /\ sbMap' \in [1..MaxFidMap -> [fid : Fids \cup {0}, fd : 0..MaxFds, path : SbPaths]]
        /\ DescriptorsOwned'
        /\ \E i \in 1..MaxFidMap : sbMap'[i].fd # 0 /\ sbMap'[i].fid = g
    BY <1>2, <1>6, <2>1, <2>2, <2>3, FidAdded
  <2>5. WalkTruthful'
    BY <2>1, <2>4, WalkAnswer DEF WalkTruthful
  <2>6. sbFds' \subseteq 1..MaxFds /\ sbTree' \subseteq Dirs \cup Files
    BY <1>2, <1>5, <2>1, <2>3 DEF FreeFds
  <2> QED BY <1>2, <2>4, <2>5, <2>6, TableChanged
<1>7. CASE ~(Opens(n) /\ ~short /\ FreeSlots # {})
  <2>1. sbFds' = sbFds \cup forgotten /\ sbMap' = sbMap /\ Replies("Rwalk0", g, <<>>)
    BY <1>7 DEF Walk
  <2> HIDE DEF n, At, last, forgotten
  <2>2. sbReply'.type # "Rwalk" /\ sbFds' \subseteq 1..MaxFds /\ sbFds \subseteq sbFds'
    BY <1>2, <1>5, <2>1, PlainAnswer DEF FreeFds
  <2> QED BY <1>2, <2>1, <2>2, TableKept
<1> QED BY <1>6, <1>7

(* A request that only answers. *)
LEMMA AnswerStep ==
    ASSUME SbInv, Keeps, ServerFrame, NEW type, type # "Rwalk", NEW f, NEW p, Replies(type, f, p)
    PROVE  SbInv'
<1>1. sbReply'.type # "Rwalk"
  BY PlainAnswer
<1>2. /\ UNCHANGED <<sbMap, sbTree>> /\ sbFds \subseteq sbFds' /\ sbFds' \subseteq 1..MaxFds
      /\ UNCHANGED <<sbOn, sbUp>> /\ sbConn' = sbConn
  BY DEF Keeps, ServerFrame, SbInv, StubSafe, SbTypeOK
<1> QED BY <1>1, <1>2, TableKept

(* Every request, every connection and every start or stop keeps it. *)
LEMMA SbStep == SbInv /\ [SbNext]_sbVars => SbInv'
<1> SUFFICES ASSUME SbInv, [SbNext]_sbVars PROVE SbInv'
  OBVIOUS
<1> USE DEF Serving
<1>0. SbTypeOK /\ DescriptorsOwned /\ sbTree \subseteq Dirs \cup Files
  BY DEF SbInv, StubSafe, SbTypeOK
<1>1. CASE Tversion \/ Tflush \/ Unsupported
  BY <1>1, AnswerStep DEF Tversion, Tflush, Unsupported, Plain
<1>2. CASE SbAccept
  BY <1>2 DEF SbAccept, SbInv, StubSafe, SbTypeOK, DescriptorsOwned, WalkTruthful, NoReply
<1>3. CASE SbDisconnect
  BY <1>3 DEF SbDisconnect, SbInv, StubSafe, SbTypeOK, DescriptorsOwned, WalkTruthful, NoReply
<1>4. ASSUME NEW ok \in BOOLEAN, SbStart(ok) PROVE SbInv'
  <2>1. /\ sbOn' = ok /\ sbUp' = ok /\ sbTree' = {} /\ sbFds' = {} /\ sbConn' = sbConn
        /\ sbReply' = NoReply /\ sbMap' = [i \in 1..MaxFidMap |-> UnusedSlot]
    BY <1>4 DEF SbStart
  <2>2. /\ UnusedSlot \in [fid : Fids \cup {0}, fd : 0..MaxFds, path : SbPaths]
        /\ UnusedSlot.fd = 0 /\ NoReply.type = "none"
    BY SbAssumption DEF UnusedSlot, SbPaths, NoReply
  <2>3. SbTypeOK'
    BY <1>0, <2>1, <2>2 DEF SbTypeOK
  <2> QED BY <2>1, <2>2, <2>3 DEF SbInv, StubSafe, DescriptorsOwned, WalkTruthful
<1>5. CASE SbStop
  <2>1. /\ sbOn' = FALSE /\ sbUp' = FALSE /\ sbTree' = {} /\ sbFds' = {} /\ sbConn' = FALSE /\ sbReply' = NoReply
        /\ sbMap' = [i \in 1..MaxFidMap |-> UnusedSlot]
    BY <1>5 DEF SbStop
  <2>2. /\ UnusedSlot \in [fid : Fids \cup {0}, fd : 0..MaxFds, path : SbPaths]
        /\ UnusedSlot.fd = 0 /\ NoReply.type = "none"
    BY SbAssumption DEF UnusedSlot, SbPaths, NoReply
  <2>3. SbTypeOK'
    BY <1>0, <2>1, <2>2 DEF SbTypeOK
  <2> QED BY <2>1, <2>2, <2>3 DEF SbInv, StubSafe, DescriptorsOwned, WalkTruthful
<1>6. ASSUME NEW d \in Dirs, SbUserMakes(d) PROVE SbInv'
  BY <1>6 DEF SbUserMakes, SbInv, StubSafe, SbTypeOK, DescriptorsOwned, WalkTruthful
<1>7. ASSUME NEW f \in Fids, Tattach(f) PROVE SbInv'
  BY <1>7, DuplicatesStep DEF Tattach, SbPaths
<1>8. ASSUME NEW f \in Fids, Tclunk(f) PROVE SbInv'
  <2>1. /\ fid_remove(f) /\ sbUp /\ UNCHANGED <<sbTree, sbOn, sbUp, sbConn>>
        /\ sbReply'.type # "Rwalk"
    BY <1>8, PlainAnswer DEF Tclunk, ServerFrame
  <2>2. WalkTruthful'
    BY <2>1 DEF WalkTruthful
  <2>3. /\ sbMap' \in [1..MaxFidMap -> [fid : Fids \cup {0}, fd : 0..MaxFds, path : SbPaths]]
        /\ sbFds' \subseteq 1..MaxFds /\ DescriptorsOwned'
    BY <1>0, <2>1, FidRemoved
  <2> QED BY <1>0, <2>1, <2>2, <2>3, TableChanged
<1>9. ASSUME NEW f \in Fids, Tremove(f) PROVE SbInv'
  <2>1. CASE fid_find(f) = 0
    BY <1>9, <2>1, AnswerStep DEF Tremove, p9_send_error
  <2>2. CASE fid_find(f) # 0
    <3>1. /\ fid_remove(f) /\ sbUp /\ UNCHANGED <<sbOn, sbUp, sbConn>> /\ sbTree' \subseteq sbTree
          /\ sbReply'.type # "Rwalk"
      BY <1>9, <2>2, PlainAnswer DEF Tremove, ServerFrame
    <3>2. WalkTruthful'
      BY <3>1 DEF WalkTruthful
    <3>3. /\ sbMap' \in [1..MaxFidMap -> [fid : Fids \cup {0}, fd : 0..MaxFds, path : SbPaths]]
          /\ sbFds' \subseteq 1..MaxFds /\ DescriptorsOwned'
      BY <1>0, <3>1, FidRemoved
    <3> QED BY <1>0, <3>1, <3>2, <3>3, TableChanged
  <2> QED BY <2>1, <2>2
<1>10. ASSUME NEW f \in Fids, NEW ok \in BOOLEAN, Tstat(f, ok) \/ Tread(f, ok) \/ Twrite(f, ok)
       PROVE  SbInv'
  <2>1. PICK type \in {"Rstat", "Rread", "Rwrite"} : Uses(type, f, ok)
    BY <1>10 DEF Tstat, Tread, Twrite
  <2>2. PICK t, g, p : t # "Rwalk" /\ Replies(t, g, p)
    BY <2>1 DEF Uses, p9_send_error
  <2>3. Keeps /\ ServerFrame
    BY <2>1 DEF Uses
  <2> QED BY <2>2, <2>3, AnswerStep
<1>11. ASSUME NEW f \in Fids, NEW ok \in BOOLEAN, Tlopen(f, ok) PROVE SbInv'
  <2> DEFINE i == fid_find(f)
             path == sbMap[i].path
             opens == i # 0 /\ path \in Files /\ ok /\ path \in sbTree /\ FreeFds # {}
  <2>1. CASE opens
    <3>1. /\ fid_replace(f, NewFd, path) /\ sbUp /\ UNCHANGED <<sbOn, sbUp, sbConn, sbTree>>
          /\ Replies("Rlopen", f, path)
      BY <1>11, <2>1 DEF Tlopen, ServerFrame
    <3>2. NewFd \in FreeFds /\ path \in SbPaths
      BY <2>1, NewFdFree DEF SbPaths
    <3>3. /\ sbMap' \in [1..MaxFidMap -> [fid : Fids \cup {0}, fd : 0..MaxFds, path : SbPaths]]
          /\ sbFds' \subseteq 1..MaxFds /\ DescriptorsOwned'
      BY <1>0, <2>1, <3>1, <3>2, FidReplaced
    <3>4. WalkTruthful'
      BY <3>1, PlainAnswer DEF WalkTruthful
    <3> QED BY <1>0, <3>1, <3>3, <3>4, TableChanged
  <2>2. CASE ~opens
    <3>1. Keeps /\ ServerFrame /\ (Replies("Rerror", 0, <<>>) \/ Replies("Rlopen", f, path))
      BY <1>11, <2>2 DEF Tlopen, p9_send_error
    <3> HIDE DEF path, i
    <3> QED BY <3>1, AnswerStep
  <2> QED BY <2>1, <2>2
<1>12. ASSUME NEW f \in Fids, NEW ok \in BOOLEAN, NEW name \in {"d", "f"}, Tlcreate(f, name, ok)
       PROVE  SbInv'
  <2> DEFINE i == fid_find(f)
             path == Append(sbMap[i].path, name)
             makes == /\ i # 0 /\ ok /\ FreeFds # {}
                      /\ sbMap[i].path \in sbTree \/ (sbMap[i].path = <<>> /\ sbRoot)
                      /\ path \in Files
  <2>1. CASE makes
    <3>1. /\ fid_replace(f, NewFd, path) /\ sbUp /\ UNCHANGED <<sbOn, sbUp, sbConn>>
          /\ sbTree' = sbTree \cup {path} /\ Replies("Rlcreate", f, path)
      BY <1>12, <2>1 DEF Tlcreate, ServerFrame
    <3>2. NewFd \in FreeFds /\ path \in SbPaths /\ path \in Files /\ i # 0
      BY <2>1, NewFdFree DEF SbPaths
    <3>3. /\ sbMap' \in [1..MaxFidMap -> [fid : Fids \cup {0}, fd : 0..MaxFds, path : SbPaths]]
          /\ sbFds' \subseteq 1..MaxFds /\ DescriptorsOwned'
      <4> HIDE DEF path
      <4> QED BY <1>0, <3>1, <3>2, FidReplaced
    <3>4. WalkTruthful'
      BY <3>1, PlainAnswer DEF WalkTruthful
    <3>5. sbTree' \subseteq Dirs \cup Files
      BY <1>0, <3>1, <3>2
    <3> QED BY <3>1, <3>3, <3>4, <3>5, TableChanged
  <2>2. CASE ~makes
    BY <1>12, <2>2, AnswerStep DEF Tlcreate, p9_send_error
  <2> QED BY <2>1, <2>2
<1>13. ASSUME NEW f \in Fids, NEW g \in Fids, NEW names \in SbNames, NEW short \in BOOLEAN,
              Twalk(f, g, names, short)
       PROVE  SbInv'
  <2> DEFINE from == sbMap[fid_find(f)].path
  <2>1. CASE fid_find(f) = 0
    BY <1>13, <2>1, AnswerStep DEF Twalk, p9_send_error
  <2>2. CASE fid_find(f) # 0 /\ names = <<>>
    <3>1. Duplicates("Rwalk", g, from) /\ ServerFrame /\ sbUp /\ from \in SbPaths
      BY <1>0, <1>13, <2>2, Found DEF Twalk
    <3> HIDE DEF from
    <3> QED BY <3>1, DuplicatesStep
  <2>3. CASE fid_find(f) # 0 /\ names # <<>>
    <3>1. /\ Walk(g, from, names, short) /\ UNCHANGED sbTree /\ ServerFrame /\ sbUp
          /\ from \in SbPaths
      BY <1>0, <1>13, <2>3, Found DEF Twalk
    <3> HIDE DEF from
    <3> QED BY <2>3, <3>1, WalkStep
  <2> QED BY <2>1, <2>2, <2>3
<1>14. CASE UNCHANGED sbVars
  BY <1>14 DEF sbVars, SbInv, StubSafe, SbTypeOK, DescriptorsOwned, WalkTruthful
<1>15. CASE SbAcceptFails
  <2>1. /\ sbUp' = FALSE /\ sbFds' = {} /\ sbReply' = NoReply /\ UNCHANGED <<sbOn, sbConn, sbTree>>
        /\ sbMap' = [i \in 1..MaxFidMap |-> UnusedSlot]
    BY <1>15 DEF SbAcceptFails
  <2>2. /\ UnusedSlot \in [fid : Fids \cup {0}, fd : 0..MaxFds, path : SbPaths]
        /\ UnusedSlot.fd = 0 /\ NoReply.type = "none"
    BY SbAssumption DEF UnusedSlot, SbPaths, NoReply
  <2>3. SbTypeOK'
    BY <1>0, <2>1, <2>2 DEF SbTypeOK
  <2> QED BY <2>1, <2>2, <2>3 DEF SbInv, StubSafe, DescriptorsOwned, WalkTruthful
<1> QED
  BY <1>1, <1>2, <1>3, <1>4, <1>5, <1>6, <1>7, <1>8, <1>9, <1>10, <1>11, <1>12, <1>13, <1>14, <1>15
     DEF SbNext

(* Each fid owns its descriptor and a walk is answered with what it        *)
(* reached, for every size of the table, every number of descriptors and   *)
(* every set of fids.                                                      *)
THEOREM StubKeepsDescriptors == SbSpec => []StubSafe
<1>1. SbInit => SbInv
  <2> SUFFICES ASSUME SbInit PROVE SbInv
    OBVIOUS
  <2>1. /\ UnusedSlot \in [fid : Fids \cup {0}, fd : 0..MaxFds, path : SbPaths]
        /\ UnusedSlot.fd = 0 /\ NoReply.type = "none"
    BY SbAssumption DEF UnusedSlot, SbPaths, NoReply
  <2>2. SbTypeOK
    BY <2>1 DEF SbInit, SbTypeOK
  <2> QED BY <2>1, <2>2 DEF SbInit, SbInv, StubSafe, DescriptorsOwned, WalkTruthful
<1>2. SbInv => StubSafe
  BY DEF SbInv
<1> QED BY <1>1, <1>2, SbStep, PTL DEF SbSpec

-----------------------------------------------------------------------------
(***************************************************************************)
(* The DNS server of the virtual machine: DnsServerSafe.                   *)
(*                                                                         *)
(* Reads split the bytes of a connection anywhere, so the invariant says   *)
(* for each byte that is still unread which byte of which request it is    *)
(* (Continues); the context's buffer is the part of one request that was   *)
(* read before it (BufferOf), and the stream goes on where it ends         *)
(* (StreamOf).  A response finds its asker because an identifier, once     *)
(* given, is never given again (RequestAt).                                *)
(***************************************************************************)

(* Byte i of request n. *)
ByteOf(frames, n, i) == [n |-> n, i |-> i, length |-> frames[n]]
SizeOf(frames, n) == Header + frames[n]

(* The stream s continues the requests of frames from byte i of request n: *)
(* its bytes run on within a request, the next request follows, and what   *)
(* was begun is there to its end.                                          *)
Continues(s, frames, n, i) ==
    /\ s = <<>> => n = Len(frames) + 1 /\ i = 1
    /\ s # <<>> => s[1].n = n /\ s[1].i = i
    /\ \A p \in 1..Len(s) :
          /\ s[p].n \in 1..Len(frames) /\ s[p].i \in 1..SizeOf(frames, s[p].n)
          /\ s[p] = ByteOf(frames, s[p].n, s[p].i)
          /\ SizeOf(frames, s[p].n) - s[p].i <= Len(s) - p
          /\ s[p].i = SizeOf(frames, s[p].n) =>
                IF p = Len(s) THEN s[p].n = Len(frames) ELSE s[p + 1].n = s[p].n + 1 /\ s[p + 1].i = 1
    /\ \A p, q \in 1..Len(s) :
          (p <= q /\ q - p <= SizeOf(frames, s[p].n) - s[p].i) =>
              s[q].n = s[p].n /\ s[q].i = s[p].i + (q - p)

(* The buffer of a context: the beginning of the request that follows the  *)
(* ones taken, and the size the thread has worked out for it.              *)
BufferOf(x, frames, n) ==
    /\ Len(x.buf) <= x.size /\ (x.buf # <<>> => n <= Len(frames))
    /\ \A p \in 1..Len(x.buf) : x.buf[p] = ByteOf(frames, n, p)
    /\ x.size = IF Len(x.buf) < Header THEN Header ELSE SizeOf(frames, n)

(* The stream goes on where the buffer ends. *)
StreamOf(x, s, frames, n) ==
    IF x.buf = <<>> \/ Len(x.buf) < SizeOf(frames, n)
    THEN Continues(s, frames, n, Len(x.buf) + 1)
    ELSE Continues(s, frames, n + 1, 1)

CtxAt ==
    /\ \A x \in dsCtx :
          /\ x.conn \in Conns /\ x.id \in Nat /\ x.id < dsNextTcp
          /\ dsConn[x.conn] \in {"open", "closed"}
          /\ BufferOf(x, dsFrames[x.conn], Len(dsTaken[x.conn]) + 1)
          /\ StreamOf(x, dsStream[x.conn], dsFrames[x.conn], Len(dsTaken[x.conn]) + 1)
    /\ \A x, y \in dsCtx : x.id = y.id \/ x.conn = y.conn => x = y

ConnAt ==
    \A c \in Conns :
        /\ Len(dsTaken[c]) <= Len(dsFrames[c])
        /\ dsConn[c] \in {"none", "waiting"} => dsTaken[c] = <<>> /\ Continues(dsStream[c], dsFrames[c], 1, 1)

(* A request that is under way is its asker's, if the server still knows   *)
(* the identifier.                                                         *)
RequestAt ==
    /\ \A u \in dsUdp : u.id \in Nat /\ u.id < dsNextUdp
    /\ \A q \in dsHand \cup dsTunnel \cup dsResp :
          \/ /\ q.proto = "udp" /\ q.id \in Nat /\ q.id < dsNextUdp
             /\ \A u \in dsUdp : u.id = q.id => u.asker = q.from
          \/ /\ q.proto = "tcp" /\ q.id \in Nat /\ q.id < dsNextTcp
             /\ \A x \in dsCtx : x.id = q.id => x.conn = q.from

Bytes == [n : Nat, i : Nat, length : Nat]
Contexts == [id : Nat, conn : Conns, size : Nat, buf : Seq(Bytes)]

TcpTypes ==
    /\ dsConn \in [Conns -> {"none", "waiting", "open", "closed"}]
    /\ dsStream \in [Conns -> Seq(Bytes)] /\ dsFrames \in [Conns -> Seq(Nat)]
    /\ dsTaken \in [Conns -> Seq(Seq(Bytes))] /\ dsNextTcp \in Nat /\ dsCtx \subseteq Contexts

ThreadTypes ==
    /\ dsServer \in {"loop", "ended"} /\ dsReceive \in {"loop", "ended"} /\ dsNextUdp \in Nat
    /\ dsHand = {} \/ \E q : dsHand = {q}

TcpInv == TcpTypes /\ CtxAt /\ ConnAt /\ FramesWhole
AskInv == ThreadTypes /\ RequestAt /\ ResponseToAsker

LEMMA NextPlace ==
    ASSUME NEW a \in Nat, NEW k \in Nat, NEW p \in 1..a, p # a
    PROVE  p + 1 \in 1..a /\ k + (p + 1) = (k + p) + 1
  OBVIOUS

LEMMA AtMost ==
    ASSUME NEW a \in Int, NEW b \in Int, NEW c \in Int, a <= b, b <= c
    PROVE  a <= c
  OBVIOUS

LEMMA ConcatAt ==
    ASSUME NEW b \in Seq(Bytes), NEW t \in Seq(Bytes)
    PROVE  /\ b \o t \in Seq(Bytes) /\ Len(b \o t) = Len(b) + Len(t)
           /\ \A p \in 1..Len(b) : (b \o t)[p] = b[p]
           /\ \A p \in 1..Len(t) : (b \o t)[Len(b) + p] = t[p]
  OBVIOUS

(* What is left of a sequence when its first elements are taken. *)
LEMMA Left ==
    ASSUME NEW s \in Seq(Bytes), NEW k \in 0..Len(s)
    PROVE  LET r == SubSeq(s, k + 1, Len(s))
           IN /\ r \in Seq(Bytes) /\ Len(r) = Len(s) - k
              /\ \A p \in 1..(Len(s) - k) : r[p] = s[k + p]
  OBVIOUS

LEMMA Taken ==
    ASSUME NEW b \in Seq(Bytes), NEW s \in Seq(Bytes), NEW k \in 0..Len(s)
    PROVE  LET r == b \o SubSeq(s, 1, k)
           IN /\ r \in Seq(Bytes) /\ Len(r) = Len(b) + k
              /\ \A p \in 1..Len(b) : r[p] = b[p]
              /\ \A p \in 1..k : r[Len(b) + p] = s[p]
<1> DEFINE t == SubSeq(s, 1, k)
<1>1. t \in Seq(Bytes) /\ Len(t) = k /\ \A p \in 1..k : t[p] = s[p]
  OBVIOUS
<1> HIDE DEF t
<1> QED BY <1>1, ConcatAt DEF t

(* Reading k bytes of the request that comes next: they are its bytes, and *)
(* the stream goes on behind them.                                         *)
LEMMA ReadOn ==
    ASSUME NEW frames \in Seq(Nat), NEW s \in Seq(Bytes), NEW n \in Nat, NEW i \in Nat, i >= 1,
           Continues(s, frames, n, i), NEW k \in 1..Len(s), (i - 1) + k <= SizeOf(frames, n)
    PROVE  /\ n \in 1..Len(frames)
           /\ \A q \in 1..k : s[q] = ByteOf(frames, n, (i - 1) + q)
           /\ LET r == SubSeq(s, k + 1, Len(s))
              IN IF (i - 1) + k < SizeOf(frames, n) THEN Continues(r, frames, n, i + k)
                                                    ELSE Continues(r, frames, n + 1, 1)
<1> DEFINE size == SizeOf(frames, n)
           L == Len(s)
<1>1. L \in Nat /\ k \in Nat /\ 1 \in 1..L /\ k \in 1..L /\ s # <<>>
  OBVIOUS
<1>2. s[1].n = n /\ s[1].i = i /\ n \in 1..Len(frames)
  BY <1>1 DEF Continues
<1>3. size \in Nat
  BY <1>2, SMTT(40) DEF SizeOf, Header
<1>4. ASSUME NEW q \in 1..k
      PROVE  q \in 1..L /\ s[q].n = n /\ s[q].i = (i - 1) + q
  <2>1. q \in 1..L /\ 1 <= q /\ q - 1 <= size - i /\ i + (q - 1) = (i - 1) + q
    BY <1>1, <1>3
  <2>2. s[q].n = s[1].n /\ s[q].i = s[1].i + (q - 1)
    BY <1>1, <1>2, <2>1 DEF Continues
  <2> QED BY <1>2, <2>1, <2>2
<1>5. \A q \in 1..k : s[q] = ByteOf(frames, n, (i - 1) + q)
  BY <1>4 DEF Continues
<1>6. PICK r : r = SubSeq(s, k + 1, Len(s))
  OBVIOUS
<1>7. r \in Seq(Bytes) /\ Len(r) = L - k /\ \A p \in 1..(L - k) : r[p] = s[k + p]
  BY <1>1, <1>6, Left
<1>8. k \in 1..k /\ s[k].n = n /\ s[k].i = (i - 1) + k
  BY <1>1, <1>4
<1>9. \A p \in 1..Len(r) : k + p \in 1..L /\ r[p] = s[k + p]
  BY <1>1, <1>7
<1>10. ASSUME NEW p \in 1..Len(r)
       PROVE  /\ r[p].n \in 1..Len(frames) /\ r[p].i \in 1..SizeOf(frames, r[p].n)
              /\ r[p] = ByteOf(frames, r[p].n, r[p].i)
              /\ SizeOf(frames, r[p].n) - r[p].i <= Len(r) - p
              /\ r[p].i = SizeOf(frames, r[p].n) =>
                    IF p = Len(r) THEN r[p].n = Len(frames)
                                  ELSE r[p + 1].n = r[p].n + 1 /\ r[p + 1].i = 1
  <2>1. k + p \in 1..L /\ r[p] = s[k + p]
    BY <1>9
  <2>2. /\ s[k + p].n \in 1..Len(frames) /\ s[k + p].i \in 1..SizeOf(frames, s[k + p].n)
        /\ s[k + p] = ByteOf(frames, s[k + p].n, s[k + p].i)
        /\ SizeOf(frames, s[k + p].n) - s[k + p].i <= L - (k + p)
        /\ s[k + p].i = SizeOf(frames, s[k + p].n) =>
              IF k + p = L THEN s[k + p].n = Len(frames)
              ELSE s[(k + p) + 1].n = s[k + p].n + 1 /\ s[(k + p) + 1].i = 1
    BY <2>1 DEF Continues
  <2>3. L - (k + p) = Len(r) - p /\ (k + p = L <=> p = Len(r))
    BY <1>1, <1>7
  <2>4. p # Len(r) => r[p + 1] = s[(k + p) + 1]
    <3>1. Len(r) \in Nat
      BY <1>7
    <3>2. p # Len(r) => p + 1 \in 1..Len(r) /\ k + (p + 1) = (k + p) + 1
      BY <1>1, <3>1, NextPlace
    <3> QED BY <1>9, <3>2, SMTT(40)
  <2> QED BY <2>1, <2>2, <2>3, <2>4
<1>11. ASSUME NEW p \in 1..Len(r), NEW q \in 1..Len(r), p <= q,
              q - p <= SizeOf(frames, r[p].n) - r[p].i
       PROVE  r[q].n = r[p].n /\ r[q].i = r[p].i + (q - p)
  <2>1. /\ k + p \in 1..L /\ r[p] = s[k + p] /\ k + q \in 1..L /\ r[q] = s[k + q]
        /\ k + p <= k + q /\ (k + q) - (k + p) = q - p
    BY <1>1, <1>9, <1>11, SMTT(40)
  <2>2. (k + q) - (k + p) <= SizeOf(frames, s[k + p].n) - s[k + p].i
    BY <1>11, <2>1
  <2>3. s[k + q].n = s[k + p].n /\ s[k + q].i = s[k + p].i + ((k + q) - (k + p))
    BY <2>1, <2>2 DEF Continues
  <2> QED BY <2>1, <2>3
<1>12. \A m, j : (/\ r = <<>> => m = Len(frames) + 1 /\ j = 1
                  /\ r # <<>> => r[1].n = m /\ r[1].i = j) => Continues(r, frames, m, j)
  BY <1>10, <1>11 DEF Continues
<1>13. r = <<>> <=> k = L
  BY <1>1, <1>7
<1>14. r # <<>> => k + 1 \in 1..L /\ r[1] = s[k + 1]
  <2>1. k # L => 1 \in 1..(L - k) /\ k + 1 \in 1..L
    BY <1>1
  <2> QED BY <1>7, <1>13, <2>1
<1>15. CASE (i - 1) + k < size
  <2>1. SizeOf(frames, s[k].n) - s[k].i <= L - k
    BY <1>1 DEF Continues
  <2>2. k # L
    BY <1>1, <1>3, <1>8, <1>15, <2>1
  <2>3. k <= k + 1 /\ (k + 1) - k = 1 /\ 1 <= size - ((i - 1) + k) /\ ((i - 1) + k) + 1 = i + k
    BY <1>1, <1>3, <1>15
  <2>4. s[k + 1].n = n /\ s[k + 1].i = i + k
    BY <1>1, <1>8, <1>13, <1>14, <2>2, <2>3 DEF Continues
  <2>5. Continues(r, frames, n, i + k)
    BY <1>12, <1>13, <1>14, <2>2, <2>4
  <2> QED BY <1>2, <1>5, <1>6, <1>15, <2>5
<1>16. CASE ~((i - 1) + k < size)
  <2>1. s[k].i = SizeOf(frames, s[k].n)
    <3>1. (i - 1) + k = size
      BY <1>1, <1>3, <1>16
    <3> QED BY <1>8, <3>1
  <2>2. IF k = L THEN s[k].n = Len(frames) ELSE s[k + 1].n = s[k].n + 1 /\ s[k + 1].i = 1
    BY <1>1, <2>1 DEF Continues
  <2>3. Continues(r, frames, n + 1, 1)
    BY <1>8, <1>12, <1>13, <1>14, <2>2
  <2> QED BY <1>2, <1>5, <1>6, <1>16, <2>3
<1> QED BY <1>15, <1>16

(* Writing one more request behind the others. *)
LEMMA WriteOn ==
    ASSUME NEW frames \in Seq(Nat), NEW s \in Seq(Bytes), NEW n \in Nat, NEW i \in Nat,
           Continues(s, frames, n, i), NEW l \in Nat
    PROVE  Continues(s \o Frame(Len(frames) + 1, l), Append(frames, l), n, i)
<1> DEFINE L == Len(s)
           N == Len(frames)
           f == Frame(N + 1, l)
           r == s \o f
           more == Append(frames, l)
<1>1. L \in Nat /\ N \in Nat
  OBVIOUS
<1>2. /\ f \in Seq(Bytes) /\ Len(f) = 2 + l
      /\ \A p \in 1..(2 + l) : f[p] = [n |-> N + 1, i |-> p, length |-> l]
  BY <1>1 DEF Frame, Header, Bytes
<1>3. /\ more[N + 1] = l /\ Len(more) = N + 1
      /\ \A m \in 1..N : more[m] = frames[m] /\ frames[m] \in Nat
  OBVIOUS
<1>4. /\ Len(r) = L + (2 + l) /\ r # <<>> /\ r \in Seq(Bytes)
      /\ \A p \in 1..L : r[p] = s[p]
      /\ \A p \in 1..(2 + l) : r[L + p] = f[p]
  <2> HIDE DEF f
  <2>1. /\ r \in Seq(Bytes) /\ Len(r) = L + (2 + l)
        /\ \A p \in 1..L : r[p] = s[p]
        /\ \A p \in 1..(2 + l) : r[L + p] = f[p]
    <3>1. /\ s \o f \in Seq(Bytes) /\ Len(s \o f) = Len(s) + Len(f)
          /\ \A p \in 1..Len(s) : (s \o f)[p] = s[p]
          /\ \A p \in 1..Len(f) : (s \o f)[Len(s) + p] = f[p]
      BY <1>2, ConcatAt, Zenon
    <3> QED BY <1>2, <3>1, Zenon
  <2>2. r # <<>>
    BY <1>1, <2>1
  <2> QED BY <2>1, <2>2
<1>5. /\ \A m \in 1..N : SizeOf(more, m) = SizeOf(frames, m) /\ SizeOf(frames, m) \in Nat
      /\ SizeOf(more, N + 1) = 2 + l
  BY <1>3 DEF SizeOf, Header
<1>6. /\ \A m \in 1..N : \A j : ByteOf(more, m, j) = ByteOf(frames, m, j)
      /\ \A j : ByteOf(more, N + 1, j) = [n |-> N + 1, i |-> j, length |-> l]
  BY <1>3 DEF ByteOf
<1> HIDE DEF f, r, more
<1>7. ASSUME NEW p \in 1..(2 + l)
      PROVE  r[L + p].n = N + 1 /\ r[L + p].i = p /\ r[L + p] = ByteOf(more, N + 1, p)
  BY <1>2, <1>4, <1>6
<1>8. \A p \in 1..Len(r) : p \in 1..L \/ (p - L \in 1..(2 + l) /\ L + (p - L) = p)
  BY <1>1, <1>4
<1>9. ASSUME NEW p \in 1..L
      PROVE  /\ s[p].n \in 1..N /\ s[p].i \in 1..SizeOf(frames, s[p].n)
             /\ s[p] = ByteOf(frames, s[p].n, s[p].i)
             /\ SizeOf(frames, s[p].n) - s[p].i <= L - p
             /\ s[p].i = SizeOf(frames, s[p].n) =>
                   IF p = L THEN s[p].n = N ELSE s[p + 1].n = s[p].n + 1 /\ s[p + 1].i = 1
  BY DEF Continues
<1>10. r[1].n = n /\ r[1].i = i
  <2>1. CASE s = <<>>
    <3>1. L = 0 /\ n = N + 1 /\ i = 1 /\ 1 \in 1..(2 + l) /\ L + 1 = 1
      BY <2>1 DEF Continues
    <3> QED BY <1>7, <3>1
  <2>2. CASE s # <<>>
    <3>1. 1 \in 1..L
      BY <1>1, <2>2
    <3> QED BY <1>4, <2>2, <3>1 DEF Continues
  <2> QED BY <2>1, <2>2
<1>11. ASSUME NEW p \in 1..Len(r)
       PROVE  /\ r[p].n \in 1..(N + 1) /\ r[p].i \in 1..SizeOf(more, r[p].n)
              /\ r[p] = ByteOf(more, r[p].n, r[p].i)
              /\ SizeOf(more, r[p].n) - r[p].i <= Len(r) - p
              /\ r[p].i = SizeOf(more, r[p].n) =>
                    IF p = Len(r) THEN r[p].n = N + 1
                                  ELSE r[p + 1].n = r[p].n + 1 /\ r[p + 1].i = 1
  <2>1. CASE p \in 1..L
    <3>1. r[p] = s[p] /\ p # Len(r) /\ L - p <= Len(r) - p
      BY <1>1, <1>4, <2>1
    <3>2. r[p].n \in 1..N /\ r[p].n \in 1..(N + 1) /\ SizeOf(more, r[p].n) = SizeOf(frames, r[p].n)
      BY <1>1, <1>5, <1>9, <2>1, <3>1
    <3>3. r[p] = ByteOf(more, r[p].n, r[p].i)
      BY <1>6, <1>9, <2>1, <3>1, <3>2, SMTT(40)
    <3>4. SizeOf(more, r[p].n) - r[p].i <= Len(r) - p
      <4>1. SizeOf(frames, s[p].n) \in Nat /\ s[p].i \in Nat /\ Len(r) \in Nat
        BY <1>1, <1>4, <1>5, <1>9, <2>1
      <4>2. SizeOf(frames, s[p].n) - s[p].i \in Int /\ L - p \in Int /\ Len(r) - p \in Int
        BY <1>1, <4>1
      <4>3. SizeOf(frames, s[p].n) - s[p].i <= L - p
        BY <1>9, <2>1
      <4>4. SizeOf(frames, s[p].n) - s[p].i <= Len(r) - p
        BY <3>1, <4>2, <4>3, AtMost
      <4> QED BY <3>1, <3>2, <4>4
    <3>5. CASE p = L
      <4>1. p + 1 = L + 1 /\ 1 \in 1..(2 + l)
        BY <3>5
      <4>2. r[p + 1].n = N + 1 /\ r[p + 1].i = 1
        BY <1>7, <4>1
      <4> QED BY <1>9, <2>1, <3>1, <3>2, <3>3, <3>4, <3>5, <4>2
    <3>6. CASE p # L
      <4>1. p + 1 \in 1..L
        BY <1>1, <2>1, <3>6
      <4>2. r[p + 1] = s[p + 1]
        BY <1>4, <4>1
      <4> QED BY <1>9, <2>1, <3>1, <3>2, <3>3, <3>4, <3>6, <4>2
    <3> QED BY <3>5, <3>6
  <2>2. CASE p \notin 1..L
    <3> DEFINE j == p - L
    <3>1. j \in 1..(2 + l) /\ L + j = p
      BY <1>8, <2>2
    <3>2. r[p].n = N + 1 /\ r[p].i = j /\ r[p] = ByteOf(more, N + 1, j)
      BY <1>7, <3>1
    <3>3. (2 + l) - j = Len(r) - p /\ (j = 2 + l => p = Len(r)) /\ N + 1 \in 1..(N + 1)
      BY <1>1, <1>4, <3>1
    <3> HIDE DEF j
    <3> QED BY <1>1, <1>4, <1>5, <3>1, <3>2, <3>3, SMTT(40)
  <2> QED BY <2>1, <2>2
<1>12. ASSUME NEW p \in 1..Len(r), NEW q \in 1..Len(r), p <= q,
              q - p <= SizeOf(more, r[p].n) - r[p].i
       PROVE  r[q].n = r[p].n /\ r[q].i = r[p].i + (q - p)
  <2>1. CASE p \in 1..L
    <3>1. r[p] = s[p] /\ SizeOf(more, r[p].n) = SizeOf(frames, s[p].n)
      BY <1>4, <1>5, <1>9, <2>1
    <3>2. q \in 1..L
      <4>1. SizeOf(frames, s[p].n) - s[p].i <= L - p /\ SizeOf(frames, s[p].n) \in Nat /\ s[p].i \in Nat
        BY <1>5, <1>9, <2>1, SMTT(40)
      <4> QED BY <1>1, <1>12, <2>1, <3>1, <4>1
    <3>3. r[q] = s[q]
      BY <1>4, <3>2
    <3> QED BY <1>12, <2>1, <3>1, <3>2, <3>3 DEF Continues
  <2>2. CASE p \notin 1..L
    <3> DEFINE j == p - L
               k == q - L
    <3>1. j \in 1..(2 + l) /\ L + j = p
      BY <1>8, <2>2
    <3>2. q \notin 1..L
      BY <1>1, <1>4, <1>12, <2>2
    <3>3. k \in 1..(2 + l) /\ L + k = q
      BY <1>8, <3>2
    <3>4. r[p].n = N + 1 /\ r[p].i = j /\ r[q].n = N + 1 /\ r[q].i = k
      BY <1>7, <3>1, <3>3
    <3>5. k = j + (q - p)
      BY <1>1, <1>4
    <3> QED BY <3>4, <3>5
  <2> QED BY <2>1, <2>2
<1>13. Continues(r, more, n, i)
  BY <1>3, <1>4, <1>10, <1>11, <1>12 DEF Continues
<1> QED BY <1>13 DEF r, f, more

(* A read of k bytes: what the buffer is then, and where the stream goes on. *)
LEMMA ReadPart ==
    ASSUME NEW frames \in Seq(Nat), NEW s \in Seq(Bytes), NEW n \in Nat, n >= 1,
           NEW x \in Contexts, BufferOf(x, frames, n), StreamOf(x, s, frames, n),
           NEW k \in 1..Len(s), k <= x.size - Len(x.buf)
    PROVE  LET buf == x.buf \o SubSeq(s, 1, k)
               r == SubSeq(s, k + 1, Len(s))
           IN /\ n \in 1..Len(frames) /\ buf \in Seq(Bytes) /\ Len(buf) = Len(x.buf) + k
              /\ Len(buf) <= SizeOf(frames, n) /\ r \in Seq(Bytes)
              /\ \A p \in 1..Len(buf) : buf[p] = ByteOf(frames, n, p)
              /\ IF Len(buf) < SizeOf(frames, n) THEN Continues(r, frames, n, Len(buf) + 1)
                                                 ELSE Continues(r, frames, n + 1, 1)
<1>1. PICK b, L, size : b = x.buf /\ L = Len(b) /\ size = SizeOf(frames, n)
  OBVIOUS
<1>2. b \in Seq(Bytes) /\ L \in Nat /\ x.size \in Nat /\ k \in Nat /\ k >= 1 /\ L + k <= x.size
  BY <1>1 DEF Contexts
<1>3. b = <<>> <=> L = 0
  BY <1>1, <1>2
<1>4. /\ b # <<>> => n <= Len(frames)
      /\ \A p \in 1..L : b[p] = ByteOf(frames, n, p)
      /\ x.size = IF L < 2 THEN 2 ELSE size
  BY <1>1 DEF BufferOf, Header
<1>5. n <= Len(frames) => size \in Nat /\ size >= 2
  BY <1>1 DEF SizeOf, Header
<1>6. Continues(s, frames, n, L + 1)
  <2>1. CASE b = <<>>
    BY <1>1, <2>1 DEF StreamOf
  <2>2. CASE b # <<>>
    <3>1. L < size
      <4>1. size \in Nat /\ size >= 2
        BY <1>4, <1>5, <2>2
      <4>2. CASE L < 2
        BY <1>2, <4>1, <4>2
      <4>3. CASE ~(L < 2)
        BY <1>2, <1>4, <4>3
      <4> QED BY <4>2, <4>3
    <3> QED BY <1>1, <2>2, <3>1 DEF StreamOf
  <2> QED BY <2>1, <2>2
<1>7. s # <<>> /\ 1 \in 1..Len(s)
  OBVIOUS
<1>8. n \in 1..Len(frames)
  BY <1>6, <1>7 DEF Continues
<1>9. L + k <= size /\ ((L + 1) - 1) + k = L + k /\ (L + 1) + k = (L + k) + 1 /\ size \in Nat
  <2>1. size \in Nat /\ size >= 2
    BY <1>5, <1>8
  <2>2. L + k <= size
    <3>1. CASE L < 2
      BY <1>2, <1>4, <2>1, <3>1
    <3>2. CASE ~(L < 2)
      BY <1>2, <1>4, <3>2
    <3> QED BY <3>1, <3>2
  <2> QED BY <1>2, <2>1, <2>2
<1>10. PICK buf, r : buf = x.buf \o SubSeq(s, 1, k) /\ r = SubSeq(s, k + 1, Len(s))
  OBVIOUS
<1>11. k \in 0..Len(s) /\ L + 1 \in Nat /\ L + 1 >= 1 /\ \A q \in 1..k : ((L + 1) - 1) + q = L + q
  BY <1>2
<1>12. /\ buf \in Seq(Bytes) /\ Len(buf) = L + k
       /\ \A p \in 1..L : buf[p] = b[p]
       /\ \A p \in 1..k : buf[L + p] = s[p]
  BY <1>1, <1>2, <1>10, <1>11, Taken
<1>13. r \in Seq(Bytes)
  BY <1>10, <1>11, Left
<1>14. /\ \A q \in 1..k : s[q] = ByteOf(frames, n, ((L + 1) - 1) + q)
       /\ IF ((L + 1) - 1) + k < SizeOf(frames, n) THEN Continues(r, frames, n, (L + 1) + k)
                                                   ELSE Continues(r, frames, n + 1, 1)
  <2>1. ((L + 1) - 1) + k <= SizeOf(frames, n)
    BY <1>1, <1>9
  <2> QED BY <1>6, <1>10, <1>11, <2>1, ReadOn
<1>15. ASSUME NEW p \in 1..Len(buf)
       PROVE  buf[p] = ByteOf(frames, n, p)
  <2>1. CASE p \in 1..L
    BY <1>4, <1>12, <2>1
  <2>2. CASE p \notin 1..L
    <3>1. PICK q \in 1..k : p = L + q
      <4>1. p - L \in 1..k /\ p = L + (p - L)
        BY <1>2, <1>12, <2>2
      <4> QED BY <4>1
    <3> QED BY <1>11, <1>12, <1>14, <3>1
  <2> QED BY <2>1, <2>2
<1>16. IF Len(buf) < SizeOf(frames, n) THEN Continues(r, frames, n, Len(buf) + 1)
                                       ELSE Continues(r, frames, n + 1, 1)
  BY <1>9, <1>12, <1>14
<1>17. Len(buf) <= SizeOf(frames, n)
  BY <1>1, <1>9, <1>12
<1> QED BY <1>1, <1>8, <1>10, <1>12, <1>13, <1>15, <1>16, <1>17

LEMMA PointByPoint ==
    ASSUME NEW t \in Seq(Bytes)
    PROVE  t = [p \in 1..Len(t) |-> t[p]]
  OBVIOUS

(* The context after the read: the request is whole, and the next one      *)
(* begins, or it goes on.                                                  *)
LEMMA AfterPart ==
    ASSUME NEW frames \in Seq(Nat), NEW r \in Seq(Bytes), NEW n \in Nat, n \in 1..Len(frames),
           NEW x \in Contexts, BufferOf(x, frames, n),
           NEW buf \in Seq(Bytes), Len(buf) > Len(x.buf), Len(buf) <= x.size,
           Len(buf) <= SizeOf(frames, n),
           \A p \in 1..Len(buf) : buf[p] = ByteOf(frames, n, p),
           IF Len(buf) < SizeOf(frames, n) THEN Continues(r, frames, n, Len(buf) + 1)
                                           ELSE Continues(r, frames, n + 1, 1)
    PROVE  /\ After(x, buf) \in Contexts
           /\ After(x, buf).id = x.id /\ After(x, buf).conn = x.conn
           /\ IF Len(buf) = x.size /\ x.size # Header
              THEN /\ buf = Frame(n, frames[n]) /\ buf[1].n = n
                   /\ BufferOf(After(x, buf), frames, n + 1)
                   /\ StreamOf(After(x, buf), r, frames, n + 1)
              ELSE BufferOf(After(x, buf), frames, n) /\ StreamOf(After(x, buf), r, frames, n)
<1>1. PICK L, K, size : L = Len(x.buf) /\ K = Len(buf) /\ size = SizeOf(frames, n)
  OBVIOUS
<1>2. /\ L \in Nat /\ K \in Nat /\ K > L /\ K <= x.size /\ K <= size /\ x.size \in Nat
      /\ x.size = IF L < 2 THEN 2 ELSE size
  BY <1>1 DEF Contexts, BufferOf, Header
<1>3. frames[n] \in Nat /\ size = 2 + frames[n]
  BY <1>1 DEF SizeOf, Header
<1>4. buf # <<>> /\ 1 \in 1..K
  BY <1>1, <1>2
<1>5. PICK y : y = After(x, buf)
  OBVIOUS
<1>6. CASE K = x.size /\ x.size # 2
  <2>1. y = [x EXCEPT !.buf = <<>>, !.size = 2]
    BY <1>1, <1>5, <1>6 DEF After, Header
  <2>2. y \in Contexts /\ y.id = x.id /\ y.conn = x.conn /\ y.buf = <<>> /\ y.size = 2
    <3>1. PICK none, two : none = <<>> /\ two = 2
      OBVIOUS
    <3>2. y = [x EXCEPT !.buf = none, !.size = two] /\ none \in Seq(Bytes) /\ two \in Nat
      BY <2>1, <3>1
    <3>3. y \in Contexts /\ y.id = x.id /\ y.conn = x.conn /\ y.buf = none /\ y.size = two
      BY <3>2 DEF Contexts
    <3> QED BY <3>1, <3>3
  <2>3. K = size
    BY <1>2, <1>6
  <2>4. buf = Frame(n, frames[n])
    <3>1. \A p \in 1..(2 + frames[n]) : buf[p] = [n |-> n, i |-> p, length |-> frames[n]]
      BY <1>1, <1>3, <2>3 DEF ByteOf
    <3>2. buf = [p \in 1..(2 + frames[n]) |-> buf[p]]
      BY <1>1, <1>3, <2>3, PointByPoint
    <3> QED BY <3>1, <3>2 DEF Frame, Header
  <2>5. buf[1].n = n
    <3>1. buf[1] = ByteOf(frames, n, 1)
      BY <1>1, <1>4
    <3> QED BY <3>1 DEF ByteOf
  <2>6. BufferOf(y, frames, n + 1)
    BY <2>2 DEF BufferOf, Header
  <2>7. StreamOf(y, r, frames, n + 1)
    BY <1>1, <1>2, <2>2, <2>3 DEF StreamOf
  <2> QED BY <1>1, <1>5, <1>6, <2>2, <2>4, <2>5, <2>6, <2>7 DEF Header
<1>7. CASE ~(K = x.size /\ x.size # 2)
  <2>1. /\ y \in Contexts /\ y.id = x.id /\ y.conn = x.conn /\ y.buf = buf
        /\ y.size = IF K < 2 THEN 2 ELSE size
    <3>1. CASE K < x.size
      <4>1. y = [x EXCEPT !.buf = buf]
        BY <1>1, <1>2, <1>5, <3>1 DEF After, Header
      <4>2. y \in Contexts /\ y.id = x.id /\ y.conn = x.conn /\ y.buf = buf /\ y.size = x.size
        BY <4>1 DEF Contexts
      <4> QED BY <1>2, <3>1, <4>2
    <3>2. CASE ~(K < x.size)
      <4>1. K = 2 /\ x.size = 2 /\ 2 \in 1..K
        BY <1>2, <1>7, <3>2
      <4>2. y = [x EXCEPT !.buf = buf, !.size = 2 + buf[2].length]
        BY <1>1, <1>5, <4>1 DEF After, Header
      <4>3. buf[2].length = frames[n]
        BY <1>1, <4>1 DEF ByteOf
      <4>4. y \in Contexts /\ y.id = x.id /\ y.conn = x.conn /\ y.buf = buf /\ y.size = size
        <5>1. y = [x EXCEPT !.buf = buf, !.size = size] /\ size \in Nat
          BY <1>3, <4>2, <4>3
        <5> QED BY <5>1 DEF Contexts
      <4> QED BY <4>1, <4>4
    <3> QED BY <3>1, <3>2
  <2>2. BufferOf(y, frames, n)
    <3>1. Len(y.buf) <= y.size
      BY <1>1, <1>2, <2>1
    <3> QED BY <1>1, <2>1, <3>1 DEF BufferOf, Header
  <2>3. StreamOf(y, r, frames, n)
    BY <1>1, <1>4, <2>1 DEF StreamOf
  <2> QED BY <1>1, <1>5, <1>7, <2>1, <2>2, <2>3 DEF Header
<1> QED BY <1>6, <1>7

(* A request that is written behind the others leaves the buffer as it is. *)
LEMMA WritePart ==
    ASSUME NEW frames \in Seq(Nat), NEW s \in Seq(Bytes), NEW n \in Nat, n >= 1,
           NEW x \in Contexts, BufferOf(x, frames, n), StreamOf(x, s, frames, n), NEW l \in Nat
    PROVE  /\ BufferOf(x, Append(frames, l), n)
           /\ StreamOf(x, s \o Frame(Len(frames) + 1, l), Append(frames, l), n)
<1>1. PICK more, t : more = Append(frames, l) /\ t = s \o Frame(Len(frames) + 1, l)
  OBVIOUS
<1>2. Len(more) = Len(frames) + 1 /\ \A m \in 1..Len(frames) : more[m] = frames[m]
  BY <1>1
<1>3. x.buf \in Seq(Bytes) /\ Len(x.buf) \in Nat /\ (x.buf = <<>> <=> Len(x.buf) = 0)
  BY DEF Contexts
<1>4. \A m, j : (m \in Nat /\ j \in Nat /\ Continues(s, frames, m, j)) => Continues(t, more, m, j)
  BY <1>1, WriteOn
<1>5. Len(x.buf) + 1 \in Nat /\ n + 1 \in Nat /\ 1 \in Nat
  BY <1>3
<1>6. CASE x.buf = <<>>
  <2>1. BufferOf(x, more, n)
    BY <1>3, <1>6 DEF BufferOf, Header
  <2>2. StreamOf(x, t, more, n)
    BY <1>4, <1>5, <1>6 DEF StreamOf
  <2> QED BY <1>1, <2>1, <2>2
<1>7. CASE x.buf # <<>>
  <2>1. n \in 1..Len(frames) /\ n <= Len(more)
    BY <1>2, <1>7 DEF BufferOf
  <2>2. SizeOf(more, n) = SizeOf(frames, n) /\ \A p : ByteOf(more, n, p) = ByteOf(frames, n, p)
    BY <1>2, <2>1 DEF SizeOf, ByteOf
  <2>3. BufferOf(x, more, n)
    BY <2>1, <2>2 DEF BufferOf
  <2>4. StreamOf(x, t, more, n)
    BY <1>4, <1>5, <2>2 DEF StreamOf
  <2> QED BY <1>1, <2>3, <2>4
<1> QED BY <1>6, <1>7

LEMMA TcpStart == DsInit => TcpInv
<1> SUFFICES ASSUME DsInit PROVE TcpInv
  OBVIOUS
<1>1. /\ dsConn = [c \in Conns |-> "none"] /\ dsStream = [c \in Conns |-> <<>>]
      /\ dsFrames = [c \in Conns |-> <<>>] /\ dsTaken = [c \in Conns |-> <<>>]
      /\ dsNextTcp = 0 /\ dsCtx = {}
  BY DEF DsInit
<1>2. <<>> \in Seq(Bytes) /\ <<>> \in Seq(Nat) /\ <<>> \in Seq(Seq(Bytes)) /\ Len(<<>>) = 0
  OBVIOUS
<1>3. TcpTypes
  BY <1>1, <1>2 DEF TcpTypes
<1>4. Continues(<<>>, <<>>, 1, 1)
  BY DEF Continues
<1>5. ConnAt
  BY <1>1, <1>2, <1>4 DEF ConnAt
<1>6. CtxAt /\ FramesWhole
  BY <1>1, <1>2 DEF CtxAt, FramesWhole
<1> QED BY <1>3, <1>5, <1>6 DEF TcpInv

LEMMA TcpKept ==
    ASSUME TcpInv, UNCHANGED tcpVars
    PROVE  TcpInv'
  BY DEF TcpInv, TcpTypes, CtxAt, ConnAt, FramesWhole, tcpVars

(* A new context: nothing of the connection has been read. *)
LEMMA AcceptStep ==
    ASSUME TcpInv, NEW c \in Conns, HandleNewTcpConnection(c)
    PROVE  TcpInv'
<1>1. PICK x : x = [id |-> dsNextTcp, conn |-> c, size |-> 2, buf |-> <<>>]
  OBVIOUS
<1>2. /\ dsConn[c] = "waiting" /\ dsConn' = [dsConn EXCEPT ![c] = "open"]
      /\ dsNextTcp' = dsNextTcp + 1 /\ dsCtx' = dsCtx \cup {x}
      /\ UNCHANGED <<dsStream, dsFrames, dsTaken>>
  BY <1>1 DEF HandleNewTcpConnection, Header
<1>3. x.id = dsNextTcp /\ x.conn = c /\ x.size = 2 /\ x.buf = <<>> /\ x \in Contexts
  <2>1. <<>> \in Seq(Bytes) /\ 2 \in Nat /\ dsNextTcp \in Nat
    BY DEF TcpInv, TcpTypes
  <2> QED BY <1>1, <2>1 DEF Contexts
<1>4. TcpTypes'
  BY <1>2, <1>3 DEF TcpInv, TcpTypes
<1>5. dsConn'[c] = "open" /\ \A d \in Conns : d # c => dsConn'[d] = dsConn[d]
  BY <1>2 DEF TcpInv, TcpTypes
<1>6. FramesWhole' /\ ConnAt'
  <2>1. FramesWhole'
    BY <1>2 DEF TcpInv, FramesWhole
  <2>2. ConnAt'
    BY <1>2, <1>5 DEF TcpInv, ConnAt
  <2> QED BY <2>1, <2>2
<1>7. \A y \in dsCtx : y.conn # c /\ y.id # dsNextTcp /\ y.id < dsNextTcp + 1
  <2> SUFFICES ASSUME NEW y \in dsCtx
               PROVE  y.conn # c /\ y.id # dsNextTcp /\ y.id < dsNextTcp + 1
    OBVIOUS
  <2>1. y.id \in Nat /\ y.id < dsNextTcp /\ dsNextTcp \in Nat
    BY DEF TcpInv, TcpTypes, CtxAt
  <2>2. dsConn[y.conn] \in {"open", "closed"}
    BY DEF TcpInv, CtxAt
  <2> QED BY <1>2, <2>1, <2>2
<1>8. BufferOf(x, dsFrames[c], 1) /\ StreamOf(x, dsStream[c], dsFrames[c], 1) /\ dsTaken[c] = <<>>
  <2>1. dsTaken[c] = <<>> /\ Continues(dsStream[c], dsFrames[c], 1, 1)
    BY <1>2 DEF TcpInv, ConnAt
  <2>2. Len(x.buf) = 0 /\ 0 + 1 = 1
    BY <1>3
  <2> QED BY <1>3, <2>1, <2>2 DEF BufferOf, StreamOf, Header
<1>9. CtxAt'
  <2>1. ASSUME NEW y \in dsCtx'
        PROVE  /\ y.conn \in Conns /\ y.id \in Nat /\ y.id < dsNextTcp'
               /\ dsConn'[y.conn] \in {"open", "closed"}
               /\ BufferOf(y, dsFrames'[y.conn], Len(dsTaken'[y.conn]) + 1)
               /\ StreamOf(y, dsStream'[y.conn], dsFrames'[y.conn], Len(dsTaken'[y.conn]) + 1)
    <3>1. CASE y = x
      <4>1. Len(dsTaken'[c]) + 1 = 1 /\ dsNextTcp \in Nat
        BY <1>2, <1>8 DEF TcpInv, TcpTypes
      <4> QED BY <1>2, <1>3, <1>5, <1>8, <3>1, <4>1
    <3>2. CASE y \in dsCtx
      BY <1>2, <1>5, <1>7, <3>2 DEF TcpInv, CtxAt
    <3> QED BY <1>2, <3>1, <3>2
  <2>2. \A y, z \in dsCtx' : y.id = z.id \/ y.conn = z.conn => y = z
    BY <1>2, <1>3, <1>7 DEF TcpInv, CtxAt
  <2> QED BY <2>1, <2>2 DEF CtxAt
<1> QED BY <1>4, <1>6, <1>9 DEF TcpInv

(* A connection that ends, or a client that connects or closes. *)
LEMMA ConnStep ==
    ASSUME TcpInv, NEW c \in Conns, NEW new \in {"waiting", "closed"},
           dsConn' = [dsConn EXCEPT ![c] = new], new = "waiting" => dsConn[c] = "none",
           dsCtx' \subseteq dsCtx, UNCHANGED <<dsStream, dsFrames, dsTaken, dsNextTcp>>
    PROVE  TcpInv'
<1>1. TcpTypes'
  BY DEF TcpInv, TcpTypes
<1>2. dsConn'[c] = new /\ \A d \in Conns : d # c => dsConn'[d] = dsConn[d]
  BY DEF TcpInv, TcpTypes
<1>3. FramesWhole'
  BY DEF TcpInv, FramesWhole
<1>4. ConnAt'
  BY <1>2 DEF TcpInv, ConnAt
<1>5. \A x \in dsCtx : dsConn'[x.conn] \in {"open", "closed"}
  BY <1>2 DEF TcpInv, CtxAt
<1>6. CtxAt'
  BY <1>5 DEF TcpInv, CtxAt
<1> QED BY <1>1, <1>3, <1>4, <1>6 DEF TcpInv

LEMMA WriteStep ==
    ASSUME TcpInv, NEW c \in Conns, NEW l \in Lengths, Writes(c, l)
    PROVE  TcpInv'
<1>1. PICK more, t : /\ more = Append(dsFrames[c], l)
                     /\ t = dsStream[c] \o Frame(Len(dsFrames[c]) + 1, l)
  OBVIOUS
<1>2. /\ dsFrames' = [dsFrames EXCEPT ![c] = more] /\ dsStream' = [dsStream EXCEPT ![c] = t]
      /\ UNCHANGED <<dsConn, dsNextTcp, dsCtx, dsTaken>>
  BY <1>1 DEF Writes
<1>3. dsFrames[c] \in Seq(Nat) /\ dsStream[c] \in Seq(Bytes) /\ l \in Nat /\ dsTaken[c] \in Seq(Seq(Bytes))
  BY DsAssumption DEF TcpInv, TcpTypes
<1>4. /\ more \in Seq(Nat) /\ Len(more) = Len(dsFrames[c]) + 1
      /\ \A i \in 1..Len(dsFrames[c]) : more[i] = dsFrames[c][i]
  BY <1>1, <1>3
<1>5. t \in Seq(Bytes)
  <2>1. PICK f : f = Frame(Len(dsFrames[c]) + 1, l)
    OBVIOUS
  <2>2. f \in Seq(Bytes)
    BY <1>3, <2>1 DEF Frame, Header, Bytes
  <2> QED BY <1>1, <1>3, <2>1, <2>2, ConcatAt
<1>6. TcpTypes'
  BY <1>2, <1>4, <1>5 DEF TcpInv, TcpTypes
<1>7. /\ dsFrames'[c] = more /\ dsStream'[c] = t
      /\ \A d \in Conns : d # c => dsFrames'[d] = dsFrames[d] /\ dsStream'[d] = dsStream[d]
  BY <1>2 DEF TcpInv, TcpTypes
<1>8. Len(dsTaken[c]) <= Len(dsFrames[c]) /\ Len(dsTaken[c]) \in Nat /\ Len(dsFrames[c]) \in Nat
  BY <1>3 DEF TcpInv, ConnAt
<1>9. FramesWhole'
  <2> SUFFICES ASSUME NEW d \in Conns, NEW i \in 1..Len(dsTaken[d])
               PROVE  dsTaken[d][i] = Frame(i, dsFrames'[d][i])
    BY <1>2 DEF FramesWhole
  <2>1. dsTaken[d][i] = Frame(i, dsFrames[d][i])
    BY DEF TcpInv, FramesWhole
  <2>2. CASE d = c
    <3>1. i \in 1..Len(dsFrames[c])
      BY <1>8, <2>2
    <3> QED BY <1>4, <1>7, <2>1, <2>2, <3>1
  <2>3. CASE d # c
    BY <1>7, <2>1, <2>3
  <2> QED BY <2>2, <2>3
<1>10. ConnAt'
  <2> SUFFICES ASSUME NEW d \in Conns
               PROVE  /\ Len(dsTaken[d]) <= Len(dsFrames'[d])
                      /\ dsConn[d] \in {"none", "waiting"} =>
                            dsTaken[d] = <<>> /\ Continues(dsStream'[d], dsFrames'[d], 1, 1)
    BY <1>2 DEF ConnAt
  <2>1. CASE d = c
    <3>1. Len(dsTaken[c]) <= Len(more)
      BY <1>4, <1>8
    <3>2. Continues(dsStream[c], dsFrames[c], 1, 1) => Continues(t, more, 1, 1)
      BY <1>1, <1>3, WriteOn
    <3> QED BY <1>7, <2>1, <3>1, <3>2 DEF TcpInv, ConnAt
  <2>2. CASE d # c
    BY <1>7, <2>2 DEF TcpInv, ConnAt
  <2> QED BY <2>1, <2>2
<1>11. ASSUME NEW x \in dsCtx
       PROVE  /\ BufferOf(x, dsFrames'[x.conn], Len(dsTaken[x.conn]) + 1)
              /\ StreamOf(x, dsStream'[x.conn], dsFrames'[x.conn], Len(dsTaken[x.conn]) + 1)
  <2>1. /\ x \in Contexts /\ x.conn \in Conns
        /\ BufferOf(x, dsFrames[x.conn], Len(dsTaken[x.conn]) + 1)
        /\ StreamOf(x, dsStream[x.conn], dsFrames[x.conn], Len(dsTaken[x.conn]) + 1)
    BY DEF TcpInv, TcpTypes, CtxAt
  <2>2. CASE x.conn = c
    <3>1. PICK n : n = Len(dsTaken[c]) + 1
      OBVIOUS
    <3>2. n \in Nat /\ n >= 1
      BY <1>8, <3>1
    <3>3. BufferOf(x, more, n) /\ StreamOf(x, t, more, n)
      BY <1>1, <1>3, <2>1, <2>2, <3>1, <3>2, WritePart
    <3> QED BY <1>7, <2>2, <3>1, <3>3
  <2>3. CASE x.conn # c
    BY <1>7, <2>1, <2>3
  <2> QED BY <2>2, <2>3
<1>12. CtxAt'
  BY <1>2, <1>11 DEF TcpInv, CtxAt
<1> QED BY <1>6, <1>9, <1>10, <1>12 DEF TcpInv

(* A read: the bytes go from the stream to the buffer, or the request they *)
(* complete is taken.                                                      *)
LEMMA ReadStep ==
    ASSUME TcpInv, NEW x \in dsCtx, NEW k \in Amounts(x), k # 0, HandleNewTcpData(x, k)
    PROVE  /\ TcpInv'
           /\ LET y == After(x, x.buf \o SubSeq(dsStream[x.conn], 1, k))
              IN y.id = x.id /\ y.conn = x.conn
<1>1. PICK c, s, frames, taken, n :
         c = x.conn /\ s = dsStream[c] /\ frames = dsFrames[c] /\ taken = dsTaken[c] /\ n = Len(taken) + 1
  OBVIOUS
<1>2. /\ x \in Contexts /\ c \in Conns /\ s \in Seq(Bytes) /\ frames \in Seq(Nat)
      /\ taken \in Seq(Seq(Bytes)) /\ x.buf \in Seq(Bytes) /\ x.size \in Nat
  BY <1>1 DEF TcpInv, TcpTypes, Contexts
<1>3. n \in Nat /\ n >= 1 /\ Len(taken) \in Nat
  BY <1>1, <1>2
<1>4. BufferOf(x, frames, n) /\ StreamOf(x, s, frames, n) /\ dsConn[c] \in {"open", "closed"}
  BY <1>1 DEF TcpInv, CtxAt
<1>5. k \in 1..Len(s) /\ k <= x.size - Len(x.buf)
  BY <1>1 DEF Amounts, Room
<1>6. PICK buf, r, y : /\ buf = x.buf \o SubSeq(s, 1, k) /\ r = SubSeq(s, k + 1, Len(s))
                       /\ y = After(x, buf)
  OBVIOUS
<1>7. /\ n \in 1..Len(frames) /\ buf \in Seq(Bytes) /\ Len(buf) = Len(x.buf) + k
      /\ Len(buf) <= SizeOf(frames, n) /\ r \in Seq(Bytes)
      /\ \A p \in 1..Len(buf) : buf[p] = ByteOf(frames, n, p)
      /\ IF Len(buf) < SizeOf(frames, n) THEN Continues(r, frames, n, Len(buf) + 1)
                                         ELSE Continues(r, frames, n + 1, 1)
  BY <1>2, <1>3, <1>4, <1>5, <1>6, ReadPart, ZenonT(40)
<1>8. Len(buf) > Len(x.buf) /\ Len(buf) <= x.size
  BY <1>2, <1>5, <1>7, SMTT(40)
<1>9. /\ y \in Contexts /\ y.id = x.id /\ y.conn = c
      /\ IF Len(buf) = x.size /\ x.size # Header
         THEN /\ buf = Frame(n, frames[n])
              /\ BufferOf(y, frames, n + 1) /\ StreamOf(y, r, frames, n + 1)
         ELSE BufferOf(y, frames, n) /\ StreamOf(y, r, frames, n)
  <2>1. /\ After(x, buf) \in Contexts
        /\ After(x, buf).id = x.id /\ After(x, buf).conn = x.conn
        /\ IF Len(buf) = x.size /\ x.size # Header
           THEN /\ buf = Frame(n, frames[n]) /\ buf[1].n = n
                /\ BufferOf(After(x, buf), frames, n + 1)
                /\ StreamOf(After(x, buf), r, frames, n + 1)
           ELSE BufferOf(After(x, buf), frames, n) /\ StreamOf(After(x, buf), r, frames, n)
    BY <1>2, <1>3, <1>4, <1>7, <1>8, AfterPart
  <2> QED BY <1>1, <1>6, <2>1
<1>10. PICK now : now = IF Len(buf) = x.size /\ x.size # Header THEN Append(taken, buf) ELSE taken
  OBVIOUS
<1>11. /\ dsStream' = [dsStream EXCEPT ![c] = r] /\ dsCtx' = (dsCtx \ {x}) \cup {y}
       /\ dsTaken' = [dsTaken EXCEPT ![c] = now] /\ UNCHANGED <<dsConn, dsFrames, dsNextTcp>>
  <2>1. dsTaken = [dsTaken EXCEPT ![c] = taken]
    BY <1>1, <1>2 DEF TcpInv, TcpTypes
  <2>2. /\ dsStream' = [dsStream EXCEPT ![c] = r] /\ dsCtx' = (dsCtx \ {x}) \cup {y}
        /\ dsTaken' = IF Len(buf) = x.size /\ x.size # Header
                      THEN [dsTaken EXCEPT ![c] = Append(@, buf)] ELSE dsTaken
        /\ UNCHANGED <<dsConn, dsFrames, dsNextTcp>>
    BY <1>1, <1>6 DEF HandleNewTcpData
  <2> QED BY <1>1, <1>10, <2>1, <2>2
<1>12. /\ now \in Seq(Seq(Bytes)) /\ Len(now) <= Len(frames)
       /\ BufferOf(y, frames, Len(now) + 1) /\ StreamOf(y, r, frames, Len(now) + 1)
       /\ \A i \in 1..Len(now) : now[i] = Frame(i, frames[i])
  <2>0. \A i \in 1..Len(taken) : taken[i] = Frame(i, frames[i])
    BY <1>1, <1>2 DEF TcpInv, FramesWhole
  <2>1. CASE Len(buf) = x.size /\ x.size # Header
    <3>1. now = Append(taken, buf)
      BY <1>10, <2>1
    <3>2. now \in Seq(Seq(Bytes)) /\ Len(now) = n
      BY <1>1, <1>2, <1>7, <3>1
    <3>3. /\ \A i \in 1..Len(taken) : now[i] = taken[i]
          /\ now[n] = buf
      BY <1>1, <1>2, <1>7, <3>1, SMTT(40)
    <3>4. \A i \in 1..Len(now) : i \in 1..Len(taken) \/ i = n
      BY <1>1, <1>3, <3>2
    <3>5. \A i \in 1..Len(now) : now[i] = Frame(i, frames[i])
      BY <1>9, <2>0, <2>1, <3>3, <3>4
    <3> QED BY <1>7, <1>9, <2>1, <3>2, <3>5
  <2>2. CASE ~(Len(buf) = x.size /\ x.size # Header)
    <3>1. now = taken
      BY <1>10, <2>2
    <3>2. Len(taken) <= Len(frames)
      BY <1>1, <1>3, <1>7
    <3> QED BY <1>1, <1>2, <1>9, <2>0, <2>2, <3>1, <3>2
  <2> QED BY <2>1, <2>2
<1>13. TcpTypes'
  BY <1>2, <1>7, <1>9, <1>11, <1>12 DEF TcpInv, TcpTypes
<1>14. /\ dsStream'[c] = r /\ dsTaken'[c] = now
       /\ \A d \in Conns : d # c => dsStream'[d] = dsStream[d] /\ dsTaken'[d] = dsTaken[d]
  BY <1>2, <1>11 DEF TcpInv, TcpTypes
<1>15. FramesWhole'
  <2> SUFFICES ASSUME NEW d \in Conns
               PROVE  \A i \in 1..Len(dsTaken'[d]) : dsTaken'[d][i] = Frame(i, dsFrames[d][i])
    BY <1>11 DEF FramesWhole
  <2>1. CASE d = c
    BY <1>1, <1>12, <1>14, <2>1
  <2>2. CASE d # c
    BY <1>14, <2>2 DEF TcpInv, FramesWhole
  <2> QED BY <2>1, <2>2
<1>16. ConnAt'
  <2> SUFFICES ASSUME NEW d \in Conns
               PROVE  /\ Len(dsTaken'[d]) <= Len(dsFrames[d])
                      /\ dsConn[d] \in {"none", "waiting"} =>
                            dsTaken'[d] = <<>> /\ Continues(dsStream'[d], dsFrames[d], 1, 1)
    BY <1>11 DEF ConnAt
  <2>1. CASE d = c
    BY <1>1, <1>4, <1>12, <1>14, <2>1
  <2>2. CASE d # c
    BY <1>14, <2>2 DEF TcpInv, ConnAt
  <2> QED BY <2>1, <2>2
<1>17. \A z \in dsCtx : z # x => z.conn # c /\ z.id # x.id
  BY <1>1 DEF TcpInv, CtxAt
<1>18. CtxAt'
  <2>1. ASSUME NEW z \in dsCtx'
        PROVE  /\ z.conn \in Conns /\ z.id \in Nat /\ z.id < dsNextTcp'
               /\ dsConn'[z.conn] \in {"open", "closed"}
               /\ BufferOf(z, dsFrames'[z.conn], Len(dsTaken'[z.conn]) + 1)
               /\ StreamOf(z, dsStream'[z.conn], dsFrames'[z.conn], Len(dsTaken'[z.conn]) + 1)
    <3>1. CASE z = y
      <4>1. x.id \in Nat /\ x.id < dsNextTcp
        BY DEF TcpInv, CtxAt
      <4> QED BY <1>1, <1>2, <1>4, <1>9, <1>11, <1>12, <1>14, <3>1, <4>1
    <3>2. CASE z \in dsCtx /\ z # x
      BY <1>11, <1>14, <1>17, <3>2 DEF TcpInv, CtxAt
    <3> QED BY <1>11, <3>1, <3>2
  <2>2. \A w, z \in dsCtx' : w.id = z.id \/ w.conn = z.conn => w = z
    BY <1>9, <1>11, <1>17 DEF TcpInv, CtxAt
  <2> QED BY <2>1, <2>2 DEF CtxAt
<1>19. After(x, x.buf \o SubSeq(dsStream[x.conn], 1, k)) = y
  BY <1>1, <1>6
<1>20. TcpInv'
  BY <1>13, <1>15, <1>16, <1>18 DEF TcpInv
<1> QED BY <1>1, <1>9, <1>19, <1>20

LEMMA TcpStep ==
    ASSUME TcpInv, [DsNext]_dsVars
    PROVE  TcpInv'
<1>1. CASE UNCHANGED dsVars
  BY <1>1, TcpKept DEF dsVars, tcpVars
<1>2. ASSUME NEW a \in Askers, HandleUdpDnsRequest(a) \/ Asks(a)
      PROVE  TcpInv'
  BY <1>2, TcpKept DEF HandleUdpDnsRequest, Asks
<1>3. ASSUME NEW c \in Conns, HandleNewTcpConnection(c)
      PROVE  TcpInv'
  BY <1>3, AcceptStep
<1>4. ASSUME NEW x \in dsCtx, NEW k \in Amounts(x), HandleNewTcpData(x, k)
      PROVE  TcpInv'
  <2>1. CASE k = 0
    <3>1. /\ dsCtx' \subseteq dsCtx /\ dsConn' = [dsConn EXCEPT ![x.conn] = "closed"]
          /\ UNCHANGED <<dsStream, dsFrames, dsTaken, dsNextTcp>>
      BY <1>4, <2>1 DEF HandleNewTcpData, Removes
    <3>2. x.conn \in Conns
      BY DEF TcpInv, CtxAt
    <3> QED BY <3>1, <3>2, ConnStep
  <2>2. CASE k # 0
    BY <1>4, <2>2, ReadStep
  <2> QED BY <2>1, <2>2
<1>5. CASE SendDnsMessage \/ ServerEnds \/ ReceiveEnds
  BY <1>5, TcpKept DEF SendDnsMessage, ServerEnds, ReceiveEnds
<1>6. ASSUME NEW q, HandleUdpDnsResponse(q) \/ HandleTcpDnsResponse(q) \/ HostResponds(q)
      PROVE  TcpInv'
  BY <1>6, TcpKept DEF HandleUdpDnsResponse, HandleTcpDnsResponse, HostResponds, ReceiveFrame
<1>7. CASE StopBegins \/ ChannelStopped \/ ServerStopped \/ HostHangsUp
  BY <1>7, TcpKept DEF StopBegins, ChannelStopped, ServerStopped, HostHangsUp
<1>8. ASSUME NEW c \in Conns, Connects(c) \/ Closes(c)
      PROVE  TcpInv'
  <2>1. PICK new \in {"waiting", "closed"} : /\ dsConn' = [dsConn EXCEPT ![c] = new]
                                             /\ new = "waiting" => dsConn[c] = "none"
    BY <1>8 DEF Connects, Closes
  <2>2. UNCHANGED <<dsCtx, dsStream, dsFrames, dsTaken, dsNextTcp>>
    BY <1>8 DEF Connects, Closes
  <2> QED BY <2>1, <2>2, ConnStep
<1>9. ASSUME NEW c \in Conns, NEW l \in Lengths, Writes(c, l)
      PROVE  TcpInv'
  BY <1>9, WriteStep
<1> QED
  BY <1>1, <1>2, <1>3, <1>4, <1>5, <1>6, <1>7, <1>8, <1>9 DEF DsNext, ServerThread, ReceiveThread

(* A request under way belongs to its asker. *)
OwnAsker(q) ==
    \/ /\ q.proto = "udp" /\ q.id \in Nat /\ q.id < dsNextUdp
       /\ \A u \in dsUdp : u.id = q.id => u.asker = q.from
    \/ /\ q.proto = "tcp" /\ q.id \in Nat /\ q.id < dsNextTcp
       /\ \A x \in dsCtx : x.id = q.id => x.conn = q.from

(* What is tracked may only go, or be new under a number not given yet. *)
LEMMA OwnKept ==
    ASSUME NEW q, OwnAsker(q), dsNextUdp \in Nat, dsNextTcp \in Nat,
           dsNextUdp' \in {dsNextUdp, dsNextUdp + 1}, dsNextTcp' \in {dsNextTcp, dsNextTcp + 1},
           \A u \in dsUdp' : u \in dsUdp \/ u.id = dsNextUdp,
           \A y \in dsCtx' : y.id = dsNextTcp \/ \E x \in dsCtx : y.id = x.id /\ y.conn = x.conn
    PROVE  OwnAsker(q)'
<1>1. CASE /\ q.proto = "udp" /\ q.id \in Nat /\ q.id < dsNextUdp
           /\ \A u \in dsUdp : u.id = q.id => u.asker = q.from
  <2>1. q.id < dsNextUdp' /\ q.id # dsNextUdp
    BY <1>1
  <2> QED BY <1>1, <2>1 DEF OwnAsker
<1>2. CASE /\ q.proto = "tcp" /\ q.id \in Nat /\ q.id < dsNextTcp
           /\ \A x \in dsCtx : x.id = q.id => x.conn = q.from
  <2>1. q.id < dsNextTcp' /\ q.id # dsNextTcp
    BY <1>2
  <2> QED BY <1>2, <2>1 DEF OwnAsker
<1> QED BY <1>1, <1>2 DEF OwnAsker

LEMMA AskStep ==
    ASSUME TcpInv, AskInv, [DsNext]_dsVars
    PROVE  AskInv'
<1>0. /\ dsNextUdp \in Nat /\ dsNextTcp \in Nat
      /\ \A u \in dsUdp : u.id \in Nat /\ u.id < dsNextUdp
      /\ \A q \in dsHand \cup dsTunnel \cup dsResp : OwnAsker(q)
      /\ ThreadTypes /\ ResponseToAsker
  BY DEF AskInv, TcpInv, TcpTypes, ThreadTypes, RequestAt, OwnAsker
<1> DEFINE Numbers == /\ dsNextUdp' \in {dsNextUdp, dsNextUdp + 1}
                      /\ dsNextTcp' \in {dsNextTcp, dsNextTcp + 1}
           Tracked == /\ \A u \in dsUdp' : u \in dsUdp \/ (u.id = dsNextUdp /\ dsNextUdp' = dsNextUdp + 1)
                      /\ \A y \in dsCtx' : \/ y.id = dsNextTcp
                                           \/ \E x \in dsCtx : y.id = x.id /\ y.conn = x.conn
           Handed == \A q \in dsHand' \cup dsTunnel' \cup dsResp' :
                        q \in dsHand \cup dsTunnel \cup dsResp \/ OwnAsker(q)'
<1>1. ASSUME Numbers, Tracked, Handed
      PROVE  RequestAt'
  <2>1. \A u \in dsUdp' : u.id \in Nat /\ u.id < dsNextUdp'
    <3> SUFFICES ASSUME NEW u \in dsUdp' PROVE u.id \in Nat /\ u.id < dsNextUdp'
      OBVIOUS
    <3>1. CASE u \in dsUdp
      BY <1>0, <1>1, <3>1
    <3>2. CASE u.id = dsNextUdp /\ dsNextUdp' = dsNextUdp + 1
      BY <1>0, <3>2
    <3> QED BY <1>1, <3>1, <3>2
  <2>2. ASSUME NEW q \in dsHand' \cup dsTunnel' \cup dsResp'
        PROVE  OwnAsker(q)'
    <3>1. CASE q \in dsHand \cup dsTunnel \cup dsResp
      BY <1>0, <1>1, <3>1, OwnKept
    <3> QED BY <1>1, <3>1
  <2> QED BY <2>1, <2>2 DEF RequestAt, OwnAsker
<1>2. ASSUME UNCHANGED <<dsNextUdp, dsNextTcp, dsUdp, dsCtx>>
      PROVE  Numbers /\ Tracked
  BY <1>2
<1>3. ASSUME UNCHANGED <<dsNextUdp, dsHand, dsGot>>, ThreadTypes, dsServer' \in {"loop", "ended"},
             dsReceive' \in {"loop", "ended"}
      PROVE  ThreadTypes' /\ ResponseToAsker'
  BY <1>0, <1>3 DEF ThreadTypes, ResponseToAsker
<1> HIDE DEF Numbers, Tracked, Handed
<1>4. CASE UNCHANGED dsVars
  BY <1>4 DEF AskInv, ThreadTypes, RequestAt, ResponseToAsker, dsVars
<1>5. ASSUME NEW a \in Askers, HandleUdpDnsRequest(a)
      PROVE  AskInv'
  <2>1. PICK q : q = [proto |-> "udp", id |-> dsNextUdp, from |-> a, n |-> 1]
    OBVIOUS
  <2>2. /\ dsNextUdp' = dsNextUdp + 1 /\ dsHand' = {q}
        /\ dsUdp' = dsUdp \cup {[id |-> dsNextUdp, asker |-> a]}
        /\ UNCHANGED <<dsNextTcp, dsCtx, dsTunnel, dsResp, dsGot, dsServer, dsReceive>>
    BY <1>5, <2>1 DEF HandleUdpDnsRequest, tcpVars, hostVars, threadVars
  <2>3. Numbers /\ Tracked
    BY <2>2 DEF Numbers, Tracked
  <2>4. OwnAsker(q)'
    <3>1. q.proto = "udp" /\ q.id = dsNextUdp /\ q.from = a
      BY <2>1
    <3>2. \A u \in dsUdp' : u.id = dsNextUdp => u.asker = a
      BY <1>0, <2>2
    <3>3. dsNextUdp < dsNextUdp'
      BY <1>0, <2>2
    <3> QED BY <1>0, <3>1, <3>2, <3>3 DEF OwnAsker
  <2>5. Handed
    BY <2>2, <2>4 DEF Handed
  <2>6. ThreadTypes' /\ ResponseToAsker'
    <3>1. dsNextUdp' \in Nat
      BY <1>0, <2>2
    <3> QED BY <1>0, <2>2, <3>1 DEF ThreadTypes, ResponseToAsker
  <2> QED BY <1>1, <2>3, <2>5, <2>6 DEF AskInv
<1>6. ASSUME NEW c \in Conns, HandleNewTcpConnection(c)
      PROVE  AskInv'
  <2>1. PICK x : x = [id |-> dsNextTcp, conn |-> c, size |-> 2, buf |-> <<>>]
    OBVIOUS
  <2>2. /\ dsNextTcp' = dsNextTcp + 1 /\ dsCtx' = dsCtx \cup {x}
        /\ UNCHANGED <<dsNextUdp, dsUdp, dsHand, dsTunnel, dsResp, dsGot, dsServer, dsReceive>>
    BY <1>6, <2>1 DEF HandleNewTcpConnection, Header, udpVars, hostVars, threadVars
  <2>3. x.id = dsNextTcp
    BY <2>1
  <2>4. Numbers /\ Tracked /\ Handed
    BY <2>2, <2>3 DEF Numbers, Tracked, Handed
  <2>5. ThreadTypes' /\ ResponseToAsker'
    BY <1>0, <2>2 DEF ThreadTypes, ResponseToAsker
  <2> QED BY <1>1, <2>4, <2>5 DEF AskInv
<1>7. ASSUME NEW x \in dsCtx, NEW k \in Amounts(x), HandleNewTcpData(x, k)
      PROVE  AskInv'
  <2>1. UNCHANGED <<dsNextUdp, dsNextTcp, dsUdp, dsTunnel, dsResp, dsGot, dsServer, dsReceive>> /\ dsHand = {}
    BY <1>7 DEF HandleNewTcpData, ServerTurn, udpVars, hostVars, threadVars
  <2>2. x \in Contexts
    BY DEF TcpInv, TcpTypes
  <2>3. PICK buf : buf = x.buf \o SubSeq(dsStream[x.conn], 1, k)
    OBVIOUS
  <2>4. PICK y : y = After(x, buf)
    OBVIOUS
  <2>5. dsCtx' \subseteq dsCtx \/ (dsCtx' = (dsCtx \ {x}) \cup {y} /\ k # 0)
    BY <1>7, <2>3, <2>4 DEF HandleNewTcpData, Removes
  <2>6. k # 0 => y.id = x.id /\ y.conn = x.conn
    BY <1>7, <2>3, <2>4, ReadStep
  <2>7. Numbers /\ Tracked
    BY <2>1, <2>5, <2>6 DEF Numbers, Tracked
  <2>8. dsHand' = {} \/ \E n : dsHand' = {[proto |-> "tcp", id |-> x.id, from |-> x.conn, n |-> n]}
    BY <1>7, <2>1 DEF HandleNewTcpData, Removes
  <2>9. Handed
    <3> SUFFICES ASSUME NEW q \in dsHand' PROVE OwnAsker(q)'
      BY <2>1 DEF Handed
    <3>1. q.proto = "tcp" /\ q.id = x.id /\ q.from = x.conn
      BY <2>8
    <3>2. x.id \in Nat /\ x.id < dsNextTcp'
      BY <2>1 DEF TcpInv, CtxAt
    <3>3. ASSUME NEW z \in dsCtx', z.id = x.id
          PROVE  z.conn = x.conn
      BY <2>5, <2>6, <3>3 DEF TcpInv, CtxAt
    <3> QED BY <3>1, <3>2, <3>3 DEF OwnAsker
  <2>10. ThreadTypes' /\ ResponseToAsker'
    BY <1>0, <2>1, <2>8 DEF ThreadTypes, ResponseToAsker
  <2> QED BY <1>1, <2>7, <2>9, <2>10 DEF AskInv
<1>8. CASE SendDnsMessage
  <2>1. /\ dsHand' = {} /\ dsTunnel' \subseteq dsTunnel \cup dsHand
        /\ UNCHANGED <<dsNextUdp, dsNextTcp, dsUdp, dsCtx, dsResp, dsGot, dsServer, dsReceive>>
    BY <1>8 DEF SendDnsMessage, udpVars, tcpVars, threadVars
  <2>2. Handed
    BY <2>1 DEF Handed
  <2>3. ThreadTypes' /\ ResponseToAsker'
    BY <1>0, <2>1 DEF ThreadTypes, ResponseToAsker
  <2> QED BY <1>1, <1>2, <2>1, <2>2, <2>3 DEF AskInv
<1>9. ASSUME ServerEnds \/ ReceiveEnds \/ StopBegins \/ ChannelStopped \/ ServerStopped \/ HostHangsUp
      PROVE  AskInv'
  <2>1. /\ UNCHANGED <<dsNextUdp, dsNextTcp, dsUdp, dsCtx, dsHand, dsTunnel, dsResp, dsGot>>
        /\ dsServer' \in {"loop", "ended"} /\ dsReceive' \in {"loop", "ended"}
    BY <1>0, <1>9 DEF ServerEnds, ReceiveEnds, StopBegins, ChannelStopped, ServerStopped, HostHangsUp,
       udpVars, tcpVars, hostVars, threadVars, ThreadTypes
  <2>2. Handed
    BY <2>1 DEF Handed
  <2>3. ThreadTypes' /\ ResponseToAsker'
    BY <1>0, <1>3, <2>1
  <2> QED BY <1>1, <1>2, <2>1, <2>2, <2>3 DEF AskInv
<1>10. ASSUME NEW r \in dsResp, HandleUdpDnsResponse(r)
       PROVE  AskInv'
  <2>1. /\ dsResp' \subseteq dsResp /\ dsUdp' \subseteq dsUdp /\ r.proto = "udp"
        /\ dsGot' = dsGot \cup {[to |-> q.asker, from |-> r.from, n |-> r.n] : q \in {x \in dsUdp : x.id = r.id}}
        /\ UNCHANGED <<dsNextUdp, dsNextTcp, dsCtx, dsHand, dsTunnel, dsServer, dsReceive>>
    BY <1>10 DEF HandleUdpDnsResponse, ReceiveFrame, tcpVars, threadVars
  <2>2. Numbers /\ Tracked /\ Handed
    BY <2>1 DEF Numbers, Tracked, Handed
  <2>3. \A q \in dsUdp : q.id = r.id => q.asker = r.from
    BY <1>0, <2>1 DEF OwnAsker
  <2>4. ResponseToAsker'
    BY <1>0, <2>1, <2>3 DEF ResponseToAsker
  <2>5. ThreadTypes'
    BY <1>0, <2>1 DEF ThreadTypes
  <2> QED BY <1>1, <2>2, <2>4, <2>5 DEF AskInv
<1>11. ASSUME NEW r \in dsResp, HandleTcpDnsResponse(r)
       PROVE  AskInv'
  <2>1. /\ dsResp' \subseteq dsResp /\ r.proto = "tcp"
        /\ dsGot' = dsGot \cup {[to |-> x.conn, from |-> r.from, n |-> r.n] : x \in {y \in dsCtx : y.id = r.id}}
        /\ UNCHANGED <<dsNextUdp, dsNextTcp, dsUdp, dsCtx, dsHand, dsTunnel, dsServer, dsReceive>>
    BY <1>11 DEF HandleTcpDnsResponse, ReceiveFrame, tcpVars, threadVars
  <2>2. Handed
    BY <2>1 DEF Handed
  <2>3. \A x \in dsCtx : x.id = r.id => x.conn = r.from
    BY <1>0, <2>1 DEF OwnAsker
  <2>4. ResponseToAsker'
    BY <1>0, <2>1, <2>3 DEF ResponseToAsker
  <2>5. ThreadTypes'
    BY <1>0, <2>1 DEF ThreadTypes
  <2> QED BY <1>1, <1>2, <2>1, <2>2, <2>4, <2>5 DEF AskInv
<1>12. ASSUME NEW a \in Askers, Asks(a)
       PROVE  AskInv'
  <2>1. UNCHANGED <<dsNextUdp, dsNextTcp, dsUdp, dsCtx, dsHand, dsTunnel, dsResp, dsGot, dsServer, dsReceive>>
    BY <1>12 DEF Asks, tcpVars, hostVars, threadVars
  <2>2. Handed
    BY <2>1 DEF Handed
  <2>3. ThreadTypes' /\ ResponseToAsker'
    BY <1>0, <2>1 DEF ThreadTypes, ResponseToAsker
  <2> QED BY <1>1, <1>2, <2>1, <2>2, <2>3 DEF AskInv
<1>13. ASSUME NEW c \in Conns, Connects(c) \/ Closes(c) \/ \E l \in Lengths : Writes(c, l)
       PROVE  AskInv'
  <2>1. UNCHANGED <<dsNextUdp, dsNextTcp, dsUdp, dsCtx, dsHand, dsTunnel, dsResp, dsGot, dsServer, dsReceive>>
    BY <1>13 DEF Connects, Closes, Writes, udpVars, hostVars, threadVars
  <2>2. Handed
    BY <2>1 DEF Handed
  <2>3. ThreadTypes' /\ ResponseToAsker'
    BY <1>0, <2>1 DEF ThreadTypes, ResponseToAsker
  <2> QED BY <1>1, <1>2, <2>1, <2>2, <2>3 DEF AskInv
<1>14. ASSUME NEW q \in dsTunnel, HostResponds(q)
       PROVE  AskInv'
  <2>1. /\ dsTunnel' \subseteq dsTunnel /\ dsResp' = dsResp \cup {q}
        /\ UNCHANGED <<dsNextUdp, dsNextTcp, dsUdp, dsCtx, dsHand, dsGot, dsServer, dsReceive>>
    BY <1>14 DEF HostResponds, udpVars, tcpVars, threadVars
  <2>2. Handed
    BY <2>1 DEF Handed
  <2>3. ThreadTypes' /\ ResponseToAsker'
    BY <1>0, <2>1 DEF ThreadTypes, ResponseToAsker
  <2> QED BY <1>1, <1>2, <2>1, <2>2, <2>3 DEF AskInv
<1> QED
  BY <1>4, <1>5, <1>6, <1>7, <1>8, <1>9, <1>10, <1>11, <1>12, <1>13, <1>14
     DEF DsNext, ServerThread, ReceiveThread

(* Every response reaches its asker and every request over TCP reaches the *)
(* host whole and in order, for every set of clients, every length of a    *)
(* request and every split of the stream into reads.                       *)
THEOREM AskersAnswered == DsSpec => []DnsServerSafe
<1>1. DsInit => TcpInv /\ AskInv
  <2>1. DsInit => AskInv
    BY DEF DsInit, AskInv, ThreadTypes, RequestAt, ResponseToAsker
  <2> QED BY <2>1, TcpStart
<1>2. TcpInv /\ AskInv /\ [DsNext]_dsVars => (TcpInv /\ AskInv)'
  BY TcpStep, AskStep
<1>3. TcpInv /\ AskInv => DnsServerSafe
  <2> SUFFICES ASSUME TcpInv, AskInv PROVE DnsServerSafe
    OBVIOUS
  <2>1. Cardinality(dsHand) <= 1
    <3>1. CASE dsHand = {}
      BY <3>1, FS_EmptySet
    <3>2. CASE \E q : dsHand = {q}
      <4>1. PICK q : dsHand = {q}
        BY <3>2
      <4>2. Cardinality({q}) = 1
        BY FS_Singleton
      <4> QED BY <4>1, <4>2
    <3> QED BY <3>1, <3>2 DEF AskInv, ThreadTypes
  <2>2. \A x \in dsCtx : Len(x.buf) <= x.size /\ x.conn \in Conns /\ (x.buf = <<>> => x.size = Header)
    <3> SUFFICES ASSUME NEW x \in dsCtx
                 PROVE  Len(x.buf) <= x.size /\ x.conn \in Conns /\ (x.buf = <<>> => x.size = Header)
      OBVIOUS
    <3>1. x.conn \in Conns /\ BufferOf(x, dsFrames[x.conn], Len(dsTaken[x.conn]) + 1)
      BY DEF TcpInv, CtxAt
    <3> QED BY <3>1 DEF BufferOf, Header
  <2>3. \A x, y \in dsCtx : x.id = y.id => x = y
    BY DEF TcpInv, CtxAt
  <2> QED BY <2>1, <2>2, <2>3 DEF DnsServerSafe, DsTypeOK, TcpInv, AskInv, ThreadTypes
<1> QED BY <1>1, <1>2, <1>3, PTL DEF DsSpec

=============================================================================
