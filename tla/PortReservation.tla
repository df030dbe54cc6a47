--------------------------- MODULE PortReservation ---------------------------
(***************************************************************************)
(* The port tracker of the virtual machine (linux/init/GnsPortTracker.cpp, *)
(* SecCompDispatcher.cpp, localhost.cpp): every bind() of the guest stops  *)
(* in a seccomp notification until the host has reserved the port, and a   *)
(* port that no socket is bound to any more is given back.                 *)
(*                                                                         *)
(* Three threads: the dispatcher takes notifications and answers them; the *)
(* tracker decides about binds and gives ports back; the refresher lists   *)
(* the bound sockets.  Dispatcher and tracker use the same host channel.   *)
(***************************************************************************)
EXTENDS Integers, Sequences, FiniteSets

CONSTANTS Binds,     \* bind() calls of the guest
          Ioctls,    \* calls that change an interface
          PortOf     \* the port of each bind; 0: not a port to track

ASSUME PrAssumption == Binds \cap Ioctls = {}   \* different system calls

Calls == Binds \cup Ioctls
Ports == {PortOf[b] : b \in Binds} \ {0}

VARIABLES
    prCall,    \* none, notified, passing, bound, closed, denied, killed
    prAgain,   \* binds let through because their port was tracked already
    prD,       \* the dispatcher: what it does
    prDCall,   \* the call it handles
    prRequest, \* m_request: calls posted, at most one
    prReply,   \* m_reply: results posted, at most one
    prM,       \* the tracker: what it does
    prMCall,   \* its bindCall: the calls it read, at most one
    prTodo,    \* ports still to be given back in this refresh
    prTracked, \* m_allocatedPorts: Absent; Fresh or Late (its time-out has passed); Seen
    prR,       \* the refresher: list or wait
    prResult,  \* the refresh promise: results set, at most one
    prHave,    \* the tracker holds a result and has not resumed the refresher
    prHost,    \* ports the host has reserved
    prKept,    \* ports whose release it refused
    prSent,    \* requests on the channel
    prRecv,    \* responses on the channel
    prLock     \* m_receiveMutex of the channel

prVars == <<prCall, prAgain, prD, prDCall, prRequest, prReply, prM, prMCall, prTodo, prTracked,
            prR, prResult, prHave, prHost, prKept, prSent, prRecv, prLock>>
dVars == <<prD, prDCall>>
mVars == <<prM, prMCall, prTodo, prTracked, prHave>>
chanVars == <<prSent, prRecv, prLock>>

NoCall == "no call"
Tracked == {p \in Ports : prTracked[p] # "absent"}

\* RunPortTracker, GnsPortTracker::GnsPortTracker.
PrInit ==
    /\ prCall = [c \in Calls |-> "none"] /\ prAgain = {}
    /\ prD = "poll" /\ prDCall = NoCall /\ prRequest = {} /\ prReply = {}
    /\ prM = "read" /\ prMCall = {} /\ prTodo = {} /\ prTracked = [p \in Ports |-> "absent"]
    /\ prR = "list" /\ prResult = {} /\ prHave = FALSE
    /\ prHost = {} /\ prKept = {} /\ prSent = <<>> /\ prRecv = <<>> /\ prLock = "free"

Alive == prM # "exited"

\* A notification is valid while its call waits.
StillValid(c) == prCall[c] = "notified"

-----------------------------------------------------------------------------
(* The channel: SocketChannel::Transaction.                                *)

\* The message is sent; then the channel must be free to receive from.
Sends(msg) == prSent' = Append(prSent, msg)
CanReceive == prLock = "free"

\* The host answers in order.  A release that it refuses leaves the port reserved.
HostAnswers(ok) ==
    /\ prSent # <<>> /\ Alive
    /\ LET m == Head(prSent)
       IN /\ prSent' = Tail(prSent)
          /\ prRecv' = Append(prRecv, [type |-> m.type, ok |-> ok])
          /\ prHost' = CASE m.what = "reserve" /\ ok -> prHost \cup {m.port}
                         [] m.what = "free" /\ ok -> prHost \ {m.port}
                         [] OTHER -> prHost
          /\ prKept' = CASE ok -> prKept \ {m.port}
                         [] m.what = "free" /\ ~ok -> prKept \cup {m.port}
                         [] OTHER -> prKept
    /\ UNCHANGED <<prCall, prAgain, dVars, prRequest, prReply, mVars, prR, prResult, prLock>>

\* An exception leaves Run: the process exits, and with it the notification
\* descriptor, so that the kernel fails the calls that wait.
TrackerExits ==
    /\ prM' = "exited" /\ prLock' = "free"
    /\ prCall' = [c \in Calls |-> IF prCall[c] = "notified" THEN "denied" ELSE prCall[c]]

-----------------------------------------------------------------------------
(* The dispatcher: SecCompDispatcher::Run and the handlers.                *)

\* A bind is posted to the tracker; an ioctl is sent to the host from here, and an
\* exception in either handler lets the call through.
Dispatches(c) ==
    /\ prD = "poll" /\ Alive /\ StillValid(c) /\ prDCall' = c
    /\ CASE c \in Binds -> /\ prRequest' = {c} /\ prD' = "reply"
                           /\ UNCHANGED <<chanVars, prReply>>
         [] c \in Ioctls -> /\ Sends([type |-> "if", what |-> "if", port |-> 0])
                            /\ IF CanReceive THEN /\ prD' = "receive" /\ prLock' = "D"
                                                  /\ UNCHANGED <<prRecv, prReply>>
                                             ELSE /\ prD' = "respond" /\ prReply' = {0}
                                                  /\ UNCHANGED <<prRecv, prLock>>
                            /\ UNCHANGED prRequest
    /\ UNCHANGED <<prCall, prAgain, mVars, prR, prResult, prHost, prKept>>

\* The response is read; one of another type is an exception too.
DispatcherReceives ==
    /\ prD = "receive" /\ Alive /\ prRecv # <<>>
    /\ prRecv' = Tail(prRecv) /\ prLock' = "free" /\ prD' = "respond"
    /\ prReply' = {IF Head(prRecv).type = "if" /\ ~Head(prRecv).ok THEN 1 ELSE 0}
    /\ UNCHANGED <<prCall, prAgain, prDCall, prRequest, mVars, prR, prResult, prHost, prKept, prSent>>

\* The reply answers the notification, if its call still waits.
Responds ==
    /\ prD \in {"reply", "respond"} /\ Alive /\ prReply # {}
    /\ prReply' = {} /\ prD' = "poll" /\ prDCall' = NoCall
    /\ prCall' = IF ~StillValid(prDCall) THEN prCall
                 ELSE [prCall EXCEPT ![prDCall] = IF prReply = {0} THEN "passing" ELSE "denied"]
    /\ UNCHANGED <<prAgain, prRequest, mVars, prR, prResult, prHost, prKept, chanVars>>

-----------------------------------------------------------------------------
(* The tracker: GnsPortTracker::Run.                                       *)

TrackerFrame == UNCHANGED <<dVars, prR, prHost, prKept>>

RequestPort(p, what) == Sends([type |-> "port", what |-> what, port |-> p])

\* GetCallInfo finds a port to track.
GetCallInfo(c) == StillValid(c) /\ PortOf[c] # 0

\* CompleteRequest, then the rest of the iteration.
Completes(result) == prReply' = {result} /\ prM' = "refresh"

\* Slip: a call that cannot be read is not completed.
ReadsBind_Silent(c) ==
    /\ prM = "read" /\ prRequest = {c} /\ prRequest' = {} /\ prMCall' = {c}
    /\ LET p == PortOf[c] IN
       IF ~GetCallInfo(c) THEN prM' = "refresh" /\ UNCHANGED <<prReply, prAgain, chanVars, prCall>>
       ELSE IF p \in Tracked
       THEN Completes(0) /\ prAgain' = prAgain \cup {c} /\ UNCHANGED <<chanVars, prCall>>
       ELSE /\ RequestPort(p, "reserve")
            /\ prM' = "reserve" /\ prLock' = "M" /\ UNCHANGED <<prRecv, prReply, prAgain, prCall>>
    /\ UNCHANGED <<prTodo, prTracked, prHave, prResult>> /\ TrackerFrame

\* ReadNextRequest, GetCallInfo, HandleRequest.  A call that is no longer valid,
\* or binds no port of this namespace, is let through.  A tracked port is let through, and emplace leaves the entry it
\* finds as it is; any other is reserved with the host.
ReadsBind(c) ==
    /\ prM = "read" /\ prRequest = {c} /\ prRequest' = {} /\ prMCall' = {c}
    /\ LET p == PortOf[c] IN
       \/ /\ ~GetCallInfo(c) /\ Completes(0) /\ UNCHANGED <<prAgain, chanVars, prCall>>
       \/ /\ GetCallInfo(c) /\ p \in Tracked
          /\ Completes(0) /\ prAgain' = prAgain \cup {c} /\ UNCHANGED <<chanVars, prCall>>
       \/ /\ GetCallInfo(c) /\ p \notin Tracked
          /\ RequestPort(p, "reserve")
          /\ IF CanReceive THEN /\ prM' = "reserve" /\ prLock' = "M"
                                /\ UNCHANGED <<prRecv, prReply, prCall>>
                           ELSE TrackerExits /\ UNCHANGED <<prRecv, prReply>>
          /\ UNCHANGED prAgain
    /\ UNCHANGED <<prTodo, prTracked, prHave, prResult>> /\ TrackerFrame

\* m_request.try_get times out.
ReadsNothing ==
    /\ prM = "read" /\ prRequest = {} /\ prM' = "refresh" /\ prMCall' = {}
    /\ UNCHANGED <<prCall, prAgain, prRequest, prReply, prTodo, prTracked, prHave, prResult, chanVars>>
    /\ TrackerFrame

\* RequestPort has its response.
Reserved ==
    /\ prM = "reserve" /\ prRecv # <<>>
    /\ \E c \in prMCall :
         IF Head(prRecv).type # "port"
         THEN TrackerExits /\ UNCHANGED <<prMCall, prTodo, prTracked, prHave, prRecv, prReply, prRequest>>
         ELSE /\ Completes(IF Head(prRecv).ok THEN 0 ELSE 1)
              /\ prTracked' = IF Head(prRecv).ok THEN [prTracked EXCEPT ![PortOf[c]] = "fresh"] ELSE prTracked
              /\ prRecv' = Tail(prRecv) /\ prLock' = "free"
              /\ UNCHANGED <<prCall, prMCall, prTodo, prHave, prRequest>>
    /\ UNCHANGED <<prAgain, prResult, prSent>> /\ TrackerFrame

\* Slip: a port is given back as soon as no socket is bound to it.
GivesBack_AtOnce(r) == {p \in Tracked : p \notin r.ports}

\* OnRefreshAllocatedPorts: ports that were seen bound and are not any more, or
\* that were never seen and whose time-out had passed when the list was made.
GivesBack(r) == {p \in Tracked : p \notin r.ports /\ (prTracked[p] = "seen" \/ p \in r.late)}

\* The refresh result, if it is there; it is not used after a bind, which it may
\* not know.
TakesRefresh(r) ==
    /\ prM = "refresh" /\ prResult = {r} /\ prResult' = {} /\ prHave' = TRUE
    /\ IF prMCall = {}
       THEN /\ prTodo' = GivesBack(r)
            /\ prTracked' = [p \in Ports |-> IF p \in Tracked \cap r.ports THEN "seen" ELSE prTracked[p]]
       ELSE UNCHANGED <<prTodo, prTracked>>
    /\ prM' = "free"
    /\ UNCHANGED <<prCall, prAgain, prMCall, prRequest, prReply, chanVars>> /\ TrackerFrame

NoRefresh ==
    /\ prM = "refresh" /\ prResult = {} /\ prM' = "resume"
    /\ UNCHANGED <<prCall, prAgain, prMCall, prTodo, prTracked, prHave, prResult, prRequest, prReply, chanVars>>
    /\ TrackerFrame

\* RequestPort for each port to give back ...
Frees(p) ==
    /\ prM = "free" /\ p \in prTodo
    /\ RequestPort(p, "free")
    /\ IF CanReceive THEN /\ prM' = "freed" /\ prLock' = "M" /\ prTodo' = prTodo \ {p}
                          /\ prTracked' = [prTracked EXCEPT ![p] = "absent"]
                          /\ UNCHANGED <<prCall, prMCall, prHave, prRecv, prReply, prRequest>>
                     ELSE TrackerExits /\ UNCHANGED <<prMCall, prTodo, prTracked, prHave, prRecv, prReply, prRequest>>
    /\ UNCHANGED <<prAgain, prResult>> /\ TrackerFrame

\* ... its response, whose result is only printed ...
Freed ==
    /\ prM = "freed" /\ prRecv # <<>>
    /\ IF Head(prRecv).type # "port"
       THEN TrackerExits /\ UNCHANGED <<prMCall, prTodo, prTracked, prHave, prRecv, prReply, prRequest>>
       ELSE /\ prM' = "free" /\ prRecv' = Tail(prRecv) /\ prLock' = "free"
            /\ UNCHANGED <<prCall, prMCall, prTodo, prTracked, prHave, prRequest, prReply>>
    /\ UNCHANGED <<prAgain, prResult, prSent>> /\ TrackerFrame

FreedAll ==
    /\ prM = "free" /\ prTodo = {} /\ prM' = "resume"
    /\ UNCHANGED <<prCall, prAgain, prMCall, prTodo, prTracked, prHave, prResult, prRequest, prReply, chanVars>>
    /\ TrackerFrame

\* The refresher is resumed if there is something to give back.
Resumes ==
    /\ prM = "resume" /\ prM' = "read"
    /\ IF prHave /\ Tracked # {} THEN prR' = "list" /\ prHave' = FALSE ELSE UNCHANGED <<prR, prHave>>
    /\ UNCHANGED <<prCall, prAgain, dVars, prMCall, prTodo, prTracked, prResult, prRequest, prReply,
                   prHost, prKept, chanVars>>

-----------------------------------------------------------------------------
(* The refresher, and the guest.                                           *)

OnlyGuest == UNCHANGED <<dVars, mVars, prRequest, prReply, prHost, prKept, chanVars>>

\* ListAllocatedPorts.
BoundPorts == {p \in Ports : \E b \in Binds : PortOf[b] = p /\ prCall[b] = "bound"}

\* RunPortRefresh: the sockets that are bound now.  (EBUSY makes it try again later.)
\* The list and its time stamp are one step: no 60 seconds pass between them.
Lists ==
    /\ prR = "list" /\ Alive /\ prR' = "wait"
    /\ prResult' = {[ports |-> BoundPorts, late |-> {p \in Ports : prTracked[p] = "late"}]}
    /\ UNCHANGED <<prCall, prAgain>> /\ OnlyGuest

CallBecomes(c, s) == prCall' = [prCall EXCEPT ![c] = s]

\* A call is made and stops; without the listener it fails.
GuestCalls(c) ==
    /\ prCall[c] = "none"
    /\ CallBecomes(c, IF Alive THEN "notified" ELSE "denied")
    /\ UNCHANGED <<prAgain, prR, prResult>> /\ OnlyGuest

\* A signal interrupts it while it waits.
GuestKilled(c) ==
    /\ prCall[c] = "notified" /\ CallBecomes(c, "killed")
    /\ UNCHANGED <<prAgain, prR, prResult>> /\ OnlyGuest

\* The kernel goes on with it.
KernelBinds(c) ==
    /\ prCall[c] = "passing"
    /\ CallBecomes(c, IF c \in Binds /\ (PortOf[c] = 0 \/ \A b \in Binds : ~(PortOf[b] = PortOf[c] /\ prCall[b] = "bound"))
                  THEN "bound" ELSE "closed")
    /\ UNCHANGED <<prAgain, prR, prResult>> /\ OnlyGuest

GuestCloses(b) ==
    /\ prCall[b] = "bound" /\ CallBecomes(b, "closed")
    /\ UNCHANGED <<prAgain, prR, prResult>> /\ OnlyGuest

\* c_bind_timeout_seconds pass; no bind that was let through takes as long.
Expires(p) ==
    /\ prTracked[p] = "fresh" /\ prReply = {} /\ \A c \in Calls : prCall[c] # "passing"
    /\ prTracked' = [prTracked EXCEPT ![p] = "late"]
    /\ UNCHANGED <<prCall, prAgain, prM, prMCall, prTodo, prHave, prR, prResult, prRequest, prReply,
                   dVars, prHost, prKept, chanVars>>

Dispatcher == (\E c \in Calls : Dispatches(c)) \/ DispatcherReceives \/ Responds
Tracker == \/ \E c \in Binds : ReadsBind(c)
           \/ ReadsNothing \/ Reserved \/ NoRefresh \/ Freed \/ FreedAll \/ Resumes
           \/ \E r \in prResult : TakesRefresh(r)
           \/ \E p \in Ports : Frees(p)
Host == \E ok \in BOOLEAN : HostAnswers(ok)

PrNext ==
    \/ Dispatcher \/ Tracker \/ Lists \/ Host
    \/ \E p \in Ports : Expires(p)
    \/ \E c \in Calls : GuestCalls(c) \/ GuestKilled(c) \/ KernelBinds(c)
    \/ \E b \in Binds : GuestCloses(b)

PrSpec == PrInit /\ [][PrNext]_prVars

\* The three threads run, the host answers, the kernel goes on, time passes.
PrFairSpec ==
    /\ PrSpec
    /\ WF_prVars(Dispatcher) /\ WF_prVars(Tracker) /\ WF_prVars(Lists) /\ WF_prVars(Host)
    /\ \A p \in Ports : WF_prVars(Expires(p))
    /\ \A c \in Calls : WF_prVars(KernelBinds(c))

-----------------------------------------------------------------------------

(* Type invariant. *)
PrTypeOK ==
    /\ prTracked \in [Ports -> {"absent", "fresh", "late", "seen"}]
    /\ Cardinality(prRequest) <= 1 /\ Cardinality(prReply) <= 1 /\ Cardinality(prResult) <= 1
    /\ prHost \subseteq Ports /\ prKept \subseteq prHost /\ Len(prSent) <= 2 /\ prLock \in {"free", "D", "M"}

InUse(b) == prCall[b] \in {"passing", "bound"}

(* A bind that was let through because the host reserved its port keeps    *)
(* the reservation until its socket is closed, however old the list of     *)
(* bound sockets is that the tracker compares with: it may have been made  *)
(* before the kernel finished the bind.  (Binds of a port that was tracked *)
(* already are another matter: EveryBindKept.)                             *)
FreshBindKept ==
    \A b \in Binds :
        (InUse(b) /\ PortOf[b] # 0 /\ Alive /\ \A x \in prAgain : PortOf[x] # PortOf[b]) => PortOf[b] \in prHost

(* No call is left waiting: the notification of every bind and ioctl is    *)
(* answered, or the call is interrupted, or the tracker exits.             *)
CallsAnswered == \A c \in Calls : prCall[c] # "notified"

(* A port that nobody uses is given back to the host, even if the call it  *)
(* was reserved for never bound it, unless the tracker exits or the host   *)
(* refused to take it back: a release is not tried again.                  *)
PortsReleased ==
    \A p \in Ports :
        p \notin prHost \/ p \in prKept \/ ~Alive \/ \E b \in Binds : PortOf[b] = p /\ InUse(b)

(* "If the port is already allocated, let the call go through ... Note:    *)
(* Returning 0 will also cause the port's timeout to be updated": a bind   *)
(* to a port that is tracked keeps the reservation too.                    *)
EveryBindKept == \A b \in Binds : (InUse(b) /\ PortOf[b] # 0 /\ Alive) => PortOf[b] \in prHost

(* "Ensure that no other thread is using this channel": the tracker is     *)
(* never ended by a channel that the dispatcher uses at the same time.     *)
ChannelExclusive == Alive

(* What the port tracker promises in the end, calls being finitely many:   *)
(* from some moment on none waits, and no port is held that nobody uses,   *)
(* but for those the host refused to take back.                            *)
PortsServed == []PrTypeOK /\ <>[](CallsAnswered /\ PortsReleased)
=============================================================================
