-------------------------- MODULE GnsEngineProofs --------------------------
(***************************************************************************)
(* The guest network service, for any number of ports, changes, requests   *)
(* and failures.  First the merge walk of port_tracker_poll: the host's    *)
(* view follows the walk, and no message is redundant.  Then the engine    *)
(* around it: every request has its one answer, in order, resolv.conf is   *)
(* whole, and the walk is as safe beside the requests as alone.            *)
(***************************************************************************)
EXTENDS GnsEngine, TLAPS

(* During the walk the cursors have only moved forward, and everything     *)
(* behind the one in current is smaller than everything ahead of both.     *)
Ordered ==
    pc = "diff" =>
        /\ curLeft \subseteq current /\ oldLeft \subseteq entries
        /\ \A p \in current \ curLeft : \A q \in curLeft \cup oldLeft : p < q

(* What the walk keeps: it is inductive. *)
WalkInv == TypeOK /\ Ordered /\ RelayMatchesSnapshot

-----------------------------------------------------------------------------

(* Every step keeps the state within its types. *)
LEMMA TypeStep == TypeOK /\ [Next]_vars => TypeOK'
<1> SUFFICES ASSUME TypeOK, [Next]_vars PROVE TypeOK'
  OBVIOUS
<1> USE TrackerAssumption DEF TypeOK
<1>1. CASE StartScan
  BY <1>1 DEF StartScan
<1>2. CASE Scan4
  BY <1>2 DEF Scan4, ReadTable
<1>3. CASE Scan6
  BY <1>3 DEF Scan6, ReadTable
<1>4. CASE ScanFail
  BY <1>4 DEF ScanFail
<1>5. ASSUME NEW p \in Ports, RelayStart(p) PROVE TypeOK'
  <2>1. torn' \in BOOLEAN
    BY <1>5, Zenon DEF RelayStart, Relay
  <2>4. fails' = fails \/ (fails < MaxFails /\ fails' = fails + 1)
    BY <1>5, Zenon DEF RelayStart, Relay
  <2>2. fails' \in 0..MaxFails
    BY <2>4
  <2>3. relayed' \subseteq Ports /\ lost' \subseteq Ports
    BY <1>5 DEF RelayStart, Relay
  <2> QED BY <1>5, <2>1, <2>2, <2>3 DEF RelayStart
<1>6. ASSUME NEW p \in Ports, RelayStop(p) PROVE TypeOK'
  <2>1. torn' \in BOOLEAN
    BY <1>6, Zenon DEF RelayStop, Relay
  <2>4. fails' = fails \/ (fails < MaxFails /\ fails' = fails + 1)
    BY <1>6, Zenon DEF RelayStop, Relay
  <2>2. fails' \in 0..MaxFails
    BY <2>4
  <2>3. relayed' \subseteq Ports /\ lost' \subseteq Ports
    BY <1>6 DEF RelayStop, Relay
  <2> QED BY <1>6, <2>1, <2>2, <2>3 DEF RelayStop
<1>7. ASSUME NEW p \in Ports, Keep(p) PROVE TypeOK'
  BY <1>7 DEF Keep
<1>8. CASE Swap
  BY <1>8 DEF Swap
<1>9. CASE Exit
  BY <1>9 DEF Exit, scanVars
<1>12. CASE SigPipe
  BY <1>12 DEF SigPipe, scanVars
<1>10. ASSUME NEW p \in Ports, Change(p) PROVE TypeOK'
  BY <1>10 DEF Change, scanVars
<1>11. CASE UNCHANGED vars
  BY <1>11 DEF vars
<1> QED
  BY <1>1, <1>2, <1>3, <1>4, <1>5, <1>6, <1>7, <1>8, <1>9, <1>10, <1>11, <1>12
     DEF Next, Track, Walk

(* A new port is not forwarded yet; telling the host of it moves both      *)
(* views by the same port.                                                 *)
LEMMA StartStep ==
    ASSUME WalkInv, NEW p \in Ports, RelayStart(p)
    PROVE  (Ordered /\ RelayMatchesSnapshot)' /\ (~torn /\ p \notin lost => p \notin relayed)
<1>1. /\ pc = "diff" /\ pc' = "diff" /\ p \in curLeft /\ curLeft' = curLeft \ {p}
      /\ oldLeft' = oldLeft /\ current' = current /\ entries' = entries
      /\ \A q \in curLeft : p <= q
      /\ \A q \in oldLeft : p < q
  BY DEF RelayStart, Added, First
<1>2. \A q \in Ports : q \in Nat
  BY TrackerAssumption DEF Ports
<1>3. \A q \in curLeft \ {p} : p < q
  BY <1>1, <1>2 DEF WalkInv, TypeOK
<1>4. p \notin oldLeft
  BY <1>1, <1>2
<1>5. Expected' = Expected \cup {p} /\ p \notin Expected
  BY <1>1, <1>4 DEF Expected, WalkInv, Ordered
<1>6. Ordered'
  BY <1>1, <1>3 DEF WalkInv, Ordered
<1>7. \/ torn'
      \/ ~torn /\ relayed' = relayed \cup {p} /\ lost' = lost
      \/ ~torn /\ relayed' = relayed /\ lost' = lost \cup {p}
  BY DEF RelayStart, Relay, WalkInv, TypeOK
<1>8. RelayMatchesSnapshot'
  BY <1>5, <1>7 DEF WalkInv, RelayMatchesSnapshot
<1> QED
  BY <1>5, <1>6, <1>8 DEF WalkInv, RelayMatchesSnapshot

(* A port that went away is still forwarded; the same the other way round. *)
LEMMA StopStep ==
    ASSUME WalkInv, NEW p \in Ports, RelayStop(p)
    PROVE  (Ordered /\ RelayMatchesSnapshot)' /\ (~torn /\ p \notin lost => p \in relayed)
<1>1. /\ pc = "diff" /\ pc' = "diff" /\ p \in oldLeft /\ oldLeft' = oldLeft \ {p}
      /\ curLeft' = curLeft /\ current' = current /\ entries' = entries
  BY DEF RelayStop, Removed, First
<1>2. \A q \in Ports : q \in Nat
  BY TrackerAssumption DEF Ports
<1>3. p \notin current \ curLeft
  BY <1>1, <1>2 DEF WalkInv, Ordered
<1>4. Expected' = Expected \ {p} /\ p \in Expected
  BY <1>1, <1>3 DEF Expected
<1>5. Ordered'
  BY <1>1 DEF WalkInv, Ordered
<1>6. \/ torn'
      \/ ~torn /\ relayed' = relayed \ {p} /\ lost' = lost
      \/ ~torn /\ relayed' = relayed /\ lost' = lost \cup {p}
  BY DEF RelayStop, Relay, WalkInv, TypeOK
<1>7. RelayMatchesSnapshot'
  BY <1>4, <1>6 DEF WalkInv, RelayMatchesSnapshot
<1> QED
  BY <1>4, <1>5, <1>7 DEF WalkInv, RelayMatchesSnapshot

(* A port in both snapshots changes nothing for the host. *)
LEMMA KeepStep ==
    ASSUME WalkInv, NEW p \in Ports, Keep(p)
    PROVE  (Ordered /\ RelayMatchesSnapshot)'
<1>1. /\ pc = "diff" /\ pc' = "diff" /\ p \in curLeft /\ p \in oldLeft
      /\ curLeft' = curLeft \ {p} /\ oldLeft' = oldLeft \ {p}
      /\ current' = current /\ entries' = entries
      /\ relayed' = relayed /\ lost' = lost /\ torn' = torn
      /\ \A q \in curLeft \cup oldLeft : p <= q
  BY DEF Keep, Kept, First
<1>2. \A q \in Ports : q \in Nat
  BY TrackerAssumption DEF Ports
<1>3. \A q \in (curLeft \cup oldLeft) \ {p} : p < q
  BY <1>1, <1>2 DEF WalkInv, TypeOK
<1>4. Ordered'
  BY <1>1, <1>3 DEF WalkInv, Ordered
<1>5. Expected' = Expected
  BY <1>1 DEF Expected, WalkInv, Ordered
<1> QED
  BY <1>1, <1>4, <1>5 DEF WalkInv, RelayMatchesSnapshot

(* Every step keeps the invariant of the walk. *)
LEMMA WalkStep == WalkInv /\ [Next]_vars => WalkInv'
<1> SUFFICES ASSUME WalkInv, [Next]_vars PROVE (Ordered /\ RelayMatchesSnapshot)'
  BY TypeStep DEF WalkInv
<1> USE DEF WalkInv, Ordered, RelayMatchesSnapshot, Expected
<1>1. CASE StartScan
  BY <1>1 DEF StartScan
<1>2. CASE Scan4
  BY <1>2 DEF Scan4
<1>3. CASE Scan6
  BY <1>3 DEF Scan6
<1>4. CASE ScanFail
  BY <1>4 DEF ScanFail
<1>5. CASE Walk
  BY <1>5, StartStep, StopStep, KeepStep DEF Walk
<1>6. CASE Swap
  BY <1>6 DEF Swap
<1>7. CASE Exit
  BY <1>7 DEF Exit, scanVars
<1>10. CASE SigPipe
  BY <1>10 DEF SigPipe, scanVars
<1>8. ASSUME NEW p \in Ports, Change(p) PROVE (Ordered /\ RelayMatchesSnapshot)'
  BY <1>8 DEF Change, scanVars
<1>9. CASE UNCHANGED vars
  BY <1>9 DEF vars
<1> QED
  BY <1>1, <1>2, <1>3, <1>4, <1>5, <1>6, <1>7, <1>8, <1>9, <1>10 DEF Next, Track

-----------------------------------------------------------------------------

LEMMA InitWalk == Init => WalkInv
<1> SUFFICES ASSUME Init PROVE WalkInv
  OBVIOUS
<1>0. torn \in BOOLEAN
  BY Zenon DEF Init
<1>1. TypeOK
  BY <1>0, TrackerAssumption DEF Init, TypeOK
<1>2. Ordered
  BY DEF Init, Ordered
<1>3. relayed = Expected
  BY DEF Init, Expected
<1> QED BY <1>1, <1>2, <1>3 DEF WalkInv, RelayMatchesSnapshot

(* The tracker's state stays within its types, and while no message was    *)
(* cut short the host forwards exactly the ports of the snapshot, apart    *)
(* from those whose own message was lost, at every point of the walk.      *)
THEOREM HostFollowsWalk == Spec => [](TypeOK /\ RelayMatchesSnapshot /\ WalkInv)
<1>1. Init => WalkInv
  BY InitWalk
<1>2. WalkInv => TypeOK /\ RelayMatchesSnapshot
  BY DEF WalkInv
<1> QED
  BY <1>1, <1>2, WalkStep, PTL DEF Spec

(* No message to the host is redundant, unless an earlier one about the    *)
(* same port was lost or any was cut short.                                *)
THEOREM RelaysNotRedundant == Spec => NoRedundantRelay
<1>1. WalkInv /\ [Next]_vars =>
        [~torn => \A p \in Ports \ lost :
            /\ RelayStart(p) => p \notin relayed
            /\ RelayStop(p) => p \in relayed]_vars
  BY StartStep, StopStep
<1> QED
  BY <1>1, HostFollowsWalk, PTL DEF Spec, NoRedundantRelay

-----------------------------------------------------------------------------
(***************************************************************************)
(* The engine: GnsSafe.                                                    *)
(*                                                                         *)
(* Requests are numbered as the host sends them.  There is a number up to  *)
(* which the engine has taken them from the channel (Given): those behind  *)
(* it have their answer or were not heard, but for the one in hand, and    *)
(* those in the channel follow it one by one.                              *)
(***************************************************************************)

Nets == [dflt : Ifaces, addr : SUBSET Ifaces, up : SUBSET Ifaces, dev : SUBSET Ifaces,
         map : SUBSET MapPorts, pass : SUBSET MapPorts, flags : SUBSET Flags]
AnswerTypes == {"Result", "IfStateChangeResponse"}

EngineTypes ==
    /\ stage \in {"idle", "payload", "dns", "reply", "hung"}
    /\ partial \in BOOLEAN /\ closed \in BOOLEAN
    /\ inbox \in Seq(Nat) /\ answers \in Seq([seq : Nat, type : AnswerTypes])
    /\ net \in Nets /\ req \in Nat /\ sent \in 0..MaxRequests
    /\ stage \in {"dns", "reply"} <=> req # 0
    /\ req # 0 => owed.type \in AnswerTypes
    /\ stage = "payload" => inbox # <<>>

(* The first h requests were taken from the channel. *)
Given(h) ==
    /\ sent = h + Len(inbox) /\ \A i \in 1..Len(inbox) : inbox[i] = h + i
    /\ \A i \in 1..Len(answers) : answers[i].seq \in 1..h /\ answers[i].seq # req
    /\ unheard \subseteq 1..h /\ req \notin unheard
    /\ req # 0 => req = h
    /\ \A s \in 1..h : s = req \/ s \in unheard \/ \E i \in 1..Len(answers) : answers[i].seq = s
    /\ \A i \in 1..Len(answers) : answers[i].seq \notin unheard
    /\ \A i, j \in 1..Len(answers) : i < j => answers[i].seq < answers[j].seq

(* Who writes resolv.conf was allowed to. *)
FilesAt ==
    /\ tmpFile \in BOOLEAN /\ dnsFile \in {"no", "linked", "unlinked"} /\ generate \in BOOLEAN
    /\ resolv \in {"user", "part", "ni", "dns", "short"} /\ ResolvWhole
    /\ tmpFile \/ dnsFile # "no" => generate

GnsInv == WalkInv /\ EngineTypes /\ FilesAt /\ \E h \in Nat : Given(h)

-----------------------------------------------------------------------------

(* What a handler relies on in a request. *)
LEMMA RequestFacts ==
    ASSUME NEW m \in AllRequests
    PROVE  /\ m.target \in {"", "nic"}
           /\ m.type \in {"PortMappingRequest", "SetPortListener"} => m.port \in MapPorts
           /\ m.type \in {"VmNicCreatedNotification", "CreateDeviceRequest"} => m.arg \in {"none", "nic"}
<1>1. ASSUME NEW types, NEW args, m \in Req(types, args)
      PROVE  m.target = "" /\ m.type \in types /\ m.arg \in args
  BY <1>1 DEF Req
<1>2. ASSUME NEW resources, NEW args, NEW targets, m \in Notify(resources, args, targets)
      PROVE  m.type = "Notification" /\ m.target \in targets
  BY <1>2 DEF Notify
<1>3. ASSUME NEW types, NEW args, m \in PortReq(types, args)
      PROVE  m.target = "" /\ m.type \in types /\ m.port \in MapPorts
  BY <1>3 DEF PortReq
<1>4. CASE \/ m \in Req({"InterfaceConfiguration"}, {"none", "endpoint", "arrays", "nameless", "lines"})
           \/ m \in Req({"ConnectTestRequest", "ListenerRelay", "ModifyGuestDeviceSettingRequest",
                         "DeviceSettingRequest"}, {"none", "json"})
           \/ m \in Req({"LoopbackRoutesRequest"}, {"none", "add", "remove"})
           \/ m \in Req({"IfStateChangeRequest"}, {"none", "up", "down"})
           \/ m \in Req({"GlobalNetFilter", "InterfaceNetFilter"}, {"none", "flush", "remove", "add"})
           \/ m \in Req({"NoOp", "InitialIpConfigurationNotification", "SetupIpv6", "other"}, {"none"})
  <2>1. m.target = "" /\ m.type \in {"InterfaceConfiguration", "ConnectTestRequest", "ListenerRelay",
           "ModifyGuestDeviceSettingRequest", "DeviceSettingRequest", "LoopbackRoutesRequest",
           "IfStateChangeRequest", "GlobalNetFilter", "InterfaceNetFilter", "NoOp",
           "InitialIpConfigurationNotification", "SetupIpv6", "other"}
    BY <1>1, <1>4
  <2> QED BY <2>1
<1>5. CASE m \in Req({"VmNicCreatedNotification", "CreateDeviceRequest"}, {"none", "nic"})
  <2>1. /\ m.target = "" /\ m.type \in {"VmNicCreatedNotification", "CreateDeviceRequest"}
        /\ m.arg \in {"none", "nic"}
    BY <1>1, <1>5
  <2> QED BY <2>1
<1>6. CASE \/ m \in PortReq({"PortMappingRequest"}, {"none", "add", "remove"})
           \/ m \in PortReq({"SetPortListener"}, {"none", "add"})
  BY <1>3, <1>6
<1>7. CASE \/ m \in Notify({"Route"}, {"none", "Add", "Update", "UpdateOther", "Remove", "Reset", "nohop"}, {""})
           \/ m \in Notify({"IPAddress"}, {"none", "Add", "Update", "Remove"}, {"", "nic"})
           \/ m \in Notify({"DNS"}, {"none", "Add", "Remove"}, {""})
           \/ m \in Notify({"Interface"}, {"none", "Up", "Down"}, {"", "nic"})
           \/ m \in Notify({"MacAddress", "unknown"}, {"Update"}, {""})
  <2>1. m.type = "Notification" /\ m.target \in {"", "nic"}
    BY <1>2, <1>7
  <2> QED BY <2>1
<1> QED BY <1>4, <1>5, <1>6, <1>7, ZenonT(40) DEF AllRequests

LEMMA NetParts ==
    ASSUME NEW n \in Nets
    PROVE  /\ \A a \in SUBSET Ifaces : [n EXCEPT !.addr = a] \in Nets /\ [n EXCEPT !.up = a] \in Nets
                                       /\ [n EXCEPT !.dev = a] \in Nets
           /\ \A p \in SUBSET MapPorts : [n EXCEPT !.map = p] \in Nets /\ [n EXCEPT !.pass = p] \in Nets
           /\ \A f \in SUBSET Flags : [n EXCEPT !.flags = f] \in Nets
           /\ \A d \in Ifaces : [n EXCEPT !.dflt = d] \in Nets
           /\ n.addr \in SUBSET Ifaces /\ n.up \in SUBSET Ifaces /\ n.dev \in SUBSET Ifaces
           /\ n.map \in SUBSET MapPorts /\ n.pass \in SUBSET MapPorts /\ n.flags \in SUBSET Flags
           /\ n.dflt \in Ifaces
  BY DEF Nets

LEMMA RunKept ==
    ASSUME NEW n \in Nets, NEW done \in Nets, NEW o \in Run(n, done)
    PROVE  o.net \in Nets
  BY DEF Run, Outcome

(* No handler takes the configuration out of its bounds. *)
LEMMA HandleKept ==
    ASSUME NEW n \in Nets, NEW m \in AllRequests, NEW o \in Handle(n, m)
    PROVE  o.net \in Nets
<1> DEFINE iface == IF m.target = "" THEN n.dflt ELSE m.target
           a == m.arg
<1>1. /\ \A c : Outcome(n, c).net = n /\ iface \in Ifaces
      /\ \A f \in Flags : n.flags \cup {f} \in SUBSET Flags /\ n.flags \ {f} \in SUBSET Flags
      /\ {"route", "loopback", "forwarding", "ipv6", "global", "iface"} \subseteq Flags
  BY NetParts, RequestFacts DEF Outcome, Flags, Ifaces
<1>2. CASE m.type = "InterfaceConfiguration" /\ o \in InterfaceConfiguration(n, a)
  <2>1. CASE a = "none"
    <3>1. o = Outcome(n, -1)
      BY <1>2, <2>1 DEF InterfaceConfiguration
    <3> QED BY <1>1, <3>1
  <2>2. CASE a # "none"
    <3>1. PICK ok \in [addr : BOOLEAN, route : BOOLEAN] :
             o = Outcome([n EXCEPT
                        !.addr = IF Endpoint(a).named /\ Endpoint(a).addr /\ ok.addr THEN @ \cup {"nic"} ELSE @,
                        !.up = IF Endpoint(a).named /\ Endpoint(a).up THEN @ \cup {"nic"} ELSE @,
                        !.flags = CASE ~Endpoint(a).gateway -> @
                                    [] ok.route -> @ \cup {"route"}
                                    [] OTHER -> @ \ {"route"}],
                     IF Endpoint(a).named /\ Endpoint(a).addr /\ ~ok.addr THEN -1 ELSE 0)
      BY <1>2, <2>2 DEF InterfaceConfiguration
    <3>2. PICK addr, up, flags :
             /\ addr = IF Endpoint(a).named /\ Endpoint(a).addr /\ ok.addr THEN n.addr \cup {"nic"} ELSE n.addr
             /\ up = IF Endpoint(a).named /\ Endpoint(a).up THEN n.up \cup {"nic"} ELSE n.up
             /\ flags = CASE ~Endpoint(a).gateway -> n.flags
                          [] ok.route -> n.flags \cup {"route"}
                          [] OTHER -> n.flags \ {"route"}
      OBVIOUS
    <3>3. o.net = [n EXCEPT !.addr = addr, !.up = up, !.flags = flags]
      BY <3>1, <3>2 DEF Outcome
    <3>4. addr \in SUBSET Ifaces /\ up \in SUBSET Ifaces /\ flags \in SUBSET Flags
      BY <1>1, <3>2, NetParts DEF Ifaces
    <3> QED BY <3>3, <3>4 DEF Nets
  <2> QED BY <2>1, <2>2
<1>3. CASE m.type = "Notification" /\ o \in Notification(n, m)
  <2>1. CASE o \in {Outcome(n, -1), Outcome(n, 0)}
    BY <1>1, <2>1
  <2>2. CASE o \in RouteChange(n, a)
    <3>1. PICK on, off : on = [n EXCEPT !.flags = @ \cup {"route"}] /\ off = [n EXCEPT !.flags = @ \ {"route"}]
      OBVIOUS
    <3>2. on \in Nets /\ off \in Nets
      BY <1>1, <3>1, NetParts
    <3>3. o \in Run(n, on) \/ o \in Run(n, off) \/ o = Outcome(off, 0) \/ o = Outcome(n, 0)
      BY <2>2, <3>1 DEF RouteChange
    <3>4. Outcome(off, 0).net = off
      BY DEF Outcome
    <3> QED BY <1>1, <3>2, <3>3, <3>4, RunKept
  <2>3. CASE o \in IpChange(n, iface, a)
    <3> HIDE DEF iface
    <3> QED BY <1>1, <2>3, NetParts, RunKept DEF IpChange
  <2>4. CASE o \in LinkChange(n, iface, a)
    <3> HIDE DEF iface
    <3> QED BY <1>1, <2>4, NetParts, RunKept DEF LinkChange
  <2> QED BY <1>3, <2>1, <2>2, <2>3, <2>4 DEF Notification, MacChange
<1>4. CASE m.type \in {"PortMappingRequest", "SetPortListener"}
            /\ o \in PortMapping(n, a, m.port) \cup SetPortListener(n, a, m.port)
  <2>1. {m.port} \in SUBSET MapPorts
    BY <1>4, RequestFacts
  <2> QED BY <1>1, <1>4, <2>1, NetParts, RunKept DEF PortMapping, SetPortListener
<1>5. CASE m.type = "CreateDeviceRequest" /\ o \in CreateDevice(n, a)
  <2>1. a = "none" \/ n.dev \cup {a} \in SUBSET Ifaces
    BY <1>5, RequestFacts, NetParts DEF Ifaces
  <2> QED BY <1>1, <1>5, <2>1, NetParts, RunKept DEF CreateDevice
<1>6. CASE m.type = "VmNicCreatedNotification" /\ o \in VmNicCreated(n, a)
  <2>1. CASE a = "none"
    BY <1>1, <1>6, <2>1 DEF VmNicCreated
  <2>2. CASE a # "none"
    <3>1. a \in Ifaces
      BY <1>6, <2>2, RequestFacts DEF Ifaces
    <3>2. [n EXCEPT !.dflt = a] \in Nets
      BY <3>1, NetParts
    <3>3. [n EXCEPT !.dflt = a, !.flags = @ \cup {"forwarding"}] \in Nets
      BY <1>1, <3>1 DEF Nets
    <3> QED BY <1>6, <2>2, <3>2, <3>3, RunKept DEF VmNicCreated
  <2> QED BY <2>1, <2>2
<1>7. CASE \E c : o = Outcome(n, c)
  BY <1>1, <1>7
<1>8. CASE o \in LoopbackRoutes(n, a) \cup SetupIpv6(n) \cup GlobalNetFilter(n, a) \cup InterfaceNetFilter(n, a)
  BY <1>1, <1>8, NetParts, RunKept
     DEF LoopbackRoutes, SetupIpv6, GlobalNetFilter, InterfaceNetFilter, NetFilter
<1>9. CASE o \in IfStateChange(n, a)
  <2>1. n.up \cup {"nic"} \in SUBSET Ifaces /\ n.up \ {"nic"} \in SUBSET Ifaces
    BY NetParts DEF Ifaces
  <2> QED BY <1>1, <1>9, <2>1, NetParts, RunKept DEF IfStateChange
<1> QED
  BY <1>2, <1>3, <1>4, <1>5, <1>6, <1>7, <1>8, <1>9
     DEF Handle, ConnectTest, ListenerRelay, ModifyDeviceSetting, DeviceSetting

-----------------------------------------------------------------------------

(* A failure is counted, and the engine may leave its loop with it. *)
LEMMA WalkBeside ==
    ASSUME WalkInv, fails' \in {fails, fails + 1}, fails' # fails => fails < MaxFails,
           pc' = pc \/ (pc = "poll" /\ pc' = "exited"), torn' \in {torn, TRUE},
           UNCHANGED <<listening, scanVars, relayed, lost, changes>>
    PROVE  WalkInv'
<1>0. torn' \in BOOLEAN
  BY Zenon DEF WalkInv, TypeOK
<1>1. fails' \in 0..MaxFails /\ torn' \in BOOLEAN
  BY <1>0, TrackerAssumption DEF WalkInv, TypeOK
<1>2. TypeOK'
  BY <1>1 DEF WalkInv, TypeOK, scanVars
<1>3. Ordered' /\ Expected' = Expected
  BY DEF WalkInv, Ordered, Expected, scanVars
<1>4. CASE torn' = torn
  BY <1>2, <1>3, <1>4 DEF WalkInv, RelayMatchesSnapshot
<1>5. CASE torn' = TRUE
  BY <1>2, <1>3, <1>5 DEF WalkInv, RelayMatchesSnapshot
<1> QED BY <1>4, <1>5

(* The first request of the channel is the next one. *)
LEMMA NextTaken ==
    ASSUME NEW h \in Nat, EngineTypes, Given(h), inbox # <<>>
    PROVE  /\ Head(inbox) = h + 1 /\ Tail(inbox) \in Seq(Nat) /\ sent = (h + 1) + Len(Tail(inbox))
           /\ \A i \in 1..Len(Tail(inbox)) : Tail(inbox)[i] = (h + 1) + i
           /\ h + 1 \in 1..sent
<1>1. /\ inbox \in Seq(Nat) /\ Len(inbox) \in Nat /\ sent = h + Len(inbox)
      /\ \A i \in 1..Len(inbox) : inbox[i] = h + i
  BY DEF EngineTypes, Given
<1>2. /\ Head(inbox) = inbox[1] /\ Tail(inbox) \in Seq(Nat) /\ Len(Tail(inbox)) = Len(inbox) - 1
      /\ Len(inbox) >= 1 /\ \A i \in 1..Len(Tail(inbox)) : Tail(inbox)[i] = inbox[i + 1]
  BY <1>1
<1>3. \A i \in 1..Len(Tail(inbox)) : i + 1 \in 1..Len(inbox) /\ h + (i + 1) = (h + 1) + i
  BY <1>1, <1>2
<1>4. Head(inbox) = h + 1
  BY <1>1, <1>2
<1> QED BY <1>1, <1>2, <1>3, <1>4

(* A request is taken in hand. *)
LEMMA TakeStep ==
    ASSUME NEW h \in Nat, EngineTypes, Given(h), stage = "payload",
           inbox' = Tail(inbox), req' = Head(inbox), stage' \in {"dns", "reply"}, net' \in Nets,
           owed'.type \in AnswerTypes, UNCHANGED <<partial, closed, sent, answers, unheard>>
    PROVE  EngineTypes' /\ Given(h + 1)'
<1>1. inbox # <<>> /\ req = 0
  BY DEF EngineTypes
<1>2. /\ req' = h + 1 /\ inbox' \in Seq(Nat) /\ sent' = (h + 1) + Len(inbox')
      /\ \A i \in 1..Len(inbox') : inbox'[i] = (h + 1) + i
  BY <1>1, NextTaken
<1>3. EngineTypes'
  BY <1>2 DEF EngineTypes
<1>4. \A s \in 1..h : s \in 1..(h + 1) /\ s # h + 1 /\ s # 0
  OBVIOUS
<1>5. \A s \in 1..(h + 1) : s \in 1..h \/ s = h + 1
  OBVIOUS
<1>6. /\ \A i \in 1..Len(answers') : answers'[i].seq \in 1..(h + 1) /\ answers'[i].seq # req'
      /\ unheard' \subseteq 1..(h + 1) /\ req' \notin unheard'
  BY <1>2, <1>4 DEF Given
<1>7. \A s \in 1..(h + 1) : s = req' \/ s \in unheard' \/ \E i \in 1..Len(answers') : answers'[i].seq = s
  BY <1>1, <1>2, <1>4, <1>5 DEF Given
<1>8. Given(h + 1)'
  BY <1>2, <1>6, <1>7 DEF Given
<1> QED BY <1>3, <1>8

(* A message that is too short is dropped. *)
LEMMA SkipStep ==
    ASSUME NEW h \in Nat, EngineTypes, Given(h), SkipShort
    PROVE  EngineTypes' /\ Given(h + 1)'
<1>1. /\ stage = "payload" /\ inbox' = Tail(inbox) /\ unheard' = unheard \cup {Head(inbox)}
      /\ stage' = "idle" /\ UNCHANGED <<partial, closed, req, owed, sent, answers, net>>
  BY DEF SkipShort, At
<1>2. inbox # <<>> /\ req = 0
  BY <1>1 DEF EngineTypes
<1>3. /\ unheard' = unheard \cup {h + 1} /\ inbox' \in Seq(Nat) /\ sent' = (h + 1) + Len(inbox')
      /\ \A i \in 1..Len(inbox') : inbox'[i] = (h + 1) + i
  BY <1>1, <1>2, NextTaken
<1>4. EngineTypes'
  BY <1>1, <1>2, <1>3 DEF EngineTypes
<1>5. \A s \in 1..h : s \in 1..(h + 1) /\ s # h + 1 /\ s # 0
  OBVIOUS
<1>6. h + 1 \in 1..(h + 1) /\ h + 1 # 0 /\ \A s \in 1..(h + 1) : s \in 1..h \/ s = h + 1
  OBVIOUS
<1>7. \A i \in 1..Len(answers') : /\ answers'[i].seq \in 1..(h + 1) /\ answers'[i].seq # req'
                                  /\ answers'[i].seq \notin unheard'
  BY <1>1, <1>3, <1>5 DEF Given
<1>8. unheard' \subseteq 1..(h + 1) /\ req' \notin unheard'
  BY <1>1, <1>2, <1>3, <1>5, <1>6 DEF Given
<1>9. \A s \in 1..(h + 1) : s = req' \/ s \in unheard' \/ \E i \in 1..Len(answers') : answers'[i].seq = s
  BY <1>1, <1>3, <1>6 DEF Given
<1>10. Given(h + 1)'
  BY <1>1, <1>2, <1>3, <1>7, <1>8, <1>9 DEF Given
<1> QED BY <1>4, <1>10

(* The answer to the request in hand is sent, or is not heard. *)
LEMMA SendStep ==
    ASSUME NEW h \in Nat, EngineTypes, Given(h), SendResult
    PROVE  EngineTypes' /\ Given(h)'
<1>1. /\ stage = "reply" /\ stage' = "idle" /\ req' = 0
      /\ UNCHANGED <<inbox, partial, closed, sent, net>>
      /\ \/ answers' = Append(answers, [seq |-> req, type |-> owed.type]) /\ unheard' = unheard
         \/ unheard' = unheard \cup {req} /\ answers' = answers
  BY DEF SendResult, At
<1>2. /\ req = h /\ req # 0 /\ req \in Nat /\ owed.type \in AnswerTypes
      /\ answers \in Seq([seq : Nat, type : AnswerTypes]) /\ Len(answers) \in Nat
  BY <1>1 DEF EngineTypes, Given
<1>3. h \in 1..h /\ \A s \in 1..h : s # 0 /\ (s # h => s < h)
  BY <1>2
<1>4. CASE answers' = Append(answers, [seq |-> req, type |-> owed.type]) /\ unheard' = unheard
  <2>1. PICK a, L : a = [seq |-> req, type |-> owed.type] /\ L = Len(answers)
    OBVIOUS
  <2>2. a \in [seq : Nat, type : AnswerTypes] /\ a.seq = h /\ L \in Nat
    BY <1>2, <2>1
  <2>3. /\ answers' \in Seq([seq : Nat, type : AnswerTypes]) /\ Len(answers') = L + 1
        /\ answers'[L + 1] = a /\ \A i \in 1..L : answers'[i] = answers[i]
    BY <1>2, <1>4, <2>1, <2>2
  <2>4. EngineTypes'
    BY <1>1, <2>3 DEF EngineTypes
  <2>5. \A i \in 1..(L + 1) : i \in 1..L \/ i = L + 1
    BY <2>2
  <2>6. \A i \in 1..L : answers[i].seq \in 1..h /\ answers[i].seq # h /\ answers[i].seq \notin unheard
    BY <1>2, <2>1 DEF Given
  <2>7. h \notin unheard /\ unheard \subseteq 1..h
    BY <1>2 DEF Given
  <2>8. \A i \in 1..Len(answers') : /\ answers'[i].seq \in 1..h /\ answers'[i].seq # req'
                                    /\ answers'[i].seq \notin unheard'
    BY <1>1, <1>3, <1>4, <2>2, <2>3, <2>5, <2>6, <2>7
  <2>9. ASSUME NEW s \in 1..h
        PROVE  s \in unheard' \/ \E i \in 1..Len(answers') : answers'[i].seq = s
    <3>1. CASE s = h
      <4>1. L + 1 \in 1..Len(answers') /\ answers'[L + 1].seq = s
        BY <2>2, <2>3, <3>1
      <4> QED BY <4>1
    <3>2. CASE s \in unheard
      BY <1>4, <3>2
    <3>3. ASSUME NEW i \in 1..L, answers[i].seq = s
          PROVE  \E j \in 1..Len(answers') : answers'[j].seq = s
      <4>1. i \in 1..Len(answers') /\ answers'[i].seq = s
        BY <2>2, <2>3, <3>3
      <4> QED BY <4>1
    <3> QED BY <1>2, <2>1, <3>1, <3>2, <3>3 DEF Given
  <2>10. ASSUME NEW i \in 1..Len(answers'), NEW j \in 1..Len(answers'), i < j
         PROVE  answers'[i].seq < answers'[j].seq
    <3>1. i \in 1..L
      BY <2>2, <2>3, <2>10
    <3>2. CASE j \in 1..L
      <4>1. answers[i].seq < answers[j].seq
        BY <2>1, <2>10, <3>1, <3>2 DEF Given
      <4> QED BY <2>3, <3>1, <3>2, <4>1
    <3>3. CASE j = L + 1
      BY <1>3, <2>2, <2>3, <2>6, <3>1, <3>3
    <3> QED BY <2>3, <2>5, <3>2, <3>3
  <2>11. Given(h)'
    <3>1. sent' = h + Len(inbox') /\ \A i \in 1..Len(inbox') : inbox'[i] = h + i
      BY <1>1 DEF Given
    <3>2. unheard' \subseteq 1..h /\ req' \notin unheard'
      BY <1>1, <1>3, <1>4, <2>7
    <3> QED BY <1>1, <2>8, <2>9, <2>10, <3>1, <3>2 DEF Given
  <2> QED BY <2>4, <2>11
<1>5. CASE unheard' = unheard \cup {req} /\ answers' = answers
  <2>1. EngineTypes'
    BY <1>1, <1>5 DEF EngineTypes
  <2>2. \A i \in 1..Len(answers') : /\ answers'[i].seq \in 1..h /\ answers'[i].seq # req'
                                    /\ answers'[i].seq \notin unheard'
    BY <1>1, <1>2, <1>3, <1>5 DEF Given
  <2>3. unheard' \subseteq 1..h /\ req' \notin unheard'
    BY <1>1, <1>2, <1>3, <1>5 DEF Given
  <2>4. \A s \in 1..h : s \in unheard' \/ \E i \in 1..Len(answers') : answers'[i].seq = s
    BY <1>5 DEF Given
  <2>5. Given(h)'
    BY <1>1, <1>5, <2>2, <2>3, <2>4 DEF Given
  <2> QED BY <2>1, <2>5
<1> QED BY <1>1, <1>4, <1>5

(* The host sends one more. *)
LEMMA HostStep ==
    ASSUME NEW h \in Nat, EngineTypes, Given(h), NEW part \in BOOLEAN, HostSends(part)
    PROVE  EngineTypes' /\ Given(h)'
<1>1. /\ sent < MaxRequests /\ sent' = sent + 1 /\ partial' = part /\ inbox' = Append(inbox, sent + 1)
      /\ UNCHANGED <<stage, closed, req, owed, answers, net, unheard>>
  BY DEF HostSends
<1>2. inbox \in Seq(Nat) /\ sent \in Nat /\ Len(inbox) \in Nat /\ sent = h + Len(inbox) /\ sent' \in 0..MaxRequests
  BY <1>1, GnsAssumption DEF EngineTypes, Given
<1>3. /\ inbox' \in Seq(Nat) /\ Len(inbox') = Len(inbox) + 1 /\ inbox'[Len(inbox) + 1] = sent + 1
      /\ \A i \in 1..Len(inbox) : inbox'[i] = inbox[i]
  BY <1>1, <1>2
<1>4. inbox' # <<>>
  BY <1>2, <1>3
<1>5. EngineTypes'
  BY <1>1, <1>2, <1>3, <1>4 DEF EngineTypes
<1>6. \A i \in 1..Len(inbox') : i \in 1..Len(inbox) \/ i = Len(inbox) + 1
  BY <1>2, <1>3
<1>7. sent' = h + Len(inbox') /\ sent + 1 = h + (Len(inbox) + 1)
  BY <1>1, <1>2, <1>3
<1>8. \A i \in 1..Len(inbox') : inbox'[i] = h + i
  BY <1>3, <1>6, <1>7 DEF Given
<1>9. Given(h)'
  BY <1>1, <1>7, <1>8 DEF Given
<1> QED BY <1>5, <1>9

LEMMA FilesKept ==
    ASSUME FilesAt, UNCHANGED fileVars
    PROVE  FilesAt'
  BY DEF FilesAt, ResolvWhole, fileVars

LEMMA EngineKept ==
    ASSUME NEW h \in Nat, EngineTypes, Given(h), UNCHANGED engineVars
    PROVE  EngineTypes' /\ Given(h)'
  BY DEF EngineTypes, Given, engineVars

(* Every step of the engine, the host and hvinit keeps the invariant. *)
LEMMA GnsStep == GnsInv /\ [GnsNext]_gnsVars => GnsInv'
<1> SUFFICES ASSUME GnsInv, [GnsNext]_gnsVars PROVE GnsInv'
  OBVIOUS
<1>1. PICK h \in Nat : Given(h)
  BY DEF GnsInv
<1>2. WalkInv /\ EngineTypes /\ FilesAt
  BY DEF GnsInv
<1>3. h + 1 \in Nat
  OBVIOUS
<1>4. UNCHANGED vars => WalkInv'
  BY <1>2, WalkStep
<1>5. CASE RecvHeader
  <2>1. /\ inbox # <<>> /\ stage = "idle" /\ stage' = "payload" /\ UNCHANGED <<vars, fileVars>>
        /\ UNCHANGED <<inbox, partial, closed, req, owed, sent, answers, net, unheard>>
    BY <1>5 DEF RecvHeader, At
  <2>2. EngineTypes' /\ Given(h)'
    BY <1>1, <1>2, <2>1 DEF EngineTypes, Given
  <2> QED BY <1>2, <1>4, <2>1, <2>2, FilesKept DEF GnsInv
<1>6. CASE SkipShort
  BY <1>1, <1>2, <1>3, <1>4, <1>6, SkipStep, FilesKept DEF GnsInv, SkipShort
<1>7. CASE RecvFails
  <2>1. /\ fails' \in {fails, fails + 1} /\ (fails' # fails => fails < MaxFails) /\ pc = "poll" /\ pc' = "exited"
        /\ UNCHANGED <<listening, scanVars, relayed, lost, torn, changes>> /\ UNCHANGED engineVars
        /\ UNCHANGED fileVars
    BY <1>7 DEF RecvFails, At, Running
  <2>2. WalkInv'
    BY <1>2, <2>1, WalkBeside
  <2> QED BY <1>1, <1>2, <2>1, <2>2, EngineKept, FilesKept DEF GnsInv
<1>8. ASSUME NEW r \in Requests[Head(inbox)], inbox # <<>>, RunHandler(r)
      PROVE  GnsInv'
  <2>1. r \in AllRequests
    <3>1. Head(inbox) \in 1..MaxRequests
      <4>1. Head(inbox) \in 1..sent /\ sent \in 0..MaxRequests
        BY <1>1, <1>2, <1>8, NextTaken DEF EngineTypes
      <4> QED BY <4>1, GnsAssumption
    <3> QED BY <1>8, <3>1, GnsAssumption
  <2>2. PICK o \in Handle(net, r) : net' = o.net /\ owed' = [type |-> AnswerType(r), code |-> o.code]
    BY <1>8 DEF RunHandler
  <2>3. net' \in Nets /\ owed'.type \in AnswerTypes
    BY <1>2, <2>1, <2>2, HandleKept DEF EngineTypes, AnswerType, AnswerTypes
  <2>4. /\ stage = "payload" /\ stage' = "reply" /\ inbox' = Tail(inbox) /\ req' = Head(inbox)
        /\ UNCHANGED <<partial, closed, sent, answers, unheard>> /\ UNCHANGED vars /\ UNCHANGED fileVars
    BY <1>8 DEF RunHandler, At
  <2>5. EngineTypes' /\ Given(h + 1)'
    BY <1>1, <1>2, <2>3, <2>4, TakeStep
  <2> QED BY <1>2, <1>3, <1>4, <2>4, <2>5, FilesKept DEF GnsInv
<1>9. ASSUME NEW r, DnsOpen(r)
      PROVE  GnsInv'
  <2>1. /\ stage = "payload" /\ generate /\ inbox' = Tail(inbox) /\ req' = Head(inbox)
        /\ owed' = [type |-> "Result", code |-> 0]
        /\ UNCHANGED <<partial, closed, sent, answers, net, unheard>>
        /\ UNCHANGED <<pc, listening, scanVars, relayed, lost, torn, changes>>
        /\ UNCHANGED <<tmpFile, writes, generate>>
        /\ \/ resolv' = "part" /\ dnsFile' = "linked" /\ stage' = "dns" /\ fails' = fails
           \/ fails < MaxFails /\ fails' = fails + 1 /\ stage' = "reply" /\ UNCHANGED <<resolv, dnsFile>>
    BY <1>9 DEF DnsOpen, At, WritesDns
  <2>2. WalkInv'
    BY <1>2, <2>1, WalkBeside
  <2>3. owed'.type \in AnswerTypes /\ net' \in Nets /\ stage' \in {"dns", "reply"}
    BY <1>2, <2>1 DEF AnswerTypes, EngineTypes
  <2>4. EngineTypes' /\ Given(h + 1)'
    BY <1>1, <1>2, <2>1, <2>3, TakeStep
  <2>5. FilesAt'
    BY <1>2, <2>1 DEF FilesAt, ResolvWhole
  <2> QED BY <1>3, <2>2, <2>4, <2>5 DEF GnsInv
<1>10. CASE DnsClose
  <2>1. /\ stage = "dns" /\ stage' = "reply" /\ fails' \in {fails, fails + 1}
        /\ (fails' # fails => fails < MaxFails)
        /\ UNCHANGED <<pc, listening, scanVars, relayed, lost, torn, changes>>
        /\ UNCHANGED <<inbox, partial, closed, req, owed, sent, answers, net, unheard>>
        /\ resolv' \in IF dnsFile = "linked" THEN {"dns", "short"} ELSE {resolv}
        /\ dnsFile' = "no" /\ UNCHANGED <<tmpFile, generate>>
    BY <1>10 DEF DnsClose, At
  <2>2. EngineTypes' /\ Given(h)'
    BY <1>1, <1>2, <2>1 DEF EngineTypes, Given
  <2>3. FilesAt'
    BY <1>2, <2>1 DEF FilesAt, ResolvWhole
  <2>4. WalkInv'
    BY <1>2, <2>1, WalkBeside
  <2> QED BY <2>2, <2>3, <2>4 DEF GnsInv
<1>11. CASE SendResult
  <2>1. /\ fails' \in {fails, fails + 1} /\ (fails' # fails => fails < MaxFails) /\ pc' = pc
        /\ torn' \in {torn, TRUE}
        /\ UNCHANGED <<listening, scanVars, relayed, lost, changes>> /\ UNCHANGED fileVars
    BY <1>11 DEF SendResult
  <2>2. WalkInv'
    BY <1>2, <2>1, WalkBeside
  <2> QED BY <1>1, <1>2, <1>11, <2>1, <2>2, SendStep, FilesKept DEF GnsInv
<1>17. CASE HostGone
  <2>1. UNCHANGED engineVars /\ UNCHANGED fileVars
    BY <1>17 DEF HostGone
  <2>2. CASE SigPipe
    <3>1. Next
      BY <2>2 DEF Next
    <3> QED BY <1>1, <1>2, <2>1, <3>1, WalkStep, EngineKept, FilesKept DEF GnsInv
  <2>3. CASE ~SigPipe
    <3>1. /\ pc = "poll" /\ pc' = "exited"
          /\ UNCHANGED <<listening, scanVars, relayed, lost, torn, changes, fails>>
      BY <1>17, <2>3 DEF HostGone, At, Running
    <3>2. WalkInv'
      BY <1>2, <3>1, WalkBeside
    <3> QED BY <1>1, <1>2, <2>1, <3>2, EngineKept, FilesKept DEF GnsInv
  <2> QED BY <2>2, <2>3
<1>18. ASSUME NEW r, CommandHangs(r)
       PROVE  GnsInv'
  <2>1. /\ stage = "payload" /\ stage' = "hung" /\ UNCHANGED vars /\ UNCHANGED fileVars
        /\ UNCHANGED <<inbox, partial, closed, req, owed, sent, answers, net, unheard>>
    BY <1>18 DEF CommandHangs, At
  <2>2. EngineTypes' /\ Given(h)'
    BY <1>1, <1>2, <2>1 DEF EngineTypes, Given
  <2> QED BY <1>2, <1>4, <2>1, <2>2, FilesKept DEF GnsInv
<1>12. ASSUME Scan \/ \E p \in Ports : Change(p) /\ UNCHANGED <<engineVars, fileVars>>
       PROVE  GnsInv'
  <2>1. Next /\ UNCHANGED engineVars /\ UNCHANGED fileVars
    BY <1>12 DEF Scan, Next, Track
  <2> QED BY <1>1, <1>2, <2>1, WalkStep, EngineKept, FilesKept DEF GnsInv
<1>13. ASSUME NEW part \in BOOLEAN, HostSends(part)
       PROVE  GnsInv'
  BY <1>1, <1>2, <1>4, <1>13, HostStep, FilesKept DEF GnsInv, HostSends
<1>14. CASE HostRest \/ HostCloses
  <2>1. /\ torn' \in {torn, TRUE} /\ UNCHANGED <<pc, listening, scanVars, relayed, lost, changes, fails>>
        /\ UNCHANGED fileVars
    BY <1>14 DEF HostRest, HostCloses, vars, scanVars
  <2>2. /\ partial' \in BOOLEAN /\ closed' \in BOOLEAN
        /\ UNCHANGED <<stage, inbox, req, owed, sent, answers, net, unheard>>
    BY <1>2, <1>14 DEF HostRest, HostCloses, EngineTypes
  <2>3. EngineTypes' /\ Given(h)'
    BY <1>1, <1>2, <2>2 DEF EngineTypes, Given
  <2>4. WalkInv'
    BY <1>2, <2>1, WalkBeside
  <2> QED BY <1>2, <2>1, <2>3, <2>4, FilesKept DEF GnsInv
<1>15. CASE NetworkInformation \/ NetworkInformationDone
  <2>1. /\ fails' \in {fails, fails + 1} /\ (fails' # fails => fails < MaxFails)
        /\ UNCHANGED <<pc, listening, scanVars, relayed, lost, torn, changes>> /\ UNCHANGED engineVars
    BY <1>15 DEF NetworkInformation, NetworkInformationDone, vars, scanVars
  <2>2. FilesAt'
    BY <1>2, <1>15 DEF FilesAt, ResolvWhole, NetworkInformation, NetworkInformationDone
  <2>3. WalkInv'
    BY <1>2, <2>1, WalkBeside
  <2> QED BY <1>1, <1>2, <2>1, <2>2, <2>3, EngineKept DEF GnsInv
<1>16. CASE UNCHANGED gnsVars
  BY <1>1, <1>2, <1>4, <1>16, EngineKept, FilesKept DEF GnsInv, gnsVars
<1> QED
  BY <1>5, <1>6, <1>7, <1>8, <1>9, <1>10, <1>11, <1>12, <1>13, <1>14, <1>15, <1>16,
     <1>17, <1>18 DEF GnsNext, Engine, Environment

(* Every request has its one answer, in the order of the requests, and     *)
(* resolv.conf is whole, for any number of requests of any kind, any       *)
(* failures and any interleaving with hvinit and the guest's programs; and *)
(* what the host forwards follows the tracker's walk beside them.          *)
THEOREM EngineAnswersEach == GnsSpec => [](GnsSafe /\ RelayMatchesSnapshot)
<1>1. GnsInit => GnsInv
  <2> SUFFICES ASSUME GnsInit PROVE GnsInv
    OBVIOUS
  <2>1. WalkInv
    BY InitWalk DEF GnsInit
  <2>2. /\ stage = "idle" /\ inbox = <<>> /\ partial = FALSE /\ closed = FALSE /\ req = 0 /\ sent = 0
        /\ answers = <<>> /\ unheard = {} /\ resolv = "user" /\ dnsFile = "no" /\ tmpFile = FALSE
        /\ generate \in BOOLEAN
        /\ net = [dflt |-> "lo0", addr |-> {}, up |-> {}, dev |-> Ifaces, map |-> {}, pass |-> {}, flags |-> {}]
    BY DEF GnsInit
  <2>3. net \in Nets
    BY <2>2 DEF Nets, Ifaces
  <2>4. EngineTypes
    <3>1. 0 \in 0..MaxRequests /\ 0 \in Nat
      BY GnsAssumption
    <3>2. <<>> \in Seq(Nat) /\ <<>> \in Seq([seq : Nat, type : AnswerTypes])
      OBVIOUS
    <3> QED BY <2>2, <2>3, <3>1, <3>2 DEF EngineTypes
  <2>5. Given(0)
    BY <2>2 DEF Given
  <2>6. FilesAt
    BY <2>2 DEF FilesAt, ResolvWhole
  <2> QED BY <2>1, <2>4, <2>5, <2>6 DEF GnsInv
<1>2. GnsInv => GnsSafe /\ RelayMatchesSnapshot
  <2> SUFFICES ASSUME GnsInv PROVE GnsSafe /\ RelayMatchesSnapshot
    OBVIOUS
  <2>1. PICK h \in Nat : Given(h)
    BY DEF GnsInv
  <2>2. WalkInv /\ EngineTypes /\ FilesAt
    BY DEF GnsInv
  <2>3. /\ DOMAIN answers = 1..Len(answers) /\ DOMAIN inbox = 1..Len(inbox) /\ Len(inbox) \in Nat
        /\ sent = h + Len(inbox) /\ sent \in Nat
    BY <2>1, <2>2 DEF EngineTypes, Given
  <2>4. \A s \in 1..h : s \in 1..sent
    BY <2>3
  <2>5. GnsTypeOK
    BY <2>1, <2>2, <2>4 DEF GnsTypeOK, EngineTypes, FilesAt, Given, Nets
  <2>6. \A s : s \in Answered <=> \E i \in 1..Len(answers) : answers[i].seq = s
    BY <2>3 DEF Answered
  <2>7. 1..sent = Answered \cup unheard \cup {inbox[i] : i \in DOMAIN inbox} \cup ({req} \ {0})
    <3>1. ASSUME NEW s \in 1..sent
          PROVE  s \in Answered \cup unheard \cup {inbox[i] : i \in DOMAIN inbox} \cup ({req} \ {0})
      <4>1. CASE s \in 1..h
        BY <2>1, <2>6, <4>1 DEF Given
      <4>2. CASE s \notin 1..h
        <5>1. s - h \in 1..Len(inbox) /\ h + (s - h) = s
          BY <2>3, <4>2
        <5>2. inbox[s - h] = s
          BY <2>1, <5>1 DEF Given
        <5> QED BY <2>3, <5>1, <5>2
      <4> QED BY <4>1, <4>2
    <3>2. ASSUME NEW s \in Answered \cup unheard \cup ({req} \ {0})
          PROVE  s \in 1..sent
      <4>1. req = 0 \/ req \in 1..h
        BY <2>1, <2>2 DEF Given, EngineTypes
      <4>2. s \in 1..h
        BY <2>1, <2>6, <4>1 DEF Given
      <4> QED BY <2>4, <4>2
    <3>3. ASSUME NEW i \in DOMAIN inbox
          PROVE  inbox[i] \in 1..sent
      <4>1. i \in 1..Len(inbox) /\ inbox[i] = h + i
        BY <2>1, <2>3 DEF Given
      <4> QED BY <2>3, <4>1
    <3> QED BY <3>1, <3>2, <3>3
  <2>8. Answered \cap unheard = {}
    BY <2>1, <2>6 DEF Given
  <2>9. \A i, j \in DOMAIN answers : i < j => answers[i].seq < answers[j].seq
    BY <2>1, <2>3 DEF Given
  <2> QED BY <2>2, <2>5, <2>7, <2>8, <2>9 DEF GnsSafe, OneAnswerEach, FilesAt, WalkInv
<1> QED BY <1>1, <1>2, GnsStep, PTL DEF GnsSpec

=============================================================================
