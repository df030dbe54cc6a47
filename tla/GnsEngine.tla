----------------------------- MODULE GnsEngine -----------------------------
(***************************************************************************)
(* gns_engine.h: the guest network service.  A process of its own reads    *)
(* the host's requests from the GNS channel one at a time, runs the        *)
(* handler and answers; when the channel is quiet for a second it scans    *)
(* the guest's ports (PortTracker, which this module extends: the two      *)
(* share the process and the channel).  Meanwhile hvinit, another          *)
(* process, answers NetworkInformation on the init channel, and both       *)
(* write resolv.conf.  hvinit may stop the engine at any point, which      *)
(* leaves everything as it is: what holds in every state holds then too.   *)
(*                                                                         *)
(* A request is its type and what its JSON text says as far as a handler   *)
(* branches on it; "none" is a request without content.  The guest's       *)
(* network configuration is the record net; a shell command succeeds or    *)
(* leaves net as it was.  MTUs, MAC addresses and the routes other than    *)
(* the default one are not represented.                                    *)
(***************************************************************************)
EXTENDS PortTracker, Integers, Sequences

CONSTANTS
    MaxRequests,  \* requests the host sends
    Requests,     \* what each of them may be: a set of AllRequests
    MaxWrites     \* NetworkInformation messages hvinit handles

VARIABLES
    stage,     \* "idle", "payload", "dns" (resolv.conf open), "reply" or
               \* "hung" (a command that does not come back)
    inbox,     \* sequence numbers of the requests in the channel
    partial,   \* the last of them has not arrived in full
    closed,    \* the host closed the channel
    req,       \* sequence number of the request in hand, or 0
    owed,      \* the answer to it: [type, code]
    sent,      \* requests sent so far
    answers,   \* answers the host has read: [seq, type] (history)
    net,       \* the guest's network configuration
    resolv,    \* resolv.conf: "user", "ni", "dns", "part" (being written) or
               \* "short" (left so by a failing write)
    dnsFile,   \* the engine's open file: "no", "linked" or "unlinked"
    tmpFile,   \* hvinit's resolv.conf.tmp is open
    writes,    \* NetworkInformation messages handled
    generate,  \* g_generate_resolvconf
    unheard    \* requests skipped, or whose answer could not be sent (history)

engineVars == <<stage, inbox, partial, closed, req, owed, sent, answers, net, unheard>>
fileVars == <<resolv, dnsFile, tmpFile, writes, generate>>
gnsVars == <<vars, engineVars, fileVars>>

Ifaces == {"lo0", "nic"}
MapPorts == 1..2
Flags == {"route", "loopback", "forwarding", "ipv6", "global", "iface"}
Outcome(n, c) == [net |-> n, code |-> c]

(* What a shell command may leave behind: its effect, or nothing. *)
Run(n, done) == {Outcome(n, 0), Outcome(done, 0)}

GnsInit ==
    /\ Init
    /\ stage = "idle" /\ inbox = <<>> /\ partial = FALSE /\ closed = FALSE
    /\ req = 0 /\ owed = <<>> /\ sent = 0 /\ answers = <<>> /\ unheard = {}
    /\ net = [dflt |-> "lo0", addr |-> {}, up |-> {}, dev |-> Ifaces,
              map |-> {}, pass |-> {}, flags |-> {}]
    /\ resolv = "user" /\ dnsFile = "no" /\ tmpFile = FALSE /\ writes = 0
    /\ generate \in BOOLEAN

-----------------------------------------------------------------------------
(*                              The handlers                               *)
(* Each is the set of outcomes its request may have.                       *)

(* What is found in the content.  An HNSEndpoint names the interface and   *)
(* gives address and gateway as strings ("endpoint") or as arrays          *)
(* ("arrays", which gns_json_get_subobject does not accept, as they do not *)
(* start with a brace), or gives no name ("nameless"); "lines" is the      *)
(* key=value form without "up".                                            *)
Endpoint(a) ==
    [named |-> a # "nameless", addr |-> a # "arrays", gateway |-> a # "arrays",
     up |-> a # "lines"]

(* The address, the interface's state and the default route; only the      *)
(* address command counts for the result.  ok says which commands work.    *)
InterfaceConfiguration(n, a) ==
    IF a = "none" THEN {Outcome(n, -1)}
    ELSE LET e == Endpoint(a)
         IN {Outcome([n EXCEPT
                        !.addr = IF e.named /\ e.addr /\ ok.addr THEN @ \cup {"nic"} ELSE @,
                        !.up = IF e.named /\ e.up THEN @ \cup {"nic"} ELSE @,
                        !.flags = CASE ~e.gateway -> @
                                    [] ok.route -> @ \cup {"route"}
                                    [] OTHER -> @ \ {"route"}],
                     IF e.named /\ e.addr /\ ~ok.addr THEN -1 ELSE 0)
                : ok \in [addr : BOOLEAN, route : BOOLEAN]}

(* An update deletes the default route whichever route it is about. *)
RouteChange(n, a) ==
    CASE a \in {"Reset", "Remove", "UpdateOther"} ->
            Run(n, [n EXCEPT !.flags = @ \ {"route"}])
      [] a = "Add" -> Run(n, [n EXCEPT !.flags = @ \cup {"route"}])
      [] a = "Update" -> Run(n, [n EXCEPT !.flags = @ \cup {"route"}])
                            \cup {Outcome([n EXCEPT !.flags = @ \ {"route"}], 0)}
      [] OTHER -> {Outcome(n, 0)}   \* no next hop

IpChange(n, iface, a) ==
    Run(n, [n EXCEPT !.addr = IF a = "Remove" THEN @ \ {iface} ELSE @ \cup {iface}])

LinkChange(n, iface, a) ==
    Run(n, [n EXCEPT !.up = IF a = "Down" THEN @ \ {iface} ELSE @ \cup {iface}])

(* The link-level address is not represented. *)
MacChange(n) == {Outcome(n, 0)}

(* gns_handle_notification: the resource, then the request.  DNS is apart, *)
(* for it writes a file (DnsOpen).                                         *)
Notification(n, m) ==
    LET iface == IF m.target = "" THEN n.dflt ELSE m.target
    IN CASE m.arg = "none" -> {Outcome(n, -1)}   \* no Settings
         [] m.resource = "Route" -> RouteChange(n, m.arg)
         [] m.resource = "IPAddress" -> IpChange(n, iface, m.arg)
         [] m.resource = "Interface" -> LinkChange(n, iface, m.arg)
         [] m.resource = "MacAddress" -> MacChange(n)
         [] OTHER -> {Outcome(n, 0)}   \* DNS Remove, no resolv.conf wanted, unknown

(* pfctl -f replaces the anchor's rules (-Fr before it flushes filter      *)
(* rules, not redirections), and a removal loads the rule an addition      *)
(* does.                                                                   *)
PortMapping(n, a, p) ==
    IF a = "none" THEN {Outcome(n, -1)} ELSE Run(n, [n EXCEPT !.map = {p}])

SetPortListener(n, a, p) ==
    IF a = "none" THEN {Outcome(n, -1)} ELSE Run(n, [n EXCEPT !.pass = {p}])

ListenerRelay(n, a) == {Outcome(n, IF a = "none" THEN -1 ELSE 0)}

CreateDevice(n, a) ==
    IF a = "none" THEN {Outcome(n, -1)} ELSE Run(n, [n EXCEPT !.dev = @ \cup {a}])

ModifyDeviceSetting(n, a) == {Outcome(n, IF a = "none" THEN -1 ELSE 0)}

DeviceSetting(n, a) == {Outcome(n, IF a = "none" THEN -1 ELSE 0)}

LoopbackRoutes(n, a) ==
    CASE a = "none" -> {Outcome(n, -1)}
      [] a = "remove" -> Run(n, [n EXCEPT !.flags = @ \ {"loopback"}])
      [] OTHER -> Run(n, [n EXCEPT !.flags = @ \cup {"loopback"}])

IfStateChange(n, a) ==
    CASE a = "none" -> {Outcome(n, -1)}
      [] a = "down" -> Run(n, [n EXCEPT !.up = @ \ {"nic"}])
      [] OTHER -> Run(n, [n EXCEPT !.up = @ \cup {"nic"}])

(* The firewall rules: a flush empties the anchor; "remove" and "add" both *)
(* load a rule into it.                                                    *)
NetFilter(n, anchor, a) ==
    CASE a = "none" -> {Outcome(n, -1)}
      [] a = "flush" -> Run(n, [n EXCEPT !.flags = @ \ {anchor}])
      [] OTHER -> Run(n, [n EXCEPT !.flags = @ \cup {anchor}])
GlobalNetFilter(n, a) == NetFilter(n, "global", a)
InterfaceNetFilter(n, a) == NetFilter(n, "iface", a)

(* SetupIpv6: nothing without an IPv6 stack; success in any case. *)
SetupIpv6(n) == Run(n, [n EXCEPT !.flags = @ \cup {"ipv6"}])

(* The probe connects or not; with no content it succeeds. *)
ConnectTest(n, a) ==
    {Outcome(n, 0)} \cup (IF a = "none" THEN {} ELSE {Outcome(n, -1)})

(* A named NIC becomes the default interface and forwarding is turned on. *)
VmNicCreated(n, a) ==
    IF a = "none" THEN {Outcome(n, 0)}
    ELSE Run([n EXCEPT !.dflt = a],
             [n EXCEPT !.dflt = a, !.flags = @ \cup {"forwarding"}])

(* The switch of gns_engine_loop. *)
Handle(n, m) ==
    CASE m.type = "InterfaceConfiguration" -> InterfaceConfiguration(n, m.arg)
      [] m.type = "Notification" -> Notification(n, m)
      [] m.type = "ConnectTestRequest" -> ConnectTest(n, m.arg)
      [] m.type = "SetupIpv6" -> SetupIpv6(n)
      [] m.type = "VmNicCreatedNotification" -> VmNicCreated(n, m.arg)
      [] m.type = "PortMappingRequest" -> PortMapping(n, m.arg, m.port)
      [] m.type = "SetPortListener" -> SetPortListener(n, m.arg, m.port)
      [] m.type = "ListenerRelay" -> ListenerRelay(n, m.arg)
      [] m.type = "CreateDeviceRequest" -> CreateDevice(n, m.arg)
      [] m.type = "ModifyGuestDeviceSettingRequest" -> ModifyDeviceSetting(n, m.arg)
      [] m.type = "LoopbackRoutesRequest" -> LoopbackRoutes(n, m.arg)
      [] m.type = "DeviceSettingRequest" -> DeviceSetting(n, m.arg)
      [] m.type = "IfStateChangeRequest" -> IfStateChange(n, m.arg)
      [] m.type = "GlobalNetFilter" -> GlobalNetFilter(n, m.arg)
      [] m.type = "InterfaceNetFilter" -> InterfaceNetFilter(n, m.arg)
      [] OTHER -> {Outcome(n, 0)}   \* NoOp, initial IP configuration, unknown

(* The request types and what each carries, as far as the handlers tell    *)
(* them apart.                                                             *)
Req(types, args) ==
    [type : types, arg : args, resource : {""}, target : {""}, port : {0}]
Notify(resources, args, targets) ==
    [type : {"Notification"}, arg : args, resource : resources, target : targets, port : {0}]
PortReq(types, args) ==
    [type : types, arg : args, resource : {""}, target : {""}, port : MapPorts]

AllRequests ==
    UNION {
      Req({"InterfaceConfiguration"}, {"none", "endpoint", "arrays", "nameless", "lines"}),
      Notify({"Route"},
             {"none", "Add", "Update", "UpdateOther", "Remove", "Reset", "nohop"}, {""}),
      Notify({"IPAddress"}, {"none", "Add", "Update", "Remove"}, {"", "nic"}),
      Notify({"DNS"}, {"none", "Add", "Remove"}, {""}),
      Notify({"Interface"}, {"none", "Up", "Down"}, {"", "nic"}),
      Notify({"MacAddress", "unknown"}, {"Update"}, {""}),
      PortReq({"PortMappingRequest"}, {"none", "add", "remove"}),
      PortReq({"SetPortListener"}, {"none", "add"}),
      Req({"ConnectTestRequest", "ListenerRelay", "ModifyGuestDeviceSettingRequest",
           "DeviceSettingRequest"}, {"none", "json"}),
      Req({"VmNicCreatedNotification", "CreateDeviceRequest"}, {"none", "nic"}),
      Req({"LoopbackRoutesRequest"}, {"none", "add", "remove"}),
      Req({"IfStateChangeRequest"}, {"none", "up", "down"}),
      Req({"GlobalNetFilter", "InterfaceNetFilter"}, {"none", "flush", "remove", "add"}),
      Req({"NoOp", "InitialIpConfigurationNotification", "SetupIpv6", "other"},
          {"none"})}

ASSUME GnsAssumption ==
    /\ MaxRequests \in Nat /\ MaxWrites \in Nat
    /\ \A s \in 1..MaxRequests : Requests[s] \subseteq AllRequests

-----------------------------------------------------------------------------
(*                            gns_engine_loop                              *)

Running == pc = "poll"
Alive == pc # "exited"
At(s) == Running /\ stage = s

(* The head of the inbox has arrived in full. *)
Complete == Len(inbox) > 1 \/ ~partial

(* poll() finds input, the header is read; a size below the header's own   *)
(* is skipped without an answer.                                           *)
RecvHeader ==
    /\ At("idle") /\ inbox # <<>>
    /\ stage' = "payload"
    /\ UNCHANGED <<vars, inbox, partial, closed, req, owed, sent, answers, net, unheard,
                   fileVars>>

SkipShort ==
    /\ At("payload") /\ Complete
    /\ inbox' = Tail(inbox) /\ unheard' = unheard \cup {Head(inbox)}
    /\ stage' = "idle"
    /\ UNCHANGED <<vars, partial, closed, req, owed, sent, answers, net, fileVars>>

(* The rest of a message does not come for five seconds, or memory for it  *)
(* is missing, or the channel is closed: the engine leaves its loop.       *)
RecvFails ==
    /\ \/ At("payload") /\ ~Complete /\ UNCHANGED fails
       \/ At("payload") /\ Complete /\ fails < MaxFails /\ fails' = fails + 1
       \/ At("idle") /\ closed /\ inbox = <<>> /\ UNCHANGED fails
    /\ pc' = "exited"
    /\ UNCHANGED <<listening, scanVars, relayed, lost, torn, changes, engineVars, fileVars>>

WritesDns(r) == r.type = "Notification" /\ r.resource = "DNS" /\ r.arg = "Add" /\ generate

(* The type of the answer: a Result but for one request. *)
AnswerType(r) ==
    IF r.type = "IfStateChangeRequest" /\ r.arg # "none" THEN "IfStateChangeResponse"
    ELSE "Result"

(* Slip: a request without content is dropped. *)
RunHandler_NoAnswer(r) ==
    /\ At("payload") /\ Complete /\ ~WritesDns(r)
    /\ inbox' = Tail(inbox) /\ req' = Head(inbox)
    /\ \E o \in Handle(net, r) :
        /\ net' = o.net
        /\ owed' = [type |-> AnswerType(r), code |-> o.code]
        /\ stage' = IF o.code = -1 THEN "idle" ELSE "reply"
    /\ UNCHANGED <<vars, partial, closed, sent, answers, unheard, fileVars>>

(* The message r is read and its handler runs to its end, but for the DNS  *)
(* change that writes the file.  What a message says is chosen when it is  *)
(* read: nothing depends on it before.                                     *)
RunHandler(r) ==
    /\ At("payload") /\ Complete /\ ~WritesDns(r)
    /\ inbox' = Tail(inbox) /\ req' = Head(inbox)
    /\ \E o \in Handle(net, r) :
        /\ net' = o.net
        /\ owed' = [type |-> AnswerType(r), code |-> o.code]
    /\ stage' = "reply"
    /\ UNCHANGED <<vars, partial, closed, sent, answers, unheard, fileVars>>

(* system() has no time limit: a handler whose command hangs never ends.   *)
CommandHangs(r) ==
    /\ At("payload") /\ Complete /\ \E o \in Handle(net, r) : o.net # net
    /\ stage' = "hung"
    /\ UNCHANGED <<vars, inbox, partial, closed, req, owed, sent, answers, net, unheard,
                   fileVars>>

(* gns_apply_dns_change opens resolv.conf itself, which empties it, and    *)
(* writes it line by line; if it cannot be opened, the answer is the same. *)
DnsOpen(r) ==
    /\ At("payload") /\ Complete /\ WritesDns(r)
    /\ inbox' = Tail(inbox) /\ req' = Head(inbox)
    /\ owed' = [type |-> "Result", code |-> 0]
    /\ \/ /\ resolv' = "part" /\ dnsFile' = "linked" /\ stage' = "dns"
          /\ UNCHANGED fails
       \/ /\ fails < MaxFails /\ fails' = fails + 1 /\ stage' = "reply"
          /\ UNCHANGED <<resolv, dnsFile>>
    /\ UNCHANGED <<pc, listening, scanVars, relayed, lost, torn, changes, partial, closed,
                   sent, answers, net, unheard, tmpFile, writes, generate>>

(* Nobody looks at what the writes returned: the file may stay short. *)
DnsClose ==
    /\ At("dns")
    /\ \/ /\ resolv' = IF dnsFile = "linked" THEN "dns" ELSE resolv
          /\ UNCHANGED fails
       \/ /\ fails < MaxFails /\ fails' = fails + 1
          /\ resolv' = IF dnsFile = "linked" THEN "short" ELSE resolv
    /\ dnsFile' = "no" /\ stage' = "reply"
    /\ UNCHANGED <<pc, listening, scanVars, relayed, lost, torn, changes, inbox, partial,
                   closed, req, owed, sent, answers, net, unheard, tmpFile, writes, generate>>

(* gns_send_result.  A send that fails after five seconds, before or in    *)
(* the middle of the message, is not noticed: the engine goes on.          *)
SendResult ==
    /\ At("reply")
    /\ \/ /\ ~torn /\ answers' = Append(answers, [seq |-> req, type |-> owed.type])
          /\ UNCHANGED <<fails, torn, unheard>>
       \/ /\ torn /\ unheard' = unheard \cup {req} /\ UNCHANGED <<fails, torn, answers>>
       \/ /\ fails < MaxFails /\ fails' = fails + 1 /\ torn' \in {torn, TRUE}
          /\ unheard' = unheard \cup {req} /\ UNCHANGED answers
    /\ stage' = "idle" /\ req' = 0 /\ owed' = <<>>
    /\ UNCHANGED <<pc, listening, scanVars, relayed, lost, changes, inbox, partial, closed,
                   sent, net, fileVars>>

(* A message for a host that has closed the channel: SIGPIPE ends the      *)
(* engine.                                                                 *)
HostGone ==
    /\ closed
    /\ \/ SigPipe
       \/ At("reply") /\ pc' = "exited" /\ UNCHANGED <<listening, scanVars, relayed, lost, torn,
                                                        changes, fails>>
    /\ UNCHANGED <<engineVars, fileVars>>

(* The tracker's steps: a scan starts when poll() has timed out. *)
Scan ==
    /\ stage = "idle"
    /\ \/ StartScan /\ inbox = <<>> /\ ~closed
       \/ Scan4 \/ Scan6 \/ ScanFail \/ Walk \/ Swap
    /\ UNCHANGED <<engineVars, fileVars>>

Engine ==
    \/ RecvHeader \/ SkipShort \/ RecvFails
    \/ inbox # <<>> /\ \E r \in Requests[Head(inbox)] :
                         RunHandler(r) \/ CommandHangs(r) \/ DnsOpen(r)
    \/ DnsClose \/ SendResult \/ HostGone \/ Scan

-----------------------------------------------------------------------------
(*                    The host, hvinit and the guest's programs            *)

(* A request arrives, all of it or its first bytes. *)
HostSends(part) ==
    /\ Alive /\ sent < MaxRequests /\ ~closed /\ ~partial
    /\ sent' = sent + 1 /\ partial' = part
    /\ inbox' = Append(inbox, sent + 1)
    /\ UNCHANGED <<vars, stage, closed, req, owed, answers, net, unheard, fileVars>>

HostRest ==
    /\ Alive /\ partial /\ ~closed /\ partial' = FALSE
    /\ UNCHANGED <<vars, stage, inbox, closed, req, owed, sent, answers, net, unheard, fileVars>>

HostCloses ==
    /\ Alive /\ ~closed /\ closed' = TRUE /\ torn' = TRUE
    /\ UNCHANGED <<pc, listening, scanVars, relayed, lost, changes, fails, stage, inbox,
                   partial, req, owed, sent, answers, net, unheard, fileVars>>

(* hvinit's gns_handle_network_information, in two steps: the temporary    *)
(* file is written, then renamed over resolv.conf or removed.  Only what   *)
(* fclose returns is looked at, so an earlier failing write goes unseen.   *)
NetworkInformation ==
    /\ generate /\ ~tmpFile /\ writes < MaxWrites
    /\ tmpFile' = TRUE /\ writes' = writes + 1
    /\ UNCHANGED <<vars, engineVars, resolv, dnsFile, generate>>

NetworkInformationDone ==
    /\ tmpFile /\ tmpFile' = FALSE
    /\ \/ /\ \/ resolv' = "ni" /\ UNCHANGED fails
             \/ fails < MaxFails /\ fails' = fails + 1 /\ resolv' = "short"
          /\ dnsFile' = IF dnsFile = "linked" THEN "unlinked" ELSE dnsFile
       \/ UNCHANGED <<fails, resolv, dnsFile>>
    /\ UNCHANGED <<pc, listening, scanVars, relayed, lost, torn, changes, engineVars, writes,
                   generate>>

Environment ==
    \/ \E part \in BOOLEAN : HostSends(part)
    \/ HostRest \/ HostCloses
    \/ NetworkInformation \/ NetworkInformationDone
    \/ \E p \in Ports : Alive /\ Change(p) /\ UNCHANGED <<engineVars, fileVars>>

GnsNext == Engine \/ Environment

GnsSpec == GnsInit /\ [][GnsNext]_gnsVars

(* The engine runs: its reads and writes give up after five seconds, and a *)
(* command that hangs is a state of its own.  The host's MaxRequests leave *)
(* it an idle second in the end, without which it never scans.             *)
GnsFairSpec == GnsSpec /\ WF_gnsVars(Engine)

-----------------------------------------------------------------------------
(*                                Properties                               *)

(* The values the engine's state ranges over. *)
GnsTypeOK ==
    /\ stage \in {"idle", "payload", "dns", "reply", "hung"}
    /\ partial \in BOOLEAN /\ closed \in BOOLEAN /\ generate \in BOOLEAN
    /\ tmpFile \in BOOLEAN /\ dnsFile \in {"no", "linked", "unlinked"}
    /\ resolv \in {"user", "part", "ni", "dns", "short"}
    /\ net \in [dflt : Ifaces, addr : SUBSET Ifaces, up : SUBSET Ifaces, dev : SUBSET Ifaces,
                map : SUBSET MapPorts, pass : SUBSET MapPorts, flags : SUBSET Flags]
    /\ sent \in 0..MaxRequests /\ unheard \subseteq 1..sent

Answered == {answers[i].seq : i \in DOMAIN answers}

(* The host reads one answer for each request, in the order it sent them,  *)
(* whatever the request is and whether or not its handler could use it:    *)
(* every request is still in the channel, in hand, answered once, or one   *)
(* of those skipped for their size or whose answer could not be sent whole *)
(* on a channel the host still follows.                                    *)
OneAnswerEach ==
    /\ \A i, j \in DOMAIN answers : i < j => answers[i].seq < answers[j].seq
    /\ Answered \cap unheard = {}
    /\ 1..sent = Answered \cup unheard
                 \cup {inbox[i] : i \in DOMAIN inbox} \cup ({req} \ {0})

(* A program that reads resolv.conf finds a whole file, unless a write of  *)
(* it failed, or the engine has it open for a DNS change or died with it   *)
(* open; hvinit's rename over it in the meantime leaves hvinit's file as   *)
(* it is.  With generateResolvConf off neither process touches it.         *)
ResolvWhole ==
    /\ resolv = "part" => dnsFile = "linked"
    /\ ~generate => resolv = "user"

(* A request the host has sent is answered in the end, or the engine       *)
(* leaves its loop or hangs in a command: a message cut short, a quiet     *)
(* channel or a failing command does not hold it up for ever.              *)
RequestsAnswered ==
    \A s \in 1..MaxRequests :
        (sent >= s) ~> (pc = "exited" \/ stage = "hung" \/ s \in Answered \cup unheard)

(* The one loop of gns_engine_loop gets through with both of its duties    *)
(* once the host sends no more: until then its requests may keep the       *)
(* engine from every scan.                                                 *)
GnsLive == (Converges \/ <>(stage = "hung")) /\ RequestsAnswered

(* What the engine promises in every state: one answer for each request,   *)
(* in order, and a resolv.conf that is whole.                              *)
GnsSafe == GnsTypeOK /\ TypeOK /\ OneAnswerEach /\ ResolvWhole
=============================================================================
