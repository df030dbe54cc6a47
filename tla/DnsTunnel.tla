----------------------------- MODULE DnsTunnel -----------------------------
(***************************************************************************)
(* dns_tunneling.h: the guest's DNS relay.                                 *)
(*                                                                         *)
(* One poll loop (dns_tunnel_run) over a UDP socket, a TCP listener, the   *)
(* channel to the host and the accepted TCP connections.  Every query goes *)
(* to the host under a client identifier taken from a counter; the host's  *)
(* answer carries the identifier back and is routed through udp_map or     *)
(* tcp_conns.  The clients, the host and the clock run concurrently with   *)
(* the loop.                                                               *)
(*                                                                         *)
(* UDP query number q comes from the socket address q, so that "who asked" *)
(* is the query itself.  A TCP query is named by the connection it came    *)
(* on.  The kernel's queues are sets: nothing here depends on the order    *)
(* in which they are read.  A TCP query is one complete frame.             *)
(***************************************************************************)
EXTENDS Naturals, FiniteSets

CONSTANTS
    UdpSlots,    \* entries of udp_map (64)
    TcpSlots,    \* DNS_MAX_TCP_CONNS (32)
    IdMod,       \* DnsClientId is a uint32_t: 2^32
    MaxQueries,  \* datagrams the UDP clients send
    MaxConns,    \* TCP connections the clients open
    MaxFrames,   \* queries sent on one TCP connection
    MaxAnswers   \* messages the host sends

(* The counters do not wrap within a behaviour. *)
ASSUME TunnelAssumption ==
    /\ UdpSlots \in Nat /\ TcpSlots \in Nat /\ IdMod \in Nat
    /\ MaxQueries \in Nat /\ MaxConns \in Nat
    /\ MaxFrames \in Nat /\ MaxAnswers \in Nat
    /\ MaxQueries < IdMod /\ MaxConns < IdMod

VARIABLES
    pc,           \* which fd of the pass is being served
    stopping,     \* t->stopping
    ready,        \* the reported ones of udp_fd, tcp_fd, channel_fd still to serve
    events,       \* the reported TCP connections: pfds[3..] with conn_map
    udp_map,      \* slot -> entry
    tcp_conns,    \* slot -> connection
    next_udp_id, next_tcp_id,
    queries,      \* datagrams sent so far
    udpq,         \* datagrams waiting in the UDP socket; 0 is an empty one
    conns,        \* TCP connections opened so far
    backlog,      \* connections waiting for accept
    frames,       \* connection -> complete queries waiting in its socket
    asked,        \* connection -> queries its client sent
    gone,         \* connections whose client has closed
    inbox,        \* messages from the host waiting in the channel
    answers,      \* messages the host sent so far
    chanOpen,     \* the host has its end of the channel open
    torn,         \* a message was cut short on the channel
    received,     \* requests the host has read (history)
    answered,     \* UDP queries replied to (history)
    repeated,     \* one of them was replied to again (history)
    misrouted     \* a reply went to a client that had not asked (history)

tableVars  == <<udp_map, tcp_conns, next_udp_id, next_tcp_id>>
clientVars == <<queries, conns, asked, gone>>
chanVars   == <<torn, received>>
hostVars   == <<answers, chanOpen>>
outVars    == <<answered, repeated, misrouted>>
vars == <<pc, stopping, ready, events, tableVars, udpq, backlog, frames, inbox,
          clientVars, chanVars, hostVars, outVars>>

-----------------------------------------------------------------------------

Slot  == 1..UdpSlots
TSlot == 1..TcpSlots
Conn  == 1..MaxConns

NoEntry == [used |-> FALSE, id |-> 0, client |-> 0, aged |-> FALSE]
NoConn  == [used |-> FALSE, id |-> 0, conn |-> 0]

Entry   == {NoEntry} \cup
           [used : {TRUE}, id : Nat, client : 1..MaxQueries, aged : BOOLEAN]
TcpConn == {NoConn} \cup [used : {TRUE}, id : Nat, conn : Conn]

(* What goes over the channel: the identifier and, for the record, who     *)
(* asked.  "other" is a message with an unknown protocol; a "bad" one      *)
(* fails a check of dns_channel_recv or does not arrive within its five    *)
(* seconds.                                                                *)
Message == [proto : {"udp", "tcp", "other", "bad"}, id : Nat, who : Nat]
Odd(k)  == [proto |-> k, id |-> 0, who |-> 0]

Init ==
    /\ pc = "poll" /\ stopping = FALSE /\ ready = {} /\ events = {}
    /\ udp_map = [s \in Slot |-> NoEntry] /\ tcp_conns = [s \in TSlot |-> NoConn]
    /\ next_udp_id = 0 /\ next_tcp_id = 0
    /\ queries = 0 /\ udpq = {} /\ conns = 0 /\ backlog = {}
    /\ frames = [c \in Conn |-> 0] /\ asked = [c \in Conn |-> 0] /\ gone = {}
    /\ inbox = {} /\ answers = 0 /\ chanOpen = TRUE
    /\ torn = FALSE /\ received = {}
    /\ answered = {} /\ repeated = FALSE /\ misrouted = FALSE

-----------------------------------------------------------------------------
(*                          Tables and the channel                         *)

FirstFree(table, slots, s) ==
    /\ s \in slots /\ ~table[s].used
    /\ \A r \in slots : r < s => table[r].used

Full(table, slots) == \A s \in slots : table[s].used

(* Slip: the counter is not advanced. *)
NextId_Stuck(n) == 1
NextId(n) == (n + 1) % IdMod

(* dns_udp_alloc: the first free slot, or none. *)
UdpAlloc(s, q) ==
    /\ FirstFree(udp_map, Slot, s)
    /\ next_udp_id' = NextId(next_udp_id)
    /\ udp_map' = [udp_map EXCEPT ![s] =
            [used |-> TRUE, id |-> NextId(next_udp_id), client |-> q, aged |-> FALSE]]

TcpAlloc(s, c) ==
    /\ FirstFree(tcp_conns, TSlot, s)
    /\ next_tcp_id' = NextId(next_tcp_id)
    /\ tcp_conns' = [tcp_conns EXCEPT ![s] =
            [used |-> TRUE, id |-> NextId(next_tcp_id), conn |-> c]]

(* dns_tcp_close; closing a slot a second time changes nothing. *)
TcpClose(s) == tcp_conns' = [tcp_conns EXCEPT ![s] = NoConn]

(* dns_channel_send: the whole message, after which the host can read it,  *)
(* unless an earlier one was cut short and everything behind it is out of  *)
(* step.                                                                   *)
ChannelSend(m) ==
    /\ chanOpen
    /\ received' = IF torn THEN received ELSE received \cup {m}
    /\ UNCHANGED torn

(* ... or it fails: nothing was written, or the host's window was closed   *)
(* for five seconds after a part of the message.                           *)
ChannelFail ==
    /\ \/ UNCHANGED torn
       \/ chanOpen /\ torn' = TRUE
    /\ UNCHANGED received

-----------------------------------------------------------------------------
(*                         One pass of dns_tunnel_run                      *)

(* Slip: the channel is served before the listener. *)
Follow_ChannelFirst(stage) ==
    CASE stage = "udp" -> "channel" [] stage = "channel" -> "accept"
      [] stage = "accept" -> "conns"

(* The order in which the pass looks at the fds. *)
Follow(stage) ==
    CASE stage = "udp" -> "accept" [] stage = "accept" -> "channel"
      [] stage = "channel" -> "conns"

ReadyFds ==
    (IF udpq # {} THEN {"udp"} ELSE {})
    \cup (IF backlog # {} THEN {"accept"} ELSE {})
    \cup (IF inbox # {} \/ ~chanOpen THEN {"channel"} ELSE {})

(* A connection is reported readable, and possibly hung up, when its       *)
(* client has closed it.                                                   *)
ReadyConns(hup) ==
    {[slot |-> s, conn |-> tcp_conns[s].conn,
      hup |-> hup /\ tcp_conns[s].conn \in gone] :
        s \in {r \in TSlot : /\ tcp_conns[r].used
                             /\ \/ frames[tcp_conns[r].conn] > 0
                                \/ tcp_conns[r].conn \in gone}}

PollReady ==
    /\ pc = "poll" /\ ~stopping
    /\ \E hup \in BOOLEAN : events' = ReadyConns(hup)
    /\ ready' = ReadyFds
    /\ ready' # {} \/ events' # {}
    /\ pc' = "udp"
    /\ UNCHANGED <<stopping, tableVars, udpq, backlog, frames, inbox, clientVars,
                   chanVars, hostVars, outVars>>

(* Slip: the table is not swept. *)
Expire_None == udp_map

(* The timed-out entries are dropped. *)
Expire == [s \in Slot |-> IF udp_map[s].used /\ udp_map[s].aged
                          THEN NoEntry ELSE udp_map[s]]

(* poll() times out: only then are the deadlines looked at. *)
PollTimeout ==
    /\ pc = "poll" /\ ~stopping
    /\ ReadyFds = {} /\ ReadyConns(FALSE) = {}
    /\ udp_map' = Expire
    /\ UNCHANGED <<pc, stopping, ready, events, tcp_conns, next_udp_id, next_tcp_id,
                   udpq, backlog, frames, inbox, clientVars, chanVars, hostVars, outVars>>

(* A handler is done, or its fd was not reported. *)
NextStage ==
    /\ pc \in {"udp", "accept", "channel"}
    /\ \/ pc \notin ready
       \/ pc = "udp" /\ udpq = {}
       \/ pc = "accept" /\ backlog = {}
    /\ pc' = Follow(pc) /\ ready' = ready \ {pc}
    /\ UNCHANGED <<stopping, events, tableVars, udpq, backlog, frames, inbox,
                   clientVars, chanVars, hostVars, outVars>>

(* dns_handle_udp_readable: one datagram of its loop, which goes on until  *)
(* the socket is empty ...                                                 *)
UdpForward ==
    /\ pc = "udp" /\ pc \in ready
    /\ \E q \in udpq \ {0}, s \in Slot :
        /\ UdpAlloc(s, q)
        /\ ChannelSend([proto |-> "udp", id |-> NextId(next_udp_id), who |-> q])
        /\ udpq' = udpq \ {q}
    /\ UNCHANGED <<pc, stopping, ready, events, tcp_conns, next_tcp_id, backlog, frames,
                   inbox, clientVars, hostVars, outVars>>

(* ... or an empty datagram, a full table or a failed send ends it.  The   *)
(* identifier of a failed send is used up, its entry freed.                *)
UdpBreak ==
    /\ pc = "udp" /\ pc \in ready
    /\ pc' = Follow(pc) /\ ready' = ready \ {pc}
    /\ \E q \in udpq :
        /\ udpq' = udpq \ {q}
        /\ \/ /\ q = 0
              /\ UNCHANGED <<next_udp_id, chanVars>>
           \/ /\ q # 0 /\ Full(udp_map, Slot)
              /\ UNCHANGED <<next_udp_id, chanVars>>
           \/ /\ q # 0 /\ ~Full(udp_map, Slot)
              /\ next_udp_id' = NextId(next_udp_id)
              /\ ChannelFail
    /\ UNCHANGED <<stopping, events, udp_map, tcp_conns, next_tcp_id, backlog, frames,
                   inbox, clientVars, hostVars, outVars>>

(* dns_handle_tcp_accept: each waiting connection gets a slot or is closed. *)
Accept ==
    /\ pc = "accept" /\ pc \in ready
    /\ \E c \in backlog :
        /\ backlog' = backlog \ {c}
        /\ \/ \E s \in TSlot : TcpAlloc(s, c)
           \/ Full(tcp_conns, TSlot) /\ UNCHANGED <<tcp_conns, next_tcp_id>>
    /\ UNCHANGED <<pc, stopping, ready, events, udp_map, next_udp_id, udpq, frames,
                   inbox, clientVars, chanVars, hostVars, outVars>>

-----------------------------------------------------------------------------
(*                   dns_handle_channel_readable, dns_route_response       *)

(* The channel hung up, or the message could not be read.  The pass goes   *)
(* on with the TCP connections before the loop is left.                    *)
ChannelStop ==
    /\ pc = "channel" /\ pc \in ready
    /\ \/ ~chanOpen /\ UNCHANGED inbox
       \/ \E m \in inbox : m.proto = "bad" /\ inbox' = inbox \ {m}
    /\ stopping' = TRUE
    /\ pc' = Follow(pc) /\ ready' = ready \ {pc}
    /\ UNCHANGED <<events, tableVars, udpq, backlog, frames, clientVars,
                   chanVars, hostVars, outVars>>

ChannelTake(m) ==
    /\ pc = "channel" /\ pc \in ready
    /\ m \in inbox /\ inbox' = inbox \ {m}
    /\ pc' = Follow(pc) /\ ready' = ready \ {pc}
    /\ UNCHANGED <<stopping, events, next_udp_id, next_tcp_id, udpq, backlog,
                   frames, clientVars, chanVars, hostVars>>

(* Slip: the entry stays after its answer. *)
UdpFree_Kept(s) == udp_map' = udp_map

UdpFree(s) == udp_map' = [udp_map EXCEPT ![s] = NoEntry]

(* A UDP answer goes to the entry's client and frees the entry. *)
RouteUdp(m, s) ==
    /\ ChannelTake(m) /\ m.proto = "udp"
    /\ udp_map[s].used /\ udp_map[s].id = m.id
    /\ answered' = answered \cup {m.who}
    /\ repeated' = (repeated \/ m.who \in answered)
    /\ misrouted' = (misrouted \/ m.who # udp_map[s].client)
    /\ UdpFree(s)
    /\ UNCHANGED tcp_conns

(* A TCP answer goes to the connection, which is closed if that fails. *)
RouteTcp(m, s) ==
    /\ ChannelTake(m) /\ m.proto = "tcp"
    /\ tcp_conns[s].used /\ tcp_conns[s].id = m.id
    /\ \/ /\ misrouted' = (misrouted \/ m.who # tcp_conns[s].conn)
          /\ UNCHANGED tcp_conns
       \/ TcpClose(s) /\ UNCHANGED misrouted
    /\ UNCHANGED <<udp_map, answered, repeated>>

(* No such client any more, or an unknown protocol. *)
RouteNowhere(m) ==
    /\ ChannelTake(m) /\ m.proto # "bad"
    /\ m.proto = "udp" => \A s \in Slot : ~(udp_map[s].used /\ udp_map[s].id = m.id)
    /\ m.proto = "tcp" => \A s \in TSlot : ~(tcp_conns[s].used /\ tcp_conns[s].id = m.id)
    /\ UNCHANGED <<udp_map, tcp_conns, outVars>>

-----------------------------------------------------------------------------
(*                             TCP connections                             *)

(* The next reported connection, in table order. *)
Current(e) == e \in events /\ \A f \in events : e.slot <= f.slot

ConnDone(e) ==
    /\ pc = "conns" /\ Current(e)
    /\ events' = events \ {e}
    /\ UNCHANGED <<pc, stopping, ready, udp_map, next_udp_id, next_tcp_id, udpq,
                   backlog, frames, inbox, clientVars, hostVars, outVars>>

(* POLLHUP, end of stream, a failed send, or a slot closed earlier in the  *)
(* pass (its fd is -1): the slot is closed.                                *)
ConnClose(e) ==
    /\ ConnDone(e)
    /\ \/ /\ \/ e.hup
             \/ ~tcp_conns[e.slot].used
             \/ /\ tcp_conns[e.slot].used
                /\ frames[tcp_conns[e.slot].conn] = 0
                /\ tcp_conns[e.slot].conn \in gone
          /\ UNCHANGED chanVars
       \/ ~e.hup /\ tcp_conns[e.slot].used
          /\ frames[tcp_conns[e.slot].conn] > 0 /\ ChannelFail
    /\ TcpClose(e.slot)

(* dns_handle_tcp_readable: forward one query ... *)
ConnForward(e) ==
    /\ pc = "conns" /\ Current(e) /\ ~e.hup
    /\ tcp_conns[e.slot].used
    /\ LET c == tcp_conns[e.slot].conn IN
        /\ frames[c] > 0
        /\ frames' = [frames EXCEPT ![c] = @ - 1]
        /\ ChannelSend([proto |-> "tcp", id |-> tcp_conns[e.slot].id, who |-> c])
    /\ UNCHANGED <<pc, stopping, ready, events, tableVars, udpq, backlog, inbox,
                   clientVars, hostVars, outVars>>

(* ... until nothing is left to read. *)
ConnIdle(e) ==
    /\ ConnDone(e) /\ ~e.hup
    /\ tcp_conns[e.slot].used
    /\ frames[tcp_conns[e.slot].conn] = 0 /\ tcp_conns[e.slot].conn \notin gone
    /\ UNCHANGED <<tcp_conns, chanVars>>

PassDone ==
    /\ pc = "conns" /\ events = {}
    /\ pc' = "poll"
    /\ UNCHANGED <<stopping, ready, events, tableVars, udpq, backlog, frames, inbox, clientVars,
                   chanVars, hostVars, outVars>>

(* The loop is left: on stopping, or on a poll error.  Every fd is closed. *)
Shutdown ==
    /\ pc = "poll"
    /\ pc' = "down"
    /\ tcp_conns' = [s \in TSlot |-> NoConn]
    /\ UNCHANGED <<stopping, ready, events, udp_map, next_udp_id, next_tcp_id, udpq,
                   backlog, frames, inbox, clientVars, chanVars, hostVars, outVars>>

-----------------------------------------------------------------------------
(*                    Clients, host and clock (environment)                *)

loopVars == <<pc, stopping, ready, events>>

UdpQuery(empty) ==
    /\ queries < MaxQueries
    /\ queries' = queries + 1
    /\ udpq' = udpq \cup {IF empty THEN 0 ELSE queries + 1}
    /\ UNCHANGED <<loopVars, tableVars, backlog, frames, inbox, conns, asked, gone,
                   chanVars, hostVars, outVars>>

TcpConnect ==
    /\ conns < MaxConns
    /\ conns' = conns + 1
    /\ backlog' = backlog \cup {conns + 1}
    /\ UNCHANGED <<loopVars, tableVars, udpq, frames, inbox, queries, asked, gone,
                   chanVars, hostVars, outVars>>

TcpQuery(c) ==
    /\ c <= conns /\ c \notin gone
    /\ asked[c] < MaxFrames
    /\ asked' = [asked EXCEPT ![c] = @ + 1]
    /\ frames' = [frames EXCEPT ![c] = @ + 1]
    /\ UNCHANGED <<loopVars, tableVars, udpq, backlog, inbox, queries, conns, gone,
                   chanVars, hostVars, outVars>>

TcpGone(c) ==
    /\ c <= conns /\ c \notin gone
    /\ gone' = gone \cup {c}
    /\ UNCHANGED <<loopVars, tableVars, udpq, backlog, frames, inbox, queries, conns,
                   asked, chanVars, hostVars, outVars>>

(* The host answers what it has read: in any order, late, twice, or not at *)
(* all.  It may also send something the tunnel cannot use.                 *)
HostAnswer(m) ==
    /\ chanOpen /\ answers < MaxAnswers
    /\ m \in received \cup {Odd("other"), Odd("bad")}
    /\ answers' = answers + 1
    /\ inbox' = inbox \cup {m}
    /\ UNCHANGED <<loopVars, tableVars, udpq, backlog, frames, clientVars, chanVars,
                   chanOpen, outVars>>

HostClose ==
    /\ chanOpen
    /\ chanOpen' = FALSE
    /\ UNCHANGED <<loopVars, tableVars, udpq, backlog, frames, inbox, clientVars,
                   chanVars, answers, outVars>>

(* An entry's thirty seconds are over. *)
Age(s) ==
    /\ udp_map[s].used /\ ~udp_map[s].aged
    /\ udp_map' = [udp_map EXCEPT ![s].aged = TRUE]
    /\ UNCHANGED <<loopVars, tcp_conns, next_udp_id, next_tcp_id, udpq, backlog, frames,
                   inbox, clientVars, chanVars, hostVars, outVars>>

-----------------------------------------------------------------------------

Channel == \E m \in inbox : \/ RouteNowhere(m)
                            \/ \E s \in Slot : RouteUdp(m, s)
                            \/ \E s \in TSlot : RouteTcp(m, s)

Conns == \E e \in events : ConnClose(e) \/ ConnForward(e) \/ ConnIdle(e)

(* What dns_tunnel_run does when it is scheduled. *)
Run == \/ PollReady \/ PollTimeout \/ NextStage
       \/ UdpForward \/ UdpBreak \/ Accept
       \/ ChannelStop \/ Channel \/ Conns \/ PassDone
       \/ (stopping /\ Shutdown)

Clients == \/ \E b \in BOOLEAN : UdpQuery(b)
           \/ TcpConnect
           \/ \E c \in Conn : TcpQuery(c) \/ TcpGone(c)

Host == HostClose \/ \E m \in received \cup {Odd("other"), Odd("bad")} : HostAnswer(m)

PollError == ~stopping /\ Shutdown

Next == \/ pc # "down" /\ (Run \/ PollError \/ Clients \/ Host \/ \E s \in Slot : Age(s))

(* The loop is scheduled and time passes; nothing is assumed of clients    *)
(* and host.                                                               *)
Fairness == WF_vars(pc # "down" /\ Run)
            /\ \A s \in Slot : WF_vars(pc # "down" /\ Age(s))

Spec == Init /\ [][Next]_vars
FairSpec == Spec /\ Fairness

-----------------------------------------------------------------------------
(*                                Properties                               *)

LoopTypes ==
    /\ pc \in {"poll", "udp", "accept", "channel", "conns", "down"}
    /\ stopping \in BOOLEAN /\ ready \subseteq {"udp", "accept", "channel"}
    /\ events \subseteq [slot : TSlot, conn : Conn, hup : BOOLEAN]

TableTypes ==
    /\ udp_map \in [Slot -> Entry] /\ tcp_conns \in [TSlot -> TcpConn]
    /\ next_udp_id \in Nat /\ next_tcp_id \in Nat

ClientTypes ==
    /\ queries \in 0..MaxQueries /\ udpq \subseteq 0..queries
    /\ conns \in 0..MaxConns /\ backlog \subseteq 1..conns
    /\ frames \in [Conn -> Nat] /\ asked \in [Conn -> Nat] /\ gone \subseteq Conn

ChannelTypes ==
    /\ inbox \subseteq Message /\ received \subseteq Message /\ answers \in Nat
    /\ chanOpen \in BOOLEAN /\ torn \in BOOLEAN
    /\ answered \subseteq Nat /\ repeated \in BOOLEAN /\ misrouted \in BOOLEAN

(* The values the tunnel's state ranges over: an event names a connection  *)
(* that was accepted, a slot in use a client.                              *)
TypeOK == LoopTypes /\ TableTypes /\ ClientTypes /\ ChannelTypes

(* An answer goes only to the client that asked the question, however late *)
(* it comes and whatever its slot has been reused for in the meantime.     *)
ReplyToAsker == ~misrouted

(* No UDP query is answered twice, however often the host answers it. *)
NoRepeatedReply == ~repeated

(* An event poll() reported for a TCP connection is never applied to       *)
(* another one that took over its slot during the same pass.               *)
EventForItsConnection ==
    \A e \in events :
        tcp_conns[e.slot].used => tcp_conns[e.slot].conn = e.conn

(* A slot of udp_map does not stay taken for ever: its query is answered,  *)
(* it times out once the tunnel is idle, or the tunnel ends.               *)
SlotReclaimed ==
    \A s \in Slot : udp_map[s].used ~> (~udp_map[s].used \/ pc = "down")

(* dns_udp_alloc's comment: a full table recycles its oldest entry, so the *)
(* query that found it full has an entry.  (It has not: see the README.)   *)
FullTableRecycled ==
    [][Full(udp_map, Slot) =>
        \A q \in (udpq \ udpq') \ {0} : \E s \in Slot : udp_map'[s].client = q]_vars

=============================================================================
