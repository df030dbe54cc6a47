------------------------------ MODULE DnsServer ------------------------------
(***************************************************************************)
(* The DNS server of the virtual machine and its tunnel to the host        *)
(* (linux/init/DnsServer.cpp, DnsTunnelingChannel.cpp,                     *)
(* DnsTunnelingManager.cpp).  The server thread reads datagrams and TCP    *)
(* connections and sends each request to the host under an identifier of   *)
(* its own; the receive thread finds the asker of each response.           *)
(***************************************************************************)
EXTENDS Integers, Sequences, FiniteSets
LOCAL INSTANCE Functions

CONSTANTS Askers,    \* UDP clients: one datagram each
          Conns,     \* TCP clients: one connection each
          Lengths,   \* lengths a request over TCP may have
          MaxFrames  \* requests over TCP

ASSUME DsAssumption == Lengths \subseteq Nat /\ MaxFrames \in Nat

VARIABLES
    dsAsked,   \* UDP clients that have asked
    dsWaiting, \* datagrams in the socket
    dsNextUdp, \* m_currentUdpRequestId
    dsUdp,     \* m_udpRequests: [id, asker]
    dsConn,    \* the connections: none, waiting, open, closed
    dsStream,  \* what a client has written and the server has not read
    dsFrames,  \* the lengths of the requests it has written
    dsNextTcp, \* m_currentTcpConnectionId
    dsCtx,     \* m_tcpConnectionContexts: [id, conn, size, buf]
    dsHand,    \* the request the server thread is about to tunnel, at most one
    dsTunnel,  \* requests at the host: [proto, id, from, n]
    dsTaken,   \* requests of a connection that were tunnelled
    dsResp,    \* responses in the channel
    dsGot,     \* responses delivered: [to, from, n]
    dsServer,  \* the server thread: loop or ended
    dsReceive, \* the receive thread: loop or ended
    dsStop,    \* the destructor: no, channel, server, done
    dsHost     \* the host's end of the channel is open

dsVars == <<dsAsked, dsWaiting, dsNextUdp, dsUdp, dsConn, dsStream, dsFrames, dsNextTcp, dsCtx, dsHand,
            dsTunnel, dsTaken, dsResp, dsGot, dsServer, dsReceive, dsStop, dsHost>>
udpVars == <<dsAsked, dsWaiting, dsNextUdp, dsUdp>>
tcpVars == <<dsConn, dsStream, dsFrames, dsNextTcp, dsCtx, dsTaken>>
hostVars == <<dsTunnel, dsResp, dsHost>>
threadVars == <<dsServer, dsReceive, dsStop>>

Header == 2   \* c_byteCountTcpRequestLength
Clients == Askers \cup Conns

\* DnsTunnelingManager: the channel and its thread, then Start.
DsInit ==
    /\ dsAsked = {} /\ dsWaiting = {} /\ dsNextUdp = 0 /\ dsUdp = {}
    /\ dsConn = [c \in Conns |-> "none"] /\ dsStream = [c \in Conns |-> <<>>]
    /\ dsFrames = [c \in Conns |-> <<>>] /\ dsNextTcp = 0 /\ dsCtx = {} /\ dsHand = {}
    /\ dsTunnel = {} /\ dsTaken = [c \in Conns |-> <<>>] /\ dsResp = {} /\ dsGot = {}
    /\ dsServer = "loop" /\ dsReceive = "loop" /\ dsStop = "no" /\ dsHost = TRUE

-----------------------------------------------------------------------------
(* The server thread: ServerLoop, one event after the other.               *)

ServerTurn == dsServer = "loop" /\ dsHand = {}

\* HandleUdpDnsRequest, under the lock: the asker is tracked.
HandleUdpDnsRequest(a) ==
    /\ ServerTurn /\ a \in dsWaiting
    /\ dsWaiting' = dsWaiting \ {a} /\ dsNextUdp' = dsNextUdp + 1
    /\ dsUdp' = dsUdp \cup {[id |-> dsNextUdp, asker |-> a]}
    /\ dsHand' = {[proto |-> "udp", id |-> dsNextUdp, from |-> a, n |-> 1]}
    /\ UNCHANGED <<dsAsked, tcpVars, hostVars, dsGot, threadVars>>

HandleNewTcpConnection(c) ==
    /\ ServerTurn /\ dsConn[c] = "waiting"
    /\ dsConn' = [dsConn EXCEPT ![c] = "open"] /\ dsNextTcp' = dsNextTcp + 1
    /\ dsCtx' = dsCtx \cup {[id |-> dsNextTcp, conn |-> c, size |-> Header, buf |-> <<>>]}
    /\ UNCHANGED <<udpVars, dsStream, dsFrames, dsTaken, dsHand, hostVars, dsGot, threadVars>>

\* The connection is closed and forgotten.
Removes(x) ==
    /\ dsCtx' = dsCtx \ {x} /\ dsConn' = [dsConn EXCEPT ![x.conn] = "closed"]
    /\ UNCHANGED <<dsStream, dsHand, dsTaken>>

\* Slip: the buffer keeps its size after a request.
After_NoResize(x, buf) ==
    CASE Len(buf) < x.size                       -> [x EXCEPT !.buf = buf]
      [] Len(buf) = x.size /\ x.size = Header    -> [x EXCEPT !.buf = buf, !.size = Header + buf[2].length]
      [] Len(buf) = x.size /\ x.size # Header    -> [x EXCEPT !.buf = <<>>]

\* The context once buf has been read: the length is known, or the request is
\* complete and the next one begins, or more is to come.
After(x, buf) ==
    CASE Len(buf) < x.size                       -> [x EXCEPT !.buf = buf]
      [] Len(buf) = x.size /\ x.size = Header    -> [x EXCEPT !.buf = buf, !.size = Header + buf[2].length]
      [] Len(buf) = x.size /\ x.size # Header    -> [x EXCEPT !.buf = <<>>, !.size = Header]

\* HandleNewTcpData reads at most what the buffer has room for.  Zero bytes, also
\* because there is no room, end the connection.
HandleNewTcpData(x, k) ==
    /\ ServerTurn
    /\ LET s == dsStream[x.conn]
           buf == x.buf \o SubSeq(s, 1, k)
           whole == Len(buf) = x.size /\ x.size # Header
       IN IF k = 0 THEN Removes(x)
          ELSE /\ dsStream' = [dsStream EXCEPT ![x.conn] = SubSeq(s, k + 1, Len(s))]
               /\ dsCtx' = (dsCtx \ {x}) \cup {After(x, buf)}
               /\ dsHand' = IF whole THEN {[proto |-> "tcp", id |-> x.id, from |-> x.conn, n |-> buf[1].n]} ELSE {}
               /\ dsTaken' = IF whole THEN [dsTaken EXCEPT ![x.conn] = Append(@, buf)] ELSE dsTaken
               /\ UNCHANGED dsConn
    /\ UNCHANGED <<udpVars, dsFrames, dsNextTcp, hostVars, dsGot, threadVars>>

\* How much may be read; nothing is read before something is there or the client
\* has closed.
Room(x) == x.size - Len(x.buf)
Amounts(x) ==
    LET s == dsStream[x.conn]
    IN IF s = <<>> THEN (IF dsConn[x.conn] = "closed" THEN {0} ELSE {})
       ELSE IF Room(x) = 0 THEN {0}
       ELSE {k \in 1..Len(s) : k <= Room(x)}

\* The request is sent to the host, unless the tunnel stops; a send that fails is
\* logged, and the datagram's asker stays tracked.
SendDnsMessage ==
    /\ dsServer = "loop" /\ dsHand # {} /\ dsHand' = {}
    /\ dsTunnel' = IF dsStop = "no" /\ dsHost THEN dsTunnel \cup dsHand ELSE dsTunnel
    /\ UNCHANGED <<udpVars, tcpVars, dsResp, dsHost, dsGot, threadVars>>

\* The shutdown pipe is closed.
ServerEnds ==
    /\ ServerTurn /\ dsStop = "server" /\ dsServer' = "ended"
    /\ UNCHANGED <<udpVars, tcpVars, hostVars, dsHand, dsGot, dsReceive, dsStop>>

-----------------------------------------------------------------------------
(* The receive thread: ReceiveLoop.                                        *)

Receiving == dsReceive = "loop"
ReceiveFrame == UNCHANGED <<dsAsked, dsWaiting, dsNextUdp, tcpVars, dsHand, dsTunnel, dsHost, threadVars>>

\* HandleUdpDnsResponse: the asker is tracked no more, whether the send works or not.
HandleUdpDnsResponse(r) ==
    /\ Receiving /\ r \in dsResp /\ r.proto = "udp" /\ dsResp' = dsResp \ {r}
    /\ dsUdp' = {q \in dsUdp : q.id # r.id}
    /\ dsGot' = dsGot \cup {[to |-> q.asker, from |-> r.from, n |-> r.n] : q \in {x \in dsUdp : x.id = r.id}}
    /\ ReceiveFrame

\* HandleTcpDnsResponse writes to the connection if it is still there.
HandleTcpDnsResponse(r) ==
    /\ Receiving /\ r \in dsResp /\ r.proto = "tcp" /\ dsResp' = dsResp \ {r}
    /\ dsGot' = dsGot \cup {[to |-> x.conn, from |-> r.from, n |-> r.n] : x \in {y \in dsCtx : y.id = r.id}}
    /\ UNCHANGED dsUdp /\ ReceiveFrame

\* The pipe is closed, or the host has hung up.
ReceiveEnds ==
    /\ Receiving /\ (dsStop = "channel" \/ (~dsHost /\ dsResp = {})) /\ dsReceive' = "ended"
    /\ UNCHANGED <<udpVars, tcpVars, hostVars, dsHand, dsGot, dsServer, dsStop>>

-----------------------------------------------------------------------------
(* ~DnsTunnelingManager, the clients and the host.                         *)

StopBegins ==
    /\ dsStop = "no" /\ dsStop' = "channel"
    /\ UNCHANGED <<udpVars, tcpVars, hostVars, dsHand, dsGot, dsServer, dsReceive>>

ChannelStopped ==
    /\ dsStop = "channel" /\ dsReceive = "ended" /\ dsStop' = "server"
    /\ UNCHANGED <<udpVars, tcpVars, hostVars, dsHand, dsGot, dsServer, dsReceive>>

ServerStopped ==
    /\ dsStop = "server" /\ dsServer = "ended" /\ dsStop' = "done"
    /\ UNCHANGED <<udpVars, tcpVars, hostVars, dsHand, dsGot, dsServer, dsReceive>>

Asks(a) ==
    /\ a \notin dsAsked /\ dsAsked' = dsAsked \cup {a} /\ dsWaiting' = dsWaiting \cup {a}
    /\ UNCHANGED <<dsNextUdp, dsUdp, tcpVars, hostVars, dsHand, dsGot, threadVars>>

Connects(c) ==
    /\ dsConn[c] = "none" /\ dsConn' = [dsConn EXCEPT ![c] = "waiting"]
    /\ UNCHANGED <<udpVars, dsStream, dsFrames, dsNextTcp, dsCtx, dsTaken, hostVars, dsHand, dsGot, threadVars>>

\* A request of length l: its two length bytes, then l more.
Frame(n, l) == [i \in 1..(Header + l) |-> [n |-> n, i |-> i, length |-> l]]

Written == FoldFunction(LAMBDA s, n : Len(s) + n, 0, dsFrames)

Writes(c, l) ==
    /\ dsConn[c] \in {"waiting", "open"} /\ Written < MaxFrames
    /\ dsFrames' = [dsFrames EXCEPT ![c] = Append(@, l)]
    /\ dsStream' = [dsStream EXCEPT ![c] = @ \o Frame(Len(dsFrames[c]) + 1, l)]
    /\ UNCHANGED <<udpVars, dsConn, dsNextTcp, dsCtx, dsTaken, hostVars, dsHand, dsGot, threadVars>>

Closes(c) ==
    /\ dsConn[c] = "open" /\ dsConn' = [dsConn EXCEPT ![c] = "closed"]
    /\ UNCHANGED <<udpVars, dsStream, dsFrames, dsNextTcp, dsCtx, dsTaken, hostVars, dsHand, dsGot, threadVars>>

HostResponds(q) ==
    /\ dsHost /\ q \in dsTunnel /\ dsTunnel' = dsTunnel \ {q} /\ dsResp' = dsResp \cup {q}
    /\ UNCHANGED <<udpVars, tcpVars, dsHost, dsHand, dsGot, threadVars>>

HostHangsUp ==
    /\ dsHost /\ dsHost' = FALSE
    /\ UNCHANGED <<udpVars, tcpVars, dsTunnel, dsResp, dsHand, dsGot, threadVars>>

ServerThread ==
    \/ \E a \in Askers : HandleUdpDnsRequest(a)
    \/ \E c \in Conns : HandleNewTcpConnection(c)
    \/ \E x \in dsCtx : \E k \in Amounts(x) : HandleNewTcpData(x, k)
    \/ SendDnsMessage \/ ServerEnds

ReceiveThread == ReceiveEnds \/ \E r \in dsResp : HandleUdpDnsResponse(r) \/ HandleTcpDnsResponse(r)

DsNext ==
    \/ ServerThread \/ ReceiveThread \/ StopBegins \/ ChannelStopped \/ ServerStopped \/ HostHangsUp
    \/ \E a \in Askers : Asks(a)
    \/ \E c \in Conns : Connects(c) \/ Closes(c) \/ \E l \in Lengths : Writes(c, l)
    \/ \E q \in dsTunnel : HostResponds(q)

DsSpec == DsInit /\ [][DsNext]_dsVars

-----------------------------------------------------------------------------

(* Type invariant. *)
DsTypeOK ==
    /\ \A x, y \in dsCtx : x.id = y.id => x = y
    /\ \A x \in dsCtx : Len(x.buf) <= x.size /\ x.conn \in Conns /\ (x.buf = <<>> => x.size = Header)
    /\ Cardinality(dsHand) <= 1 /\ dsServer \in {"loop", "ended"} /\ dsReceive \in {"loop", "ended"}

(* A response reaches the client whose request it answers, whatever other  *)
(* clients asked, closed or connected between the two threads' steps.      *)
ResponseToAsker == \A g \in dsGot : g.to = g.from

(* However the bytes of a connection are split over reads, what is sent to *)
(* the host is the sequence of the client's requests, each whole.          *)
FramesWhole ==
    \A c \in Conns : \A i \in 1..Len(dsTaken[c]) :
        dsTaken[c][i] = Frame(i, dsFrames[c][i])

(* What the DNS server promises: responses reach their askers, and TCP     *)
(* requests reach the host whole and in order.                             *)
DnsServerSafe == DsTypeOK /\ ResponseToAsker /\ FramesWhole
=============================================================================
