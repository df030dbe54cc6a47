-------------------------- MODULE DnsTunnelProofs --------------------------
(***************************************************************************)
(* Routing in the DNS tunnel, for any size of the tables and any number of *)
(* clients, queries and answers (fewer than the identifiers): answers go   *)
(* to the client that asked, once, and a TCP event is applied only to the  *)
(* connection it was reported for.                                         *)
(***************************************************************************)
EXTENDS DnsTunnel, TLAPS, FiniteSetTheorems

-----------------------------------------------------------------------------
(*                              Small facts                                *)

(* Identifiers are natural numbers, and below the wrap they count up. *)
LEMMA IdFacts ==
    ASSUME NEW n \in Nat
    PROVE  NextId(n) \in Nat /\ (n + 1 < IdMod => NextId(n) = n + 1)
BY TunnelAssumption DEF NextId

(* The entries the handlers write are entries. *)
LEMMA EntryFacts ==
    /\ NoEntry \in Entry /\ ~NoEntry.used /\ NoConn \in TcpConn /\ ~NoConn.used
    /\ \A n \in Nat, q \in 1..MaxQueries, b \in BOOLEAN :
        [used |-> TRUE, id |-> n, client |-> q, aged |-> b] \in Entry
    /\ \A n \in Nat, c \in Conn : [used |-> TRUE, id |-> n, conn |-> c] \in TcpConn
BY DEF Entry, TcpConn, NoEntry, NoConn

(* An entry in use has an identifier and a client. *)
LEMMA UsedFacts ==
    /\ \A x \in Entry : x.used \in BOOLEAN
    /\ \A x \in Entry : x.used => x.id \in Nat /\ x.client \in 1..MaxQueries
                                  /\ x.aged \in BOOLEAN
    /\ \A x \in TcpConn : x.used \in BOOLEAN
    /\ \A x \in TcpConn : x.used => x.id \in Nat /\ x.conn \in Conn
<1>1. ASSUME NEW x \in Entry
      PROVE  /\ x.used \in BOOLEAN
             /\ x.used => x.id \in Nat /\ x.client \in 1..MaxQueries /\ x.aged \in BOOLEAN
  <2>1. CASE x = NoEntry
    BY <2>1 DEF NoEntry
  <2>2. CASE x \in [used : {TRUE}, id : Nat, client : 1..MaxQueries, aged : BOOLEAN]
    BY <2>2
  <2> QED
    BY <1>1, <2>1, <2>2 DEF Entry
<1>2. ASSUME NEW x \in TcpConn
      PROVE  x.used \in BOOLEAN /\ (x.used => x.id \in Nat /\ x.conn \in Conn)
  <2>1. CASE x = NoConn
    BY <2>1 DEF NoConn
  <2>2. CASE x \in [used : {TRUE}, id : Nat, conn : Conn]
    BY <2>2
  <2> QED
    BY <1>2, <2>1, <2>2 DEF TcpConn
<1> QED
  BY <1>1, <1>2

-----------------------------------------------------------------------------
(*                                 Types                                   *)

(* Every step keeps the loop's own variables within their types. *)
LEMMA LoopTypesStep ==
    ASSUME TypeOK, [Next]_vars PROVE LoopTypes'
<1> USE DEF TypeOK, LoopTypes,
           tableVars, clientVars, chanVars, hostVars, outVars, loopVars
<1>1. CASE PollReady
  <2>1. ASSUME NEW hup \in BOOLEAN, NEW x \in ReadyConns(hup)
        PROVE  x \in [slot : TSlot, conn : Conn, hup : BOOLEAN]
    <3>1. PICK r \in TSlot : /\ tcp_conns[r].used
                             /\ x = [slot |-> r, conn |-> tcp_conns[r].conn,
                                     hup |-> hup /\ tcp_conns[r].conn \in gone]
      BY <2>1 DEF ReadyConns
    <3>2. tcp_conns[r].conn \in Conn
      BY <3>1, UsedFacts DEF TableTypes
    <3> QED
      BY <3>1, <3>2
  <2> QED
    BY <1>1, <2>1 DEF PollReady, ReadyFds
<1>2. CASE PollTimeout
  BY <1>2 DEF PollTimeout, Expire
<1>3. CASE NextStage
  BY <1>3 DEF NextStage, Follow
<1>4. CASE UdpForward
  BY <1>4 DEF UdpForward, UdpAlloc, FirstFree, ChannelSend
<1>5. CASE UdpBreak
  BY <1>5 DEF UdpBreak, ChannelFail, Follow
<1>6. CASE Accept
  BY <1>6 DEF Accept, TcpAlloc, FirstFree
<1>7. CASE ChannelStop
  BY <1>7 DEF ChannelStop, Follow
<1>8. ASSUME NEW m \in inbox, RouteNowhere(m) PROVE LoopTypes'
  BY <1>8 DEF RouteNowhere, ChannelTake, Follow
<1>9. ASSUME NEW m \in inbox, NEW s \in Slot, RouteUdp(m, s) PROVE LoopTypes'
  BY <1>9 DEF RouteUdp, ChannelTake, Follow, UdpFree
<1>10. ASSUME NEW m \in inbox, NEW s \in TSlot, RouteTcp(m, s) PROVE LoopTypes'
  BY <1>10 DEF RouteTcp, ChannelTake, Follow, TcpClose
<1>11. ASSUME NEW e \in events, ConnClose(e) PROVE LoopTypes'
  BY <1>11 DEF ConnClose, ConnDone, Current, TcpClose, ChannelFail
<1>12. ASSUME NEW e \in events, ConnForward(e) PROVE LoopTypes'
  BY <1>12 DEF ConnForward, Current, ChannelSend
<1>13. ASSUME NEW e \in events, ConnIdle(e) PROVE LoopTypes'
  BY <1>13 DEF ConnIdle, ConnDone, Current
<1>14. CASE PassDone
  BY <1>14 DEF PassDone
<1>15. CASE Shutdown
  BY <1>15 DEF Shutdown
<1>16. ASSUME NEW b \in BOOLEAN, UdpQuery(b) PROVE LoopTypes'
  BY <1>16 DEF UdpQuery
<1>17. CASE TcpConnect
  BY <1>17 DEF TcpConnect
<1>18. ASSUME NEW c \in Conn, TcpQuery(c) PROVE LoopTypes'
  BY <1>18 DEF TcpQuery
<1>19. ASSUME NEW c \in Conn, TcpGone(c) PROVE LoopTypes'
  BY <1>19 DEF TcpGone
<1>20. ASSUME NEW m \in received \cup {Odd("other"), Odd("bad")}, HostAnswer(m)
       PROVE  LoopTypes'
  BY <1>20 DEF HostAnswer, Odd
<1>21. CASE HostClose
  BY <1>21 DEF HostClose
<1>22. ASSUME NEW s \in Slot, Age(s) PROVE LoopTypes'
  BY <1>22 DEF Age
<1>23. CASE UNCHANGED vars
  BY <1>23 DEF vars
<1> QED
    BY <1>1, <1>2, <1>3, <1>4, <1>5, <1>6, <1>7, <1>8, <1>9, <1>10, <1>11,
     <1>12, <1>13, <1>14, <1>15, <1>16, <1>17, <1>18, <1>19, <1>20, <1>21,
     <1>22, <1>23 DEF Next, Run, Channel, Conns, Clients, Host, PollError

(* ... and the tables. *)
LEMMA TableTypesStep ==
    ASSUME TypeOK, [Next]_vars PROVE TableTypes'
<1> USE DEF TypeOK, TableTypes,
           tableVars, clientVars, chanVars, hostVars, outVars, loopVars
<1>1. CASE PollReady
  BY <1>1 DEF PollReady, ReadyFds, ReadyConns
<1>2. CASE PollTimeout
  BY <1>2, EntryFacts DEF PollTimeout, Expire
<1>3. CASE NextStage
  BY <1>3 DEF NextStage, Follow
<1>4. CASE UdpForward
  <2>1. PICK q \in udpq \ {0}, s \in Slot : UdpAlloc(s, q)
    BY <1>4 DEF UdpForward
  <2>2. q \in 1..MaxQueries
    BY <2>1, TunnelAssumption DEF ClientTypes
  <2> QED
    BY <1>4, <2>1, <2>2, IdFacts, EntryFacts DEF UdpForward, UdpAlloc
<1>5. CASE UdpBreak
  BY <1>5, IdFacts DEF UdpBreak
<1>6. CASE Accept
  <2>1. \A c \in backlog : c \in Conn
    BY TunnelAssumption DEF ClientTypes, Conn
  <2> QED
    BY <1>6, <2>1, IdFacts, EntryFacts DEF Accept, TcpAlloc
<1>7. CASE ChannelStop
  BY <1>7 DEF ChannelStop, Follow
<1>8. ASSUME NEW m \in inbox, RouteNowhere(m) PROVE TableTypes'
  BY <1>8 DEF RouteNowhere, ChannelTake, Follow
<1>9. ASSUME NEW m \in inbox, NEW s \in Slot, RouteUdp(m, s) PROVE TableTypes'
  BY <1>9, EntryFacts DEF RouteUdp, ChannelTake, UdpFree
<1>10. ASSUME NEW m \in inbox, NEW s \in TSlot, RouteTcp(m, s) PROVE TableTypes'
  BY <1>10, EntryFacts DEF RouteTcp, ChannelTake, TcpClose
<1>11. ASSUME NEW e \in events, ConnClose(e) PROVE TableTypes'
  BY <1>11, EntryFacts DEF ConnClose, ConnDone, TcpClose, LoopTypes
<1>12. ASSUME NEW e \in events, ConnForward(e) PROVE TableTypes'
  BY <1>12 DEF ConnForward, Current, ChannelSend
<1>13. ASSUME NEW e \in events, ConnIdle(e) PROVE TableTypes'
  BY <1>13 DEF ConnIdle, ConnDone, Current
<1>14. CASE PassDone
  BY <1>14 DEF PassDone
<1>15. CASE Shutdown
  BY <1>15, EntryFacts DEF Shutdown
<1>16. ASSUME NEW b \in BOOLEAN, UdpQuery(b) PROVE TableTypes'
  BY <1>16 DEF UdpQuery
<1>17. CASE TcpConnect
  BY <1>17 DEF TcpConnect
<1>18. ASSUME NEW c \in Conn, TcpQuery(c) PROVE TableTypes'
  BY <1>18 DEF TcpQuery
<1>19. ASSUME NEW c \in Conn, TcpGone(c) PROVE TableTypes'
  BY <1>19 DEF TcpGone
<1>20. ASSUME NEW m \in received \cup {Odd("other"), Odd("bad")}, HostAnswer(m)
       PROVE  TableTypes'
  BY <1>20 DEF HostAnswer, Odd
<1>21. CASE HostClose
  BY <1>21 DEF HostClose
<1>22. ASSUME NEW s \in Slot, Age(s) PROVE TableTypes'
  <2>1. [udp_map[s] EXCEPT !.aged = TRUE] \in Entry
    <3>1. udp_map[s].used /\ udp_map[s] \in Entry
      BY <1>22 DEF Age
    <3>2. udp_map[s] \in [used : {TRUE}, id : Nat, client : 1..MaxQueries, aged : BOOLEAN]
      BY <3>1, EntryFacts DEF Entry
    <3> QED
      BY <3>2 DEF Entry
  <2>2. udp_map' = [udp_map EXCEPT ![s] = [udp_map[s] EXCEPT !.aged = TRUE]]
    BY <1>22 DEF Age
  <2> QED
    BY <1>22, <2>1, <2>2 DEF Age
<1>23. CASE UNCHANGED vars
  BY <1>23 DEF vars
<1> QED
    BY <1>1, <1>2, <1>3, <1>4, <1>5, <1>6, <1>7, <1>8, <1>9, <1>10, <1>11,
     <1>12, <1>13, <1>14, <1>15, <1>16, <1>17, <1>18, <1>19, <1>20, <1>21,
     <1>22, <1>23 DEF Next, Run, Channel, Conns, Clients, Host, PollError

(* ... and the clients. *)
LEMMA ClientTypesStep ==
    ASSUME TypeOK, [Next]_vars PROVE ClientTypes'
<1> USE TunnelAssumption DEF TypeOK, ClientTypes,
           tableVars, clientVars, chanVars, hostVars, outVars, loopVars
<1>1. CASE PollReady
  BY <1>1 DEF PollReady, ReadyFds, ReadyConns
<1>2. CASE PollTimeout
  BY <1>2 DEF PollTimeout, Expire
<1>3. CASE NextStage
  BY <1>3 DEF NextStage, Follow
<1>4. CASE UdpForward
  BY <1>4 DEF UdpForward, UdpAlloc, FirstFree, ChannelSend
<1>5. CASE UdpBreak
  BY <1>5 DEF UdpBreak, ChannelFail, Follow
<1>6. CASE Accept
  BY <1>6 DEF Accept, TcpAlloc, FirstFree
<1>7. CASE ChannelStop
  BY <1>7 DEF ChannelStop, Follow
<1>8. ASSUME NEW m \in inbox, RouteNowhere(m) PROVE ClientTypes'
  BY <1>8 DEF RouteNowhere, ChannelTake, Follow
<1>9. ASSUME NEW m \in inbox, NEW s \in Slot, RouteUdp(m, s) PROVE ClientTypes'
  BY <1>9 DEF RouteUdp, ChannelTake, Follow, UdpFree
<1>10. ASSUME NEW m \in inbox, NEW s \in TSlot, RouteTcp(m, s) PROVE ClientTypes'
  BY <1>10 DEF RouteTcp, ChannelTake, Follow, TcpClose
<1>11. ASSUME NEW e \in events, ConnClose(e) PROVE ClientTypes'
  BY <1>11 DEF ConnClose, ConnDone, Current, TcpClose, ChannelFail
<1>12. ASSUME NEW e \in events, ConnForward(e) PROVE ClientTypes'
  <2>1. tcp_conns[e.slot].conn \in Conn
    BY <1>12, UsedFacts DEF ConnForward, TableTypes, LoopTypes
  <2> QED
    BY <1>12, <2>1 DEF ConnForward
<1>13. ASSUME NEW e \in events, ConnIdle(e) PROVE ClientTypes'
  BY <1>13 DEF ConnIdle, ConnDone, Current
<1>14. CASE PassDone
  BY <1>14 DEF PassDone
<1>15. CASE Shutdown
  BY <1>15 DEF Shutdown
<1>16. ASSUME NEW b \in BOOLEAN, UdpQuery(b) PROVE ClientTypes'
  BY <1>16 DEF UdpQuery
<1>17. CASE TcpConnect
  BY <1>17 DEF TcpConnect
<1>18. ASSUME NEW c \in Conn, TcpQuery(c) PROVE ClientTypes'
  BY <1>18 DEF TcpQuery
<1>19. ASSUME NEW c \in Conn, TcpGone(c) PROVE ClientTypes'
  BY <1>19 DEF TcpGone
<1>20. ASSUME NEW m \in received \cup {Odd("other"), Odd("bad")}, HostAnswer(m)
       PROVE  ClientTypes'
  BY <1>20 DEF HostAnswer, Odd
<1>21. CASE HostClose
  BY <1>21 DEF HostClose
<1>22. ASSUME NEW s \in Slot, Age(s) PROVE ClientTypes'
  BY <1>22 DEF Age
<1>23. CASE UNCHANGED vars
  BY <1>23 DEF vars
<1> QED
    BY <1>1, <1>2, <1>3, <1>4, <1>5, <1>6, <1>7, <1>8, <1>9, <1>10, <1>11,
     <1>12, <1>13, <1>14, <1>15, <1>16, <1>17, <1>18, <1>19, <1>20, <1>21,
     <1>22, <1>23 DEF Next, Run, Channel, Conns, Clients, Host, PollError

(* ... and the channel. *)
LEMMA ChannelTypesStep ==
    ASSUME TypeOK, [Next]_vars PROVE ChannelTypes'
<1> USE DEF TypeOK, ChannelTypes,
           tableVars, clientVars, chanVars, hostVars, outVars, loopVars
<1>1. CASE PollReady
  BY <1>1 DEF PollReady, ReadyFds, ReadyConns
<1>2. CASE PollTimeout
  BY <1>2 DEF PollTimeout, Expire
<1>3. CASE NextStage
  BY <1>3 DEF NextStage, Follow
<1>4. CASE UdpForward
  <2>1. PICK q \in udpq \ {0} :
            ChannelSend([proto |-> "udp", id |-> NextId(next_udp_id), who |-> q])
    BY <1>4 DEF UdpForward
  <2>2. q \in Nat /\ NextId(next_udp_id) \in Nat
    BY <2>1, IdFacts DEF ClientTypes, TableTypes
  <2>3. [proto |-> "udp", id |-> NextId(next_udp_id), who |-> q] \in Message
    BY <2>2 DEF Message
  <2> QED
    BY <1>4, <2>1, <2>3 DEF UdpForward, ChannelSend
<1>5. CASE UdpBreak
  BY <1>5 DEF UdpBreak, ChannelFail, Follow
<1>6. CASE Accept
  BY <1>6 DEF Accept, TcpAlloc, FirstFree
<1>7. CASE ChannelStop
  BY <1>7 DEF ChannelStop, Follow
<1>8. ASSUME NEW m \in inbox, RouteNowhere(m) PROVE ChannelTypes'
  BY <1>8 DEF RouteNowhere, ChannelTake, Follow
<1>9. ASSUME NEW m \in inbox, NEW s \in Slot, RouteUdp(m, s) PROVE ChannelTypes'
  BY <1>9 DEF RouteUdp, ChannelTake, Message
<1>10. ASSUME NEW m \in inbox, NEW s \in TSlot, RouteTcp(m, s) PROVE ChannelTypes'
  BY <1>10 DEF RouteTcp, ChannelTake, Message
<1>11. ASSUME NEW e \in events, ConnClose(e) PROVE ChannelTypes'
  BY <1>11 DEF ConnClose, ConnDone, Current, TcpClose, ChannelFail
<1>12. ASSUME NEW e \in events, ConnForward(e) PROVE ChannelTypes'
  <2>1. tcp_conns[e.slot].conn \in Nat /\ tcp_conns[e.slot].id \in Nat
    BY <1>12, UsedFacts, TunnelAssumption DEF ConnForward, TableTypes, LoopTypes, Conn
  <2>2. [proto |-> "tcp", id |-> tcp_conns[e.slot].id, who |-> tcp_conns[e.slot].conn]
            \in Message
    BY <2>1 DEF Message
  <2> QED
    BY <1>12, <2>2 DEF ConnForward, ChannelSend
<1>13. ASSUME NEW e \in events, ConnIdle(e) PROVE ChannelTypes'
  BY <1>13 DEF ConnIdle, ConnDone, Current
<1>14. CASE PassDone
  BY <1>14 DEF PassDone
<1>15. CASE Shutdown
  BY <1>15 DEF Shutdown
<1>16. ASSUME NEW b \in BOOLEAN, UdpQuery(b) PROVE ChannelTypes'
  BY <1>16 DEF UdpQuery
<1>17. CASE TcpConnect
  BY <1>17 DEF TcpConnect
<1>18. ASSUME NEW c \in Conn, TcpQuery(c) PROVE ChannelTypes'
  BY <1>18 DEF TcpQuery
<1>19. ASSUME NEW c \in Conn, TcpGone(c) PROVE ChannelTypes'
  BY <1>19 DEF TcpGone
<1>20. ASSUME NEW m \in received \cup {Odd("other"), Odd("bad")}, HostAnswer(m)
       PROVE  ChannelTypes'
  BY <1>20 DEF HostAnswer, Odd, Message
<1>21. CASE HostClose
  BY <1>21 DEF HostClose
<1>22. ASSUME NEW s \in Slot, Age(s) PROVE ChannelTypes'
  BY <1>22 DEF Age
<1>23. CASE UNCHANGED vars
  BY <1>23 DEF vars
<1> QED
    BY <1>1, <1>2, <1>3, <1>4, <1>5, <1>6, <1>7, <1>8, <1>9, <1>10, <1>11,
     <1>12, <1>13, <1>14, <1>15, <1>16, <1>17, <1>18, <1>19, <1>20, <1>21,
     <1>22, <1>23 DEF Next, Run, Channel, Conns, Clients, Host, PollError

(* The initial state is within the types. *)
LEMMA InitTypes == Init => TypeOK
<1>1. Init => LoopTypes
  BY DEF Init, LoopTypes
<1>2. Init => TableTypes
  BY EntryFacts DEF Init, TableTypes
<1>3. Init => ClientTypes
  BY TunnelAssumption DEF Init, ClientTypes
<1>4. Init => ChannelTypes
  <2>1. 0 \in Nat
    OBVIOUS
  <2> QED
    BY <2>1, Zenon DEF Init, ChannelTypes
<1> QED
  BY <1>1, <1>2, <1>3, <1>4 DEF TypeOK

(* Every step keeps the types. *)
LEMMA TypeStep == TypeOK /\ [Next]_vars => TypeOK'
BY LoopTypesStep, TableTypesStep, ClientTypesStep, ChannelTypesStep DEF TypeOK

(* The types are an invariant of the tunnel. *)
THEOREM TypeCorrect == Spec => []TypeOK
BY InitTypes, TypeStep, PTL DEF Spec

-----------------------------------------------------------------------------
(*                        Events and their connections                     *)

(* No slot reported in a pass is given away before its event is served:    *)
(* new connections get free slots, and slots are freed only after the      *)
(* listener has been served.                                               *)
EventInv ==
    /\ pc \in {"poll", "down"} => events = {}
    /\ pc \in {"udp", "accept"} => \A e \in events : tcp_conns[e.slot].used
    /\ EventForItsConnection

(* Every step keeps it. *)
LEMMA EventStep ==
    ASSUME TypeOK, EventInv, [Next]_vars PROVE EventInv'
<1> USE DEF EventInv, EventForItsConnection,
           tableVars, clientVars, chanVars, hostVars, outVars, loopVars
<1>1. CASE PollReady
  <2>1. ASSUME NEW hup \in BOOLEAN, NEW x \in ReadyConns(hup)
        PROVE  tcp_conns[x.slot].used /\ tcp_conns[x.slot].conn = x.conn
    BY <2>1 DEF ReadyConns
  <2> QED
    BY <1>1, <2>1 DEF PollReady
<1>2. CASE PollTimeout
  BY <1>2 DEF PollTimeout, Expire
<1>3. CASE NextStage
  BY <1>3 DEF NextStage, Follow
<1>4. CASE UdpForward
  BY <1>4 DEF UdpForward, UdpAlloc, FirstFree, ChannelSend
<1>5. CASE UdpBreak
  BY <1>5 DEF UdpBreak, ChannelFail, Follow
<1>6. CASE Accept
  <2>1. \A e \in events : tcp_conns[e.slot].used /\ e.slot \in TSlot
    BY <1>6 DEF Accept, TypeOK, LoopTypes
  <2>2. \A e \in events : tcp_conns'[e.slot] = tcp_conns[e.slot]
    BY <1>6, <2>1 DEF Accept, TcpAlloc, FirstFree, TypeOK, TableTypes
  <2> QED
    BY <1>6, <2>1, <2>2 DEF Accept
<1>7. CASE ChannelStop
  BY <1>7 DEF ChannelStop, Follow
<1>8. ASSUME NEW m \in inbox, RouteNowhere(m) PROVE EventInv'
  BY <1>8 DEF RouteNowhere, ChannelTake, Follow
<1>9. ASSUME NEW m \in inbox, NEW s \in Slot, RouteUdp(m, s) PROVE EventInv'
  BY <1>9 DEF RouteUdp, ChannelTake, Follow, UdpFree
<1>10. ASSUME NEW m \in inbox, NEW s \in TSlot, RouteTcp(m, s) PROVE EventInv'
  <2>1. \A r \in TSlot : tcp_conns'[r] = tcp_conns[r] \/ ~tcp_conns'[r].used
    BY <1>10, EntryFacts DEF RouteTcp, TcpClose, TypeOK, TableTypes
  <2>2. \A e \in events : e.slot \in TSlot
    BY DEF TypeOK, LoopTypes
  <2> QED
    BY <1>10, <2>1, <2>2 DEF RouteTcp, ChannelTake, Follow
<1>11. ASSUME NEW e \in events, ConnClose(e) PROVE EventInv'
  <2>1. \A r \in TSlot : tcp_conns'[r] = tcp_conns[r] \/ ~tcp_conns'[r].used
    BY <1>11, EntryFacts DEF ConnClose, TcpClose, TypeOK, TableTypes
  <2>2. \A f \in events : f.slot \in TSlot
    BY DEF TypeOK, LoopTypes
  <2> QED
    BY <1>11, <2>1, <2>2 DEF ConnClose, ConnDone
<1>12. ASSUME NEW e \in events, ConnForward(e) PROVE EventInv'
  BY <1>12 DEF ConnForward, Current, ChannelSend
<1>13. ASSUME NEW e \in events, ConnIdle(e) PROVE EventInv'
  BY <1>13 DEF ConnIdle, ConnDone, Current
<1>14. CASE PassDone
  BY <1>14 DEF PassDone
<1>15. CASE Shutdown
  BY <1>15 DEF Shutdown
<1>16. ASSUME NEW b \in BOOLEAN, UdpQuery(b) PROVE EventInv'
  BY <1>16 DEF UdpQuery
<1>17. CASE TcpConnect
  BY <1>17 DEF TcpConnect
<1>18. ASSUME NEW c \in Conn, TcpQuery(c) PROVE EventInv'
  BY <1>18 DEF TcpQuery
<1>19. ASSUME NEW c \in Conn, TcpGone(c) PROVE EventInv'
  BY <1>19 DEF TcpGone
<1>20. ASSUME NEW m \in received \cup {Odd("other"), Odd("bad")}, HostAnswer(m)
       PROVE  EventInv'
  BY <1>20 DEF HostAnswer, Odd
<1>21. CASE HostClose
  BY <1>21 DEF HostClose
<1>22. ASSUME NEW s \in Slot, Age(s) PROVE EventInv'
  BY <1>22 DEF Age
<1>23. CASE UNCHANGED vars
  BY <1>23 DEF vars
<1> QED
    BY <1>1, <1>2, <1>3, <1>4, <1>5, <1>6, <1>7, <1>8, <1>9, <1>10, <1>11,
     <1>12, <1>13, <1>14, <1>15, <1>16, <1>17, <1>18, <1>19, <1>20, <1>21,
     <1>22, <1>23 DEF Next, Run, Channel, Conns, Clients, Host, PollError

-----------------------------------------------------------------------------
(*                           Counting identifiers                          *)

(* An identifier is spent on a datagram or a connection that has been      *)
(* taken out of its queue, so the counters stay below the wrap.            *)
CountInv ==
    /\ IsFiniteSet(udpq) /\ next_udp_id + Cardinality(udpq \ {0}) <= queries
    /\ IsFiniteSet(backlog) /\ next_tcp_id + Cardinality(backlog) <= conns

(* Taking a datagram leaves one less. *)
LEMMA TakeDatagram ==
    ASSUME IsFiniteSet(udpq), NEW q \in udpq
    PROVE  /\ IsFiniteSet(udpq \ {q})
           /\ Cardinality(udpq \ {0}) \in Nat /\ Cardinality((udpq \ {q}) \ {0}) \in Nat
           /\ q = 0 => Cardinality((udpq \ {q}) \ {0}) = Cardinality(udpq \ {0})
           /\ q # 0 => Cardinality((udpq \ {q}) \ {0}) = Cardinality(udpq \ {0}) - 1
<1>1. IsFiniteSet(udpq \ {q}) /\ IsFiniteSet(udpq \ {0}) /\ IsFiniteSet((udpq \ {q}) \ {0})
  BY FS_RemoveElement
<1>2. CASE q = 0
  <2>1. (udpq \ {q}) \ {0} = udpq \ {0}
    BY <1>2
  <2> QED
    BY <1>1, <1>2, <2>1, FS_CardinalityType
<1>3. CASE q # 0
  <2>1. (udpq \ {q}) \ {0} = (udpq \ {0}) \ {q} /\ q \in udpq \ {0}
    BY <1>3
  <2>2. Cardinality((udpq \ {0}) \ {q}) = Cardinality(udpq \ {0}) - 1
    BY <1>1, <2>1, FS_RemoveElement
  <2> QED
    BY <1>1, <1>3, <2>1, <2>2, FS_CardinalityType
<1> QED
  BY <1>2, <1>3

(* The next identifiers are new. *)
LEMMA FreshIds ==
    ASSUME TypeOK, CountInv
    PROVE  /\ \A q \in udpq \ {0} : NextId(next_udp_id) = next_udp_id + 1
           /\ \A c \in backlog : NextId(next_tcp_id) = next_tcp_id + 1
<1>1. ASSUME NEW q \in udpq \ {0} PROVE NextId(next_udp_id) = next_udp_id + 1
  <2>1. Cardinality(udpq \ {0}) \in Nat /\ Cardinality(udpq \ {0}) - 1 \in Nat
    BY <1>1, TakeDatagram DEF CountInv
  <2>2. next_udp_id + 1 < IdMod
    BY <2>1, TunnelAssumption DEF CountInv, TypeOK, TableTypes, ClientTypes
  <2> QED
    BY <2>2, IdFacts DEF TypeOK, TableTypes
<1>2. ASSUME NEW c \in backlog PROVE NextId(next_tcp_id) = next_tcp_id + 1
  <2>1. Cardinality(backlog) \in Nat /\ Cardinality(backlog) - 1 \in Nat
    <3>1. IsFiniteSet(backlog) /\ IsFiniteSet(backlog \ {c})
      BY FS_RemoveElement DEF CountInv
    <3>2. Cardinality(backlog \ {c}) = Cardinality(backlog) - 1
      BY <3>1, FS_RemoveElement
    <3> QED
      BY <3>1, <3>2, FS_CardinalityType
  <2>2. next_tcp_id + 1 < IdMod
    BY <2>1, TunnelAssumption DEF CountInv, TypeOK, TableTypes, ClientTypes
  <2> QED
    BY <2>2, IdFacts DEF TypeOK, TableTypes
<1> QED
  BY <1>1, <1>2

(* Every step keeps the count. *)
LEMMA CountStep ==
    ASSUME TypeOK, CountInv, [Next]_vars PROVE CountInv'
<1> USE DEF CountInv, tableVars, clientVars, chanVars, hostVars, outVars, loopVars
<1>1. CASE PollReady
  BY <1>1 DEF PollReady, ReadyFds, ReadyConns
<1>2. CASE PollTimeout
  BY <1>2 DEF PollTimeout, Expire
<1>3. CASE NextStage
  BY <1>3 DEF NextStage, Follow
<1>4. CASE UdpForward
  <2>1. PICK q \in udpq \ {0} : udpq' = udpq \ {q} /\ next_udp_id' = next_udp_id + 1
    BY <1>4, FreshIds DEF UdpForward, UdpAlloc
  <2>2. /\ IsFiniteSet(udpq') /\ Cardinality(udpq \ {0}) \in Nat
        /\ Cardinality(udpq' \ {0}) = Cardinality(udpq \ {0}) - 1
    BY <2>1, TakeDatagram
  <2>3. next_udp_id \in Nat /\ queries \in Nat
    BY DEF TypeOK, TableTypes, ClientTypes
  <2>4. next_udp_id' + Cardinality(udpq' \ {0}) <= queries
    BY <2>1, <2>2, <2>3
  <2>5. UNCHANGED <<queries, backlog, next_tcp_id, conns>>
    BY <1>4 DEF UdpForward
  <2> QED
    BY <2>2, <2>4, <2>5
<1>5. CASE UdpBreak
  <2>1. PICK q \in udpq : /\ udpq' = udpq \ {q}
                          /\ \/ next_udp_id' = next_udp_id
                             \/ q # 0 /\ next_udp_id' = next_udp_id + 1
    BY <1>5, FreshIds DEF UdpBreak
  <2>2. /\ IsFiniteSet(udpq') /\ Cardinality(udpq \ {0}) \in Nat
        /\ Cardinality(udpq' \ {0}) \in Nat
        /\ Cardinality(udpq' \ {0}) <= Cardinality(udpq \ {0})
        /\ q # 0 => Cardinality(udpq' \ {0}) = Cardinality(udpq \ {0}) - 1
    BY <2>1, TakeDatagram
  <2>3. next_udp_id \in Nat /\ queries \in Nat
    BY DEF TypeOK, TableTypes, ClientTypes
  <2>4. next_udp_id' + Cardinality(udpq' \ {0}) <= queries
    BY <2>1, <2>2, <2>3
  <2>5. UNCHANGED <<queries, backlog, next_tcp_id, conns>>
    BY <1>5 DEF UdpBreak
  <2> QED
    BY <2>2, <2>4, <2>5
<1>6. CASE Accept
  <2>1. PICK c \in backlog : /\ backlog' = backlog \ {c}
                             /\ next_tcp_id' \in {next_tcp_id, next_tcp_id + 1}
    BY <1>6, FreshIds DEF Accept, TcpAlloc
  <2>2. /\ IsFiniteSet(backlog \ {c}) /\ Cardinality(backlog) \in Nat
        /\ Cardinality(backlog \ {c}) = Cardinality(backlog) - 1
    BY FS_RemoveElement, FS_CardinalityType
  <2>3. next_tcp_id \in Nat /\ conns \in Nat
    BY DEF TypeOK, TableTypes, ClientTypes
  <2>4. next_tcp_id' + Cardinality(backlog') <= conns
    BY <2>1, <2>2, <2>3
  <2>5. UNCHANGED <<queries, udpq, next_udp_id, conns>>
    BY <1>6 DEF Accept
  <2> QED
    BY <2>1, <2>2, <2>4, <2>5
<1>7. CASE ChannelStop
  BY <1>7 DEF ChannelStop, Follow
<1>8. ASSUME NEW m \in inbox, RouteNowhere(m) PROVE CountInv'
  BY <1>8 DEF RouteNowhere, ChannelTake, Follow
<1>9. ASSUME NEW m \in inbox, NEW s \in Slot, RouteUdp(m, s) PROVE CountInv'
  BY <1>9 DEF RouteUdp, ChannelTake, Follow, UdpFree
<1>10. ASSUME NEW m \in inbox, NEW s \in TSlot, RouteTcp(m, s) PROVE CountInv'
  BY <1>10 DEF RouteTcp, ChannelTake, Follow, TcpClose
<1>11. ASSUME NEW e \in events, ConnClose(e) PROVE CountInv'
  BY <1>11 DEF ConnClose, ConnDone, Current, TcpClose, ChannelFail
<1>12. ASSUME NEW e \in events, ConnForward(e) PROVE CountInv'
  BY <1>12 DEF ConnForward, Current, ChannelSend
<1>13. ASSUME NEW e \in events, ConnIdle(e) PROVE CountInv'
  BY <1>13 DEF ConnIdle, ConnDone, Current
<1>14. CASE PassDone
  BY <1>14 DEF PassDone
<1>15. CASE Shutdown
  BY <1>15 DEF Shutdown
<1>16. ASSUME NEW b \in BOOLEAN, UdpQuery(b) PROVE CountInv'
  <2>1. CASE b
    <3>1. udpq' \ {0} = udpq \ {0} /\ udpq' = udpq \cup {0} /\ queries' = queries + 1
      BY <1>16, <2>1 DEF UdpQuery
    <3>2. IsFiniteSet(udpq') /\ Cardinality(udpq \ {0}) \in Nat
      BY <3>1, FS_AddElement, FS_RemoveElement, FS_CardinalityType
    <3>3. next_udp_id \in Nat /\ queries \in Nat
      BY DEF TypeOK, TableTypes, ClientTypes
    <3>4. next_udp_id + Cardinality(udpq' \ {0}) <= queries'
      BY <3>1, <3>2, <3>3
    <3>5. UNCHANGED <<next_udp_id, backlog, next_tcp_id, conns>>
      BY <1>16 DEF UdpQuery
    <3> QED
      BY <3>2, <3>4, <3>5
  <2>2. CASE ~b
    <3>1. /\ udpq' \ {0} = (udpq \ {0}) \cup {queries + 1}
          /\ udpq' = udpq \cup {queries + 1} /\ queries' = queries + 1
      BY <1>16, <2>2 DEF UdpQuery, TypeOK, ClientTypes
    <3>2. queries + 1 \notin udpq \ {0}
      BY DEF TypeOK, ClientTypes
    <3>3. IsFiniteSet(udpq \ {0}) /\ IsFiniteSet(udpq')
      BY <3>1, FS_AddElement, FS_RemoveElement
    <3>4. /\ Cardinality((udpq \ {0}) \cup {queries + 1}) = Cardinality(udpq \ {0}) + 1
          /\ Cardinality(udpq \ {0}) \in Nat
      BY <3>2, <3>3, FS_AddElement, FS_CardinalityType
    <3>5. next_udp_id \in Nat /\ queries \in Nat
      BY DEF TypeOK, TableTypes, ClientTypes
    <3>6. Cardinality(udpq' \ {0}) = Cardinality(udpq \ {0}) + 1
      BY <3>1, <3>4, Zenon
    <3>7. next_udp_id + Cardinality(udpq' \ {0}) <= queries'
      BY <3>1, <3>4, <3>5, <3>6
    <3>8. UNCHANGED <<next_udp_id, backlog, next_tcp_id, conns>>
      BY <1>16 DEF UdpQuery
    <3> QED
      BY <3>3, <3>7, <3>8
  <2> QED
    BY <2>1, <2>2
<1>17. CASE TcpConnect
  <2>1. /\ IsFiniteSet(backlog \cup {conns + 1}) /\ Cardinality(backlog) \in Nat
        /\ Cardinality(backlog \cup {conns + 1}) = Cardinality(backlog) + 1
    <3>1. conns + 1 \notin backlog
      BY DEF TypeOK, ClientTypes
    <3> QED
      BY <3>1, FS_AddElement, FS_CardinalityType
  <2> QED
    BY <1>17, <2>1 DEF TcpConnect, TypeOK, TableTypes, ClientTypes
<1>18. ASSUME NEW c \in Conn, TcpQuery(c) PROVE CountInv'
  BY <1>18 DEF TcpQuery
<1>19. ASSUME NEW c \in Conn, TcpGone(c) PROVE CountInv'
  BY <1>19 DEF TcpGone
<1>20. ASSUME NEW m \in received \cup {Odd("other"), Odd("bad")}, HostAnswer(m)
       PROVE  CountInv'
  BY <1>20 DEF HostAnswer, Odd
<1>21. CASE HostClose
  BY <1>21 DEF HostClose
<1>22. ASSUME NEW s \in Slot, Age(s) PROVE CountInv'
  BY <1>22 DEF Age
<1>23. CASE UNCHANGED vars
  BY <1>23 DEF vars
<1> QED
    BY <1>1, <1>2, <1>3, <1>4, <1>5, <1>6, <1>7, <1>8, <1>9, <1>10, <1>11,
     <1>12, <1>13, <1>14, <1>15, <1>16, <1>17, <1>18, <1>19, <1>20, <1>21,
     <1>22, <1>23 DEF Next, Run, Channel, Conns, Clients, Host, PollError

-----------------------------------------------------------------------------
(*                           Who asked, who is answered                    *)

(* What the host says was asked before. *)
InboxInv == inbox \subseteq received \cup {Odd("other"), Odd("bad")}

(* An identifier the host has seen was handed out before, and if it is     *)
(* still in the table, it is the same client's.                            *)
UdpRoute ==
    /\ \A s \in Slot : udp_map[s].used => udp_map[s].id <= next_udp_id
    /\ \A m \in received : m.proto = "udp" => m.id <= next_udp_id
    /\ \A m \in received, s \in Slot :
        (m.proto = "udp" /\ udp_map[s].used /\ udp_map[s].id = m.id)
            => m.who = udp_map[s].client

(* No identifier is in the table twice. *)
TcpDistinct ==
    \A r, s \in TSlot : (r # s /\ tcp_conns[r].used /\ tcp_conns[s].used)
        => tcp_conns[r].id # tcp_conns[s].id

(* The same for TCP, where a connection asks many times. *)
TcpRoute ==
    /\ \A s \in TSlot : tcp_conns[s].used => tcp_conns[s].id <= next_tcp_id
    /\ \A m \in received : m.proto = "tcp" => m.id <= next_tcp_id
    /\ \A m \in received, s \in TSlot :
        (m.proto = "tcp" /\ tcp_conns[s].used /\ tcp_conns[s].id = m.id)
            => m.who = tcp_conns[s].conn

(* A query in the socket or in the table has not been answered, and no     *)
(* query is in the table twice.                                            *)
Unanswered ==
    /\ \A q \in udpq \ {0} :
        q \notin answered /\ \A s \in Slot : udp_map[s].used => udp_map[s].client # q
    /\ \A s \in Slot : udp_map[s].used =>
        udp_map[s].client <= queries /\ udp_map[s].client \notin answered
    /\ \A r, s \in Slot : (r # s /\ udp_map[r].used /\ udp_map[s].used)
        => udp_map[r].client # udp_map[s].client
    /\ \A q \in answered : q <= queries

(* Every step keeps what the host may say. *)
LEMMA InboxStep ==
    ASSUME InboxInv, [Next]_vars PROVE InboxInv'
<1> USE DEF InboxInv, tableVars, clientVars, chanVars, hostVars, outVars, loopVars
<1>1. CASE PollReady
  BY <1>1 DEF PollReady, ReadyFds, ReadyConns
<1>2. CASE PollTimeout
  BY <1>2 DEF PollTimeout, Expire
<1>3. CASE NextStage
  BY <1>3 DEF NextStage, Follow
<1>4. CASE UdpForward
  BY <1>4 DEF UdpForward, UdpAlloc, FirstFree, ChannelSend
<1>5. CASE UdpBreak
  BY <1>5 DEF UdpBreak, ChannelFail, Follow
<1>6. CASE Accept
  BY <1>6 DEF Accept, TcpAlloc, FirstFree
<1>7. CASE ChannelStop
  BY <1>7 DEF ChannelStop, Follow
<1>8. ASSUME NEW m \in inbox, RouteNowhere(m) PROVE InboxInv'
  BY <1>8 DEF RouteNowhere, ChannelTake, Follow
<1>9. ASSUME NEW m \in inbox, NEW s \in Slot, RouteUdp(m, s) PROVE InboxInv'
  BY <1>9 DEF RouteUdp, ChannelTake, Follow, UdpFree
<1>10. ASSUME NEW m \in inbox, NEW s \in TSlot, RouteTcp(m, s) PROVE InboxInv'
  BY <1>10 DEF RouteTcp, ChannelTake, Follow, TcpClose
<1>11. ASSUME NEW e \in events, ConnClose(e) PROVE InboxInv'
  BY <1>11 DEF ConnClose, ConnDone, Current, TcpClose, ChannelFail
<1>12. ASSUME NEW e \in events, ConnForward(e) PROVE InboxInv'
  BY <1>12 DEF ConnForward, Current, ChannelSend
<1>13. ASSUME NEW e \in events, ConnIdle(e) PROVE InboxInv'
  BY <1>13 DEF ConnIdle, ConnDone, Current
<1>14. CASE PassDone
  BY <1>14 DEF PassDone
<1>15. CASE Shutdown
  BY <1>15 DEF Shutdown
<1>16. ASSUME NEW b \in BOOLEAN, UdpQuery(b) PROVE InboxInv'
  BY <1>16 DEF UdpQuery
<1>17. CASE TcpConnect
  BY <1>17 DEF TcpConnect
<1>18. ASSUME NEW c \in Conn, TcpQuery(c) PROVE InboxInv'
  BY <1>18 DEF TcpQuery
<1>19. ASSUME NEW c \in Conn, TcpGone(c) PROVE InboxInv'
  BY <1>19 DEF TcpGone
<1>20. ASSUME NEW m \in received \cup {Odd("other"), Odd("bad")}, HostAnswer(m)
       PROVE  InboxInv'
  BY <1>20 DEF HostAnswer, Odd
<1>21. CASE HostClose
  BY <1>21 DEF HostClose
<1>22. ASSUME NEW s \in Slot, Age(s) PROVE InboxInv'
  BY <1>22 DEF Age
<1>23. CASE UNCHANGED vars
  BY <1>23 DEF vars
<1> QED
    BY <1>1, <1>2, <1>3, <1>4, <1>5, <1>6, <1>7, <1>8, <1>9, <1>10, <1>11,
     <1>12, <1>13, <1>14, <1>15, <1>16, <1>17, <1>18, <1>19, <1>20, <1>21,
     <1>22, <1>23 DEF Next, Run, Channel, Conns, Clients, Host, PollError

(* A deadline that passes leaves the rest of the entry alone. *)
LEMMA AgedEntry ==
    ASSUME TableTypes, NEW s \in Slot, Age(s)
    PROVE  \A r \in Slot :
              /\ udp_map'[r].used = udp_map[r].used
              /\ udp_map[r].used => /\ udp_map'[r].id = udp_map[r].id
                                    /\ udp_map'[r].client = udp_map[r].client
<1>1. udp_map[s].used /\ udp_map[s] \in Entry
  BY DEF Age, TableTypes
<1>2. udp_map[s] \in [used : {TRUE}, id : Nat, client : 1..MaxQueries, aged : BOOLEAN]
  BY <1>1, EntryFacts DEF Entry
<1>3. /\ udp_map'[s] = [udp_map[s] EXCEPT !.aged = TRUE]
      /\ \A r \in Slot : r # s => udp_map'[r] = udp_map[r]
  BY DEF Age, TableTypes
<1> QED
  BY <1>2, <1>3

(* Every step keeps the UDP identifiers apart. *)
LEMMA UdpRouteStep ==
    ASSUME TypeOK, CountInv, UdpRoute, [Next]_vars PROVE UdpRoute'
<1> USE DEF UdpRoute, tableVars, clientVars, chanVars, hostVars, outVars, loopVars
<1>1. CASE PollReady
  BY <1>1 DEF PollReady, ReadyFds, ReadyConns
<1>2. CASE PollTimeout
  <2>1. \A s \in Slot : udp_map'[s] = udp_map[s] \/ ~udp_map'[s].used
    BY <1>2, EntryFacts DEF PollTimeout, Expire
  <2> QED
    BY <1>2, <2>1 DEF PollTimeout
<1>3. CASE NextStage
  BY <1>3 DEF NextStage, Follow
<1>4. CASE UdpForward
  <2>1. PICK q \in udpq \ {0}, s \in Slot :
            /\ UdpAlloc(s, q)
            /\ ChannelSend([proto |-> "udp", id |-> NextId(next_udp_id), who |-> q])
    BY <1>4 DEF UdpForward
  <2>2. NextId(next_udp_id) = next_udp_id + 1 /\ next_udp_id \in Nat
    BY <2>1, FreshIds DEF TypeOK, TableTypes
  <2> DEFINE new == [used |-> TRUE, id |-> next_udp_id + 1, client |-> q, aged |-> FALSE]
             msg == [proto |-> "udp", id |-> next_udp_id + 1, who |-> q]
  <2>3. /\ udp_map' = [udp_map EXCEPT ![s] = new] /\ next_udp_id' = next_udp_id + 1
        /\ received' \subseteq received \cup {msg}
    BY <2>1, <2>2 DEF UdpAlloc, ChannelSend
  <2>4. new.used /\ new.id = next_udp_id + 1 /\ new.client = q
        /\ msg.proto = "udp" /\ msg.id = next_udp_id + 1 /\ msg.who = q
    OBVIOUS
  <2>5. \A r \in Slot : udp_map'[r] = IF r = s THEN new ELSE udp_map[r]
    BY <2>3 DEF TypeOK, TableTypes
  <2>6. /\ \A r \in Slot : udp_map[r].used => udp_map[r].id \in Nat
        /\ \A m \in received : m.id \in Nat
    BY UsedFacts DEF TypeOK, TableTypes, ChannelTypes, Message
  <2> HIDE DEF new, msg
  <2> QED
    BY <2>2, <2>3, <2>4, <2>5, <2>6
<1>5. CASE UdpBreak
  <2>1. next_udp_id' >= next_udp_id /\ next_udp_id \in Nat /\ next_udp_id' \in Nat
    BY <1>5, FreshIds DEF UdpBreak, TypeOK, TableTypes
  <2>2. UNCHANGED <<udp_map, received>>
    BY <1>5 DEF UdpBreak, ChannelFail
  <2>3. /\ \A r \in Slot : udp_map[r].used => udp_map[r].id \in Nat
        /\ \A m \in received : m.id \in Nat
    BY UsedFacts DEF TypeOK, TableTypes, ChannelTypes, Message
  <2> QED
    BY <2>1, <2>2, <2>3
<1>6. CASE Accept
  BY <1>6 DEF Accept, TcpAlloc, FirstFree
<1>7. CASE ChannelStop
  BY <1>7 DEF ChannelStop, Follow
<1>8. ASSUME NEW m \in inbox, RouteNowhere(m) PROVE UdpRoute'
  BY <1>8 DEF RouteNowhere, ChannelTake, Follow
<1>9. ASSUME NEW m \in inbox, NEW s \in Slot, RouteUdp(m, s) PROVE UdpRoute'
  <2>1. \A r \in Slot : udp_map'[r] = udp_map[r] \/ ~udp_map'[r].used
    BY <1>9, EntryFacts DEF RouteUdp, UdpFree, TypeOK, TableTypes
  <2> QED
    BY <1>9, <2>1 DEF RouteUdp, ChannelTake
<1>10. ASSUME NEW m \in inbox, NEW s \in TSlot, RouteTcp(m, s) PROVE UdpRoute'
  BY <1>10 DEF RouteTcp, ChannelTake, Follow, TcpClose
<1>11. ASSUME NEW e \in events, ConnClose(e) PROVE UdpRoute'
  BY <1>11 DEF ConnClose, ConnDone, Current, TcpClose, ChannelFail
<1>12. ASSUME NEW e \in events, ConnForward(e) PROVE UdpRoute'
  BY <1>12 DEF ConnForward, Current, ChannelSend
<1>13. ASSUME NEW e \in events, ConnIdle(e) PROVE UdpRoute'
  BY <1>13 DEF ConnIdle, ConnDone, Current
<1>14. CASE PassDone
  BY <1>14 DEF PassDone
<1>15. CASE Shutdown
  BY <1>15 DEF Shutdown
<1>16. ASSUME NEW b \in BOOLEAN, UdpQuery(b) PROVE UdpRoute'
  BY <1>16 DEF UdpQuery
<1>17. CASE TcpConnect
  BY <1>17 DEF TcpConnect
<1>18. ASSUME NEW c \in Conn, TcpQuery(c) PROVE UdpRoute'
  BY <1>18 DEF TcpQuery
<1>19. ASSUME NEW c \in Conn, TcpGone(c) PROVE UdpRoute'
  BY <1>19 DEF TcpGone
<1>20. ASSUME NEW m \in received \cup {Odd("other"), Odd("bad")}, HostAnswer(m)
       PROVE  UdpRoute'
  BY <1>20 DEF HostAnswer, Odd
<1>21. CASE HostClose
  BY <1>21 DEF HostClose
<1>22. ASSUME NEW s \in Slot, Age(s) PROVE UdpRoute'
  <2>1. \A r \in Slot : /\ udp_map'[r].used = udp_map[r].used
                        /\ udp_map[r].used => /\ udp_map'[r].id = udp_map[r].id
                                              /\ udp_map'[r].client = udp_map[r].client
    BY <1>22, AgedEntry DEF TypeOK
  <2> QED
    BY <1>22, <2>1 DEF Age
<1>23. CASE UNCHANGED vars
  BY <1>23 DEF vars
<1> QED
    BY <1>1, <1>2, <1>3, <1>4, <1>5, <1>6, <1>7, <1>8, <1>9, <1>10, <1>11,
     <1>12, <1>13, <1>14, <1>15, <1>16, <1>17, <1>18, <1>19, <1>20, <1>21,
     <1>22, <1>23 DEF Next, Run, Channel, Conns, Clients, Host, PollError

(* ... and the TCP identifiers. *)
LEMMA TcpRouteStep ==
    ASSUME TypeOK, CountInv, TcpDistinct, TcpRoute, [Next]_vars PROVE TcpRoute'
<1> USE DEF TcpRoute, tableVars, clientVars, chanVars, hostVars, outVars, loopVars
<1>1. CASE PollReady
  BY <1>1 DEF PollReady, ReadyFds, ReadyConns
<1>2. CASE PollTimeout
  BY <1>2 DEF PollTimeout, Expire
<1>3. CASE NextStage
  BY <1>3 DEF NextStage, Follow
<1>4. CASE UdpForward
  <2>1. PICK q \in udpq \ {0} :
            ChannelSend([proto |-> "udp", id |-> NextId(next_udp_id), who |-> q])
    BY <1>4 DEF UdpForward
  <2>2. \A m \in received' : m \in received \/ m.proto = "udp"
    BY <2>1 DEF ChannelSend
  <2> QED
    BY <1>4, <2>2 DEF UdpForward
<1>5. CASE UdpBreak
  BY <1>5 DEF UdpBreak, ChannelFail, Follow
<1>6. CASE Accept
  <2>1. PICK c \in backlog : \/ \E s \in TSlot : TcpAlloc(s, c)
                             \/ UNCHANGED <<tcp_conns, next_tcp_id>>
    BY <1>6 DEF Accept
  <2>2. /\ \A r \in TSlot : tcp_conns[r].used => tcp_conns[r].id \in Nat
        /\ \A m \in received : m.id \in Nat
        /\ received' = received /\ next_tcp_id \in Nat
    BY <1>6, UsedFacts DEF Accept, TypeOK, TableTypes, ChannelTypes, Message
  <2>3. CASE UNCHANGED <<tcp_conns, next_tcp_id>>
    BY <2>2, <2>3
  <2>4. ASSUME NEW s \in TSlot, TcpAlloc(s, c) PROVE TcpRoute'
    <3> DEFINE new == [used |-> TRUE, id |-> next_tcp_id + 1, conn |-> c]
    <3>1. tcp_conns' = [tcp_conns EXCEPT ![s] = new] /\ next_tcp_id' = next_tcp_id + 1
      BY <2>4, FreshIds DEF TcpAlloc
    <3>2. \A r \in TSlot : tcp_conns'[r] = IF r = s THEN new ELSE tcp_conns[r]
      BY <3>1 DEF TypeOK, TableTypes
    <3>3. new.id = next_tcp_id + 1
      OBVIOUS
    <3> HIDE DEF new
    <3> QED
      BY <2>2, <3>1, <3>2, <3>3
  <2> QED
    BY <2>1, <2>3, <2>4
<1>7. CASE ChannelStop
  BY <1>7 DEF ChannelStop, Follow
<1>8. ASSUME NEW m \in inbox, RouteNowhere(m) PROVE TcpRoute'
  BY <1>8 DEF RouteNowhere, ChannelTake, Follow
<1>9. ASSUME NEW m \in inbox, NEW s \in Slot, RouteUdp(m, s) PROVE TcpRoute'
  BY <1>9 DEF RouteUdp, ChannelTake, Follow, UdpFree
<1>10. ASSUME NEW m \in inbox, NEW s \in TSlot, RouteTcp(m, s) PROVE TcpRoute'
  <2>1. \A r \in TSlot : tcp_conns'[r] = tcp_conns[r] \/ ~tcp_conns'[r].used
    BY <1>10, EntryFacts DEF RouteTcp, TcpClose, TypeOK, TableTypes
  <2> QED
    BY <1>10, <2>1 DEF RouteTcp, ChannelTake
<1>11. ASSUME NEW e \in events, ConnClose(e) PROVE TcpRoute'
  <2>1. \A r \in TSlot : tcp_conns'[r] = tcp_conns[r] \/ ~tcp_conns'[r].used
    BY <1>11, EntryFacts DEF ConnClose, TcpClose, TypeOK, TableTypes
  <2> QED
    BY <1>11, <2>1 DEF ConnClose, ConnDone, ChannelFail
<1>12. ASSUME NEW e \in events, ConnForward(e) PROVE TcpRoute'
  <2>1. e.slot \in TSlot /\ tcp_conns[e.slot].used
    BY <1>12 DEF ConnForward, TypeOK, LoopTypes
  <2> DEFINE msg == [proto |-> "tcp", id |-> tcp_conns[e.slot].id,
                     who |-> tcp_conns[e.slot].conn]
  <2>2. received' \subseteq received \cup {msg} /\ UNCHANGED <<tcp_conns, next_tcp_id>>
    BY <1>12 DEF ConnForward, ChannelSend
  <2>3. msg.id = tcp_conns[e.slot].id /\ msg.who = tcp_conns[e.slot].conn
    OBVIOUS
  <2>4. \A r \in TSlot : (tcp_conns[r].used /\ tcp_conns[r].id = tcp_conns[e.slot].id)
            => tcp_conns[r].conn = tcp_conns[e.slot].conn
    BY <2>1 DEF TcpDistinct
  <2> HIDE DEF msg
  <2> QED
    BY <2>1, <2>2, <2>3, <2>4
<1>13. ASSUME NEW e \in events, ConnIdle(e) PROVE TcpRoute'
  BY <1>13 DEF ConnIdle, ConnDone, Current
<1>14. CASE PassDone
  BY <1>14 DEF PassDone
<1>15. CASE Shutdown
  <2>1. \A r \in TSlot : ~tcp_conns'[r].used
    BY <1>15, EntryFacts DEF Shutdown
  <2> QED
    BY <1>15, <2>1 DEF Shutdown
<1>16. ASSUME NEW b \in BOOLEAN, UdpQuery(b) PROVE TcpRoute'
  BY <1>16 DEF UdpQuery
<1>17. CASE TcpConnect
  BY <1>17 DEF TcpConnect
<1>18. ASSUME NEW c \in Conn, TcpQuery(c) PROVE TcpRoute'
  BY <1>18 DEF TcpQuery
<1>19. ASSUME NEW c \in Conn, TcpGone(c) PROVE TcpRoute'
  BY <1>19 DEF TcpGone
<1>20. ASSUME NEW m \in received \cup {Odd("other"), Odd("bad")}, HostAnswer(m)
       PROVE  TcpRoute'
  BY <1>20 DEF HostAnswer, Odd
<1>21. CASE HostClose
  BY <1>21 DEF HostClose
<1>22. ASSUME NEW s \in Slot, Age(s) PROVE TcpRoute'
  BY <1>22 DEF Age
<1>23. CASE UNCHANGED vars
  BY <1>23 DEF vars
<1> QED
    BY <1>1, <1>2, <1>3, <1>4, <1>5, <1>6, <1>7, <1>8, <1>9, <1>10, <1>11,
     <1>12, <1>13, <1>14, <1>15, <1>16, <1>17, <1>18, <1>19, <1>20, <1>21,
     <1>22, <1>23 DEF Next, Run, Channel, Conns, Clients, Host, PollError

(* Every step keeps identifiers unique in the table. *)
LEMMA TcpDistinctStep ==
    ASSUME TypeOK, CountInv, TcpRoute, TcpDistinct, [Next]_vars PROVE TcpDistinct'
<1> USE DEF TcpDistinct,
           tableVars, clientVars, chanVars, hostVars, outVars, loopVars
<1>1. CASE PollReady
  BY <1>1 DEF PollReady, ReadyFds, ReadyConns
<1>2. CASE PollTimeout
  BY <1>2 DEF PollTimeout, Expire
<1>3. CASE NextStage
  BY <1>3 DEF NextStage, Follow
<1>4. CASE UdpForward
  BY <1>4 DEF UdpForward, UdpAlloc, FirstFree, ChannelSend
<1>5. CASE UdpBreak
  BY <1>5 DEF UdpBreak, ChannelFail, Follow
<1>6. CASE Accept
  <2>1. PICK c \in backlog : \/ \E s \in TSlot : TcpAlloc(s, c)
                             \/ UNCHANGED <<tcp_conns, next_tcp_id>>
    BY <1>6 DEF Accept
  <2>2. /\ \A r \in TSlot : tcp_conns[r].used =>
                tcp_conns[r].id \in Nat /\ tcp_conns[r].id <= next_tcp_id
        /\ next_tcp_id \in Nat
    BY UsedFacts DEF TypeOK, TableTypes, TcpRoute
  <2>3. CASE UNCHANGED <<tcp_conns, next_tcp_id>>
    BY <2>3
  <2>4. ASSUME NEW s \in TSlot, TcpAlloc(s, c) PROVE TcpDistinct'
    <3> DEFINE new == [used |-> TRUE, id |-> next_tcp_id + 1, conn |-> c]
    <3>1. tcp_conns' = [tcp_conns EXCEPT ![s] = new]
      BY <2>4, FreshIds DEF TcpAlloc
    <3>2. \A r \in TSlot : tcp_conns'[r] = IF r = s THEN new ELSE tcp_conns[r]
      BY <3>1 DEF TypeOK, TableTypes
    <3>3. new.id = next_tcp_id + 1
      OBVIOUS
    <3> HIDE DEF new
    <3> QED
      BY <2>2, <3>2, <3>3
  <2> QED
    BY <2>1, <2>3, <2>4
<1>7. CASE ChannelStop
  BY <1>7 DEF ChannelStop, Follow
<1>8. ASSUME NEW m \in inbox, RouteNowhere(m) PROVE TcpDistinct'
  BY <1>8 DEF RouteNowhere, ChannelTake, Follow
<1>9. ASSUME NEW m \in inbox, NEW s \in Slot, RouteUdp(m, s) PROVE TcpDistinct'
  BY <1>9 DEF RouteUdp, ChannelTake, Follow, UdpFree
<1>10. ASSUME NEW m \in inbox, NEW s \in TSlot, RouteTcp(m, s) PROVE TcpDistinct'
  <2>1. \A r \in TSlot : tcp_conns'[r] = tcp_conns[r] \/ ~tcp_conns'[r].used
    BY <1>10, EntryFacts DEF RouteTcp, TcpClose, TypeOK, TableTypes
  <2> QED
    BY <1>10, <2>1 DEF RouteTcp, ChannelTake
<1>11. ASSUME NEW e \in events, ConnClose(e) PROVE TcpDistinct'
  <2>1. \A r \in TSlot : tcp_conns'[r] = tcp_conns[r] \/ ~tcp_conns'[r].used
    BY <1>11, EntryFacts DEF ConnClose, TcpClose, TypeOK, TableTypes
  <2> QED
    BY <1>11, <2>1 DEF ConnClose, ConnDone
<1>12. ASSUME NEW e \in events, ConnForward(e) PROVE TcpDistinct'
  BY <1>12 DEF ConnForward, Current, ChannelSend
<1>13. ASSUME NEW e \in events, ConnIdle(e) PROVE TcpDistinct'
  BY <1>13 DEF ConnIdle, ConnDone, Current
<1>14. CASE PassDone
  BY <1>14 DEF PassDone
<1>15. CASE Shutdown
  <2>1. \A r \in TSlot : ~tcp_conns'[r].used
    BY <1>15, EntryFacts DEF Shutdown
  <2> QED
    BY <1>15, <2>1 DEF Shutdown
<1>16. ASSUME NEW b \in BOOLEAN, UdpQuery(b) PROVE TcpDistinct'
  BY <1>16 DEF UdpQuery
<1>17. CASE TcpConnect
  BY <1>17 DEF TcpConnect
<1>18. ASSUME NEW c \in Conn, TcpQuery(c) PROVE TcpDistinct'
  BY <1>18 DEF TcpQuery
<1>19. ASSUME NEW c \in Conn, TcpGone(c) PROVE TcpDistinct'
  BY <1>19 DEF TcpGone
<1>20. ASSUME NEW m \in received \cup {Odd("other"), Odd("bad")}, HostAnswer(m)
       PROVE  TcpDistinct'
  BY <1>20 DEF HostAnswer, Odd
<1>21. CASE HostClose
  BY <1>21 DEF HostClose
<1>22. ASSUME NEW s \in Slot, Age(s) PROVE TcpDistinct'
  BY <1>22 DEF Age
<1>23. CASE UNCHANGED vars
  BY <1>23 DEF vars
<1> QED
    BY <1>1, <1>2, <1>3, <1>4, <1>5, <1>6, <1>7, <1>8, <1>9, <1>10, <1>11,
     <1>12, <1>13, <1>14, <1>15, <1>16, <1>17, <1>18, <1>19, <1>20, <1>21,
     <1>22, <1>23 DEF Next, Run, Channel, Conns, Clients, Host, PollError

(* Every step keeps queries unanswered until they are answered. *)
LEMMA UnansweredStep ==
    ASSUME TypeOK, InboxInv, UdpRoute, Unanswered, [Next]_vars PROVE Unanswered'
<1> USE DEF Unanswered,
           tableVars, clientVars, chanVars, hostVars, outVars, loopVars
<1>1. CASE PollReady
  BY <1>1 DEF PollReady, ReadyFds, ReadyConns
<1>2. CASE PollTimeout
  <2>1. \A r \in Slot : udp_map'[r] = udp_map[r] \/ ~udp_map'[r].used
    BY <1>2, EntryFacts DEF PollTimeout, Expire, TypeOK, TableTypes
  <2> QED
    BY <1>2, <2>1 DEF PollTimeout
<1>3. CASE NextStage
  BY <1>3 DEF NextStage, Follow
<1>4. CASE UdpForward
  <2>1. PICK q \in udpq \ {0}, s \in Slot : UdpAlloc(s, q) /\ udpq' = udpq \ {q}
    BY <1>4 DEF UdpForward
  <2> DEFINE new == [used |-> TRUE, id |-> NextId(next_udp_id), client |-> q, aged |-> FALSE]
  <2>2. udp_map' = [udp_map EXCEPT ![s] = new]
    BY <2>1 DEF UdpAlloc
  <2>3. \A r \in Slot : udp_map'[r] = IF r = s THEN new ELSE udp_map[r]
    BY <2>2 DEF TypeOK, TableTypes
  <2>4. new.client = q
    OBVIOUS
  <2>5. q <= queries
    BY <2>1 DEF TypeOK, ClientTypes
  <2>6. UNCHANGED <<queries, answered>>
    BY <1>4 DEF UdpForward
  <2> HIDE DEF new
  <2> QED
    BY <2>1, <2>3, <2>4, <2>5, <2>6
<1>5. CASE UdpBreak
  <2>1. udpq' \subseteq udpq /\ UNCHANGED <<udp_map, queries, answered>>
    BY <1>5 DEF UdpBreak
  <2> QED
    BY <2>1
<1>6. CASE Accept
  BY <1>6 DEF Accept, TcpAlloc, FirstFree
<1>7. CASE ChannelStop
  BY <1>7 DEF ChannelStop, Follow
<1>8. ASSUME NEW m \in inbox, RouteNowhere(m) PROVE Unanswered'
  BY <1>8 DEF RouteNowhere, ChannelTake, Follow
<1>9. ASSUME NEW m \in inbox, NEW s \in Slot, RouteUdp(m, s) PROVE Unanswered'
  <2>1. m.who = udp_map[s].client
    BY <1>9 DEF RouteUdp, ChannelTake, InboxInv, Odd, UdpRoute
  <2>2. /\ answered' = answered \cup {m.who} /\ udp_map[s].used
        /\ UNCHANGED <<queries, udpq>>
    BY <1>9 DEF RouteUdp, ChannelTake
  <2>3. \A r \in Slot : IF r = s THEN ~udp_map'[r].used ELSE udp_map'[r] = udp_map[r]
    BY <1>9, EntryFacts DEF RouteUdp, UdpFree, TypeOK, TableTypes
  <2> QED
    BY <2>1, <2>2, <2>3
<1>10. ASSUME NEW m \in inbox, NEW s \in TSlot, RouteTcp(m, s) PROVE Unanswered'
  BY <1>10 DEF RouteTcp, ChannelTake, Follow, TcpClose
<1>11. ASSUME NEW e \in events, ConnClose(e) PROVE Unanswered'
  BY <1>11 DEF ConnClose, ConnDone, Current, TcpClose, ChannelFail
<1>12. ASSUME NEW e \in events, ConnForward(e) PROVE Unanswered'
  BY <1>12 DEF ConnForward, Current, ChannelSend
<1>13. ASSUME NEW e \in events, ConnIdle(e) PROVE Unanswered'
  BY <1>13 DEF ConnIdle, ConnDone, Current
<1>14. CASE PassDone
  BY <1>14 DEF PassDone
<1>15. CASE Shutdown
  BY <1>15 DEF Shutdown
<1>16. ASSUME NEW b \in BOOLEAN, UdpQuery(b) PROVE Unanswered'
  <2>1. /\ queries' = queries + 1 /\ udpq' \subseteq udpq \cup {0, queries + 1}
        /\ UNCHANGED <<udp_map, answered>>
    BY <1>16 DEF UdpQuery
  <2>2. /\ queries \in Nat /\ \A q \in answered : q \in Nat
        /\ \A r \in Slot : udp_map[r].used => udp_map[r].client \in Nat
    BY UsedFacts DEF TypeOK, TableTypes, ClientTypes, ChannelTypes
  <2> QED
    BY <2>1, <2>2
<1>17. CASE TcpConnect
  BY <1>17 DEF TcpConnect
<1>18. ASSUME NEW c \in Conn, TcpQuery(c) PROVE Unanswered'
  BY <1>18 DEF TcpQuery
<1>19. ASSUME NEW c \in Conn, TcpGone(c) PROVE Unanswered'
  BY <1>19 DEF TcpGone
<1>20. ASSUME NEW m \in received \cup {Odd("other"), Odd("bad")}, HostAnswer(m)
       PROVE  Unanswered'
  BY <1>20 DEF HostAnswer, Odd
<1>21. CASE HostClose
  BY <1>21 DEF HostClose
<1>22. ASSUME NEW s \in Slot, Age(s) PROVE Unanswered'
  <2>1. UNCHANGED <<udpq, queries, answered>>
    BY <1>22 DEF Age
  <2> QED
    BY <1>22, <2>1, AgedEntry DEF TypeOK
<1>23. CASE UNCHANGED vars
  BY <1>23 DEF vars
<1> QED
    BY <1>1, <1>2, <1>3, <1>4, <1>5, <1>6, <1>7, <1>8, <1>9, <1>10, <1>11,
     <1>12, <1>13, <1>14, <1>15, <1>16, <1>17, <1>18, <1>19, <1>20, <1>21,
     <1>22, <1>23 DEF Next, Run, Channel, Conns, Clients, Host, PollError

-----------------------------------------------------------------------------
(*                               The theorems                              *)

RepliesRight == ReplyToAsker /\ NoRepeatedReply

(* Everything the routing rests on; it is inductive. *)
RouteInv ==
    /\ TypeOK /\ EventInv /\ CountInv /\ InboxInv
    /\ UdpRoute /\ TcpRoute /\ TcpDistinct /\ Unanswered
    /\ RepliesRight

(* No step sends an answer to the wrong client, or twice. *)
LEMMA ReplyStep ==
    ASSUME RouteInv, [Next]_vars PROVE RepliesRight'
<1> USE DEF RepliesRight, ReplyToAsker, NoRepeatedReply,
           tableVars, clientVars, chanVars, hostVars, outVars, loopVars
<1>1. CASE PollReady
  BY <1>1 DEF PollReady, ReadyFds, ReadyConns, RouteInv
<1>2. CASE PollTimeout
  BY <1>2 DEF PollTimeout, Expire, RouteInv
<1>3. CASE NextStage
  BY <1>3 DEF NextStage, Follow, RouteInv
<1>4. CASE UdpForward
  BY <1>4 DEF UdpForward, UdpAlloc, FirstFree, ChannelSend, RouteInv
<1>5. CASE UdpBreak
  BY <1>5 DEF UdpBreak, ChannelFail, Follow, RouteInv
<1>6. CASE Accept
  BY <1>6 DEF Accept, TcpAlloc, FirstFree, RouteInv
<1>7. CASE ChannelStop
  BY <1>7 DEF ChannelStop, Follow, RouteInv
<1>8. ASSUME NEW m \in inbox, RouteNowhere(m) PROVE RepliesRight'
  BY <1>8 DEF RouteNowhere, ChannelTake, Follow, RouteInv
<1>9. ASSUME NEW m \in inbox, NEW s \in Slot, RouteUdp(m, s) PROVE RepliesRight'
  <2>1. m \in received /\ m.proto = "udp"
    BY <1>9 DEF RouteUdp, ChannelTake, RouteInv, InboxInv, Odd
  <2>2. m.who = udp_map[s].client /\ udp_map[s].client \notin answered
    BY <1>9, <2>1 DEF RouteUdp, RouteInv, UdpRoute, Unanswered
  <2> QED
    BY <1>9, <2>2 DEF RouteUdp, RouteInv
<1>10. ASSUME NEW m \in inbox, NEW s \in TSlot, RouteTcp(m, s) PROVE RepliesRight'
  <2>1. m \in received /\ m.proto = "tcp"
    BY <1>10 DEF RouteTcp, ChannelTake, RouteInv, InboxInv, Odd
  <2>2. m.who = tcp_conns[s].conn
    BY <1>10, <2>1 DEF RouteTcp, RouteInv, TcpRoute
  <2>3. ~misrouted'
    <3>1. ~misrouted
      BY DEF RouteInv
    <3>2. CASE misrouted' = (misrouted \/ m.who # tcp_conns[s].conn)
      BY <2>2, <3>1, <3>2
    <3>3. CASE misrouted' = misrouted
      BY <3>1, <3>3
    <3> QED
      BY <1>10, <3>2, <3>3 DEF RouteTcp
  <2>4. repeated' = repeated
    BY <1>10 DEF RouteTcp
  <2> QED
    BY <2>3, <2>4 DEF RouteInv
<1>11. ASSUME NEW e \in events, ConnClose(e) PROVE RepliesRight'
  BY <1>11 DEF ConnClose, ConnDone, Current, TcpClose, ChannelFail, RouteInv
<1>12. ASSUME NEW e \in events, ConnForward(e) PROVE RepliesRight'
  BY <1>12 DEF ConnForward, Current, ChannelSend, RouteInv
<1>13. ASSUME NEW e \in events, ConnIdle(e) PROVE RepliesRight'
  BY <1>13 DEF ConnIdle, ConnDone, Current, RouteInv
<1>14. CASE PassDone
  BY <1>14 DEF PassDone, RouteInv
<1>15. CASE Shutdown
  BY <1>15 DEF Shutdown, RouteInv
<1>16. ASSUME NEW b \in BOOLEAN, UdpQuery(b) PROVE RepliesRight'
  BY <1>16 DEF UdpQuery, RouteInv
<1>17. CASE TcpConnect
  BY <1>17 DEF TcpConnect, RouteInv
<1>18. ASSUME NEW c \in Conn, TcpQuery(c) PROVE RepliesRight'
  BY <1>18 DEF TcpQuery, RouteInv
<1>19. ASSUME NEW c \in Conn, TcpGone(c) PROVE RepliesRight'
  BY <1>19 DEF TcpGone, RouteInv
<1>20. ASSUME NEW m \in received \cup {Odd("other"), Odd("bad")}, HostAnswer(m)
       PROVE  RepliesRight'
  BY <1>20 DEF HostAnswer, Odd, RouteInv
<1>21. CASE HostClose
  BY <1>21 DEF HostClose, RouteInv
<1>22. ASSUME NEW s \in Slot, Age(s) PROVE RepliesRight'
  BY <1>22 DEF Age, RouteInv
<1>23. CASE UNCHANGED vars
  BY <1>23 DEF vars, RouteInv
<1> QED
    BY <1>1, <1>2, <1>3, <1>4, <1>5, <1>6, <1>7, <1>8, <1>9, <1>10, <1>11,
     <1>12, <1>13, <1>14, <1>15, <1>16, <1>17, <1>18, <1>19, <1>20, <1>21,
     <1>22, <1>23 DEF Next, Run, Channel, Conns, Clients, Host, PollError

(* Answers go only to the client that asked, and no UDP query is answered  *)
(* twice, whatever the host sends and however slots are reused.            *)
THEOREM Routing == Spec => [](ReplyToAsker /\ NoRepeatedReply /\ RouteInv)
<1>1. Init => RouteInv
  <2> SUFFICES ASSUME Init PROVE RouteInv
    OBVIOUS
  <2>1. TypeOK
    BY InitTypes
  <2>2. EventInv /\ InboxInv
    BY DEF Init, EventInv, EventForItsConnection, InboxInv
  <2>3. CountInv
    <3>1. {} \ {0} = {} /\ IsFiniteSet({}) /\ Cardinality({}) = 0
      BY FS_EmptySet
    <3> QED
      BY <3>1 DEF Init, CountInv
  <2>4. /\ \A s \in Slot : ~udp_map[s].used
        /\ \A s \in TSlot : ~tcp_conns[s].used
    BY EntryFacts DEF Init
  <2>5. UdpRoute /\ TcpRoute /\ TcpDistinct
    BY <2>4 DEF Init, UdpRoute, TcpRoute, TcpDistinct
  <2>6. Unanswered
    BY <2>4 DEF Init, Unanswered
  <2>7. RepliesRight
    BY Zenon DEF Init, RepliesRight, ReplyToAsker, NoRepeatedReply
  <2> QED
    BY <2>1, <2>2, <2>3, <2>5, <2>6, <2>7 DEF RouteInv
<1>2. RouteInv /\ [Next]_vars => RouteInv'
  <2> SUFFICES ASSUME RouteInv, [Next]_vars PROVE RouteInv'
    OBVIOUS
  <2>1. TypeOK'
    BY TypeStep DEF RouteInv
  <2>2. EventInv' /\ CountInv' /\ InboxInv'
    BY EventStep, CountStep, InboxStep DEF RouteInv
  <2>3. UdpRoute' /\ TcpRoute' /\ TcpDistinct'
    BY UdpRouteStep, TcpRouteStep, TcpDistinctStep DEF RouteInv
  <2>4. Unanswered' /\ RepliesRight'
    BY UnansweredStep, ReplyStep DEF RouteInv
  <2> QED
    BY <2>1, <2>2, <2>3, <2>4 DEF RouteInv
<1>3. RouteInv => ReplyToAsker /\ NoRepeatedReply
  BY DEF RouteInv, RepliesRight
<1> QED
  BY <1>1, <1>2, <1>3, PTL DEF Spec

(* An answer goes to the client once: the entry it was found through is    *)
(* gone before another answer with its id can be read.                     *)
THEOREM RepliesOnce == Spec => []NoRepeatedReply
  BY Routing, PTL

(* An event poll() reported is never applied to another connection that    *)
(* took over its slot during the pass.                                     *)
THEOREM EventsStayWithConnections == Spec => []EventForItsConnection
<1>1. RouteInv => EventForItsConnection
  BY DEF RouteInv, EventInv
<1> QED
  BY <1>1, Routing, PTL

=============================================================================
