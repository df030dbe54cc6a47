------------------------- MODULE VirtualMachineProofs -------------------------
(***************************************************************************)
(* What is proved of the processes of the virtual machine, for every value *)
(* of their constants.  The components share no state; each has a section. *)
(***************************************************************************)
EXTENDS InteropClient, PortReservation, ProcessRelay, MiniInit, SequenceTheorems, TLAPS

-----------------------------------------------------------------------------
(***************************************************************************)
(* The port tracker: FreshBindKept.                                        *)
(*                                                                         *)
(* The tracker compares its table with a list of sockets that was made at  *)
(* an unknown time in the past, so the invariant has to say what a list    *)
(* that is still under way may contain (ListAt), what holds of a bind the  *)
(* kernel may still be working on (BindAt) and of one whose answer is      *)
(* posted but not yet given (ReplyAt), and which messages the host may     *)
(* still have to answer (ChannelAt).  Everything is about ports none of    *)
(* whose binds was let through because the port was tracked: Clean.        *)
(***************************************************************************)

IfMessage == [type |-> "if", what |-> "if", port |-> 0]
Requests == {IfMessage} \cup [type : {"port"}, what : {"reserve", "free"}, port : Ports]
Responses == [type : {"port", "if"}, ok : BOOLEAN]
CallStates == {"none", "notified", "passing", "bound", "closed", "denied", "killed"}
TrackerStates == {"read", "reserve", "refresh", "free", "freed", "resume", "exited"}

(* The types of what the threads keep. *)
PrTypes ==
    /\ prCall \in [Calls -> CallStates] /\ prAgain \subseteq Binds
    /\ prD \in {"poll", "reply", "receive", "respond"}
    /\ prD = "reply" => prDCall \in Binds
    /\ prD \in {"receive", "respond"} => prDCall \in Ioctls
    /\ prRequest \subseteq Binds /\ prReply \subseteq {0, 1}
    /\ prM \in TrackerStates /\ prMCall \subseteq Binds
    /\ prTodo \subseteq Ports /\ prTracked \in [Ports -> {"absent", "fresh", "late", "seen"}]
    /\ prR \in {"list", "wait"} /\ prHave \in BOOLEAN /\ prHost \subseteq Ports
    /\ prSent \in Seq(Requests) /\ prRecv \in Seq(Responses)
    /\ prLock \in {"free", "D", "M"}

Contents(s) == {s[i] : i \in 1..Len(s)}
NoPortIn(s) == \A m \in Contents(s) : m.type # "port"
OnePortIn(s) == \A i, j \in 1..Len(s) : s[i].type = "port" /\ s[j].type = "port" => i = j

(* One request about a port is under way at a time, and it is the one the  *)
(* tracker waits for; what the host was told agrees with the table.        *)
ChannelAt ==
    /\ prM \notin {"reserve", "freed"} => NoPortIn(prSent) /\ NoPortIn(prRecv)
    /\ OnePortIn(prSent) /\ OnePortIn(prRecv) /\ (NoPortIn(prSent) \/ NoPortIn(prRecv))
    /\ prM = "reserve" =>
         /\ \A m \in Contents(prSent) : m.type = "port" => m.what = "reserve" /\ m.port = PortOf[prDCall]
         /\ \A m \in Contents(prRecv) : m.type = "port" /\ m.ok => PortOf[prDCall] \in prHost
    /\ prM = "freed" =>
         \A m \in Contents(prSent) : m.type = "port" => m.what = "free" /\ m.port \notin Tracked
    /\ Tracked \subseteq prHost

(* The rendezvous of the dispatcher and the tracker, and the phases of a   *)
(* refresh.                                                                *)
PhaseAt ==
    /\ prD = "poll" => prReply = {} /\ prRequest = {}
    /\ prD = "reply" => prCall[prDCall] # "none"
    /\ \A c \in prRequest : prD = "reply" /\ prDCall = c /\ prReply = {}
    /\ prM = "reserve" => /\ prMCall = {prDCall} /\ prD = "reply" /\ prReply = {} /\ prRequest = {}
                          /\ PortOf[prDCall] # 0 /\ PortOf[prDCall] \notin Tracked
    /\ prM \in {"read", "reserve", "refresh", "resume"} => prTodo = {}
    /\ prM \in {"free", "freed"} => prHave
    /\ prHave => prR = "wait" /\ prResult = {}
    /\ prR = "list" => prResult = {}

Clean(p) == \A x \in prAgain : PortOf[x] # p

(* A list under way: its ports are tracked, and those it calls late still  *)
(* are.                                                                    *)
ListAt ==
    \A r \in prResult :
        /\ prResult = {r} /\ r.ports \subseteq Ports /\ r.late \subseteq Ports
        /\ \A p \in r.late : prTracked[p] = "late"
        /\ \A p \in r.ports : Clean(p) => p \in Tracked

(* A bind in use: its port is tracked and not about to be given back, it   *)
(* is the only one of its port, and no list under way can make the tracker *)
(* give it back.                                                           *)
BindAt ==
    \A b \in Binds :
        (InUse(b) /\ PortOf[b] # 0 /\ Clean(PortOf[b])) =>
            /\ PortOf[b] \in Tracked \ prTodo
            /\ prTracked[PortOf[b]] \in {"late", "seen"} => prCall[b] = "bound"
            /\ \A d \in Binds : InUse(d) /\ PortOf[d] = PortOf[b] => d = b
            /\ \A r \in prResult :
                 /\ PortOf[b] \in r.ports => prCall[b] = "bound"
                 /\ PortOf[b] \in r.late \/ prTracked[PortOf[b]] = "seen" => PortOf[b] \in r.ports

(* A bind that is to be let through: its port was just reserved for it.    *)
ReplyAt ==
    LET p == PortOf[prDCall] IN
    (prD = "reply" /\ prReply = {0} /\ StillValid(prDCall) /\ p # 0 /\ Clean(p)) =>
        /\ prTracked[p] = "fresh" /\ p \notin prTodo
        /\ \A b \in Binds : InUse(b) => PortOf[b] # p
        /\ \A r \in prResult : p \notin r.ports /\ p \notin r.late

PrInv == PrTypes /\ (Alive => ChannelAt /\ PhaseAt /\ ListAt /\ BindAt /\ ReplyAt)

-----------------------------------------------------------------------------
(* The messages of a sequence. *)

(* What a message that is sent adds to the channel. *)
LEMMA ContentsAppend ==
    ASSUME NEW S, NEW s \in Seq(S), NEW m \in S
    PROVE  /\ Append(s, m) \in Seq(S)
           /\ Contents(Append(s, m)) = Contents(s) \cup {m}
           /\ OnePortIn(s) /\ (NoPortIn(s) \/ m.type # "port") => OnePortIn(Append(s, m))
<1>1. /\ Append(s, m) \in Seq(S) /\ Len(Append(s, m)) = Len(s) + 1 /\ Len(s) \in Nat
      /\ Append(s, m)[Len(s) + 1] = m
      /\ \A i \in 1..Len(s) : Append(s, m)[i] = s[i]
  OBVIOUS
<1> DEFINE t == Append(s, m)
<1>2. /\ t \in Seq(S) /\ Len(t) = Len(s) + 1 /\ t[Len(s) + 1] = m
      /\ \A i \in 1..Len(s) : t[i] = s[i]
  BY <1>1
<1> HIDE DEF t
<1>3. Contents(t) = Contents(s) \cup {m}
  BY <1>1, <1>2 DEF Contents
<1>4. OnePortIn(s) /\ (NoPortIn(s) \/ m.type # "port") => OnePortIn(t)
  BY <1>1, <1>2 DEF OnePortIn, NoPortIn, Contents
<1>q. QED
  BY <1>2, <1>3, <1>4 DEF t

(* What a message that is received takes from it. *)
LEMMA ContentsTail ==
    ASSUME NEW S, NEW s \in Seq(S), s # <<>>
    PROVE  /\ Tail(s) \in Seq(S) /\ Head(s) \in S /\ Head(s) \in Contents(s)
           /\ Contents(Tail(s)) \subseteq Contents(s)
           /\ OnePortIn(s) => OnePortIn(Tail(s))
           /\ OnePortIn(s) /\ Head(s).type = "port" => NoPortIn(Tail(s))
<1>1. /\ Tail(s) \in Seq(S) /\ Len(Tail(s)) = Len(s) - 1 /\ Len(s) \in Nat \ {0}
      /\ Head(s) = s[1] /\ \A i \in 1..Len(s) : s[i] \in S
      /\ \A i \in 1..(Len(s) - 1) : Tail(s)[i] = s[i + 1]
  OBVIOUS
<1> DEFINE t == Tail(s)
<1>2. /\ t \in Seq(S) /\ Len(t) = Len(s) - 1
      /\ \A i \in 1..Len(t) : t[i] = s[i + 1] /\ i + 1 \in 1..Len(s)
  BY <1>1
<1> HIDE DEF t
<1>3. Head(s) \in S /\ Head(s) \in Contents(s)
  BY <1>1 DEF Contents
<1>4. Contents(t) \subseteq Contents(s)
  BY <1>1, <1>2 DEF Contents
<1>5. OnePortIn(s) => OnePortIn(t)
  BY <1>1, <1>2 DEF OnePortIn
<1>6. OnePortIn(s) /\ Head(s).type = "port" => NoPortIn(t)
  BY <1>1, <1>2 DEF OnePortIn, NoPortIn, Contents
<1>q. QED
  BY <1>2, <1>3, <1>4, <1>5, <1>6 DEF t

-----------------------------------------------------------------------------

(* A request that is sent. *)
LEMMA SendsTyped ==
    ASSUME PrTypes, NEW m \in Requests, Sends(m)
    PROVE  /\ prSent' \in Seq(Requests) /\ Contents(prSent') = Contents(prSent) \cup {m}
           /\ OnePortIn(prSent) /\ (NoPortIn(prSent) \/ m.type # "port") => OnePortIn(prSent')
  BY ContentsAppend DEF PrTypes, Sends

(* The initial state. *)
LEMMA PrInitInv == PrInit => PrInv
<1> SUFFICES ASSUME PrInit PROVE PrInv
  OBVIOUS
<1>1. PrTypes
  <2>1. /\ prCall \in [Calls -> CallStates] /\ prM \in TrackerStates
        /\ prTracked \in [Ports -> {"absent", "fresh", "late", "seen"}]
    BY DEF PrInit, CallStates, TrackerStates
  <2>2. prSent \in Seq(Requests) /\ prRecv \in Seq(Responses)
    BY DEF PrInit
  <2>q. QED
    BY <2>1, <2>2 DEF PrInit, PrTypes
<1>2. Tracked = {} /\ Contents(prSent) = {} /\ Contents(prRecv) = {}
  BY DEF PrInit, Tracked, Contents
<1>3. ChannelAt
  BY <1>2 DEF PrInit, ChannelAt, NoPortIn, OnePortIn
<1>4. PhaseAt
  BY DEF PrInit, PhaseAt
<1>5. ListAt /\ ReplyAt
  BY DEF PrInit, ListAt, ReplyAt
<1>6. BindAt
  BY DEF PrInit, BindAt, InUse, Calls
<1>q. QED
  BY <1>1, <1>3, <1>4, <1>5, <1>6 DEF PrInv

(* A tracker that has exited does not come back. *)
LEMMA StaysExited ==
    ASSUME PrTypes, Alive', [PrNext]_prVars
    PROVE  Alive
<1>1. CASE \E c \in Calls : Dispatches(c)
  BY <1>1 DEF Dispatches, Sends, CanReceive, StillValid, IfMessage, prVars, dVars, mVars,
     chanVars, Alive, PrTypes, TrackerStates
<1>2. CASE DispatcherReceives
  BY <1>2 DEF DispatcherReceives, prVars, dVars, mVars, chanVars, Alive, PrTypes,
     TrackerStates
<1>3. CASE Responds
  BY <1>3 DEF Responds, StillValid, prVars, dVars, mVars, chanVars, Alive, PrTypes,
     TrackerStates
<1>4. CASE \E c \in Binds : ReadsBind(c)
  BY <1>4 DEF ReadsBind, GetCallInfo, StillValid, Completes, RequestPort, Sends, CanReceive,
     TrackerExits, TrackerFrame, prVars, dVars, mVars, chanVars, Alive, PrTypes,
     TrackerStates
<1>5. CASE ReadsNothing
  BY <1>5 DEF ReadsNothing, TrackerFrame, prVars, dVars, mVars, chanVars, Alive, PrTypes,
     TrackerStates
<1>6. CASE Reserved
  BY <1>6 DEF Reserved, Completes, TrackerExits, TrackerFrame, prVars, dVars, mVars,
     chanVars, Alive, PrTypes, TrackerStates
<1>7. CASE NoRefresh
  BY <1>7 DEF NoRefresh, TrackerFrame, prVars, dVars, mVars, chanVars, Alive, PrTypes,
     TrackerStates
<1>8. CASE Freed
  BY <1>8 DEF Freed, TrackerExits, TrackerFrame, prVars, dVars, mVars, chanVars, Alive,
     PrTypes, TrackerStates
<1>9. CASE FreedAll
  BY <1>9 DEF FreedAll, TrackerFrame, prVars, dVars, mVars, chanVars, Alive, PrTypes,
     TrackerStates
<1>10. CASE Resumes
  BY <1>10 DEF Resumes, prVars, dVars, mVars, chanVars, Alive, PrTypes, TrackerStates
<1>11. CASE \E r \in prResult : TakesRefresh(r)
  BY <1>11 DEF TakesRefresh, GivesBack, TrackerFrame, prVars, dVars, mVars, chanVars, Alive,
     PrTypes, TrackerStates
<1>12. CASE \E p \in Ports : Frees(p)
  BY <1>12 DEF Frees, RequestPort, Sends, CanReceive, TrackerExits, TrackerFrame, prVars,
     dVars, mVars, chanVars, Alive, PrTypes, TrackerStates
<1>13. CASE Lists
  BY <1>13 DEF Lists, OnlyGuest, BoundPorts, prVars, dVars, mVars, chanVars, Alive, PrTypes,
     TrackerStates
<1>14. CASE \E ok \in BOOLEAN : HostAnswers(ok)
  BY <1>14 DEF HostAnswers, prVars, dVars, mVars, chanVars, Alive, PrTypes, TrackerStates
<1>15. CASE \E p \in Ports : Expires(p)
  BY <1>15 DEF Expires, prVars, dVars, mVars, chanVars, Alive, PrTypes, TrackerStates
<1>16. CASE \E c \in Calls : GuestCalls(c)
  BY <1>16 DEF GuestCalls, CallBecomes, OnlyGuest, prVars, dVars, mVars, chanVars, Alive,
     PrTypes, TrackerStates
<1>17. CASE \E c \in Calls : GuestKilled(c)
  BY <1>17 DEF GuestKilled, CallBecomes, OnlyGuest, prVars, dVars, mVars, chanVars, Alive,
     PrTypes, TrackerStates
<1>18. CASE \E c \in Calls : KernelBinds(c)
  BY <1>18 DEF KernelBinds, CallBecomes, OnlyGuest, prVars, dVars, mVars, chanVars, Alive,
     PrTypes, TrackerStates
<1>19. CASE \E b \in Binds : GuestCloses(b)
  BY <1>19 DEF GuestCloses, CallBecomes, OnlyGuest, prVars, dVars, mVars, chanVars, Alive,
     PrTypes, TrackerStates
<1>20. CASE UNCHANGED prVars
  BY <1>20 DEF prVars, dVars, mVars, chanVars, Alive, PrTypes, TrackerStates
<1>q. QED
  BY <1>1, <1>2, <1>3, <1>4, <1>5, <1>6, <1>7, <1>8, <1>9, <1>10, <1>11, <1>12, <1>13,
     <1>14, <1>15, <1>16, <1>17, <1>18, <1>19, <1>20 DEF PrNext, Dispatcher, Tracker, Host

(* The types are kept. *)
LEMMA PrTypesStep ==
    ASSUME PrTypes, [PrNext]_prVars
    PROVE  PrTypes'
<1>1. CASE \E c \in Calls : Dispatches(c)
  <2>1. PICK c \in Calls : Dispatches(c)
    BY <1>1
  <2>2. prSent' \in Seq(Requests)
    BY <2>1, SendsTyped, PrAssumption DEF Dispatches, chanVars, PrTypes, Requests, IfMessage, Calls
  <2>3. prReply' \subseteq {0, 1} /\ prLock' \in {"free", "D", "M"} /\ prRecv' \in Seq(Responses)
    BY <2>1, PrAssumption DEF Dispatches, PrTypes, CanReceive, chanVars, Calls
  <2>4. /\ prD' \in {"reply", "receive", "respond"} /\ prRequest' \subseteq Binds
        /\ prD' = "reply" => prDCall' \in Binds
        /\ prD' \in {"receive", "respond"} => prDCall' \in Ioctls
    BY <2>1, PrAssumption DEF Dispatches, PrTypes, CanReceive, chanVars, Calls
  <2>q. QED
    BY <2>1, <2>2, <2>3, <2>4 DEF Dispatches, PrTypes, prVars, mVars
<1>2. CASE DispatcherReceives
  BY PrAssumption, <1>2, ContentsTail DEF DispatcherReceives, prVars, dVars, mVars,
     chanVars, PrTypes, CallStates, TrackerStates, Calls, Tracked
<1>3. CASE Responds
  BY PrAssumption, <1>3 DEF Responds, StillValid, prVars, dVars, mVars, chanVars, PrTypes,
     CallStates, TrackerStates, Calls, Tracked
<1>4. CASE \E c \in Binds : ReadsBind(c)
  <2>1. PICK c \in Binds : ReadsBind(c)
    BY <1>4
  <2>2. prSent' \in Seq(Requests)
    <3>1. CASE UNCHANGED prSent
      BY <3>1 DEF PrTypes
    <3>2. CASE GetCallInfo(c) /\ RequestPort(PortOf[c], "reserve")
      <4>1. [type |-> "port", what |-> "reserve", port |-> PortOf[c]] \in Requests
        BY <3>2 DEF Requests, GetCallInfo, Ports
      <4>q. QED
        BY <3>2, <4>1, SendsTyped DEF RequestPort
    <3>q. QED
      BY <2>1, <3>1, <3>2 DEF ReadsBind, chanVars
  <2>3. prCall' \in [Calls -> CallStates] /\ prM' \in TrackerStates /\ prLock' \in {"free", "D", "M"}
    BY <2>1 DEF ReadsBind, Completes, TrackerExits, PrTypes, CallStates, TrackerStates, chanVars
  <2>4. prAgain' \subseteq Binds /\ prReply' \subseteq {0, 1} /\ prRecv' = prRecv
    BY <2>1 DEF ReadsBind, Completes, PrTypes, chanVars
  <2>q. QED
    BY <2>1, <2>2, <2>3, <2>4 DEF ReadsBind, PrTypes, TrackerFrame, prVars, mVars, dVars
<1>5. CASE ReadsNothing
  BY PrAssumption, <1>5 DEF ReadsNothing, TrackerFrame, prVars, dVars, mVars, chanVars,
     PrTypes, CallStates, TrackerStates, Calls, Tracked
<1>6. CASE Reserved
  <2>1. prRecv' \in Seq(Responses)
    BY <1>6, ContentsTail DEF Reserved, PrTypes
  <2>2. PICK c \in prMCall :
          \/ TrackerExits /\ UNCHANGED <<prTracked, prReply>>
          \/ /\ prReply' \subseteq {0, 1} /\ prM' = "refresh" /\ prLock' = "free" /\ prCall' = prCall
             /\ prTracked' \in {prTracked, [prTracked EXCEPT ![PortOf[c]] = "fresh"]}
    BY <1>6 DEF Reserved, Completes
  <2>3. prTracked' \in [Ports -> {"absent", "fresh", "late", "seen"}]
    BY <2>2 DEF TrackerExits, PrTypes
  <2>4. prCall' \in [Calls -> CallStates] /\ prM' \in TrackerStates /\ prLock' \in {"free", "D", "M"}
    BY <2>2 DEF TrackerExits, PrTypes, CallStates, TrackerStates
  <2>5. prReply' \subseteq {0, 1}
    BY <2>2 DEF PrTypes
  <2>6. UNCHANGED <<prAgain, prD, prDCall, prRequest, prMCall, prTodo, prR, prHave, prHost, prSent>>
    BY <1>6 DEF Reserved, TrackerFrame, dVars
  <2>q. QED
    BY <2>1, <2>3, <2>4, <2>5, <2>6 DEF PrTypes
<1>7. CASE NoRefresh
  BY PrAssumption, <1>7 DEF NoRefresh, TrackerFrame, prVars, dVars, mVars, chanVars,
     PrTypes, CallStates, TrackerStates, Calls, Tracked
<1>8. CASE Freed
  <2>1. prRecv' \in Seq(Responses)
    BY <1>8, ContentsTail DEF Freed, PrTypes
  <2>2. prCall' \in [Calls -> CallStates] /\ prM' \in TrackerStates /\ prLock' \in {"free", "D", "M"}
    BY <1>8 DEF Freed, TrackerExits, PrTypes, CallStates, TrackerStates
  <2>3. UNCHANGED <<prAgain, prD, prDCall, prRequest, prReply, prMCall, prTodo, prTracked, prR,
                    prHave, prHost, prSent>>
    BY <1>8 DEF Freed, TrackerFrame, dVars
  <2>q. QED
    BY <2>1, <2>2, <2>3 DEF PrTypes
<1>9. CASE FreedAll
  BY PrAssumption, <1>9 DEF FreedAll, TrackerFrame, prVars, dVars, mVars, chanVars, PrTypes,
     CallStates, TrackerStates, Calls, Tracked
<1>10. CASE Resumes
  BY PrAssumption, <1>10 DEF Resumes, prVars, dVars, mVars, chanVars, PrTypes, CallStates,
     TrackerStates, Calls, Tracked
<1>11. CASE \E r \in prResult : TakesRefresh(r)
  BY PrAssumption, <1>11 DEF TakesRefresh, GivesBack, TrackerFrame, prVars, dVars, mVars,
     chanVars, PrTypes, CallStates, TrackerStates, Calls, Tracked
<1>12. CASE \E p \in Ports : Frees(p)
  <2>1. PICK p \in Ports : Frees(p)
    BY <1>12
  <2>2. prSent' \in Seq(Requests)
    <3>1. [type |-> "port", what |-> "free", port |-> p] \in Requests
      BY DEF Requests
    <3>q. QED
      BY <2>1, <3>1, SendsTyped DEF Frees, RequestPort
  <2>3. prCall' \in [Calls -> CallStates] /\ prM' \in TrackerStates /\ prLock' \in {"free", "D", "M"}
    BY <2>1 DEF Frees, TrackerExits, PrTypes, CallStates, TrackerStates
  <2>4. prTodo' \subseteq Ports /\ prTracked' \in [Ports -> {"absent", "fresh", "late", "seen"}]
    BY <2>1 DEF Frees, PrTypes
  <2>5. UNCHANGED <<prAgain, prD, prDCall, prRequest, prReply, prMCall, prR, prHave, prHost, prRecv>>
    BY <2>1 DEF Frees, TrackerFrame, dVars
  <2>q. QED
    BY <2>2, <2>3, <2>4, <2>5 DEF PrTypes
<1>13. CASE Lists
  BY PrAssumption, <1>13 DEF Lists, OnlyGuest, BoundPorts, prVars, dVars, mVars, chanVars,
     PrTypes, CallStates, TrackerStates, Calls, Tracked
<1>14. CASE \E ok \in BOOLEAN : HostAnswers(ok)
  BY PrAssumption, <1>14, ContentsAppend, ContentsTail DEF HostAnswers, prVars, dVars,
     mVars, chanVars, PrTypes, CallStates, TrackerStates, Calls, Tracked, Requests,
     Responses, IfMessage
<1>15. CASE \E p \in Ports : Expires(p)
  BY PrAssumption, <1>15 DEF Expires, prVars, dVars, mVars, chanVars, PrTypes, CallStates,
     TrackerStates, Calls, Tracked
<1>16. CASE \E c \in Calls : GuestCalls(c)
  BY PrAssumption, <1>16 DEF GuestCalls, CallBecomes, OnlyGuest, prVars, dVars, mVars,
     chanVars, PrTypes, CallStates, TrackerStates, Calls, Tracked
<1>17. CASE \E c \in Calls : GuestKilled(c)
  BY PrAssumption, <1>17 DEF GuestKilled, CallBecomes, OnlyGuest, prVars, dVars, mVars,
     chanVars, PrTypes, CallStates, TrackerStates, Calls, Tracked
<1>18. CASE \E c \in Calls : KernelBinds(c)
  BY PrAssumption, <1>18 DEF KernelBinds, CallBecomes, OnlyGuest, prVars, dVars, mVars,
     chanVars, PrTypes, CallStates, TrackerStates, Calls, Tracked
<1>19. CASE \E b \in Binds : GuestCloses(b)
  BY PrAssumption, <1>19 DEF GuestCloses, CallBecomes, OnlyGuest, prVars, dVars, mVars,
     chanVars, PrTypes, CallStates, TrackerStates, Calls, Tracked
<1>20. CASE UNCHANGED prVars
  BY PrAssumption, <1>20 DEF prVars, dVars, mVars, chanVars, PrTypes, CallStates,
     TrackerStates, Calls, Tracked
<1>q. QED
  BY <1>1, <1>2, <1>3, <1>4, <1>5, <1>6, <1>7, <1>8, <1>9, <1>10, <1>11, <1>12, <1>13,
     <1>14, <1>15, <1>16, <1>17, <1>18, <1>19, <1>20 DEF PrNext, Dispatcher, Tracker, Host

(* The channel. *)
LEMMA ChannelStep ==
    ASSUME PrTypes, PrTypes', Alive, Alive', ChannelAt, PhaseAt, [PrNext]_prVars
    PROVE  ChannelAt'
<1>1. CASE \E c \in Calls : Dispatches(c)
  <2>1. PICK c \in Calls : Dispatches(c)
    BY <1>1
  <2>2. /\ UNCHANGED <<prM, prTracked, prHost, prRecv>>
        /\ \/ prSent' = prSent
           \/ Sends(IfMessage)
    BY <2>1, PrAssumption DEF Dispatches, IfMessage, mVars, chanVars, Calls
  <2>3. prM # "reserve"
    BY <2>1 DEF PhaseAt, Dispatches
  <2>4. \A m \in Contents(prSent') : m \in Contents(prSent) \/ m = IfMessage
    BY <2>2, SendsTyped DEF Requests
  <2>5. OnePortIn(prSent')
    BY <2>2, SendsTyped DEF Requests, IfMessage, ChannelAt
  <2>6. NoPortIn(prSent) => NoPortIn(prSent')
    BY <2>4 DEF NoPortIn, IfMessage
  <2>q. QED
    BY <2>2, <2>3, <2>4, <2>5, <2>6 DEF ChannelAt, Tracked, IfMessage
<1>2. CASE DispatcherReceives
  BY <1>2, ContentsTail DEF DispatcherReceives, prVars, dVars, mVars, chanVars, PrTypes,
     ChannelAt, Tracked, NoPortIn
<1>3. CASE Responds
  BY <1>3 DEF Responds, StillValid, prVars, dVars, mVars, chanVars, PrTypes, ChannelAt,
     Tracked, NoPortIn, PhaseAt
<1>4. CASE \E c \in Binds : ReadsBind(c)
  <2>1. PICK c \in Binds : ReadsBind(c)
    BY <1>4
  <2>2. CASE prM' = "refresh" /\ UNCHANGED chanVars
    BY <2>1, <2>2 DEF ReadsBind, ChannelAt, Tracked, chanVars, TrackerFrame
  <2>3. CASE GetCallInfo(c) /\ RequestPort(PortOf[c], "reserve") /\ prM' = "reserve" /\ prRecv' = prRecv
    <3> DEFINE m == [type |-> "port", what |-> "reserve", port |-> PortOf[c]]
    <3>1. m \in Requests
      BY <2>3 DEF Requests, GetCallInfo, Ports
    <3>2. NoPortIn(prSent) /\ NoPortIn(prRecv)
      BY <2>1 DEF ReadsBind, ChannelAt
    <3>3. Contents(prSent') = Contents(prSent) \cup {m} /\ OnePortIn(prSent')
      BY <2>3, <3>1, <3>2, SendsTyped DEF RequestPort, ChannelAt
    <3>4. prDCall' = c /\ UNCHANGED <<prTracked, prHost>>
      BY <2>1 DEF ReadsBind, PhaseAt, TrackerFrame, dVars
    <3>q. QED
      BY <2>3, <3>2, <3>3, <3>4 DEF ChannelAt, NoPortIn, Tracked
  <2>q. QED
    BY <2>1, <2>2, <2>3 DEF ReadsBind, Completes, TrackerExits, Alive
<1>5. CASE ReadsNothing
  BY <1>5 DEF ReadsNothing, TrackerFrame, prVars, dVars, mVars, chanVars, PrTypes,
     ChannelAt, Tracked, NoPortIn
<1>6. CASE Reserved
  <2>1. /\ prM = "reserve" /\ prM' = "refresh" /\ Head(prRecv).type = "port"
        /\ prRecv # <<>> /\ prRecv' = Tail(prRecv) /\ UNCHANGED <<prSent, prHost>>
        /\ \/ prTracked' = prTracked
           \/ Head(prRecv).ok /\ \E c \in prMCall : prTracked' = [prTracked EXCEPT ![PortOf[c]] = "fresh"]
    BY <1>6 DEF Reserved, TrackerExits, TrackerFrame, Completes, Alive
  <2>2. Head(prRecv) \in Contents(prRecv) /\ NoPortIn(prRecv') /\ OnePortIn(prRecv')
    BY <2>1, ContentsTail DEF PrTypes, ChannelAt
  <2>3. NoPortIn(prSent')
    BY <2>1, <2>2 DEF ChannelAt, NoPortIn
  <2>4. Tracked' \subseteq prHost'
    BY <2>1, <2>2 DEF ChannelAt, PhaseAt, Tracked, PrTypes
  <2>q. QED
    BY <2>1, <2>2, <2>3, <2>4 DEF ChannelAt
<1>7. CASE NoRefresh
  BY <1>7 DEF NoRefresh, TrackerFrame, prVars, dVars, mVars, chanVars, PrTypes, ChannelAt,
     Tracked, NoPortIn
<1>8. CASE Freed
  <2>1. /\ prM' = "free" /\ Head(prRecv).type = "port"
        /\ prRecv # <<>> /\ prRecv' = Tail(prRecv) /\ UNCHANGED <<prSent, prHost, prTracked>>
    BY <1>8 DEF Freed, TrackerExits, TrackerFrame, Alive
  <2>2. Head(prRecv) \in Contents(prRecv) /\ NoPortIn(prRecv') /\ OnePortIn(prRecv')
    BY <2>1, ContentsTail DEF PrTypes, ChannelAt
  <2>3. NoPortIn(prSent')
    BY <2>1, <2>2 DEF ChannelAt, NoPortIn
  <2>q. QED
    BY <2>1, <2>2, <2>3 DEF ChannelAt, Tracked
<1>9. CASE FreedAll
  BY <1>9 DEF FreedAll, TrackerFrame, prVars, dVars, mVars, chanVars, PrTypes, ChannelAt,
     Tracked, NoPortIn
<1>10. CASE Resumes
  BY <1>10 DEF Resumes, prVars, dVars, mVars, chanVars, PrTypes, ChannelAt, Tracked,
     NoPortIn
<1>11. CASE \E r \in prResult : TakesRefresh(r)
  BY <1>11 DEF TakesRefresh, GivesBack, TrackerFrame, prVars, dVars, mVars, chanVars,
     PrTypes, ChannelAt, Tracked, NoPortIn, PhaseAt
<1>12. CASE \E p \in Ports : Frees(p)
  BY <1>12, ContentsAppend, SMTT(40) DEF Frees, RequestPort, Sends, CanReceive, TrackerExits,
     TrackerFrame, prVars, dVars, mVars, chanVars, PrTypes, ChannelAt, Tracked, NoPortIn,
     Requests, Alive
<1>13. CASE Lists
  BY <1>13 DEF Lists, OnlyGuest, BoundPorts, prVars, dVars, mVars, chanVars, PrTypes,
     ChannelAt, Tracked, NoPortIn
<1>14. CASE \E ok \in BOOLEAN : HostAnswers(ok)
  <2>1. PICK ok \in BOOLEAN : HostAnswers(ok)
    BY <1>14
  <2> DEFINE m == Head(prSent)
             a == [type |-> m.type, ok |-> ok]
  <2>2. /\ prSent # <<>> /\ prSent' = Tail(prSent) /\ prRecv' = Append(prRecv, a)
        /\ UNCHANGED <<prM, prDCall, prTracked>>
    BY <2>1 DEF HostAnswers, mVars, dVars
  <2>3. /\ m \in Requests /\ m \in Contents(prSent) /\ Contents(prSent') \subseteq Contents(prSent)
        /\ OnePortIn(prSent') /\ (m.type = "port" => NoPortIn(prSent'))
    BY <2>2, ContentsTail DEF PrTypes, ChannelAt
  <2>4. a \in Responses /\ a.type = m.type /\ a.ok = ok
    BY <2>3 DEF Responses, Requests, IfMessage
  <2>5. /\ Contents(prRecv') = Contents(prRecv) \cup {a}
        /\ OnePortIn(prRecv) /\ (NoPortIn(prRecv) \/ a.type # "port") => OnePortIn(prRecv')
    BY <2>2, <2>4, ContentsAppend DEF PrTypes
  <2>6. prHost' = CASE m.what = "reserve" /\ ok -> prHost \cup {m.port}
                    [] m.what = "free" /\ ok -> prHost \ {m.port}
                    [] OTHER -> prHost
    BY <2>1 DEF HostAnswers
  <2> HIDE DEF m, a
  <2>7. CASE m.type = "port"
    <3>1. NoPortIn(prRecv) /\ NoPortIn(prSent')
      BY <2>3, <2>7 DEF ChannelAt, NoPortIn
    <3>2. OnePortIn(prRecv')
      BY <3>1, <2>5 DEF ChannelAt
    <3>3. prM \in {"reserve", "freed"}
      BY <2>3, <2>7 DEF ChannelAt, NoPortIn
    <3>4. CASE prM = "reserve"
      BY <2>2, <2>3, <2>4, <2>5, <2>6, <2>7, <3>1, <3>2, <3>4 DEF ChannelAt, NoPortIn, Tracked
    <3>5. CASE prM = "freed"
      BY <2>2, <2>3, <2>4, <2>5, <2>6, <2>7, <3>1, <3>2, <3>5 DEF ChannelAt, NoPortIn, Tracked
    <3>q. QED
      BY <3>3, <3>4, <3>5
  <2>8. CASE m.type # "port"
    <3>1. prHost' = prHost
      BY <2>3, <2>6, <2>8 DEF Requests, IfMessage
    <3>2. NoPortIn(prRecv) => NoPortIn(prRecv')
      BY <2>4, <2>5, <2>8 DEF NoPortIn
    <3>3. NoPortIn(prSent) => NoPortIn(prSent')
      BY <2>3 DEF NoPortIn
    <3>q. QED
      BY <2>2, <2>3, <2>4, <2>5, <2>8, <3>1, <3>2, <3>3 DEF ChannelAt, Tracked
  <2>q. QED
    BY <2>7, <2>8
<1>15. CASE \E p \in Ports : Expires(p)
  BY <1>15 DEF Expires, prVars, dVars, mVars, chanVars, PrTypes, ChannelAt, Tracked,
     NoPortIn
<1>16. CASE \E c \in Calls : GuestCalls(c)
  BY <1>16 DEF GuestCalls, CallBecomes, OnlyGuest, prVars, dVars, mVars, chanVars, PrTypes,
     ChannelAt, Tracked, NoPortIn
<1>17. CASE \E c \in Calls : GuestKilled(c)
  BY <1>17 DEF GuestKilled, CallBecomes, OnlyGuest, prVars, dVars, mVars, chanVars, PrTypes,
     ChannelAt, Tracked, NoPortIn
<1>18. CASE \E c \in Calls : KernelBinds(c)
  BY <1>18 DEF KernelBinds, CallBecomes, OnlyGuest, prVars, dVars, mVars, chanVars, PrTypes,
     ChannelAt, Tracked, NoPortIn
<1>19. CASE \E b \in Binds : GuestCloses(b)
  BY <1>19 DEF GuestCloses, CallBecomes, OnlyGuest, prVars, dVars, mVars, chanVars, PrTypes,
     ChannelAt, Tracked, NoPortIn
<1>20. CASE UNCHANGED prVars
  BY <1>20 DEF prVars, dVars, mVars, chanVars, PrTypes, ChannelAt, Tracked, NoPortIn
<1>q. QED
  BY <1>1, <1>2, <1>3, <1>4, <1>5, <1>6, <1>7, <1>8, <1>9, <1>10, <1>11, <1>12, <1>13,
     <1>14, <1>15, <1>16, <1>17, <1>18, <1>19, <1>20 DEF PrNext, Dispatcher, Tracker, Host

(* The rendezvous and the phases. *)
LEMMA PhaseStep ==
    ASSUME PrTypes, PrTypes', Alive, Alive', PhaseAt, [PrNext]_prVars
    PROVE  PhaseAt'
<1>1. CASE \E c \in Calls : Dispatches(c)
  <2>1. PICK c \in Calls : Dispatches(c)
    BY <1>1
  <2>2. /\ prD = "poll" /\ prDCall' = c /\ StillValid(c) /\ UNCHANGED <<prCall, mVars, prR, prResult>>
        /\ \/ prRequest' = {c} /\ prD' = "reply" /\ prReply' = prReply
           \/ prRequest' = prRequest /\ prD' \in {"receive", "respond"}
    BY <2>1, PrAssumption DEF Dispatches, Calls
  <2>q. QED
    BY <2>2 DEF PhaseAt, Tracked, mVars, StillValid
<1>2. CASE DispatcherReceives
  BY PrAssumption, <1>2 DEF DispatcherReceives, prVars, dVars, mVars, chanVars, PrTypes,
     PhaseAt, Tracked, Alive, Calls
<1>3. CASE Responds
  BY PrAssumption, <1>3 DEF Responds, StillValid, prVars, dVars, mVars, chanVars, PrTypes,
     PhaseAt, Tracked, Alive, Calls
<1>4. CASE \E c \in Binds : ReadsBind(c)
  BY PrAssumption, <1>4 DEF ReadsBind, GetCallInfo, StillValid, Completes, RequestPort,
     Sends, CanReceive, TrackerExits, TrackerFrame, prVars, dVars, mVars, chanVars, PrTypes,
     PhaseAt, Tracked, Alive, Calls, Ports
<1>5. CASE ReadsNothing
  BY PrAssumption, <1>5 DEF ReadsNothing, TrackerFrame, prVars, dVars, mVars, chanVars,
     PrTypes, PhaseAt, Tracked, Alive, Calls
<1>6. CASE Reserved
  BY PrAssumption, <1>6 DEF Reserved, Completes, TrackerExits, TrackerFrame, prVars, dVars,
     mVars, chanVars, PrTypes, PhaseAt, Tracked, Alive, Calls
<1>7. CASE NoRefresh
  BY PrAssumption, <1>7 DEF NoRefresh, TrackerFrame, prVars, dVars, mVars, chanVars,
     PrTypes, PhaseAt, Tracked, Alive, Calls
<1>8. CASE Freed
  BY PrAssumption, <1>8 DEF Freed, TrackerExits, TrackerFrame, prVars, dVars, mVars,
     chanVars, PrTypes, PhaseAt, Tracked, Alive, Calls
<1>9. CASE FreedAll
  BY PrAssumption, <1>9 DEF FreedAll, TrackerFrame, prVars, dVars, mVars, chanVars, PrTypes,
     PhaseAt, Tracked, Alive, Calls
<1>10. CASE Resumes
  BY PrAssumption, <1>10 DEF Resumes, prVars, dVars, mVars, chanVars, PrTypes, PhaseAt,
     Tracked, Alive, Calls
<1>11. CASE \E r \in prResult : TakesRefresh(r)
  BY PrAssumption, <1>11 DEF TakesRefresh, GivesBack, TrackerFrame, prVars, dVars, mVars,
     chanVars, PrTypes, PhaseAt, Tracked, Alive, Calls
<1>12. CASE \E p \in Ports : Frees(p)
  BY PrAssumption, <1>12 DEF Frees, RequestPort, Sends, CanReceive, TrackerExits,
     TrackerFrame, prVars, dVars, mVars, chanVars, PrTypes, PhaseAt, Tracked, Alive, Calls
<1>13. CASE Lists
  BY PrAssumption, <1>13 DEF Lists, OnlyGuest, BoundPorts, prVars, dVars, mVars, chanVars,
     PrTypes, PhaseAt, Tracked, Alive, Calls
<1>14. CASE \E ok \in BOOLEAN : HostAnswers(ok)
  BY PrAssumption, <1>14 DEF HostAnswers, prVars, dVars, mVars, chanVars, PrTypes, PhaseAt,
     Tracked, Alive, Calls
<1>15. CASE \E p \in Ports : Expires(p)
  BY PrAssumption, <1>15 DEF Expires, prVars, dVars, mVars, chanVars, PrTypes, PhaseAt,
     Tracked, Alive, Calls
<1>16. CASE \E c \in Calls : GuestCalls(c)
  BY PrAssumption, <1>16 DEF GuestCalls, CallBecomes, OnlyGuest, prVars, dVars, mVars,
     chanVars, PrTypes, PhaseAt, Tracked, Alive, Calls
<1>17. CASE \E c \in Calls : GuestKilled(c)
  BY PrAssumption, <1>17 DEF GuestKilled, CallBecomes, OnlyGuest, prVars, dVars, mVars,
     chanVars, PrTypes, PhaseAt, Tracked, Alive, Calls
<1>18. CASE \E c \in Calls : KernelBinds(c)
  BY PrAssumption, <1>18 DEF KernelBinds, CallBecomes, OnlyGuest, prVars, dVars, mVars,
     chanVars, PrTypes, PhaseAt, Tracked, Alive, Calls
<1>19. CASE \E b \in Binds : GuestCloses(b)
  BY PrAssumption, <1>19 DEF GuestCloses, CallBecomes, OnlyGuest, prVars, dVars, mVars,
     chanVars, PrTypes, PhaseAt, Tracked, Alive, Calls
<1>20. CASE UNCHANGED prVars
  BY PrAssumption, <1>20 DEF prVars, dVars, mVars, chanVars, PrTypes, PhaseAt, Tracked,
     Alive, Calls
<1>q. QED
  BY <1>1, <1>2, <1>3, <1>4, <1>5, <1>6, <1>7, <1>8, <1>9, <1>10, <1>11, <1>12, <1>13,
     <1>14, <1>15, <1>16, <1>17, <1>18, <1>19, <1>20 DEF PrNext, Dispatcher, Tracker, Host

(* The list of sockets under way. *)
LEMMA ListStep ==
    ASSUME PrTypes, PrTypes', Alive, Alive', PhaseAt, ListAt, BindAt, [PrNext]_prVars
    PROVE  ListAt'
<1>1. CASE \E c \in Calls : Dispatches(c)
  BY <1>1 DEF Dispatches, Sends, CanReceive, StillValid, IfMessage, prVars, dVars, mVars,
     chanVars, PrTypes, PhaseAt, ListAt, Tracked, Clean
<1>2. CASE DispatcherReceives
  BY <1>2 DEF DispatcherReceives, prVars, dVars, mVars, chanVars, PrTypes, PhaseAt, ListAt,
     Tracked, Clean
<1>3. CASE Responds
  BY <1>3 DEF Responds, StillValid, prVars, dVars, mVars, chanVars, PrTypes, PhaseAt,
     ListAt, Tracked, Clean
<1>4. CASE \E c \in Binds : ReadsBind(c)
  BY <1>4 DEF ReadsBind, GetCallInfo, StillValid, Completes, RequestPort, Sends, CanReceive,
     TrackerExits, TrackerFrame, prVars, dVars, mVars, chanVars, PrTypes, PhaseAt, ListAt,
     Tracked, Clean
<1>5. CASE ReadsNothing
  BY <1>5 DEF ReadsNothing, TrackerFrame, prVars, dVars, mVars, chanVars, PrTypes, PhaseAt,
     ListAt, Tracked, Clean
<1>6. CASE Reserved
  BY <1>6 DEF Reserved, Completes, TrackerExits, TrackerFrame, prVars, dVars, mVars,
     chanVars, PrTypes, PhaseAt, ListAt, Tracked, Clean, Alive, Ports
<1>7. CASE NoRefresh
  BY <1>7 DEF NoRefresh, TrackerFrame, prVars, dVars, mVars, chanVars, PrTypes, PhaseAt,
     ListAt, Tracked, Clean
<1>8. CASE Freed
  BY <1>8 DEF Freed, TrackerExits, TrackerFrame, prVars, dVars, mVars, chanVars, PrTypes,
     PhaseAt, ListAt, Tracked, Clean
<1>9. CASE FreedAll
  BY <1>9 DEF FreedAll, TrackerFrame, prVars, dVars, mVars, chanVars, PrTypes, PhaseAt,
     ListAt, Tracked, Clean
<1>10. CASE Resumes
  BY <1>10 DEF Resumes, prVars, dVars, mVars, chanVars, PrTypes, PhaseAt, ListAt, Tracked,
     Clean
<1>11. CASE \E r \in prResult : TakesRefresh(r)
  BY <1>11 DEF TakesRefresh, GivesBack, TrackerFrame, prVars, dVars, mVars, chanVars,
     PrTypes, PhaseAt, ListAt, Tracked, Clean
<1>12. CASE \E p \in Ports : Frees(p)
  BY <1>12 DEF Frees, RequestPort, Sends, CanReceive, TrackerExits, TrackerFrame, prVars,
     dVars, mVars, chanVars, PrTypes, PhaseAt, ListAt, Tracked, Clean, Alive
<1>13. CASE Lists
  <2>1. /\ prResult' = {[ports |-> BoundPorts, late |-> {p \in Ports : prTracked[p] = "late"}]}
        /\ UNCHANGED <<prTracked, prAgain>>
    BY <1>13 DEF Lists, OnlyGuest, mVars
  <2>2. ASSUME NEW p \in BoundPorts, Clean(p) PROVE p \in Tracked
    BY <2>2 DEF BoundPorts, BindAt, InUse, Ports
  <2>q. QED
    <3> DEFINE r == [ports |-> BoundPorts, late |-> {p \in Ports : prTracked[p] = "late"}]
    <3>1. prResult' = {r} /\ r.ports = BoundPorts /\ r.late = {p \in Ports : prTracked[p] = "late"}
      BY <2>1
    <3> HIDE DEF r
    <3>q. QED
      BY <2>1, <2>2, <3>1 DEF ListAt, BoundPorts, Clean, Tracked
<1>14. CASE \E ok \in BOOLEAN : HostAnswers(ok)
  BY <1>14 DEF HostAnswers, prVars, dVars, mVars, chanVars, PrTypes, PhaseAt, ListAt,
     Tracked, Clean
<1>15. CASE \E p \in Ports : Expires(p)
  BY <1>15 DEF Expires, prVars, dVars, mVars, chanVars, PrTypes, PhaseAt, ListAt, Tracked,
     Clean
<1>16. CASE \E c \in Calls : GuestCalls(c)
  BY <1>16 DEF GuestCalls, CallBecomes, OnlyGuest, prVars, dVars, mVars, chanVars, PrTypes,
     PhaseAt, ListAt, Tracked, Clean
<1>17. CASE \E c \in Calls : GuestKilled(c)
  BY <1>17 DEF GuestKilled, CallBecomes, OnlyGuest, prVars, dVars, mVars, chanVars, PrTypes,
     PhaseAt, ListAt, Tracked, Clean
<1>18. CASE \E c \in Calls : KernelBinds(c)
  BY <1>18 DEF KernelBinds, CallBecomes, OnlyGuest, prVars, dVars, mVars, chanVars, PrTypes,
     PhaseAt, ListAt, Tracked, Clean
<1>19. CASE \E b \in Binds : GuestCloses(b)
  BY <1>19 DEF GuestCloses, CallBecomes, OnlyGuest, prVars, dVars, mVars, chanVars, PrTypes,
     PhaseAt, ListAt, Tracked, Clean
<1>20. CASE UNCHANGED prVars
  BY <1>20 DEF prVars, dVars, mVars, chanVars, PrTypes, PhaseAt, ListAt, Tracked, Clean
<1>q. QED
  BY <1>1, <1>2, <1>3, <1>4, <1>5, <1>6, <1>7, <1>8, <1>9, <1>10, <1>11, <1>12, <1>13,
     <1>14, <1>15, <1>16, <1>17, <1>18, <1>19, <1>20 DEF PrNext, Dispatcher, Tracker, Host

(* The binds in use. *)
LEMMA BindStep ==
    ASSUME PrTypes, PrTypes', Alive, Alive', PhaseAt, ListAt, BindAt, ReplyAt, [PrNext]_prVars
    PROVE  BindAt'
<1>1. CASE \E c \in Calls : Dispatches(c)
  BY PrAssumption, <1>1 DEF Dispatches, Sends, CanReceive, StillValid, IfMessage, prVars,
     dVars, mVars, chanVars, PrTypes, BindAt, Tracked, Clean, InUse
<1>2. CASE DispatcherReceives
  BY PrAssumption, <1>2 DEF DispatcherReceives, prVars, dVars, mVars, chanVars, PrTypes,
     BindAt, Tracked, Clean, InUse
<1>3. CASE Responds
  BY PrAssumption, <1>3 DEF Responds, StillValid, prVars, dVars, mVars, chanVars, PrTypes,
     BindAt, Tracked, Clean, InUse, ReplyAt, PhaseAt, Calls, CallStates, Ports
<1>4. CASE \E c \in Binds : ReadsBind(c)
  BY PrAssumption, <1>4 DEF ReadsBind, GetCallInfo, StillValid, Completes, RequestPort,
     Sends, CanReceive, TrackerExits, TrackerFrame, prVars, dVars, mVars, chanVars, PrTypes,
     BindAt, Tracked, Clean, InUse, Alive
<1>5. CASE ReadsNothing
  BY PrAssumption, <1>5 DEF ReadsNothing, TrackerFrame, prVars, dVars, mVars, chanVars,
     PrTypes, BindAt, Tracked, Clean, InUse
<1>6. CASE Reserved
  BY PrAssumption, <1>6 DEF Reserved, Completes, TrackerExits, TrackerFrame, prVars, dVars,
     mVars, chanVars, PrTypes, BindAt, Tracked, Clean, InUse, PhaseAt, Alive, Ports
<1>7. CASE NoRefresh
  BY PrAssumption, <1>7 DEF NoRefresh, TrackerFrame, prVars, dVars, mVars, chanVars,
     PrTypes, BindAt, Tracked, Clean, InUse
<1>8. CASE Freed
  BY PrAssumption, <1>8 DEF Freed, TrackerExits, TrackerFrame, prVars, dVars, mVars,
     chanVars, PrTypes, BindAt, Tracked, Clean, InUse, Alive
<1>9. CASE FreedAll
  BY PrAssumption, <1>9 DEF FreedAll, TrackerFrame, prVars, dVars, mVars, chanVars, PrTypes,
     BindAt, Tracked, Clean, InUse
<1>10. CASE Resumes
  BY PrAssumption, <1>10 DEF Resumes, prVars, dVars, mVars, chanVars, PrTypes, BindAt,
     Tracked, Clean, InUse
<1>11. CASE \E r \in prResult : TakesRefresh(r)
  BY PrAssumption, <1>11 DEF TakesRefresh, GivesBack, TrackerFrame, prVars, dVars, mVars,
     chanVars, PrTypes, BindAt, Tracked, Clean, InUse, ListAt, PhaseAt
<1>12. CASE \E p \in Ports : Frees(p)
  BY PrAssumption, <1>12 DEF Frees, RequestPort, Sends, CanReceive, TrackerExits,
     TrackerFrame, prVars, dVars, mVars, chanVars, PrTypes, BindAt, Tracked, Clean, InUse,
     Alive
<1>13. CASE Lists
  BY PrAssumption, <1>13 DEF Lists, OnlyGuest, BoundPorts, prVars, dVars, mVars, chanVars,
     PrTypes, BindAt, Tracked, Clean, InUse, Ports
<1>14. CASE \E ok \in BOOLEAN : HostAnswers(ok)
  BY PrAssumption, <1>14 DEF HostAnswers, prVars, dVars, mVars, chanVars, PrTypes, BindAt,
     Tracked, Clean, InUse
<1>15. CASE \E p \in Ports : Expires(p)
  BY PrAssumption, <1>15 DEF Expires, prVars, dVars, mVars, chanVars, PrTypes, BindAt,
     Tracked, Clean, InUse, Calls
<1>16. CASE \E c \in Calls : GuestCalls(c)
  BY PrAssumption, <1>16 DEF GuestCalls, CallBecomes, OnlyGuest, prVars, dVars, mVars,
     chanVars, PrTypes, BindAt, Tracked, Clean, InUse, Calls
<1>17. CASE \E c \in Calls : GuestKilled(c)
  BY PrAssumption, <1>17 DEF GuestKilled, CallBecomes, OnlyGuest, prVars, dVars, mVars,
     chanVars, PrTypes, BindAt, Tracked, Clean, InUse, Calls
<1>18. CASE \E c \in Calls : KernelBinds(c)
  BY PrAssumption, <1>18 DEF KernelBinds, CallBecomes, OnlyGuest, prVars, dVars, mVars,
     chanVars, PrTypes, BindAt, Tracked, Clean, InUse, Calls, CallStates
<1>19. CASE \E b \in Binds : GuestCloses(b)
  BY PrAssumption, <1>19 DEF GuestCloses, CallBecomes, OnlyGuest, prVars, dVars, mVars,
     chanVars, PrTypes, BindAt, Tracked, Clean, InUse, Calls
<1>20. CASE UNCHANGED prVars
  BY PrAssumption, <1>20 DEF prVars, dVars, mVars, chanVars, PrTypes, BindAt, Tracked,
     Clean, InUse
<1>q. QED
  BY <1>1, <1>2, <1>3, <1>4, <1>5, <1>6, <1>7, <1>8, <1>9, <1>10, <1>11, <1>12, <1>13,
     <1>14, <1>15, <1>16, <1>17, <1>18, <1>19, <1>20 DEF PrNext, Dispatcher, Tracker, Host

(* The reply that is posted. *)
LEMMA ReplyStep ==
    ASSUME PrTypes, PrTypes', Alive, Alive', PhaseAt, ListAt, BindAt, ReplyAt, [PrNext]_prVars
    PROVE  ReplyAt'
<1>1. CASE \E c \in Calls : Dispatches(c)
  BY PrAssumption, <1>1 DEF Dispatches, Sends, CanReceive, StillValid, IfMessage, prVars,
     dVars, mVars, chanVars, PrTypes, PhaseAt, ReplyAt, Tracked, Clean, InUse, Calls
<1>2. CASE DispatcherReceives
  BY PrAssumption, <1>2 DEF DispatcherReceives, prVars, dVars, mVars, chanVars, PrTypes,
     PhaseAt, ReplyAt, Tracked, Clean, InUse, StillValid, Calls
<1>3. CASE Responds
  BY PrAssumption, <1>3 DEF Responds, StillValid, prVars, dVars, mVars, chanVars, PrTypes,
     PhaseAt, ReplyAt, Tracked, Clean, InUse, Calls
<1>4. CASE \E c \in Binds : ReadsBind(c)
  BY PrAssumption, <1>4 DEF ReadsBind, GetCallInfo, StillValid, Completes, RequestPort,
     Sends, CanReceive, TrackerExits, TrackerFrame, prVars, dVars, mVars, chanVars, PrTypes,
     PhaseAt, ReplyAt, Tracked, Clean, InUse, Calls, Alive
<1>5. CASE ReadsNothing
  BY PrAssumption, <1>5 DEF ReadsNothing, TrackerFrame, prVars, dVars, mVars, chanVars,
     PrTypes, PhaseAt, ReplyAt, Tracked, Clean, InUse, StillValid, Calls
<1>6. CASE Reserved
  <2>1. /\ prM = "reserve" /\ UNCHANGED <<prD, prDCall, prCall, prAgain, prTodo, prResult>>
        /\ prReply' = {0} => \E c \in prMCall : prTracked' = [prTracked EXCEPT ![PortOf[c]] = "fresh"]
    BY <1>6 DEF Reserved, Completes, TrackerExits, TrackerFrame, Alive, dVars
  <2>2. /\ prMCall = {prDCall} /\ prDCall \in Binds /\ PortOf[prDCall] \in Ports
        /\ PortOf[prDCall] \notin Tracked /\ prTodo = {}
    BY <2>1 DEF PhaseAt, PrTypes, Ports
  <2>3. ASSUME prReply' = {0}, Clean(PortOf[prDCall])
        PROVE  /\ prTracked'[PortOf[prDCall]] = "fresh"
               /\ \A b \in Binds : InUse(b) => PortOf[b] # PortOf[prDCall]
               /\ \A r \in prResult : PortOf[prDCall] \notin r.ports /\ PortOf[prDCall] \notin r.late
    <3>1. prTracked'[PortOf[prDCall]] = "fresh"
      BY <2>1, <2>2, <2>3 DEF PrTypes
    <3>2. \A b \in Binds : InUse(b) => PortOf[b] # PortOf[prDCall]
      BY <2>2, <2>3 DEF BindAt, Ports
    <3>3. \A r \in prResult : PortOf[prDCall] \notin r.ports /\ PortOf[prDCall] \notin r.late
      BY <2>2, <2>3 DEF ListAt, Tracked
    <3>q. QED
      BY <3>1, <3>2, <3>3
  <2>q. QED
    BY <2>1, <2>2, <2>3 DEF ReplyAt, Clean, InUse
<1>7. CASE NoRefresh
  BY PrAssumption, <1>7 DEF NoRefresh, TrackerFrame, prVars, dVars, mVars, chanVars,
     PrTypes, PhaseAt, ReplyAt, Tracked, Clean, InUse, StillValid, Calls
<1>8. CASE Freed
  BY PrAssumption, <1>8 DEF Freed, TrackerExits, TrackerFrame, prVars, dVars, mVars,
     chanVars, PrTypes, PhaseAt, ReplyAt, Tracked, Clean, InUse, StillValid, Calls, Alive
<1>9. CASE FreedAll
  BY PrAssumption, <1>9 DEF FreedAll, TrackerFrame, prVars, dVars, mVars, chanVars, PrTypes,
     PhaseAt, ReplyAt, Tracked, Clean, InUse, StillValid, Calls
<1>10. CASE Resumes
  BY PrAssumption, <1>10 DEF Resumes, prVars, dVars, mVars, chanVars, PrTypes, PhaseAt,
     ReplyAt, Tracked, Clean, InUse, StillValid, Calls
<1>11. CASE \E r \in prResult : TakesRefresh(r)
  <2>1. PICK r \in prResult : TakesRefresh(r)
    BY <1>11
  <2>2. /\ prResult' = {} /\ UNCHANGED <<prD, prDCall, prReply, prCall, prAgain>>
        /\ \/ UNCHANGED <<prTodo, prTracked>>
           \/ /\ prTodo' = GivesBack(r)
              /\ \A p \in Ports \ r.ports : prTracked'[p] = prTracked[p]
    BY <2>1 DEF TakesRefresh, TrackerFrame, dVars, Tracked
  <2>3. ASSUME prD = "reply", PortOf[prDCall] # 0, prTracked[PortOf[prDCall]] = "fresh",
               PortOf[prDCall] \notin r.ports, PortOf[prDCall] \notin r.late
        PROVE  PortOf[prDCall] \notin GivesBack(r) /\ PortOf[prDCall] \in Ports
    BY <2>3 DEF GivesBack, PrTypes, Ports
  <2>q. QED
    BY <2>1, <2>2, <2>3 DEF ReplyAt, Clean, InUse, StillValid
<1>12. CASE \E p \in Ports : Frees(p)
  <2>1. PICK p \in Ports : Frees(p)
    BY <1>12
  <2>2. /\ p \in prTodo /\ prTodo' = prTodo \ {p} /\ prTracked' = [prTracked EXCEPT ![p] = "absent"]
        /\ UNCHANGED <<prD, prDCall, prReply, prCall, prAgain, prResult>>
    BY <2>1 DEF Frees, TrackerExits, TrackerFrame, dVars, Alive
  <2>q. QED
    BY <2>2 DEF ReplyAt, Clean, InUse, StillValid, PrTypes
<1>13. CASE Lists
  BY PrAssumption, <1>13 DEF Lists, OnlyGuest, BoundPorts, prVars, dVars, mVars, chanVars,
     PrTypes, PhaseAt, ReplyAt, Tracked, Clean, InUse, StillValid, Calls, Ports
<1>14. CASE \E ok \in BOOLEAN : HostAnswers(ok)
  BY PrAssumption, <1>14 DEF HostAnswers, prVars, dVars, mVars, chanVars, PrTypes, PhaseAt,
     ReplyAt, Tracked, Clean, InUse, StillValid, Calls
<1>15. CASE \E p \in Ports : Expires(p)
  BY PrAssumption, <1>15 DEF Expires, prVars, dVars, mVars, chanVars, PrTypes, PhaseAt,
     ReplyAt, Tracked, Clean, InUse, StillValid, Calls
<1>16. CASE \E c \in Calls : GuestCalls(c)
  <2>1. PICK c \in Calls : GuestCalls(c)
    BY <1>16
  <2>2. /\ prCall[c] = "none" /\ prCall' = [prCall EXCEPT ![c] = "notified"]
        /\ UNCHANGED <<prD, prDCall, prReply, prAgain, prResult, prTracked, prTodo>>
    BY <2>1 DEF GuestCalls, CallBecomes, OnlyGuest, dVars, mVars
  <2>3. prD = "reply" /\ prReply = {0} => prCall[prDCall] # "none"
    BY DEF PhaseAt
  <2>q. QED
    BY <2>2, <2>3 DEF ReplyAt, Clean, InUse, StillValid, PrTypes, Calls
<1>17. CASE \E c \in Calls : GuestKilled(c)
  BY PrAssumption, <1>17 DEF GuestKilled, CallBecomes, OnlyGuest, prVars, dVars, mVars,
     chanVars, PrTypes, PhaseAt, ReplyAt, Tracked, Clean, InUse, StillValid, Calls
<1>18. CASE \E c \in Calls : KernelBinds(c)
  BY PrAssumption, <1>18 DEF KernelBinds, CallBecomes, OnlyGuest, prVars, dVars, mVars,
     chanVars, PrTypes, PhaseAt, ReplyAt, Tracked, Clean, InUse, StillValid, Calls
<1>19. CASE \E b \in Binds : GuestCloses(b)
  BY PrAssumption, <1>19 DEF GuestCloses, CallBecomes, OnlyGuest, prVars, dVars, mVars,
     chanVars, PrTypes, PhaseAt, ReplyAt, Tracked, Clean, InUse, StillValid, Calls
<1>20. CASE UNCHANGED prVars
  BY PrAssumption, <1>20 DEF prVars, dVars, mVars, chanVars, PrTypes, PhaseAt, ReplyAt,
     Tracked, Clean, InUse, StillValid, Calls
<1>q. QED
  BY <1>1, <1>2, <1>3, <1>4, <1>5, <1>6, <1>7, <1>8, <1>9, <1>10, <1>11, <1>12, <1>13,
     <1>14, <1>15, <1>16, <1>17, <1>18, <1>19, <1>20 DEF PrNext, Dispatcher, Tracker, Host

(* Together they are inductive ... *)
LEMMA PrStep == PrInv /\ [PrNext]_prVars => PrInv'
<1> SUFFICES ASSUME PrInv, [PrNext]_prVars PROVE PrInv'
  OBVIOUS
<1>1. PrTypes'
  BY PrTypesStep DEF PrInv
<1>2. ASSUME Alive' PROVE (ChannelAt /\ PhaseAt /\ ListAt /\ BindAt /\ ReplyAt)'
  <2>1. Alive
    BY <1>2, StaysExited DEF PrInv
  <2>q. QED
    BY <1>1, <1>2, <2>1, ChannelStep, PhaseStep, ListStep, BindStep, ReplyStep DEF PrInv
<1>q. QED
  BY <1>1, <1>2 DEF PrInv

(* ... and hold in every reachable state. *)
LEMMA PrInvariant == PrSpec => []PrInv
<1>q. QED
  BY PrInitInv, PrStep, PTL DEF PrSpec

(* The reservation of a bind that the host was asked about lasts until its *)
(* socket is closed, for every set of calls and ports: no list of sockets, *)
(* however old, makes OnRefreshAllocatedPorts give it back before.         *)
THEOREM ReservationsKept == PrSpec => []FreshBindKept
<1>1. PrInv => FreshBindKept
  BY DEF PrInv, BindAt, ChannelAt, FreshBindKept, Clean, Tracked
<1>q. QED
  BY <1>1, PrInvariant, PTL

-----------------------------------------------------------------------------
(***************************************************************************)
(* The relay of a process: InputInOrder.                                   *)
(*                                                                         *)
(* The bytes are in order by the order of the reads and writes, so the     *)
(* argument is about sequences; what has to be added is when somebody can  *)
(* start to read stdin: only before anything was relayed (ReaderAt).       *)
(***************************************************************************)

BeforePoll == {"listen", "accept", "setup"}

InputTypes ==
    /\ inRead \in Nat /\ inSent \in Nat /\ pending \in Nat
    /\ inPipe \in Seq(Nat) /\ inGot \in Seq(Nat) /\ inReader \in BOOLEAN

(* No input is touched before the process was forked, and it is created    *)
(* once, with the read end of stdin open.                                  *)
ReaderAt ==
    /\ ryPc \in BeforePoll => ryChild = "none"
    /\ ryChild = "none" => /\ ryPc \in BeforePoll \cup {"done"}
                           /\ inRead = 0 /\ pending = 0 /\ inPipe = <<>> /\ inGot = <<>>
    /\ ryChild \in {"none", "starting"} => orphan = "none"
    /\ ryChild = "starting" => inReader

RyInv == InputTypes /\ ReaderAt /\ InputInOrder

(* Where a turn of the loop goes on: at a descriptor or at poll again. *)
LoopPcs == {"scan", "in", "out", "err", "pty", "interop", "signal", "terminal"}

LEMMA ProceedsInLoop ==
    ASSUME NEW i \in 0..7, NEW rev, NEW w, Proceeds(i, rev, w)
    PROVE  ryPc' \in LoopPcs
<1> DEFINE later == {j \in i + 1..7 : Stages[j] \in rev /\ (j > 4 => w <= 0)}
           least == CHOOSE j \in later : \A k \in later : j <= k
<1>1. ryPc' = IF later # {} THEN Stages[least] ELSE "scan"
  BY DEF Proceeds, RyGoes
<1>2. later \subseteq 1..7
  OBVIOUS
<1> HIDE DEF later
<1>3. ASSUME later # {} PROVE \E j \in later : \A k \in later : j <= k
  <2>1. \A j \in later : j \in {1, 2, 3, 4, 5, 6, 7}
    BY <1>2
  <2>2. CASE 1 \in later
    BY <2>1, <2>2
  <2>3. CASE 1 \notin later /\ 2 \in later
    BY <2>1, <2>3
  <2>4. CASE 1 \notin later /\ 2 \notin later /\ 3 \in later
    BY <2>1, <2>4
  <2>5. CASE 1 \notin later /\ 2 \notin later /\ 3 \notin later /\ 4 \in later
    BY <2>1, <2>5
  <2>6. CASE later \subseteq {5, 6, 7}
    <3>1. \A j \in later : j \in {5, 6, 7}
      BY <2>6
    <3>2. CASE 5 \in later
      BY <3>1, <3>2
    <3>3. CASE 5 \notin later /\ 6 \in later
      BY <3>1, <3>3
    <3>4. CASE 5 \notin later /\ 6 \notin later
      BY <1>3, <3>1, <3>4
    <3>q. QED
      BY <3>2, <3>3, <3>4
  <2>q. QED
    BY <2>1, <2>2, <2>3, <2>4, <2>5, <2>6
<1>4. later # {} => least \in 1..7
  BY <1>2, <1>3
<1> HIDE DEF least
<1>5. \A j \in 1..7 : Stages[j] \in LoopPcs
  BY DEF Stages, LoopPcs
<1>q. QED
  BY <1>1, <1>4, <1>5 DEF LoopPcs

(* The numbers of the buffers in order. *)
Counting(n) == [i \in 1..n |-> i]

LEMMA CountingAppend ==
    ASSUME NEW n \in Nat
    PROVE  Counting(n) \in Seq(Nat) /\ Append(Counting(n), n + 1) = Counting(n + 1)
  BY DEF Counting

(* What is relayed: read, in the pipe and pending. *)
InputStream == inGot \o inPipe \o (IF pending = 0 THEN <<>> ELSE <<pending>>)

InputKept == UNCHANGED <<inGot, inPipe, pending, inRead, inReader>>

(* A step that touches none of it keeps the order. *)
LEMMA SameInput == ASSUME ReadInOrder, InputKept PROVE ReadInOrder'
  BY DEF ReadInOrder, InputKept

(* Moving a buffer from the pipe to the process leaves the stream alone. *)
LEMMA MoveHead ==
    ASSUME NEW g \in Seq(Nat), NEW p \in Seq(Nat), p # <<>>
    PROVE  Append(g, Head(p)) \o Tail(p) = g \o p
  BY SMTT(40)

(* Writing to the pipe appends to the stream. *)
LEMMA ConcatAppend ==
    ASSUME NEW g \in Seq(Nat), NEW p \in Seq(Nat), NEW x \in Nat
    PROVE  /\ g \o p \in Seq(Nat) /\ g \o Append(p, x) = Append(g \o p, x)
           /\ (g \o p) \o <<x>> = Append(g \o p, x) /\ (g \o p) \o <<>> = g \o p
  OBVIOUS

(* The types are kept. *)
LEMMA InputTypesStep ==
    ASSUME InputTypes, [RyNext]_ryVars
    PROVE  InputTypes'
<1>1. CASE \E ok \in BOOLEAN : RelayListen(ok)
  BY <1>1 DEF RelayListen, StartFrame, RyGoes, ryVars, inVars, outVars, procVars, hostVars,
     InputTypes
<1>2. CASE \E ok \in BOOLEAN : RelayAccept(ok)
  BY <1>2 DEF RelayAccept, StartFrame, RyGoes, ryVars, inVars, outVars, procVars, hostVars,
     InputTypes
<1>3. CASE \E ok \in BOOLEAN : RelaySetup(ok)
  BY <1>3 DEF RelaySetup, StartFrame, RyGoes, ryVars, inVars, outVars, procVars, hostVars,
     InputTypes
<1>4. CASE PollData
  BY <1>4 DEF PollData, RyGoes, ryVars, inVars, outVars, procVars, hostVars, InputTypes
<1>5. CASE PollRest
  BY <1>5 DEF PollRest, ryVars, inVars, outVars, procVars, hostVars, InputTypes
<1>6. CASE RelayPending
  <2> DEFINE longer == Append(inPipe, pending)
  <2>1. /\ UNCHANGED <<inRead, inSent, inGot, inReader>> /\ pending' \in {0, pending}
        /\ inPipe' \in {inPipe, longer}
    BY <1>6 DEF RelayPending, InputFrame
  <2>2. longer \in Seq(Nat)
    BY DEF InputTypes
  <2> HIDE DEF longer
  <2>q. QED
    BY <2>1, <2>2 DEF InputTypes
<1>7. CASE RelayInput
  <2>1. /\ UNCHANGED <<inSent, inGot, inReader>> /\ inRead' = inRead + 1
        /\ pending' \in {pending, inRead + 1}
        /\ inPipe' \in {inPipe, Append(inPipe, inRead + 1)}
    BY <1>7 DEF RelayInput, InputFrame
  <2>2. inRead + 1 \in Nat /\ Append(inPipe, inRead + 1) \in Seq(Nat)
    BY DEF InputTypes
  <2>q. QED
    BY <2>1, <2>2 DEF InputTypes
<1>8. CASE RelayInputEnd
  BY <1>8 DEF RelayInputEnd, InputFrame, ryVars, inVars, outVars, procVars, hostVars,
     InputTypes
<1>9. CASE \E i \in 2..4 : RelayOutput(i)
  BY <1>9 DEF RelayOutput, Stages, RyGoes, ryVars, inVars, outVars, procVars, hostVars,
     InputTypes
<1>10. CASE RelayAccepts
  BY <1>10 DEF RelayAccepts, RyGoes, ryVars, inVars, outVars, procVars, hostVars, InputTypes
<1>11. CASE RelayInterop
  BY <1>11 DEF RelayInterop, ryVars, inVars, outVars, procVars, hostVars, InputTypes
<1>12. CASE RelaySignal
  BY <1>12 DEF RelaySignal, RyGoes, ryVars, inVars, outVars, procVars, hostVars, InputTypes
<1>13. CASE RelayReaps
  BY <1>13 DEF RelayReaps, RyGoes, ryVars, inVars, outVars, procVars, hostVars, InputTypes
<1>14. CASE RelayAnswered
  BY <1>14 DEF RelayAnswered, RyGoes, ryVars, inVars, outVars, procVars, hostVars,
     InputTypes
<1>15. CASE RelayTerminal
  BY <1>15 DEF RelayTerminal, RyGoes, ryVars, inVars, outVars, procVars, hostVars,
     InputTypes
<1>16. CASE RelayEnd
  BY <1>16 DEF RelayEnd, RyGoes, ryVars, inVars, outVars, procVars, hostVars, InputTypes
<1>17. CASE HostSendsInput
  BY <1>17 DEF HostSendsInput, ryVars, inVars, outVars, procVars, hostVars, InputTypes
<1>18. CASE HostEndsInput
  BY <1>18 DEF HostEndsInput, ryVars, inVars, outVars, procVars, hostVars, InputTypes
<1>19. CASE HostAnswersStatus
  BY <1>19 DEF HostAnswersStatus, ryVars, inVars, outVars, procVars, hostVars, InputTypes
<1>20. CASE \E t \in {"resized", "closed"} : HostTerminal(t)
  BY <1>20 DEF HostTerminal, ryVars, inVars, outVars, procVars, hostVars, InputTypes
<1>21. CASE LocalConnects
  BY <1>21 DEF LocalConnects, ryVars, inVars, outVars, procVars, hostVars, InputTypes
<1>22. CASE \E w \in {"sent", "closed", "bad"} : LocalSends(w)
  BY <1>22 DEF LocalSends, ryVars, inVars, outVars, procVars, hostVars, InputTypes
<1>23. CASE \E ok \in BOOLEAN : ChildStarts(ok)
  BY <1>23 DEF ChildStarts, ryVars, inVars, outVars, procVars, hostVars, InputTypes
<1>24. CASE ProcessReads
  BY <1>24 DEF ProcessReads, ryVars, inVars, outVars, procVars, hostVars, InputTypes
<1>25. CASE ProcessClosesInput
  <2>1. UNCHANGED <<inRead, inSent, pending, inGot>> /\ inPipe' = <<>> /\ inReader' = FALSE
    BY <1>25 DEF ProcessClosesInput
  <2>2. <<>> \in Seq(Nat)
    OBVIOUS
  <2>q. QED
    BY <2>1, <2>2 DEF InputTypes
<1>26. CASE ProcessForks
  BY <1>26 DEF ProcessForks, ryVars, inVars, outVars, procVars, hostVars, InputTypes
<1>27. CASE Exits
  BY <1>27 DEF Exits, ryVars, inVars, outVars, procVars, hostVars, InputTypes
<1>28. CASE \E d \in {"out", "err"} : ProcessWrites(d)
  BY <1>28 DEF ProcessWrites, ryVars, inVars, outVars, procVars, hostVars, InputTypes
<1>29. CASE UNCHANGED ryVars
  BY <1>29 DEF ryVars, inVars, outVars, procVars, hostVars, InputTypes
<1>q. QED
  BY <1>1, <1>2, <1>3, <1>4, <1>5, <1>6, <1>7, <1>8, <1>9, <1>10, <1>11, <1>12, <1>13,
     <1>14, <1>15, <1>16, <1>17, <1>18, <1>19, <1>20, <1>21, <1>22, <1>23, <1>24, <1>25,
     <1>26, <1>27, <1>28, <1>29 DEF RyNext, Starts, Turn, Surroundings

(* The process is created once, before any input is relayed. *)
LEMMA ReaderStep ==
    ASSUME InputTypes, ReaderAt, [RyNext]_ryVars
    PROVE  ReaderAt'
<1>1. CASE \E ok \in BOOLEAN : RelayListen(ok)
  BY <1>1 DEF RelayListen, StartFrame, RyGoes, ryVars, inVars, outVars, procVars, hostVars,
     ReaderAt, BeforePoll, InputTypes, LoopPcs
<1>2. CASE \E ok \in BOOLEAN : RelayAccept(ok)
  BY <1>2 DEF RelayAccept, StartFrame, RyGoes, ryVars, inVars, outVars, procVars, hostVars,
     ReaderAt, BeforePoll, InputTypes, LoopPcs
<1>3. CASE \E ok \in BOOLEAN : RelaySetup(ok)
  BY <1>3 DEF RelaySetup, StartFrame, RyGoes, ryVars, inVars, outVars, procVars, hostVars,
     ReaderAt, BeforePoll, InputTypes, LoopPcs
<1>4. CASE PollData
  BY <1>4 DEF PollData, RyGoes, ryVars, inVars, outVars, procVars, hostVars, ReaderAt,
     BeforePoll, InputTypes, LoopPcs
<1>5. CASE PollRest
  BY <1>5, ProceedsInLoop DEF PollRest, ryVars, inVars, outVars, procVars, hostVars,
     ReaderAt, BeforePoll, InputTypes, LoopPcs
<1>6. CASE RelayPending
  <2>1. ryPc = "in" /\ UNCHANGED <<ryChild, orphan, inReader>>
    BY <1>6 DEF RelayPending, InputFrame, procVars
  <2>2. ryPc' \in LoopPcs
    BY <1>6, ProceedsInLoop DEF RelayPending, LoopPcs
  <2>q. QED
    BY <2>1, <2>2 DEF ReaderAt, BeforePoll, LoopPcs
<1>7. CASE RelayInput
  <2>1. ryPc = "in" /\ UNCHANGED <<ryChild, orphan, inReader>>
    BY <1>7 DEF RelayInput, InputFrame, procVars
  <2>2. ryPc' \in LoopPcs \cup {"end"}
    BY <1>7, ProceedsInLoop DEF RelayInput, RyGoes
  <2>q. QED
    BY <2>1, <2>2 DEF ReaderAt, BeforePoll, LoopPcs
<1>8. CASE RelayInputEnd
  BY <1>8, ProceedsInLoop DEF RelayInputEnd, InputFrame, ryVars, inVars, outVars, procVars,
     hostVars, ReaderAt, BeforePoll, InputTypes, LoopPcs
<1>9. CASE \E i \in 2..4 : RelayOutput(i)
  BY <1>9, ProceedsInLoop DEF RelayOutput, Stages, RyGoes, ryVars, inVars, outVars,
     procVars, hostVars, ReaderAt, BeforePoll, InputTypes, LoopPcs
<1>10. CASE RelayAccepts
  BY <1>10 DEF RelayAccepts, RyGoes, ryVars, inVars, outVars, procVars, hostVars, ReaderAt,
     BeforePoll, InputTypes, LoopPcs
<1>11. CASE RelayInterop
  <2>1. ryPc = "local" /\ UNCHANGED <<ryChild, orphan, inReader, inRead, pending, inPipe, inGot>>
    BY <1>11 DEF RelayInterop, inVars, procVars
  <2>2. ryPc' \in LoopPcs \cup {"end"}
    BY <1>11, ProceedsInLoop DEF RelayInterop, RyGoes
  <2>q. QED
    BY <2>1, <2>2 DEF ReaderAt, BeforePoll, LoopPcs
<1>12. CASE RelaySignal
  BY <1>12 DEF RelaySignal, RyGoes, ryVars, inVars, outVars, procVars, hostVars, ReaderAt,
     BeforePoll, InputTypes, LoopPcs
<1>13. CASE RelayReaps
  BY <1>13, ProceedsInLoop DEF RelayReaps, RyGoes, ryVars, inVars, outVars, procVars,
     hostVars, ReaderAt, BeforePoll, InputTypes, LoopPcs
<1>14. CASE RelayAnswered
  BY <1>14 DEF RelayAnswered, RyGoes, ryVars, inVars, outVars, procVars, hostVars, ReaderAt,
     BeforePoll, InputTypes, LoopPcs
<1>15. CASE RelayTerminal
  BY <1>15, ProceedsInLoop DEF RelayTerminal, RyGoes, ryVars, inVars, outVars, procVars,
     hostVars, ReaderAt, BeforePoll, InputTypes, LoopPcs
<1>16. CASE RelayEnd
  BY <1>16 DEF RelayEnd, RyGoes, ryVars, inVars, outVars, procVars, hostVars, ReaderAt,
     BeforePoll, InputTypes, LoopPcs
<1>17. CASE HostSendsInput
  BY <1>17 DEF HostSendsInput, ryVars, inVars, outVars, procVars, hostVars, ReaderAt,
     BeforePoll, InputTypes, LoopPcs
<1>18. CASE HostEndsInput
  BY <1>18 DEF HostEndsInput, ryVars, inVars, outVars, procVars, hostVars, ReaderAt,
     BeforePoll, InputTypes, LoopPcs
<1>19. CASE HostAnswersStatus
  BY <1>19 DEF HostAnswersStatus, ryVars, inVars, outVars, procVars, hostVars, ReaderAt,
     BeforePoll, InputTypes, LoopPcs
<1>20. CASE \E t \in {"resized", "closed"} : HostTerminal(t)
  BY <1>20 DEF HostTerminal, ryVars, inVars, outVars, procVars, hostVars, ReaderAt,
     BeforePoll, InputTypes, LoopPcs
<1>21. CASE LocalConnects
  BY <1>21 DEF LocalConnects, ryVars, inVars, outVars, procVars, hostVars, ReaderAt,
     BeforePoll, InputTypes, LoopPcs
<1>22. CASE \E w \in {"sent", "closed", "bad"} : LocalSends(w)
  BY <1>22 DEF LocalSends, ryVars, inVars, outVars, procVars, hostVars, ReaderAt,
     BeforePoll, InputTypes, LoopPcs
<1>23. CASE \E ok \in BOOLEAN : ChildStarts(ok)
  BY <1>23 DEF ChildStarts, ryVars, inVars, outVars, procVars, hostVars, ReaderAt,
     BeforePoll, InputTypes, LoopPcs
<1>24. CASE ProcessReads
  BY <1>24 DEF ProcessReads, ryVars, inVars, outVars, procVars, hostVars, ReaderAt,
     BeforePoll, InputTypes, LoopPcs
<1>25. CASE ProcessClosesInput
  BY <1>25 DEF ProcessClosesInput, ryVars, inVars, outVars, procVars, hostVars, ReaderAt,
     BeforePoll, InputTypes, LoopPcs
<1>26. CASE ProcessForks
  BY <1>26 DEF ProcessForks, ryVars, inVars, outVars, procVars, hostVars, ReaderAt,
     BeforePoll, InputTypes, LoopPcs
<1>27. CASE Exits
  BY <1>27 DEF Exits, ryVars, inVars, outVars, procVars, hostVars, ReaderAt, BeforePoll,
     InputTypes, LoopPcs
<1>28. CASE \E d \in {"out", "err"} : ProcessWrites(d)
  BY <1>28 DEF ProcessWrites, ryVars, inVars, outVars, procVars, hostVars, ReaderAt,
     BeforePoll, InputTypes, LoopPcs
<1>29. CASE UNCHANGED ryVars
  BY <1>29 DEF ryVars, inVars, outVars, procVars, hostVars, ReaderAt, BeforePoll,
     InputTypes, LoopPcs
<1>q. QED
  BY <1>1, <1>2, <1>3, <1>4, <1>5, <1>6, <1>7, <1>8, <1>9, <1>10, <1>11, <1>12, <1>13,
     <1>14, <1>15, <1>16, <1>17, <1>18, <1>19, <1>20, <1>21, <1>22, <1>23, <1>24, <1>25,
     <1>26, <1>27, <1>28, <1>29 DEF RyNext, Starts, Turn, Surroundings

(* The order is kept. *)
LEMMA InputStep ==
    ASSUME InputTypes, ReaderAt, ReadInOrder, [RyNext]_ryVars
    PROVE  ReadInOrder'
<1>1. CASE \E ok \in BOOLEAN : RelayListen(ok)
  BY <1>1, SameInput DEF RelayListen, StartFrame, RyGoes, ryVars, inVars, outVars, procVars,
     hostVars, InputKept
<1>2. CASE \E ok \in BOOLEAN : RelayAccept(ok)
  BY <1>2, SameInput DEF RelayAccept, StartFrame, RyGoes, ryVars, inVars, outVars, procVars,
     hostVars, InputKept
<1>3. CASE \E ok \in BOOLEAN : RelaySetup(ok)
  <2>1. ryChild = "none" /\ UNCHANGED <<inRead, inPipe, inGot, pending>>
    BY <1>3 DEF RelaySetup, StartFrame, ReaderAt, BeforePoll
  <2>2. inGot = <<>> /\ inPipe = <<>> /\ pending = 0 /\ inRead = 0
    BY <2>1 DEF ReaderAt
  <2>3. <<>> \o <<>> \o <<>> = Counting(0)
    BY DEF Counting
  <2>q. QED
    BY <2>1, <2>2, <2>3 DEF ReadInOrder, Counting
<1>4. CASE PollData
  BY <1>4, SameInput DEF PollData, RyGoes, ryVars, inVars, outVars, procVars, hostVars,
     InputKept
<1>5. CASE PollRest
  BY <1>5, SameInput DEF PollRest, ryVars, inVars, outVars, procVars, hostVars, InputKept
<1>6. CASE RelayPending
  <2> SUFFICES ASSUME inReader' PROVE InputStream' = Counting(inRead')
    BY DEF ReadInOrder, InputStream, Counting
  <2>1. inReader /\ inGot' = inGot /\ inRead' = inRead /\ pending # 0
    BY <1>6 DEF RelayPending, InputFrame
  <2>2. InputStream = Counting(inRead)
    BY <2>1 DEF ReadInOrder, InputStream, Counting
  <2>3. CASE UNCHANGED <<inPipe, pending>>
    BY <2>1, <2>2, <2>3 DEF InputStream
  <2>4. CASE inPipe' = Append(inPipe, pending) /\ pending' = 0
    <3>1. InputStream' = (inGot \o Append(inPipe, pending)) \o <<>>
      BY <2>1, <2>4 DEF InputStream
    <3>2. InputStream = (inGot \o inPipe) \o <<pending>>
      BY <2>1 DEF InputStream
    <3>3. Append(inPipe, pending) \in Seq(Nat)
      BY DEF InputTypes
    <3>q. QED
      BY <2>1, <2>2, <3>1, <3>2, <3>3, ConcatAppend DEF InputTypes
  <2>q. QED
    BY <1>6, <2>3, <2>4 DEF RelayPending
<1>7. CASE RelayInput
  <2> SUFFICES ASSUME inReader' PROVE InputStream' = Counting(inRead')
    BY DEF ReadInOrder, InputStream, Counting
  <2>1. /\ inReader /\ inGot' = inGot /\ inRead' = inRead + 1 /\ pending = 0
        /\ \/ inPipe' = Append(inPipe, inRead + 1) /\ pending' = 0
           \/ inPipe' = inPipe /\ pending' = inRead + 1
    BY <1>7 DEF RelayInput, InputFrame, Readable
  <2>2. inGot \o inPipe = Counting(inRead)
    BY <2>1, ConcatAppend DEF ReadInOrder, Counting, InputTypes
  <2>3. Append(inGot \o inPipe, inRead + 1) = Counting(inRead')
    BY <2>1, <2>2, CountingAppend DEF InputTypes
  <2>4. inRead + 1 \in Nat /\ inRead + 1 # 0 /\ Append(inPipe, inRead + 1) \in Seq(Nat)
    BY DEF InputTypes
  <2>5. CASE inPipe' = Append(inPipe, inRead + 1) /\ pending' = 0
    <3>1. InputStream' = (inGot \o Append(inPipe, inRead + 1)) \o <<>>
      BY <2>1, <2>5 DEF InputStream
    <3>2. @ = inGot \o Append(inPipe, inRead + 1)
      BY <2>4, ConcatAppend DEF InputTypes
    <3>3. @ = Append(inGot \o inPipe, inRead + 1)
      BY <2>4, ConcatAppend DEF InputTypes
    <3>q. QED
      BY <2>3, <3>1, <3>2, <3>3
  <2>6. CASE inPipe' = inPipe /\ pending' = inRead + 1
    BY <2>1, <2>3, <2>4, <2>6, ConcatAppend DEF InputStream, InputTypes
  <2>q. QED
    BY <2>1, <2>5, <2>6
<1>8. CASE RelayInputEnd
  BY <1>8, SameInput DEF RelayInputEnd, InputFrame, ryVars, inVars, outVars, procVars,
     hostVars, InputKept
<1>9. CASE \E i \in 2..4 : RelayOutput(i)
  BY <1>9, SameInput DEF RelayOutput, Stages, RyGoes, ryVars, inVars, outVars, procVars,
     hostVars, InputKept
<1>10. CASE RelayAccepts
  BY <1>10, SameInput DEF RelayAccepts, RyGoes, ryVars, inVars, outVars, procVars, hostVars,
     InputKept
<1>11. CASE RelayInterop
  BY <1>11, SameInput DEF RelayInterop, ryVars, inVars, outVars, procVars, hostVars,
     InputKept
<1>12. CASE RelaySignal
  BY <1>12, SameInput DEF RelaySignal, RyGoes, ryVars, inVars, outVars, procVars, hostVars,
     InputKept
<1>13. CASE RelayReaps
  BY <1>13, SameInput DEF RelayReaps, RyGoes, ryVars, inVars, outVars, procVars, hostVars,
     InputKept
<1>14. CASE RelayAnswered
  BY <1>14, SameInput DEF RelayAnswered, RyGoes, ryVars, inVars, outVars, procVars,
     hostVars, InputKept
<1>15. CASE RelayTerminal
  BY <1>15, SameInput DEF RelayTerminal, RyGoes, ryVars, inVars, outVars, procVars,
     hostVars, InputKept
<1>16. CASE RelayEnd
  BY <1>16, SameInput DEF RelayEnd, RyGoes, ryVars, inVars, outVars, procVars, hostVars,
     InputKept
<1>17. CASE HostSendsInput
  BY <1>17, SameInput DEF HostSendsInput, ryVars, inVars, outVars, procVars, hostVars,
     InputKept
<1>18. CASE HostEndsInput
  BY <1>18, SameInput DEF HostEndsInput, ryVars, inVars, outVars, procVars, hostVars,
     InputKept
<1>19. CASE HostAnswersStatus
  BY <1>19, SameInput DEF HostAnswersStatus, ryVars, inVars, outVars, procVars, hostVars,
     InputKept
<1>20. CASE \E t \in {"resized", "closed"} : HostTerminal(t)
  BY <1>20, SameInput DEF HostTerminal, ryVars, inVars, outVars, procVars, hostVars,
     InputKept
<1>21. CASE LocalConnects
  BY <1>21, SameInput DEF LocalConnects, ryVars, inVars, outVars, procVars, hostVars,
     InputKept
<1>22. CASE \E w \in {"sent", "closed", "bad"} : LocalSends(w)
  BY <1>22, SameInput DEF LocalSends, ryVars, inVars, outVars, procVars, hostVars, InputKept
<1>23. CASE \E ok \in BOOLEAN : ChildStarts(ok)
  <2>1. CASE inReader'
    BY <1>23, <2>1, SameInput DEF ChildStarts, InputKept, InputTypes, ReaderAt
  <2>2. CASE ~inReader'
    BY <2>2 DEF ReadInOrder
  <2>q. QED
    BY <2>1, <2>2
<1>24. CASE ProcessReads
  <2>1. /\ inGot' \o inPipe' = inGot \o inPipe
        /\ UNCHANGED <<pending, inRead, inReader>>
    BY <1>24, MoveHead DEF ProcessReads, InputTypes
  <2>q. QED
    BY <2>1 DEF ReadInOrder
<1>25. CASE ProcessClosesInput
  BY <1>25 DEF ProcessClosesInput, ReadInOrder
<1>26. CASE ProcessForks
  BY <1>26, SameInput DEF ProcessForks, ryVars, inVars, outVars, procVars, hostVars,
     InputKept
<1>27. CASE Exits
  <2>1. CASE inReader'
    BY <1>27, <2>1, SameInput DEF Exits, InputKept, InputTypes
  <2>2. CASE ~inReader'
    BY <2>2 DEF ReadInOrder
  <2>q. QED
    BY <2>1, <2>2
<1>28. CASE \E d \in {"out", "err"} : ProcessWrites(d)
  BY <1>28, SameInput DEF ProcessWrites, ryVars, inVars, outVars, procVars, hostVars,
     InputKept
<1>29. CASE UNCHANGED ryVars
  BY <1>29, SameInput DEF ryVars, inVars, outVars, procVars, hostVars, InputKept
<1>q. QED
  BY <1>1, <1>2, <1>3, <1>4, <1>5, <1>6, <1>7, <1>8, <1>9, <1>10, <1>11, <1>12, <1>13,
     <1>14, <1>15, <1>16, <1>17, <1>18, <1>19, <1>20, <1>21, <1>22, <1>23, <1>24, <1>25,
     <1>26, <1>27, <1>28, <1>29 DEF RyNext, Starts, Turn, Surroundings

(* Only the writes of input change what is cut, and they do it on a        *)
(* terminal.                                                               *)
LEMMA WholeStep ==
    ASSUME PipesTakeWhole, [RyNext]_ryVars
    PROVE  PipesTakeWhole'
<1>1. CASE Starts
  BY <1>1 DEF Starts, RelayListen, RelayAccept, RelaySetup, StartFrame, RyGoes, PipesTakeWhole
<1>2. CASE PollData \/ PollRest \/ RelayInputEnd
  BY <1>2 DEF PollData, PollRest, RelayInputEnd, Proceeds, RyGoes, inVars, PipesTakeWhole
<1>3. CASE RelayPending \/ RelayInput
  <2>1. UNCHANGED consoles
    BY <1>3 DEF RelayPending, RelayInput, Proceeds, RyGoes
  <2>2. \/ cut' = cut \/ cut' = cut \ {pending} \/ "in" \in consoles
    BY <1>3 DEF RelayPending, RelayInput
  <2>q. QED
    BY <2>1, <2>2 DEF PipesTakeWhole
<1>4. CASE \E i \in 2..4 : RelayOutput(i)
  BY <1>4 DEF RelayOutput, Proceeds, RyGoes, inVars, PipesTakeWhole
<1>5. CASE RelayAccepts \/ RelayInterop \/ RelaySignal \/ RelayReaps \/ RelayAnswered
  BY <1>5 DEF RelayAccepts, RelayInterop, RelaySignal, RelayReaps, RelayAnswered, Proceeds,
     RyGoes, inVars, PipesTakeWhole
<1>6. CASE RelayTerminal \/ RelayEnd
  BY <1>6 DEF RelayTerminal, RelayEnd, Proceeds, RyGoes, inVars, PipesTakeWhole
<1>7. CASE Surroundings
  BY <1>7 DEF Surroundings, HostSendsInput, HostEndsInput, HostAnswersStatus, HostTerminal,
     LocalConnects, LocalSends, ChildStarts, ProcessReads, ProcessClosesInput, ProcessForks,
     Exits, ProcessWrites, inVars, PipesTakeWhole
<1>8. CASE UNCHANGED ryVars
  BY <1>8 DEF ryVars, PipesTakeWhole
<1>q. QED
  BY <1>1, <1>2, <1>3, <1>4, <1>5, <1>6, <1>7, <1>8 DEF RyNext, Turn

(* What the service sends reaches a process that reads it in its order,    *)
(* nothing repeated and no buffer left out, however long the input and     *)
(* however often PendingStdin had to be used; on a pipe every buffer is    *)
(* whole, on a terminal part of one may be missing.                        *)
THEOREM InputRelayedInOrder == RySpec => []InputInOrder
<1>1. RyInit => RyInv
  <2> SUFFICES ASSUME RyInit PROVE RyInv
    OBVIOUS
  <2>1. InputTypes
    <3>1. <<>> \in Seq(Nat)
      OBVIOUS
    <3>q. QED
      BY <3>1 DEF RyInit, InputTypes
  <2>q. QED
    BY <2>1 DEF RyInit, RyInv, ReaderAt, BeforePoll, InputInOrder, ReadInOrder, PipesTakeWhole
<1>2. RyInv /\ [RyNext]_ryVars => RyInv'
  BY InputTypesStep, ReaderStep, InputStep, WholeStep DEF RyInv, InputInOrder
<1>q. QED
  BY <1>1, <1>2, PTL DEF RySpec, RyInv

-----------------------------------------------------------------------------
(***************************************************************************)
(* mini_init: MiniSafe.                                                    *)
(*                                                                         *)
(* The requests that are still in the channel have left no trace (InboxAt, *)
(* FreshAt); what a child has reported and mounted is determined by where  *)
(* it is (ChildAt); a mount of mini_init's namespace is of a disk that is  *)
(* attached or was torn away from it (MountsAt); when the children have    *)
(* been killed none is left that could start another (EndAt); and a child  *)
(* that was reaped had its notice written (ExitTold).                      *)
(***************************************************************************)

USE DEF exitVars

\* Where a child has not reported anything ...
SilentPcs == {"mount", "gui", "system", "exec", "enter", "running", "format", "prepare", "find", "part",
              "detect", "mnt", "umount", "rmdir", "detach", "poll", "fsck", "resize"}
\* ... and where it has reported that it is ready, and goes on.
ReadyPcs == {"tar", "post"}
EndedPcs == {"none", "zombie", "gone"}
Answers == {"ok", "err", "port", "failed", "done"}
Children == [pc : SilentPcs \cup ReadyPcs \cup EndedPcs \cup {"accept"}, mnt : Luns \cup {0},
             good : BOOLEAN, user : {"none", "exec", "running", "dead"}, linked : BOOLEAN]

MiniTypes ==
    /\ phase \in {"boot", "run", "dhcp", "kill", "detach", "off", "panic"}
    /\ script \in Seq(MiniMessages) /\ Len(script) <= MaxReqs /\ inbox \in Seq(Reqs)
    /\ config \in [sys : BOOLEAN, gui : BOOLEAN, gpu : BOOLEAN, mods : BOOLEAN, shared : BOOLEAN]
    /\ child \in [Reqs -> Children]
    /\ open \in [Reqs -> SUBSET {"init", "system"}]
    /\ ans \in [Reqs -> Seq(Answers)]
    /\ notified \in [Reqs -> {"no", "told", "failed"}]
    /\ mounts \in [Names -> Luns \cup {0}] /\ disks \subseteq Luns
    /\ torn \subseteq Luns /\ unkilled \in BOOLEAN
    /\ faults \in 0..MaxFaults

(* The channel holds the last messages, in order. *)
InboxAt ==
    /\ Len(inbox) <= Len(script)
    /\ \A i \in 1..Len(inbox) : inbox[i] = Len(script) - Len(inbox) + i

(* A request that was not taken yet has no child and no answer. *)
Untaken(r) == r > Len(script) - Len(inbox)
FreshAt == \A r \in Reqs : Untaken(r) => child[r] = NoChild /\ ans[r] = <<>>

(* What is known of a child and its answers from where it is. *)
ChildOK(r) ==
    /\ child[r].pc \in EndedPcs => child[r].mnt = 0 /\ child[r].user # "exec"
    /\ child[r].pc \in SilentPcs => ans[r] = <<>>
    /\ child[r].pc = "accept" => ans[r] = <<"err">> \/ (ans[r] = <<"ok">> /\ child[r].good)
    /\ child[r].pc \in ReadyPcs => child[r].good /\ Len(ans[r]) = 1
    /\ child[r].linked => child[r].good
    /\ Len(ans[r]) <= 2
    /\ (\E i \in 1..Len(ans[r]) : ans[r][i] = "done") => child[r].good
ChildAt == \A r \in Reqs : ChildOK(r)

MountsAt == \A n \in Names : mounts[n] = 0 \/ mounts[n] \in disks \/ mounts[n] \in torn

EndAt ==
    /\ (phase \in {"detach", "off"} /\ ~unkilled) => Living = {} /\ daemons = {}
    /\ (phase = "off" /\ ~unkilled) => \A n \in Names : mounts[n] = 0 \/ mounts[n] \in torn

MiniInv == MiniTypes /\ InboxAt /\ FreshAt /\ ChildAt /\ MountsAt /\ EndAt /\ ExitTold

-----------------------------------------------------------------------------
(* What the parts of the actions do. *)

(* The first message of the channel is taken. *)
LEMMA TakingAt ==
    ASSUME MiniTypes, InboxAt, NEW types, Taking(types)
    PROVE  /\ Head(inbox) \in Reqs /\ Head(inbox) \in 1..Len(script)
           /\ Untaken(Head(inbox)) /\ Kind(Head(inbox)) \in types
           /\ inbox' \in Seq(Reqs) /\ InboxAt' /\ phase = "run" /\ script' = script
           /\ \A q \in Reqs : Untaken(q)' => Untaken(q) /\ q # Head(inbox)
<1>1. /\ inbox # <<>> /\ inbox' = Tail(inbox) /\ script' = script /\ phase = "run"
      /\ Kind(Head(inbox)) \in types
  BY DEF Taking
<1>2. /\ Len(inbox) \in Nat \ {0} /\ Len(inbox') = Len(inbox) - 1 /\ Head(inbox) = inbox[1]
      /\ inbox' \in Seq(Reqs) /\ inbox[1] \in Reqs
      /\ \A i \in 1..Len(inbox) - 1 : inbox'[i] = inbox[i + 1]
  BY <1>1 DEF MiniTypes
<1>3. Len(script) \in Nat /\ Reqs \subseteq Int
  BY DEF MiniTypes, Reqs
<1>4. inbox[1] = Len(script) - Len(inbox) + 1
  BY <1>2 DEF InboxAt
<1>5. Head(inbox) \in 1..Len(script) /\ Untaken(Head(inbox))
  BY <1>2, <1>3, <1>4 DEF InboxAt, Untaken
<1>6. InboxAt'
  BY <1>1, <1>2, <1>3 DEF InboxAt
<1>7. \A q \in Reqs : Untaken(q)' => Untaken(q) /\ q # Head(inbox)
  BY <1>1, <1>2, <1>3, <1>4 DEF Untaken
<1>q. QED
  BY <1>1, <1>2, <1>5, <1>6, <1>7

(* A child dies. *)
LEMMA DiesAt ==
    ASSUME MiniTypes, NEW r \in Reqs, Dies(r)
    PROVE  /\ child' \in [Reqs -> Children] /\ open' \in [Reqs -> SUBSET {"init", "system"}]
           /\ child'[r].pc = "zombie" /\ child'[r].mnt = 0 /\ child'[r].user # "exec"
           /\ child'[r].good = child[r].good /\ child'[r].linked = child[r].linked
           /\ \A q \in Reqs \ {r} : child'[q] = child[q]
<1>1. child[r] \in Children /\ child \in [Reqs -> Children] /\ open \in [Reqs -> SUBSET {"init", "system"}]
  BY DEF MiniTypes
<1> DEFINE dead == [child[r] EXCEPT !.pc = "zombie", !.mnt = 0,
                                     !.user = IF child[r].user = "none" THEN "none" ELSE "dead"]
<1>2. child' = [child EXCEPT ![r] = dead] /\ open' = [open EXCEPT ![r] = {}]
  BY <1>1 DEF Dies, Children
<1>3. /\ dead \in Children /\ dead.pc = "zombie" /\ dead.mnt = 0 /\ dead.user # "exec"
      /\ dead.good = child[r].good /\ dead.linked = child[r].linked
  BY <1>1 DEF Children, EndedPcs
<1> HIDE DEF dead
<1>q. QED
  BY <1>1, <1>2, <1>3

(* A child goes on. *)
LEMMA GoesOnAt ==
    ASSUME MiniTypes, NEW r \in Reqs, NEW pc \in SilentPcs \cup ReadyPcs \cup {"accept"}, GoesOn(r, pc)
    PROVE  /\ child' \in [Reqs -> Children] /\ open' = open
           /\ child'[r].pc = pc /\ child'[r].mnt = child[r].mnt /\ child'[r].user = child[r].user
           /\ child'[r].good = child[r].good /\ child'[r].linked = child[r].linked
           /\ \A q \in Reqs \ {r} : child'[q] = child[q]
  BY ZenonT(40) DEF MiniTypes, GoesOn, Children

(* A request is answered. *)
LEMMA AnswerAt ==
    ASSUME MiniTypes, NEW r \in Reqs, NEW a \in Answers, Answer(r, a)
    PROVE  /\ ans' \in [Reqs -> Seq(Answers)] /\ Len(ans'[r]) = Len(ans[r]) + 1
           /\ ans[r] = <<>> => ans'[r] = <<a>>
           /\ (\E i \in 1..Len(ans'[r]) : ans'[r][i] = "done")
                => a = "done" \/ \E i \in 1..Len(ans[r]) : ans[r][i] = "done"
           /\ \A q \in Reqs \ {r} : ans'[q] = ans[q]
<1>1. ans' = [ans EXCEPT ![r] = Append(ans[r], a)]
  BY DEF Answer
<1>2. ans[r] \in Seq(Answers)
  BY DEF MiniTypes
<1>e. Append(<<>>, a) = <<a>>
  OBVIOUS
<1>3. /\ Append(ans[r], a) \in Seq(Answers) /\ Len(Append(ans[r], a)) = Len(ans[r]) + 1
      /\ \A i \in 1..Len(ans[r]) : Append(ans[r], a)[i] = ans[r][i]
      /\ Append(ans[r], a)[Len(ans[r]) + 1] = a /\ Len(ans[r]) \in Nat
  BY <1>2
<1> DEFINE new == Append(ans[r], a)
<1>4. /\ new \in Seq(Answers) /\ Len(new) = Len(ans[r]) + 1
      /\ ans[r] = <<>> => new = <<a>>
      /\ \A i \in 1..Len(ans[r]) : new[i] = ans[r][i]
      /\ new[Len(ans[r]) + 1] = a /\ Len(ans[r]) \in Nat
  BY <1>e, <1>3
<1>5. ans' = [ans EXCEPT ![r] = new]
  BY <1>1
<1> HIDE DEF new
<1>6. ans'[r] = new /\ ans' \in [Reqs -> Seq(Answers)] /\ \A q \in Reqs \ {r} : ans'[q] = ans[q]
  BY <1>4, <1>5 DEF MiniTypes
<1>7. (\E i \in 1..Len(new) : new[i] = "done")
        => a = "done" \/ \E i \in 1..Len(ans[r]) : ans[r][i] = "done"
  BY <1>4
<1>q. QED
  BY <1>4, <1>6, <1>7

-----------------------------------------------------------------------------
(* The children. *)

\* What one step of the child of r, or of the service towards it, leaves.
ChildOutcome(r) ==
    /\ ChildFrame /\ faults' \in 0..MaxFaults
    /\ child' \in [Reqs -> Children] /\ open' \in [Reqs -> SUBSET {"init", "system"}]
    /\ ans' \in [Reqs -> Seq(Answers)]
    /\ \A q \in Reqs \ {r} : child'[q] = child[q] /\ ans'[q] = ans[q]
    /\ child[r].pc \notin EndedPcs /\ child'[r].pc \notin {"none", "gone"} /\ ChildOK(r)'
MountsOutcome ==
    /\ mounts' \in [Names -> Luns \cup {0}] /\ disks' \subseteq Luns
    /\ torn' \subseteq Luns /\ torn \subseteq torn'
    /\ \A n \in Names : \/ mounts'[n] = 0 \/ mounts'[n] \in disks' \/ mounts'[n] \in torn'
                        \/ mounts'[n] = mounts[n] /\ mounts[n] \notin disks

(* The ends of its steps: it dies with or without a report, or goes on. *)
LEMMA DiesOutcome ==
    ASSUME MiniTypes, NEW r \in Reqs, ChildOK(r), child[r].pc \notin EndedPcs,
           Dies(r), ans' = ans, ChildFrame, faults' \in 0..MaxFaults
    PROVE  ChildOutcome(r)
  BY DiesAt DEF ChildOutcome, ChildOK, ChildFrame, Kind, MiniTypes, SilentPcs, ReadyPcs, EndedPcs

LEMMA ReportsOutcome ==
    ASSUME MiniTypes, NEW r \in Reqs, ChildOK(r), child[r].pc \notin EndedPcs,
           NEW a \in Answers, a = "done" => child[r].good,
           Answer(r, a), Dies(r), ChildFrame, faults' \in 0..MaxFaults
    PROVE  ChildOutcome(r)
<1>1. child[r].pc \in SilentPcs \cup ReadyPcs \cup {"accept"}
  BY DEF MiniTypes, Children
<1>2. Len(ans[r]) <= 1 /\ Len(ans[r]) \in Nat
  <2>1. Len(<<>>) = 0 /\ Len(<<"ok">>) = 1 /\ Len(<<"err">>) = 1
    OBVIOUS
  <2>2. child[r].pc \in SilentPcs \/ child[r].pc \in ReadyPcs \/ child[r].pc = "accept"
    BY <1>1
  <2>3. \/ ans[r] = <<>> \/ ans[r] = <<"ok">> \/ ans[r] = <<"err">> \/ Len(ans[r]) = 1
    BY <2>2 DEF ChildOK
  <2>4. Len(ans[r]) \in Nat
    BY DEF MiniTypes
  <2>5. ans[r] = <<>> => Len(ans[r]) = 0
    BY <2>1
  <2>6. ans[r] = <<"ok">> => Len(ans[r]) = 1
    BY <2>1
  <2>7. ans[r] = <<"err">> => Len(ans[r]) = 1
    BY <2>1
  <2>8. Len(ans[r]) = 0 \/ Len(ans[r]) = 1
    BY <2>3, <2>5, <2>6, <2>7, Zenon
  <2> DEFINE n == Len(ans[r])
  <2>9. n \in Nat /\ (n = 0 \/ n = 1)
    BY <2>4, <2>8
  <2> SUFFICES n <= 1 /\ n \in Nat
    OBVIOUS
  <2> HIDE DEF n
  <2>q. QED
    BY <2>9
<1>3. /\ ans' \in [Reqs -> Seq(Answers)] /\ Len(ans'[r]) <= 2
      /\ (\E i \in 1..Len(ans'[r]) : ans'[r][i] = "done") => child[r].good
      /\ \A q \in Reqs \ {r} : ans'[q] = ans[q]
  BY <1>2, AnswerAt DEF ChildOK
<1>q. QED
  BY <1>1, <1>3, DiesAt DEF ChildOutcome, ChildOK, ChildFrame, Kind, SilentPcs, ReadyPcs, EndedPcs

LEMMA GoesOnOutcome ==
    ASSUME MiniTypes, NEW r \in Reqs, ChildOK(r), child[r].pc \notin EndedPcs,
           NEW pc \in SilentPcs \cup ReadyPcs,
           pc \in SilentPcs => child[r].pc \in SilentPcs,
           pc \in ReadyPcs => child[r].good /\ Len(ans[r]) = 1,
           GoesOn(r, pc), ans' = ans, ChildFrame, faults' \in 0..MaxFaults
    PROVE  ChildOutcome(r)
<1>1. child[r].pc # "none" /\ pc \notin EndedPcs /\ pc # "accept"
  BY DEF EndedPcs, SilentPcs, ReadyPcs
<1>q. QED
  BY <1>1, GoesOnAt DEF ChildOutcome, ChildOK, ChildFrame, Kind, MiniTypes, EndedPcs

(* One step of a child keeps what is known of it. *)
LEMMA ChildStepOutcome ==
    ASSUME MiniTypes, NEW r \in Reqs, ChildOK(r), ChildSteps(r) \/ DistroExits(r) \/ ServiceConnects(r)
    PROVE  ChildOutcome(r)
<1>a. {"ok", "err", "failed", "done"} \subseteq Answers
  BY DEF Answers
<1>f. Works \/ Breaks => faults' \in 0..MaxFaults
  BY MiniAssumption DEF Works, Breaks, MiniTypes
<1>k. child[r] \in Children /\ ans[r] \in Seq(Answers)
  BY DEF MiniTypes
<1>1. CASE LaunchMounts(r)
  <2>1. CASE Answer(r, "err") /\ Dies(r) /\ (Works \/ Breaks)
    BY <1>1, <1>a, <1>f, <2>1, ReportsOutcome DEF LaunchMounts, At, EndedPcs
  <2>2. CASE /\ Found(r) /\ child' = [child EXCEPT ![r].mnt = Lun(r), ![r].pc = "gui"]
             /\ UNCHANGED <<open, ans, sigchld>> /\ Works
    <3>1. Lun(r) \in Luns /\ child[r].pc = "mount" /\ ChildFrame
      BY <1>1, <2>2 DEF LaunchMounts, At, Found, MiniTypes
    <3>2. /\ child' \in [Reqs -> Children] /\ child'[r].pc = "gui"
          /\ child'[r].good = child[r].good /\ child'[r].linked = child[r].linked
          /\ \A q \in Reqs \ {r} : child'[q] = child[q]
      BY <1>k, <2>2, <3>1 DEF MiniTypes, Children, SilentPcs
    <3>q. QED
      BY <1>f, <2>2, <3>1, <3>2
      DEF ChildOutcome, ChildOK, ChildFrame, Kind, MiniTypes, SilentPcs, ReadyPcs, EndedPcs
  <2>q. QED
    BY <1>1, <2>1, <2>2 DEF LaunchMounts, OnDevice
<1>2. CASE LaunchSystem(r)
  <2>1. CASE Answer(r, "err") /\ Dies(r) /\ Breaks
    BY <1>2, <1>a, <1>f, <2>1, ReportsOutcome DEF LaunchSystem, At, EndedPcs
  <2>2. CASE /\ UNCHANGED ans /\ Works
             /\ open' = open \/ open' = [open EXCEPT ![r] = @ \ {"system"}]
             /\ \/ child' = [child EXCEPT ![r].pc = "system", ![r].user = "exec"]
                \/ child' = [child EXCEPT ![r].pc = "exec"]
    <3>1. child[r].pc = "gui" /\ ChildFrame
      BY <1>2 DEF LaunchSystem, At
    <3>2. /\ child' \in [Reqs -> Children] /\ child'[r].pc \in {"system", "exec"}
          /\ child'[r].good = child[r].good /\ child'[r].linked = child[r].linked
          /\ \A q \in Reqs \ {r} : child'[q] = child[q]
      <4>1. CASE child' = [child EXCEPT ![r].pc = "system", ![r].user = "exec"]
        BY <1>k, <4>1 DEF MiniTypes, Children, SilentPcs
      <4>2. CASE child' = [child EXCEPT ![r].pc = "exec"]
        BY <1>k, <4>2 DEF MiniTypes, Children, SilentPcs
      <4>q. QED
        BY <2>2, <4>1, <4>2
    <3>3. open' \in [Reqs -> SUBSET {"init", "system"}]
      <4>1. open[r] \ {"system"} \in SUBSET {"init", "system"}
        BY DEF MiniTypes
      <4>q. QED
        BY <2>2, <4>1 DEF MiniTypes
    <3>q. QED
      BY <1>f, <2>2, <3>1, <3>2, <3>3
      DEF ChildOutcome, ChildOK, ChildFrame, Kind, MiniTypes, SilentPcs, ReadyPcs, EndedPcs
  <2>q. QED
    BY <1>2, <2>1, <2>2 DEF LaunchSystem
<1>3. CASE LaunchUser(r)
  <2>1. /\ child[r].pc \notin EndedPcs /\ UNCHANGED ans /\ ChildFrame /\ (Works \/ Breaks)
        /\ \/ child' = [child EXCEPT ![r].user = "running"]
           \/ child' = [child EXCEPT ![r].user = "dead"]
        /\ open' = open \/ open' = [open EXCEPT ![r] = @ \ {"init"}]
    BY <1>3 DEF LaunchUser, ChildOK
  <2>2. /\ child' \in [Reqs -> Children] /\ child'[r].pc = child[r].pc
        /\ child'[r].good = child[r].good /\ child'[r].linked = child[r].linked
        /\ \A q \in Reqs \ {r} : child'[q] = child[q]
    <3>1. CASE child' = [child EXCEPT ![r].user = "running"]
      BY <1>k, <3>1 DEF MiniTypes, Children
    <3>2. CASE child' = [child EXCEPT ![r].user = "dead"]
      BY <1>k, <3>2 DEF MiniTypes, Children
    <3>q. QED
      BY <2>1, <3>1, <3>2
  <2>3. open' \in [Reqs -> SUBSET {"init", "system"}]
    <3>1. open \in [Reqs -> SUBSET {"init", "system"}] /\ open[r] \ {"init"} \in SUBSET {"init", "system"}
      BY DEF MiniTypes
    <3>2. CASE open' = [open EXCEPT ![r] = @ \ {"init"}]
      BY <3>1, <3>2
    <3>q. QED
      BY <2>1, <3>1, <3>2
  <2>q. QED
    BY <1>f, <2>1, <2>2, <2>3 DEF ChildOutcome, ChildOK, ChildFrame, Kind, MiniTypes, EndedPcs
<1>4. CASE LaunchSystemDistro(r)
  BY DiesOutcome, ReportsOutcome, GoesOnOutcome, <1>a, <1>f, <1>4 DEF LaunchSystemDistro,
     At, SilentPcs, ReadyPcs, EndedPcs
<1>5. CASE LaunchInit(r)
  BY DiesOutcome, ReportsOutcome, GoesOnOutcome, <1>a, <1>f, <1>5 DEF LaunchInit, At,
     SilentPcs, ReadyPcs, EndedPcs
<1>6. CASE EnterDistro(r)
  BY DiesOutcome, ReportsOutcome, GoesOnOutcome, <1>a, <1>f, <1>6 DEF EnterDistro, At,
     SilentPcs, ReadyPcs, EndedPcs
<1>7. CASE FormatDevice(r)
  <2>1. /\ child[r].pc = "format" /\ ans[r] = <<>> /\ ChildFrame /\ (Works \/ Breaks) /\ open' = open
    BY <1>7 DEF FormatDevice, At, ChildOK, SilentPcs, OnDevice
  <2>2. CASE Unprepared(r)
    <3>1. /\ child' \in [Reqs -> Children] /\ child'[r].pc = "accept"
          /\ child'[r].good = child[r].good /\ child'[r].linked = child[r].linked
          /\ \A q \in Reqs \ {r} : child'[q] = child[q]
      BY <1>k, <2>2 DEF Unprepared, MiniTypes, Children
    <3>2. /\ ans' \in [Reqs -> Seq(Answers)] /\ ans'[r] = <<"err">>
          /\ \A q \in Reqs \ {r} : ans'[q] = ans[q]
      BY <1>a, <2>1, <2>2, AnswerAt DEF Unprepared
    <3>3. Len(<<"err">>) = 1 /\ ~\E i \in 1..Len(<<"err">>) : <<"err">>[i] = "done"
      OBVIOUS
    <3>q. QED
      BY <1>f, <2>1, <3>1, <3>2, <3>3
      DEF ChildOutcome, ChildOK, ChildFrame, Kind, MiniTypes, SilentPcs, ReadyPcs, EndedPcs
  <2>3. CASE child' = [child EXCEPT ![r].pc = "prepare"] /\ UNCHANGED ans
    BY <1>f, <1>7, <2>1, <2>3, GoesOnOutcome
    DEF FormatDevice, GoesOn, SilentPcs, ReadyPcs, EndedPcs
  <2>q. QED
    BY <1>7, <2>2, <2>3 DEF FormatDevice, OnDevice
<1>8. CASE ImportPrepares(r)
  <2>1. /\ child[r].pc = "prepare" /\ ans[r] = <<>> /\ ChildFrame /\ (Works \/ Breaks) /\ open' = open
    BY <1>8 DEF ImportPrepares, At, ChildOK, SilentPcs, OnDevice
  <2>2. CASE Unprepared(r)
    <3>1. /\ child' \in [Reqs -> Children] /\ child'[r].pc = "accept"
          /\ child'[r].good = child[r].good /\ child'[r].linked = child[r].linked
          /\ \A q \in Reqs \ {r} : child'[q] = child[q]
      BY <1>k, <2>2 DEF Unprepared, MiniTypes, Children
    <3>2. /\ ans' \in [Reqs -> Seq(Answers)] /\ ans'[r] = <<"err">>
          /\ \A q \in Reqs \ {r} : ans'[q] = ans[q]
      BY <1>a, <2>1, <2>2, AnswerAt DEF Unprepared
    <3>3. Len(<<"err">>) = 1 /\ ~\E i \in 1..Len(<<"err">>) : <<"err">>[i] = "done"
      OBVIOUS
    <3>q. QED
      BY <1>f, <2>1, <3>1, <3>2, <3>3
      DEF ChildOutcome, ChildOK, ChildFrame, Kind, MiniTypes, SilentPcs, ReadyPcs, EndedPcs
  <2>3. CASE /\ Found(r) /\ Answer(r, "ok")
             /\ child' = [child EXCEPT ![r].pc = "accept", ![r].good = TRUE, ![r].mnt = Lun(r)]
    <3>1. /\ child' \in [Reqs -> Children] /\ child'[r].pc = "accept" /\ child'[r].good
          /\ \A q \in Reqs \ {r} : child'[q] = child[q]
      BY <1>k, <2>3 DEF MiniTypes, Children, Found
    <3>2. /\ ans' \in [Reqs -> Seq(Answers)] /\ ans'[r] = <<"ok">>
          /\ \A q \in Reqs \ {r} : ans'[q] = ans[q]
      BY <1>a, <2>1, <2>3, AnswerAt
    <3>3. Len(<<"ok">>) = 1
      OBVIOUS
    <3>q. QED
      BY <1>f, <2>1, <3>1, <3>2, <3>3
      DEF ChildOutcome, ChildOK, ChildFrame, Kind, MiniTypes, SilentPcs, ReadyPcs, EndedPcs
  <2>q. QED
    BY <1>8, <2>2, <2>3 DEF ImportPrepares, OnDevice
<1>9. CASE AcceptSockets(r)
  BY DiesOutcome, ReportsOutcome, GoesOnOutcome, <1>a, <1>f, <1>9 DEF AcceptSockets, At,
     SilentPcs, ReadyPcs, EndedPcs, ChildOK
<1>10. CASE ImportFromSocket(r)
  BY DiesOutcome, ReportsOutcome, GoesOnOutcome, <1>a, <1>f, <1>10 DEF ImportFromSocket, At,
     SilentPcs, ReadyPcs, EndedPcs, ChildOK
<1>11. CASE ExportToSocket(r)
  BY DiesOutcome, ReportsOutcome, GoesOnOutcome, <1>a, <1>f, <1>11 DEF ExportToSocket, At,
     SilentPcs, ReadyPcs, EndedPcs, ChildOK
<1>12. CASE PostProcessImportedDistribution(r)
  BY DiesOutcome, ReportsOutcome, GoesOnOutcome, <1>a, <1>f, <1>12 DEF
     PostProcessImportedDistribution, At, SilentPcs, ReadyPcs, EndedPcs, ChildOK
<1>13. CASE MountFinds(r)
  BY DiesOutcome, ReportsOutcome, GoesOnOutcome, <1>a, <1>f, <1>13 DEF MountFinds, OnDevice,
     Reports, At, SilentPcs, ReadyPcs, EndedPcs
<1>14. CASE FindPartition(r)
  BY DiesOutcome, ReportsOutcome, GoesOnOutcome, <1>a, <1>f, <1>14 DEF FindPartition,
     OnDevice, Reports, At, SilentPcs, ReadyPcs, EndedPcs
<1>15. CASE DetectFilesystem(r)
  BY DiesOutcome, ReportsOutcome, GoesOnOutcome, <1>a, <1>f, <1>15 DEF DetectFilesystem,
     OnDevice, Reports, At, SilentPcs, ReadyPcs, EndedPcs
<1>16. CASE MountDiskPartition(r)
  BY DiesOutcome, ReportsOutcome, GoesOnOutcome, <1>a, <1>f, <1>16 DEF MountDiskPartition,
     OnDevice, Reports, At, SilentPcs, ReadyPcs, EndedPcs
<1>17. CASE Unmounts(r)
  BY DiesOutcome, ReportsOutcome, GoesOnOutcome, <1>a, <1>f, <1>17 DEF Unmounts, Reports,
     At, SilentPcs, ReadyPcs, EndedPcs
<1>18. CASE UnmountRmdir(r)
  BY DiesOutcome, ReportsOutcome, GoesOnOutcome, <1>a, <1>f, <1>18 DEF UnmountRmdir,
     Reports, At, SilentPcs, ReadyPcs, EndedPcs
<1>19. CASE Detaches(r)
  <2>1. /\ child[r].pc = "detach" /\ ChildFrame /\ (Works \/ Breaks)
        /\ \E a \in {"ok", "err"} : Answer(r, a) /\ Dies(r)
    BY <1>19 DEF Detaches, Reports, At, Choose
  <2>q. QED
    BY <1>a, <1>f, <2>1, ReportsOutcome DEF EndedPcs
<1>20. CASE WaitForPmem(r)
  BY DiesOutcome, ReportsOutcome, GoesOnOutcome, <1>a, <1>f, <1>20 DEF WaitForPmem, Reports,
     At, SilentPcs, ReadyPcs, EndedPcs
<1>21. CASE ResizeChecks(r)
  BY DiesOutcome, ReportsOutcome, GoesOnOutcome, <1>a, <1>f, <1>21 DEF ResizeChecks,
     OnDevice, Reports, At, SilentPcs, ReadyPcs, EndedPcs
<1>22. CASE ResizeDistribution(r)
  BY DiesOutcome, ReportsOutcome, GoesOnOutcome, <1>a, <1>f, <1>22 DEF ResizeDistribution,
     OnDevice, Reports, At, SilentPcs, ReadyPcs, EndedPcs
<1>23. CASE DistroExits(r)
  BY DiesOutcome, ReportsOutcome, GoesOnOutcome, <1>a, <1>f, <1>23 DEF DistroExits, At,
     SilentPcs, ReadyPcs, EndedPcs, MiniTypes
<1>24. CASE ServiceConnects(r)
  <2>1. /\ child[r].pc = "accept" /\ ans[r] = <<"ok">> /\ ChildFrame
        /\ UNCHANGED <<open, ans, faults>> /\ child' = [child EXCEPT ![r].linked = TRUE]
    BY <1>24 DEF ServiceConnects, ChildFrame
  <2>2. /\ child' \in [Reqs -> Children] /\ child'[r].pc = "accept" /\ child'[r].good = child[r].good
        /\ \A q \in Reqs \ {r} : child'[q] = child[q]
    BY <1>k, <2>1 DEF MiniTypes, Children
  <2>3. child[r].good
    <3>1. <<"ok">> # <<"err">>
      OBVIOUS
    <3>q. QED
      BY <2>1, <3>1 DEF ChildOK
  <2>q. QED
    BY <2>1, <2>2, <2>3 DEF ChildOutcome, ChildOK, ChildFrame, Kind, MiniTypes, SilentPcs, ReadyPcs, EndedPcs
<1>q. QED
  BY <1>1, <1>2, <1>3, <1>4, <1>5, <1>6, <1>7, <1>8, <1>9, <1>10, <1>11, <1>12, <1>13,
     <1>14, <1>15, <1>16, <1>17, <1>18, <1>19, <1>20, <1>21, <1>22, <1>23, <1>24 DEF
     ChildSteps

(* A child mounts only a disk that is there, and detaches one only with *)
(* its mounts.                                                             *)
LEMMA ChildStepMounts ==
    ASSUME MiniTypes, NEW r \in Reqs, ChildSteps(r) \/ DistroExits(r) \/ ServiceConnects(r)
    PROVE  MountsOutcome
<1>1. CASE LaunchMounts(r)
  BY <1>1 DEF LaunchMounts, MiniTypes, MountsOutcome
<1>2. CASE LaunchSystem(r)
  BY <1>2 DEF LaunchSystem, MiniTypes, MountsOutcome
<1>3. CASE LaunchUser(r)
  BY <1>3 DEF LaunchUser, MiniTypes, MountsOutcome
<1>4. CASE LaunchSystemDistro(r)
  BY <1>4 DEF LaunchSystemDistro, MiniTypes, MountsOutcome
<1>5. CASE LaunchInit(r)
  BY <1>5 DEF LaunchInit, MiniTypes, MountsOutcome
<1>6. CASE EnterDistro(r)
  BY <1>6 DEF EnterDistro, MiniTypes, MountsOutcome
<1>7. CASE FormatDevice(r)
  BY <1>7 DEF FormatDevice, MiniTypes, MountsOutcome
<1>8. CASE ImportPrepares(r)
  BY <1>8 DEF ImportPrepares, MiniTypes, MountsOutcome
<1>9. CASE AcceptSockets(r)
  BY <1>9 DEF AcceptSockets, MiniTypes, MountsOutcome
<1>10. CASE ImportFromSocket(r)
  BY <1>10 DEF ImportFromSocket, MiniTypes, MountsOutcome
<1>11. CASE ExportToSocket(r)
  BY <1>11 DEF ExportToSocket, MiniTypes, MountsOutcome
<1>12. CASE PostProcessImportedDistribution(r)
  BY <1>12 DEF PostProcessImportedDistribution, MiniTypes, MountsOutcome
<1>13. CASE MountFinds(r)
  BY <1>13 DEF MountFinds, MiniTypes, MountsOutcome
<1>14. CASE FindPartition(r)
  BY <1>14 DEF FindPartition, MiniTypes, MountsOutcome
<1>15. CASE DetectFilesystem(r)
  BY <1>15 DEF DetectFilesystem, MiniTypes, MountsOutcome
<1>16. CASE MountDiskPartition(r)
  BY <1>16 DEF MountDiskPartition, Found, Lun, OnDevice, DetachScsiDisk, MiniTypes,
     MountsOutcome
<1>17. CASE Unmounts(r)
  BY <1>17 DEF Unmounts, MiniTypes, MountsOutcome
<1>18. CASE UnmountRmdir(r)
  BY <1>18 DEF UnmountRmdir, MiniTypes, MountsOutcome
<1>19. CASE Detaches(r)
  <2>1. CASE UNCHANGED <<disks, mounts, torn>>
    BY <2>1 DEF MiniTypes, MountsOutcome
  <2>2. ASSUME NEW left \in SUBSET {Lun(r)}, NEW stuck \in SUBSET {n \in Names : mounts[n] = Lun(r)},
               Found(r), DetachScsiDisk({Lun(r)}, left, stuck)
        PROVE  MountsOutcome
    <3>1. /\ disks' = (disks \ {Lun(r)}) \cup left
          /\ mounts' = [n \in Names |-> IF mounts[n] \in {Lun(r)} /\ n \notin stuck THEN 0 ELSE mounts[n]]
          /\ torn' = torn \cup {mounts[n] : n \in stuck} /\ Lun(r) \in disks
      BY <2>2 DEF DetachScsiDisk, Found
    <3>2. disks' \subseteq Luns /\ mounts' \in [Names -> Luns \cup {0}]
      BY <3>1 DEF MiniTypes
    <3>3. torn' \subseteq Luns /\ torn \subseteq torn'
      BY <3>1 DEF MiniTypes
    <3>4. ASSUME NEW n \in Names
          PROVE  \/ mounts'[n] = 0 \/ mounts'[n] \in disks' \/ mounts'[n] \in torn'
                 \/ mounts'[n] = mounts[n] /\ mounts[n] \notin disks
      <4>1. mounts'[n] = IF mounts[n] = Lun(r) /\ n \notin stuck THEN 0 ELSE mounts[n]
        BY <3>1
      <4>2. n \in stuck => mounts[n] \in torn'
        BY <3>1
      <4>3. mounts[n] \in disks /\ mounts[n] # Lun(r) => mounts[n] \in disks'
        BY <3>1
      <4>q. QED
        BY <4>1, <4>2, <4>3
    <3>q. QED
      BY <3>2, <3>3, <3>4 DEF MountsOutcome
  <2>q. QED
    BY <1>19, <2>1, <2>2 DEF Detaches
<1>20. CASE WaitForPmem(r)
  BY <1>20 DEF WaitForPmem, MiniTypes, MountsOutcome
<1>21. CASE ResizeChecks(r)
  BY <1>21 DEF ResizeChecks, MiniTypes, MountsOutcome
<1>22. CASE ResizeDistribution(r)
  BY <1>22 DEF ResizeDistribution, MiniTypes, MountsOutcome
<1>23. CASE DistroExits(r)
  BY <1>23 DEF DistroExits, MiniTypes, MountsOutcome
<1>24. CASE ServiceConnects(r)
  BY <1>24 DEF ServiceConnects, MiniTypes, MountsOutcome
<1>q. QED
  BY <1>1, <1>2, <1>3, <1>4, <1>5, <1>6, <1>7, <1>8, <1>9, <1>10, <1>11, <1>12, <1>13,
     <1>14, <1>15, <1>16, <1>17, <1>18, <1>19, <1>20, <1>21, <1>22, <1>23, <1>24 DEF
     ChildSteps

(* What detaching leaves mounted was torn. *)
LEMMA DetachedDisks ==
    ASSUME MiniTypes, PowerOff
    PROVE  /\ disks' \subseteq Luns /\ torn' \subseteq Luns /\ torn \subseteq torn'
           /\ mounts' \in [Names -> Luns \cup {0}]
           /\ \A n \in Names : \/ mounts'[n] = 0 \/ mounts'[n] \in torn'
                               \/ mounts'[n] = mounts[n] /\ mounts[n] \notin disks
<1>1. PICK done \in SUBSET disks, left \in SUBSET disks, stuck \in SUBSET {n \in Names : mounts[n] \in disks} :
        /\ {n \in Names : mounts[n] \in disks \ done} \subseteq stuck
        /\ DetachScsiDisk(done, left, stuck)
  <2>1. CASE DetachScsiDisk(disks, {}, {})
    BY <2>1
  <2>q. QED
    BY <2>1 DEF PowerOff
<1>2. /\ disks' = (disks \ done) \cup left
      /\ mounts' = [n \in Names |-> IF mounts[n] \in done /\ n \notin stuck THEN 0 ELSE mounts[n]]
      /\ torn' = torn \cup {mounts[n] : n \in stuck}
  BY <1>1 DEF DetachScsiDisk
<1>3. disks' \subseteq Luns
  BY <1>2 DEF MiniTypes
<1>4. torn' \subseteq Luns /\ torn \subseteq torn'
  BY <1>1, <1>2 DEF MiniTypes
<1>5. mounts' \in [Names -> Luns \cup {0}]
  BY <1>2 DEF MiniTypes
<1>6. ASSUME NEW n \in Names
      PROVE  \/ mounts'[n] = 0 \/ mounts'[n] \in torn'
             \/ mounts'[n] = mounts[n] /\ mounts[n] \notin disks
  <2>1. mounts'[n] = IF mounts[n] \in done /\ n \notin stuck THEN 0 ELSE mounts[n]
    BY <1>2
  <2>2. n \in stuck => mounts[n] \in torn'
    BY <1>2
  <2>3. mounts[n] \in disks /\ mounts[n] \notin done => n \in stuck
    BY <1>1
  <2>q. QED
    BY <2>1, <2>2, <2>3
<1>q. QED
  BY <1>3, <1>4, <1>5, <1>6

-----------------------------------------------------------------------------
(* The whole. *)

(* The channel. *)
LEMMA InboxStep ==
    ASSUME MiniTypes, InboxAt, FreshAt, ChildAt, MountsAt, EndAt, [Next]_vars
    PROVE  InboxAt'
<1>1. CASE Boot
  BY <1>1 DEF Boot, InboxAt
<1>2. CASE EarlyConfig
  BY <1>2, TakingAt DEF EarlyConfig, InboxAt
<1>3. CASE InitialConfig
  BY <1>3, TakingAt DEF InitialConfig, InboxAt
<1>4. CASE Launch
  BY <1>4, TakingAt DEF Launch, InboxAt
<1>5. CASE DiskTask
  BY <1>5, TakingAt DEF DiskTask, InboxAt
<1>6. CASE Eject
  BY <1>6, TakingAt DEF Eject, InboxAt
<1>7. CASE MountFolder
  BY <1>7, TakingAt DEF MountFolder, InboxAt
<1>8. CASE CreateProcess
  BY <1>8, TakingAt DEF CreateProcess, InboxAt
<1>9. CASE Unknown
  BY <1>9, TakingAt DEF Unknown, InboxAt
<1>10. CASE \E r \in Reqs : r <= Len(script) /\ InitialConfigRest(r)
  BY <1>10 DEF InitialConfigRest, InboxAt
<1>11. CASE Closed
  BY <1>11 DEF Closed, InboxAt
<1>12. CASE Reap
  BY <1>12 DEF Reap, InboxAt
<1>13. CASE KillChildren
  BY <1>13 DEF KillChildren, InboxAt
<1>14. CASE KilledAll
  BY <1>14 DEF KilledAll, InboxAt
<1>15. CASE PowerOff
  BY <1>15 DEF PowerOff, InboxAt
<1>16. CASE \E r \in Reqs : ChildSteps(r) \/ DistroExits(r) \/ ServiceConnects(r)
  BY <1>16, ChildStepOutcome DEF ChildAt, ChildOutcome, ChildFrame, InboxAt
<1>17. CASE \E s \in Scripts : ServiceSends(s)
  <2>1. PICK s \in Scripts : ServiceSends(s)
    BY <1>17
  <2> DEFINE n == Len(script) + 1
  <2>2. /\ script' = Append(script, s[n]) /\ inbox' = Append(inbox, n)
    BY <2>1 DEF ServiceSends
  <2>3. Len(script') = Len(script) + 1 /\ Len(script) \in Nat
    BY <2>2 DEF MiniTypes
  <2>4. /\ Len(inbox') = Len(inbox) + 1 /\ Len(inbox) \in Nat
        /\ \A i \in 1..Len(inbox) : inbox'[i] = inbox[i]
        /\ inbox'[Len(inbox) + 1] = n
    BY <2>2 DEF MiniTypes
  <2>q. QED
    BY <2>3, <2>4 DEF InboxAt
<1>18. CASE ServiceCloses
  BY <1>18 DEF ServiceCloses, InboxAt
<1>19. CASE UNCHANGED vars
  BY <1>19 DEF vars, InboxAt
<1>20. CASE LoopFails
  BY <1>20 DEF LoopFails, InboxAt
<1>21. CASE \E sent \in BOOLEAN : KillThrows(sent)
  BY <1>21 DEF KillThrows, InboxAt
<1>q. QED
  BY <1>1, <1>2, <1>3, <1>4, <1>5, <1>6, <1>7, <1>8, <1>9, <1>10, <1>11, <1>12, <1>13,
     <1>14, <1>15, <1>16, <1>17, <1>18, <1>19, <1>20, <1>21 DEF Next, Loop, Messages, ErrorExit

(* The types. *)
LEMMA MiniTypesStep ==
    ASSUME MiniTypes, InboxAt, FreshAt, ChildAt, MountsAt, EndAt, [Next]_vars
    PROVE  MiniTypes'
<1>1. CASE Boot
  BY MiniAssumption, <1>1 DEF Boot, MiniTypes, Stays, Leaves, Works, Breaks, Choose
<1>2. CASE EarlyConfig
  <2>1. /\ UNCHANGED <<script, child, open, ans, notified, mounts, disks, exitVars>> /\ inbox' \in Seq(Reqs)
        /\ (phase' = phase \/ phase' = "kill") /\ (Works \/ Breaks)
    BY <1>2, TakingAt DEF EarlyConfig, Stays, Leaves, Choose
  <2>2. config' \in [sys : BOOLEAN, gui : BOOLEAN, gpu : BOOLEAN, mods : BOOLEAN, shared : BOOLEAN]
    <3>1. config \in [sys : BOOLEAN, gui : BOOLEAN, gpu : BOOLEAN, mods : BOOLEAN, shared : BOOLEAN]
      BY DEF MiniTypes
    <3>q. QED
      BY <1>2, <3>1, ZenonT(40) DEF EarlyConfig, MountSystemDistro, MountModules, Initialize
  <2>3. faults' \in 0..MaxFaults
    BY <2>1, MiniAssumption DEF Works, Breaks, MiniTypes
  <2>q. QED
    BY <2>1, <2>2, <2>3 DEF MiniTypes
<1>3. CASE InitialConfig
  BY MiniAssumption, <1>3, TakingAt DEF InitialConfig, MiniTypes, Stays, Leaves, Works,
     Breaks, Choose
<1>4. CASE Launch
  <2> DEFINE r == Head(inbox)
  <2>1. /\ r \in Reqs /\ child[r] = NoChild /\ inbox' \in Seq(Reqs) /\ script' = script
    BY <1>4, TakingAt DEF Launch, FreshAt
  <2>2. /\ UNCHANGED <<config, notified, mounts, disks, exitVars>> /\ (Works \/ Breaks)
        /\ phase' = phase \/ phase' = "kill"
        /\ \/ UNCHANGED <<open, child>>
           \/ /\ \E o \in SUBSET {"init", "system"} : open' = [open EXCEPT ![r] = o]
              /\ \E pc \in SilentPcs : child' = [child EXCEPT ![r].pc = pc]
    BY <1>4, <2>1, TakingAt DEF Launch, Stays, Leaves, ChildStart, SilentPcs, Taking, Kind, LaunchTypes
  <2>3. open' \in [Reqs -> SUBSET {"init", "system"}]
    BY <2>1, <2>2 DEF MiniTypes
  <2>4. child' \in [Reqs -> Children]
    <3>1. ASSUME NEW pc \in SilentPcs, child' = [child EXCEPT ![r].pc = pc] PROVE child' \in [Reqs -> Children]
      <4>1. [NoChild EXCEPT !.pc = pc] \in Children
        BY DEF NoChild, Children
      <4>2. child' = [child EXCEPT ![r] = [NoChild EXCEPT !.pc = pc]]
        BY <2>1, <3>1
      <4>q. QED
        BY <4>1, <4>2 DEF MiniTypes
    <3>q. QED
      BY <2>2, <3>1 DEF MiniTypes
  <2>5. faults' \in 0..MaxFaults
    BY <2>2, MiniAssumption DEF Works, Breaks, MiniTypes
  <2>6. ans' \in [Reqs -> Seq(Answers)]
    BY <1>4, <2>1, AnswerAt DEF Launch, MiniTypes, Answers
  <2>q. QED
    BY <2>1, <2>2, <2>3, <2>4, <2>5, <2>6 DEF MiniTypes
<1>5. CASE DiskTask
  <2> DEFINE r == Head(inbox)
  <2>1. /\ r \in Reqs /\ child[r] = NoChild /\ inbox' \in Seq(Reqs) /\ script' = script
    BY <1>5, TakingAt DEF DiskTask, FreshAt
  <2>2. /\ UNCHANGED <<config, notified, mounts, disks, exitVars>> /\ (Works \/ Breaks)
        /\ phase' = phase \/ phase' = "kill"
        /\ \/ UNCHANGED <<open, child>>
           \/ /\ \E o \in SUBSET {"init", "system"} : open' = [open EXCEPT ![r] = o]
              /\ \E pc \in SilentPcs : child' = [child EXCEPT ![r].pc = pc]
    BY <1>5, <2>1, TakingAt DEF DiskTask, Stays, Leaves, TaskStart, SilentPcs, Taking, Kind, LaunchTypes
  <2>3. open' \in [Reqs -> SUBSET {"init", "system"}]
    BY <2>1, <2>2 DEF MiniTypes
  <2>4. child' \in [Reqs -> Children]
    <3>1. ASSUME NEW pc \in SilentPcs, child' = [child EXCEPT ![r].pc = pc] PROVE child' \in [Reqs -> Children]
      <4>1. [NoChild EXCEPT !.pc = pc] \in Children
        BY DEF NoChild, Children
      <4>2. child' = [child EXCEPT ![r] = [NoChild EXCEPT !.pc = pc]]
        BY <2>1, <3>1
      <4>q. QED
        BY <4>1, <4>2 DEF MiniTypes
    <3>q. QED
      BY <2>2, <3>1 DEF MiniTypes
  <2>5. faults' \in 0..MaxFaults
    BY <2>2, MiniAssumption DEF Works, Breaks, MiniTypes
  <2>6. ans' \in [Reqs -> Seq(Answers)]
    BY <1>5, <2>1, AnswerAt DEF DiskTask, MiniTypes, Answers
  <2>q. QED
    BY <2>1, <2>2, <2>3, <2>4, <2>5, <2>6 DEF MiniTypes
<1>6. CASE Eject
  <2> DEFINE r == Head(inbox)
  <2>1. /\ UNCHANGED <<script, config, child, open, notified, mounts, unkilled>> /\ inbox' \in Seq(Reqs)
        /\ (phase' = phase \/ phase' = "kill") /\ (Works \/ Breaks) /\ r \in Reqs
        /\ ans' = ans \/ \E a \in {"ok", "err"} : Answer(r, a)
        /\ \/ UNCHANGED <<disks, torn>>
           \/ Found(r) /\ EjectScsi(Lun(r))
    BY <1>6, TakingAt DEF Eject, Stays, Leaves
  <2>2. ans' \in [Reqs -> Seq(Answers)]
    BY <2>1, AnswerAt DEF MiniTypes, Answers
  <2>3. faults' \in 0..MaxFaults
    BY <2>1, MiniAssumption DEF Works, Breaks, MiniTypes
  <2>4. disks' \subseteq Luns /\ torn' \subseteq Luns
    BY <2>1 DEF Found, EjectScsi, MiniTypes
  <2>q. QED
    BY <2>1, <2>2, <2>3, <2>4 DEF MiniTypes
<1>7. CASE MountFolder
  <2>1. /\ UNCHANGED <<script, config, child, open, notified, mounts, disks, exitVars>> /\ inbox' \in Seq(Reqs)
        /\ (phase' = phase \/ phase' = "kill") /\ (Works \/ Breaks) /\ Head(inbox) \in Reqs
        /\ ans' = ans \/ \E a \in {"ok", "err"} : Answer(Head(inbox), a)
    BY <1>7, TakingAt DEF MountFolder, Stays, Leaves
  <2>2. ans' \in [Reqs -> Seq(Answers)]
    BY <2>1, AnswerAt DEF MiniTypes, Answers
  <2>3. faults' \in 0..MaxFaults
    BY <2>1, MiniAssumption DEF Works, Breaks, MiniTypes
  <2>q. QED
    BY <2>1, <2>2, <2>3 DEF MiniTypes
<1>8. CASE CreateProcess
  <2>1. /\ UNCHANGED <<script, config, child, open, notified, mounts, disks, exitVars>> /\ inbox' \in Seq(Reqs)
        /\ (phase' = phase \/ phase' = "kill") /\ (Works \/ Breaks) /\ Head(inbox) \in Reqs
        /\ ans' = ans \/ \E a \in {"ok", "err"} : ans' = [ans EXCEPT ![Head(inbox)] = <<"port", a>>]
    BY <1>8, TakingAt DEF CreateProcess, Stays, Leaves
  <2>2. ans' \in [Reqs -> Seq(Answers)]
    <3>1. \A a \in {"ok", "err"} : <<"port", a>> \in Seq(Answers)
      BY DEF Answers
    <3>q. QED
      BY <2>1, <3>1 DEF MiniTypes
  <2>3. faults' \in 0..MaxFaults
    BY <2>1, MiniAssumption DEF Works, Breaks, MiniTypes
  <2>q. QED
    BY <2>1, <2>2, <2>3 DEF MiniTypes
<1>9. CASE Unknown
  BY MiniAssumption, <1>9, TakingAt DEF Unknown, MiniTypes, Stays, Leaves, Works, Breaks,
     Choose
<1>10. CASE \E r \in Reqs : r <= Len(script) /\ InitialConfigRest(r)
  <2>1. PICK r \in Reqs : r <= Len(script) /\ InitialConfigRest(r)
    BY <1>10
  <2>2. /\ UNCHANGED <<script, inbox, child, open, ans, notified, mounts, disks, exitVars>>
        /\ phase' \in {"run", "kill"} /\ (Works \/ Breaks)
    BY <2>1 DEF InitialConfigRest, Leaves, Choose
  <2>3. Flag(r) \in BOOLEAN
    <3>1. r \in 1..Len(script)
      BY <2>1, MiniAssumption DEF Reqs, MiniTypes
    <3>2. script[r] \in MiniMessages
      BY <3>1 DEF MiniTypes
    <3>q. QED
      BY <3>2 DEF Flag, MiniMessages
  <2>4. config' \in [sys : BOOLEAN, gui : BOOLEAN, gpu : BOOLEAN, mods : BOOLEAN, shared : BOOLEAN]
    BY <2>1, <2>3 DEF InitialConfigRest, MiniTypes
  <2>5. faults' \in 0..MaxFaults
    BY <2>2, MiniAssumption DEF Works, Breaks, MiniTypes
  <2>q. QED
    BY <2>2, <2>4, <2>5 DEF MiniTypes
<1>11. CASE Closed
  BY MiniAssumption, <1>11 DEF Closed, MiniTypes, Stays, Leaves, Works, Breaks, Choose
<1>12. CASE Reap
  <2>1. ASSUME NEW r \in Reqs PROVE [child[r] EXCEPT !.pc = "gone"] \in Children
    <3>1. child[r] \in Children
      BY DEF MiniTypes
    <3>q. QED
      BY <3>1 DEF Children, EndedPcs
  <2>2. child' \in [Reqs -> Children]
    BY <1>12, <2>1 DEF Reap, MiniTypes
  <2>3. PICK lost \in SUBSET Zombies :
          /\ Choose(lost = {})
          /\ notified' = [r \in Reqs |-> IF r \in lost THEN "failed"
                                        ELSE IF r \in Zombies THEN "told" ELSE notified[r]]
    BY <1>12 DEF Reap
  <2>4. notified' \in [Reqs -> {"no", "told", "failed"}]
    BY <2>3 DEF MiniTypes
  <2>5. faults' \in 0..MaxFaults
    BY <2>3, MiniAssumption DEF Choose, Works, Breaks, MiniTypes
  <2>q. QED
    BY <1>12, <2>2, <2>4, <2>5 DEF Reap, MiniTypes
<1>13. CASE KillChildren
  <2> DEFINE killed(r) == [child[r] EXCEPT !.pc = "gone", !.mnt = 0,
                                           !.user = IF @ = "none" THEN @ ELSE "dead"]
  <2>1. ASSUME NEW r \in Reqs PROVE killed(r) \in Children
    <3>1. child[r] \in Children
      BY DEF MiniTypes
    <3>q. QED
      BY <3>1 DEF Children, EndedPcs
  <2>2. child' = [r \in Reqs |-> IF r \in Living THEN killed(r) ELSE child[r]]
    BY <1>13 DEF KillChildren
  <2> HIDE DEF killed
  <2>3. child' \in [Reqs -> Children]
    BY <2>1, <2>2 DEF MiniTypes
  <2>q. QED
    BY <1>13, <2>3 DEF KillChildren, MiniTypes
<1>14. CASE KilledAll
  BY MiniAssumption, <1>14 DEF KilledAll, MiniTypes, Stays, Leaves, Works, Breaks, Choose
<1>15. CASE PowerOff
  <2>1. faults' \in 0..MaxFaults
    BY <1>15, MiniAssumption DEF PowerOff, Works, Breaks, MiniTypes
  <2>2. UNCHANGED <<script, inbox, config, child, open, ans, notified, unkilled>> /\ phase' = "off"
    BY <1>15 DEF PowerOff
  <2>q. QED
    BY <1>15, <2>1, <2>2, DetachedDisks DEF MiniTypes
<1>16. CASE \E r \in Reqs : ChildSteps(r) \/ DistroExits(r) \/ ServiceConnects(r)
  BY <1>16, ChildStepOutcome, ChildStepMounts
  DEF ChildAt, ChildOutcome, ChildFrame, MountsOutcome, MiniTypes
<1>17. CASE \E s \in Scripts : ServiceSends(s)
  <2>1. PICK s \in Scripts : ServiceSends(s)
    BY <1>17
  <2> DEFINE n == Len(script) + 1
  <2>2. /\ script' = Append(script, s[n]) /\ inbox' = Append(inbox, n) /\ Len(script) < Len(s)
        /\ UNCHANGED <<phase, config, child, open, ans, notified, mounts, disks, exitVars, faults>>
    BY <2>1 DEF ServiceSends
  <2>3. s \in Seq(MiniMessages) /\ Len(s) <= MaxReqs /\ Len(s) \in Nat /\ Len(script) \in Nat
    BY MiniAssumption DEF MiniTypes
  <2>4. n \in Reqs /\ s[n] \in MiniMessages
    BY <2>2, <2>3, MiniAssumption DEF Reqs
  <2>5. script' \in Seq(MiniMessages) /\ Len(script') = n
    BY <2>2, <2>4 DEF MiniTypes
  <2>6. inbox' \in Seq(Reqs)
    BY <2>2, <2>4 DEF MiniTypes
  <2>7. n <= MaxReqs
    BY <2>2, <2>3, MiniAssumption
  <2>q. QED
    BY <2>2, <2>5, <2>6, <2>7 DEF MiniTypes
<1>18. CASE ServiceCloses
  BY MiniAssumption, <1>18 DEF ServiceCloses, MiniTypes, Stays, Leaves, Works, Breaks,
     Choose
<1>19. CASE UNCHANGED vars
  BY MiniAssumption, <1>19 DEF vars, MiniTypes, Stays, Leaves, Works, Breaks, Choose
<1>20. CASE LoopFails
  BY MiniAssumption, <1>20 DEF LoopFails, MiniTypes, Breaks
<1>21. CASE \E sent \in BOOLEAN : KillThrows(sent)
  <2>0. PICK sent \in BOOLEAN : KillThrows(sent)
    BY <1>21
  <2> DEFINE killed(r) == [child[r] EXCEPT !.pc = "zombie", !.mnt = 0,
                                           !.user = IF @ = "none" THEN @ ELSE "dead"]
  <2>1. ASSUME NEW r \in Reqs PROVE killed(r) \in Children
    <3>1. child[r] \in Children
      BY DEF MiniTypes
    <3>q. QED
      BY <3>1 DEF Children, EndedPcs
  <2>2. child' = [r \in Reqs |-> IF sent /\ r \in Living THEN killed(r) ELSE child[r]]
    BY <2>0 DEF KillThrows
  <2> HIDE DEF killed
  <2>3. child' \in [Reqs -> Children]
    BY <2>1, <2>2 DEF MiniTypes
  <2>4. faults' \in 0..MaxFaults
    <3>1. Breaks
      BY <2>0 DEF KillThrows
    <3>q. QED
      BY <3>1, MiniAssumption DEF Breaks, MiniTypes
  <2>5. open' \in [Reqs -> SUBSET {"init", "system"}]
    BY <2>0 DEF KillThrows, MiniTypes
  <2>q. QED
    BY <2>0, <2>3, <2>4, <2>5 DEF KillThrows, MiniTypes
<1>q. QED
  BY <1>1, <1>2, <1>3, <1>4, <1>5, <1>6, <1>7, <1>8, <1>9, <1>10, <1>11, <1>12, <1>13,
     <1>14, <1>15, <1>16, <1>17, <1>18, <1>19, <1>20, <1>21 DEF Next, Loop, Messages, ErrorExit

(* The requests that were not taken. *)
LEMMA FreshStep ==
    ASSUME MiniTypes, InboxAt, FreshAt, ChildAt, MountsAt, EndAt, [Next]_vars
    PROVE  FreshAt'
<1>1. CASE Boot
  BY <1>1 DEF Boot, FreshAt, Untaken
<1>2. CASE EarlyConfig
  BY <1>2, TakingAt DEF EarlyConfig, FreshAt
<1>3. CASE InitialConfig
  BY <1>3, TakingAt DEF InitialConfig, FreshAt
<1>4. CASE Launch
  BY <1>4, TakingAt DEF Launch, FreshAt, MiniTypes
<1>5. CASE DiskTask
  BY <1>5, TakingAt DEF DiskTask, FreshAt, MiniTypes, Answer
<1>6. CASE Eject
  BY <1>6, TakingAt DEF Eject, FreshAt, MiniTypes, Answer
<1>7. CASE MountFolder
  BY <1>7, TakingAt DEF MountFolder, FreshAt, MiniTypes, Answer
<1>8. CASE CreateProcess
  BY <1>8, TakingAt DEF CreateProcess, FreshAt, MiniTypes
<1>9. CASE Unknown
  BY <1>9, TakingAt DEF Unknown, FreshAt
<1>10. CASE \E r \in Reqs : r <= Len(script) /\ InitialConfigRest(r)
  BY <1>10 DEF InitialConfigRest, FreshAt, Untaken
<1>11. CASE Closed
  BY <1>11 DEF Closed, FreshAt, Untaken
<1>12. CASE Reap
  <2>1. \A q \in Reqs : child[q] = NoChild => child'[q] = NoChild
    BY <1>12 DEF Reap, Zombies, NoChild
  <2>q. QED
    BY <1>12, <2>1 DEF Reap, FreshAt, Untaken
<1>13. CASE KillChildren
  <2>1. \A q \in Reqs : child[q] = NoChild => child'[q] = NoChild
    <3>1. ASSUME NEW q \in Reqs, child[q] = NoChild PROVE child'[q] = child[q]
      <4>1. q \notin Living
        BY <3>1 DEF Living, NoChild
      <4>q. QED
        BY <1>13, <4>1 DEF KillChildren
    <3>q. QED
      BY <3>1
  <2>q. QED
    BY <1>13, <2>1 DEF KillChildren, FreshAt, Untaken
<1>14. CASE KilledAll
  BY <1>14 DEF KilledAll, FreshAt, Untaken
<1>15. CASE PowerOff
  BY <1>15 DEF PowerOff, FreshAt, Untaken
<1>16. CASE \E r \in Reqs : ChildSteps(r) \/ DistroExits(r) \/ ServiceConnects(r)
  <2>1. PICK r \in Reqs : ChildSteps(r) \/ DistroExits(r) \/ ServiceConnects(r)
    BY <1>16
  <2>2. ChildOutcome(r)
    BY <2>1, ChildStepOutcome DEF ChildAt
  <2>3. ~Untaken(r) /\ UNCHANGED <<script, inbox>>
    BY <2>2 DEF ChildOutcome, FreshAt, NoChild, EndedPcs, ChildFrame
  <2>q. QED
    BY <2>2, <2>3 DEF ChildOutcome, FreshAt, Untaken
<1>17. CASE \E s \in Scripts : ServiceSends(s)
  <2>1. /\ UNCHANGED <<child, ans>> /\ \A q \in Reqs : Untaken(q)' => Untaken(q)
    <3>1. PICK s \in Scripts : ServiceSends(s)
      BY <1>17
    <3>2. Len(script') = Len(script) + 1 /\ Len(script) \in Nat
      BY <3>1 DEF MiniTypes, ServiceSends
    <3>3. Len(inbox') = Len(inbox) + 1 /\ Len(inbox) \in Nat
      BY <3>1 DEF MiniTypes, ServiceSends
    <3>q. QED
      BY <3>1, <3>2, <3>3 DEF ServiceSends, Untaken, Reqs
  <2>q. QED
    BY <2>1 DEF FreshAt
<1>18. CASE ServiceCloses
  BY <1>18 DEF ServiceCloses, FreshAt, Untaken
<1>19. CASE UNCHANGED vars
  BY <1>19 DEF vars, FreshAt, Untaken
<1>20. CASE LoopFails
  BY <1>20 DEF LoopFails, FreshAt, Untaken
<1>21. CASE \E sent \in BOOLEAN : KillThrows(sent)
  <2>0. PICK sent \in BOOLEAN : KillThrows(sent)
    BY <1>21
  <2>1. \A q \in Reqs : child[q] = NoChild => child'[q] = NoChild
    <3>1. ASSUME NEW q \in Reqs, child[q] = NoChild PROVE child'[q] = child[q]
      <4>1. q \notin Living
        BY <3>1 DEF Living, NoChild
      <4>q. QED
        BY <2>0, <4>1 DEF KillThrows
    <3>q. QED
      BY <3>1
  <2>q. QED
    BY <2>0, <2>1 DEF KillThrows, FreshAt, Untaken
<1>q. QED
  BY <1>1, <1>2, <1>3, <1>4, <1>5, <1>6, <1>7, <1>8, <1>9, <1>10, <1>11, <1>12, <1>13,
     <1>14, <1>15, <1>16, <1>17, <1>18, <1>19, <1>20, <1>21 DEF Next, Loop, Messages, ErrorExit

(* The children. *)
LEMMA ChildrenStep ==
    ASSUME MiniTypes, InboxAt, FreshAt, ChildAt, MountsAt, EndAt, [Next]_vars
    PROVE  ChildAt'
<1>1. CASE Boot
  <2>1. UNCHANGED <<script, child, ans>>
    BY <1>1 DEF Boot
  <2>q. QED
    BY <2>1 DEF ChildAt, ChildOK, Kind
<1>2. CASE EarlyConfig
  <2>1. UNCHANGED <<script, child, ans>>
    BY <1>2 DEF EarlyConfig, Taking
  <2>q. QED
    BY <2>1 DEF ChildAt, ChildOK, Kind
<1>3. CASE InitialConfig
  <2>1. UNCHANGED <<script, child, ans>>
    BY <1>3 DEF InitialConfig, Taking
  <2>q. QED
    BY <2>1 DEF ChildAt, ChildOK, Kind
<1>4. CASE Launch
  <2>0. PICK r : r = Head(inbox)
    OBVIOUS
  <2>1. /\ r \in Reqs /\ child[r] = NoChild /\ ans[r] = <<>> /\ script' = script /\ Kind(r) # "eject"
    BY <1>4, <2>0, TakingAt DEF Launch, FreshAt, LaunchTypes
  <2>2. \/ UNCHANGED <<child, ans>>
        \/ ans' = ans /\ \E pc \in SilentPcs : child' = [child EXCEPT ![r].pc = pc]
    BY <1>4, <2>0, <2>1, TakingAt DEF Launch, Stays, Leaves, ChildStart, SilentPcs, Kind, LaunchTypes
  <2>4. ASSUME NEW pc \in SilentPcs, ans' = ans, child' = [child EXCEPT ![r].pc = pc] PROVE ChildAt'
    <3>1. /\ child'[r].pc = pc /\ ~child'[r].linked /\ \A q \in Reqs \ {r} : child'[q] = child[q]
      BY <2>1, <2>4 DEF MiniTypes, Children, NoChild
    <3>2. pc \notin EndedPcs /\ pc \notin ReadyPcs /\ pc # "accept"
      BY DEF SilentPcs, EndedPcs, ReadyPcs
    <3>3. ASSUME NEW q \in Reqs \ {r} PROVE ChildOK(q)'
      BY <2>1, <2>4, <3>1 DEF ChildAt, ChildOK, Kind
    <3>4. ChildOK(r)'
      BY <2>1, <2>4, <3>1, <3>2 DEF ChildOK, Kind
    <3>q. QED
      BY <3>3, <3>4 DEF ChildAt
  <2>q. QED
    BY <2>1, <2>2, <2>4 DEF ChildAt, ChildOK, Kind
<1>5. CASE DiskTask
  <2>0. PICK r : r = Head(inbox)
    OBVIOUS
  <2>1. /\ r \in Reqs /\ child[r] = NoChild /\ ans[r] = <<>> /\ script' = script /\ Kind(r) # "eject"
        /\ Kind(r) \in {"mount", "unmount", "detach", "pmem", "resize"}
    BY <1>5, <2>0, TakingAt DEF DiskTask, FreshAt, LaunchTypes
  <2>2. \/ UNCHANGED <<child, ans>>
        \/ Answer(r, "err") /\ child' = child
        \/ ans' = ans /\ \E pc \in SilentPcs : child' = [child EXCEPT ![r].pc = pc]
    BY <1>5, <2>0, <2>1, TakingAt DEF DiskTask, Stays, Leaves, TaskStart, SilentPcs, Kind, LaunchTypes
  <2>3. ASSUME NEW a \in {"ok", "err"}, Answer(r, a), child' = child PROVE ChildAt'
    <3>1. /\ ans'[r] = <<a>> /\ \A q \in Reqs \ {r} : ans'[q] = ans[q]
      BY <2>1, <2>3, AnswerAt DEF Answers
    <3>2. Len(<<a>>) = 1 /\ ~\E i \in 1..Len(<<a>>) : <<a>>[i] = "done"
      BY <2>3
    <3>3. ASSUME NEW q \in Reqs \ {r} PROVE ChildOK(q)'
      BY <2>1, <2>3, <3>1 DEF ChildAt, ChildOK, Kind
    <3>4. ChildOK(r)'
      BY <2>1, <2>3, <3>1, <3>2 DEF ChildAt, ChildOK, Kind, NoChild, SilentPcs, ReadyPcs, EndedPcs
    <3>q. QED
      BY <3>3, <3>4 DEF ChildAt
  <2>4. ASSUME NEW pc \in SilentPcs, ans' = ans, child' = [child EXCEPT ![r].pc = pc] PROVE ChildAt'
    <3>1. /\ child'[r].pc = pc /\ ~child'[r].linked /\ \A q \in Reqs \ {r} : child'[q] = child[q]
      BY <2>1, <2>4 DEF MiniTypes, Children, NoChild
    <3>2. pc \notin EndedPcs /\ pc \notin ReadyPcs /\ pc # "accept"
      BY DEF SilentPcs, EndedPcs, ReadyPcs
    <3>3. ASSUME NEW q \in Reqs \ {r} PROVE ChildOK(q)'
      BY <2>1, <2>4, <3>1 DEF ChildAt, ChildOK, Kind
    <3>4. ChildOK(r)'
      BY <2>1, <2>4, <3>1, <3>2 DEF ChildOK, Kind
    <3>q. QED
      BY <3>3, <3>4 DEF ChildAt
  <2>q. QED
    BY <2>1, <2>2, <2>3, <2>4 DEF ChildAt, ChildOK, Kind
<1>6. CASE Eject
  <2>0. PICK r : r = Head(inbox)
    OBVIOUS
  <2>1. /\ r \in Reqs /\ child[r] = NoChild /\ ans[r] = <<>> /\ script' = script /\ child' = child
    BY <1>6, <2>0, TakingAt DEF Eject, FreshAt
  <2>2. ans' = ans \/ \E a \in {"ok", "err"} : Answer(r, a)
    BY <1>6, <2>0 DEF Eject
  <2>3. ASSUME NEW a \in {"ok", "err"}, Answer(r, a), child' = child PROVE ChildAt'
    <3>1. /\ ans'[r] = <<a>> /\ \A q \in Reqs \ {r} : ans'[q] = ans[q]
      BY <2>1, <2>3, AnswerAt DEF Answers
    <3>2. Len(<<a>>) = 1 /\ ~\E i \in 1..Len(<<a>>) : <<a>>[i] = "done"
      BY <2>3
    <3>3. ASSUME NEW q \in Reqs \ {r} PROVE ChildOK(q)'
      BY <2>1, <2>3, <3>1 DEF ChildAt, ChildOK, Kind
    <3>4. ChildOK(r)'
      BY <2>1, <2>3, <3>1, <3>2 DEF ChildAt, ChildOK, Kind, NoChild, SilentPcs, ReadyPcs, EndedPcs
    <3>q. QED
      BY <3>3, <3>4 DEF ChildAt
  <2>q. QED
    BY <2>1, <2>2, <2>3 DEF ChildAt, ChildOK, Kind
<1>7. CASE MountFolder
  <2>0. PICK r : r = Head(inbox)
    OBVIOUS
  <2>1. /\ r \in Reqs /\ child[r] = NoChild /\ ans[r] = <<>> /\ script' = script /\ child' = child
    BY <1>7, <2>0, TakingAt DEF MountFolder, FreshAt
  <2>2. ans' = ans \/ \E a \in {"ok", "err"} : Answer(r, a)
    BY <1>7, <2>0 DEF MountFolder
  <2>3. ASSUME NEW a \in {"ok", "err"}, Answer(r, a), child' = child PROVE ChildAt'
    <3>1. /\ ans'[r] = <<a>> /\ \A q \in Reqs \ {r} : ans'[q] = ans[q]
      BY <2>1, <2>3, AnswerAt DEF Answers
    <3>2. Len(<<a>>) = 1 /\ ~\E i \in 1..Len(<<a>>) : <<a>>[i] = "done"
      BY <2>3
    <3>3. ASSUME NEW q \in Reqs \ {r} PROVE ChildOK(q)'
      BY <2>1, <2>3, <3>1 DEF ChildAt, ChildOK, Kind
    <3>4. ChildOK(r)'
      BY <2>1, <2>3, <3>1, <3>2 DEF ChildAt, ChildOK, Kind, NoChild, SilentPcs, ReadyPcs, EndedPcs
    <3>q. QED
      BY <3>3, <3>4 DEF ChildAt
  <2>q. QED
    BY <2>1, <2>2, <2>3 DEF ChildAt, ChildOK, Kind
<1>8. CASE CreateProcess
  <2>0. PICK r : r = Head(inbox)
    OBVIOUS
  <2>1. /\ r \in Reqs /\ child[r] = NoChild /\ script' = script /\ child' = child
    BY <1>8, <2>0, TakingAt DEF CreateProcess, FreshAt
  <2>2. ans' = ans \/ \E a \in {"ok", "err"} : ans' = [ans EXCEPT ![r] = <<"port", a>>]
    BY <1>8, <2>0 DEF CreateProcess
  <2>3. ASSUME NEW a \in {"ok", "err"}, ans' = [ans EXCEPT ![r] = <<"port", a>>] PROVE ChildAt'
    <3>1. ans'[r] = <<"port", a>> /\ \A q \in Reqs \ {r} : ans'[q] = ans[q]
      BY <2>1, <2>3 DEF MiniTypes
    <3>2. Len(<<"port", a>>) = 2 /\ ~\E i \in 1..Len(<<"port", a>>) : <<"port", a>>[i] = "done"
      BY <2>3
    <3>3. ASSUME NEW q \in Reqs \ {r} PROVE ChildOK(q)'
      BY <2>1, <2>3, <3>1 DEF ChildAt, ChildOK, Kind
    <3>4. ChildOK(r)'
      BY <2>1, <2>3, <3>1, <3>2 DEF ChildAt, ChildOK, Kind, NoChild, SilentPcs, ReadyPcs, EndedPcs
    <3>q. QED
      BY <3>3, <3>4 DEF ChildAt
  <2>q. QED
    BY <2>1, <2>2, <2>3 DEF ChildAt, ChildOK, Kind
<1>9. CASE Unknown
  <2>1. UNCHANGED <<script, child, ans>>
    BY <1>9 DEF Unknown, Taking
  <2>q. QED
    BY <2>1 DEF ChildAt, ChildOK, Kind
<1>10. CASE \E r \in Reqs : r <= Len(script) /\ InitialConfigRest(r)
  <2>1. UNCHANGED <<script, child, ans>>
    BY <1>10 DEF InitialConfigRest
  <2>q. QED
    BY <2>1 DEF ChildAt, ChildOK, Kind
<1>11. CASE Closed
  <2>1. UNCHANGED <<script, child, ans>>
    BY <1>11 DEF Closed
  <2>q. QED
    BY <2>1 DEF ChildAt, ChildOK, Kind
<1>12. CASE Reap
  <2> SUFFICES ASSUME NEW r \in Reqs PROVE ChildOK(r)'
    BY DEF ChildAt
  <2>1. /\ UNCHANGED <<script, ans>>
        /\ child'[r] = IF child[r].pc = "zombie" THEN [child[r] EXCEPT !.pc = "gone"] ELSE child[r]
    BY <1>12 DEF Reap, Zombies
  <2>2. child[r] \in Children /\ ChildOK(r)
    BY DEF MiniTypes, ChildAt
  <2>q. QED
    BY <2>1, <2>2 DEF ChildOK, Children, Kind, EndedPcs, SilentPcs, ReadyPcs
<1>13. CASE KillChildren
  <2> SUFFICES ASSUME NEW r \in Reqs PROVE ChildOK(r)'
    BY DEF ChildAt
  <2>1. /\ UNCHANGED <<script, ans>>
        /\ \/ child'[r] = child[r]
           \/ /\ child[r].pc # "none"
              /\ child'[r] = [child[r] EXCEPT !.pc = "gone", !.mnt = 0,
                                              !.user = IF @ = "none" THEN @ ELSE "dead"]
    BY <1>13 DEF KillChildren, Living
  <2>2. child[r] \in Children /\ ChildOK(r)
    BY DEF MiniTypes, ChildAt
  <2>q. QED
    BY <2>1, <2>2, ZenonT(40) DEF ChildOK, Children, Kind, EndedPcs, SilentPcs, ReadyPcs
<1>14. CASE KilledAll
  <2>1. UNCHANGED <<script, child, ans>>
    BY <1>14 DEF KilledAll
  <2>q. QED
    BY <2>1 DEF ChildAt, ChildOK, Kind
<1>15. CASE PowerOff
  <2>1. UNCHANGED <<script, child, ans>>
    BY <1>15 DEF PowerOff
  <2>q. QED
    BY <2>1 DEF ChildAt, ChildOK, Kind
<1>16. CASE \E r \in Reqs : ChildSteps(r) \/ DistroExits(r) \/ ServiceConnects(r)
  <2>1. PICK r \in Reqs : ChildSteps(r) \/ DistroExits(r) \/ ServiceConnects(r)
    BY <1>16
  <2>2. ChildOutcome(r)
    BY <2>1, ChildStepOutcome DEF ChildAt
  <2>3. ASSUME NEW q \in Reqs, q # r PROVE ChildOK(q)'
    BY <2>2, <2>3 DEF ChildOutcome, ChildAt, ChildOK, ChildFrame, Kind
  <2>q. QED
    BY <2>2, <2>3 DEF ChildOutcome, ChildAt
<1>17. CASE \E s \in Scripts : ServiceSends(s)
  <2>1. PICK s \in Scripts : ServiceSends(s)
    BY <1>17
  <2>2. UNCHANGED <<child, ans>> /\ script' = Append(script, s[Len(script) + 1])
    BY <2>1 DEF ServiceSends
  <2>3. \A i \in 1..Len(script) : script'[i] = script[i]
    BY <2>2 DEF MiniTypes
  <2>4. ASSUME NEW r \in Reqs, child[r].pc # "none" PROVE r \in 1..Len(script)
    <3>1. ~Untaken(r)
      BY <2>4 DEF FreshAt, NoChild
    <3>2. Len(script) \in Nat /\ Len(inbox) \in Nat /\ r \in Nat \ {0}
      BY MiniAssumption DEF MiniTypes, Reqs
    <3>q. QED
      BY <3>1, <3>2 DEF Untaken
  <2>q. QED
    BY <2>2, <2>3, <2>4 DEF ChildAt, ChildOK, Kind
<1>18. CASE ServiceCloses
  <2>1. UNCHANGED <<script, child, ans>>
    BY <1>18 DEF ServiceCloses
  <2>q. QED
    BY <2>1 DEF ChildAt, ChildOK, Kind
<1>19. CASE UNCHANGED vars
  <2>1. UNCHANGED <<script, child, ans>>
    BY <1>19 DEF vars
  <2>q. QED
    BY <2>1 DEF ChildAt, ChildOK, Kind
<1>20. CASE LoopFails
  <2>1. UNCHANGED <<script, child, ans>>
    BY <1>20 DEF LoopFails
  <2>q. QED
    BY <2>1 DEF ChildAt, ChildOK, Kind
<1>21. CASE \E sent \in BOOLEAN : KillThrows(sent)
  <2>0. PICK sent \in BOOLEAN : KillThrows(sent)
    BY <1>21
  <2> SUFFICES ASSUME NEW r \in Reqs PROVE ChildOK(r)'
    BY DEF ChildAt
  <2>1. /\ UNCHANGED <<script, ans>>
        /\ \/ child'[r] = child[r]
           \/ /\ child[r].pc # "none"
              /\ child'[r] = [child[r] EXCEPT !.pc = "zombie", !.mnt = 0,
                                              !.user = IF @ = "none" THEN @ ELSE "dead"]
    BY <2>0 DEF KillThrows, Living
  <2>2. child[r] \in Children /\ ChildOK(r)
    BY DEF MiniTypes, ChildAt
  <2>q. QED
    BY <2>1, <2>2, ZenonT(40) DEF ChildOK, Children, Kind, EndedPcs, SilentPcs, ReadyPcs
<1>q. QED
  BY <1>1, <1>2, <1>3, <1>4, <1>5, <1>6, <1>7, <1>8, <1>9, <1>10, <1>11, <1>12, <1>13,
     <1>14, <1>15, <1>16, <1>17, <1>18, <1>19, <1>20, <1>21 DEF Next, Loop, Messages, ErrorExit

LEMMA PoweredOff ==
    ASSUME MiniTypes, MountsAt, PowerOff
    PROVE  \A n \in Names : mounts'[n] = 0 \/ mounts'[n] \in torn'
  BY DetachedDisks DEF MountsAt

(* The mounts of mini_init's namespace. *)
LEMMA MountsStep ==
    ASSUME MiniTypes, InboxAt, FreshAt, ChildAt, MountsAt, EndAt, [Next]_vars
    PROVE  MountsAt'
<1>1. CASE Boot
  BY <1>1 DEF Boot, MountsAt
<1>2. CASE EarlyConfig
  BY <1>2 DEF EarlyConfig, MountsAt
<1>3. CASE InitialConfig
  BY <1>3 DEF InitialConfig, MountsAt
<1>4. CASE Launch
  BY <1>4 DEF Launch, MountsAt
<1>5. CASE DiskTask
  BY <1>5 DEF DiskTask, MountsAt
<1>6. CASE Eject
  BY <1>6 DEF Eject, EjectScsi, MountsAt
<1>7. CASE MountFolder
  BY <1>7 DEF MountFolder, MountsAt
<1>8. CASE CreateProcess
  BY <1>8 DEF CreateProcess, MountsAt
<1>9. CASE Unknown
  BY <1>9 DEF Unknown, MountsAt
<1>10. CASE \E r \in Reqs : r <= Len(script) /\ InitialConfigRest(r)
  BY <1>10 DEF InitialConfigRest, MountsAt
<1>11. CASE Closed
  BY <1>11 DEF Closed, MountsAt
<1>12. CASE Reap
  BY <1>12 DEF Reap, MountsAt
<1>13. CASE KillChildren
  BY <1>13 DEF KillChildren, MountsAt
<1>14. CASE KilledAll
  BY <1>14 DEF KilledAll, MountsAt
<1>15. CASE PowerOff
  BY <1>15, DetachedDisks DEF PowerOff, MountsAt
<1>16. CASE \E r \in Reqs : ChildSteps(r) \/ DistroExits(r) \/ ServiceConnects(r)
  BY <1>16, ChildStepMounts DEF MountsAt, MountsOutcome
<1>17. CASE \E s \in Scripts : ServiceSends(s)
  BY <1>17 DEF ServiceSends, MountsAt
<1>18. CASE ServiceCloses
  BY <1>18 DEF ServiceCloses, MountsAt
<1>19. CASE UNCHANGED vars
  BY <1>19 DEF vars, MountsAt
<1>20. CASE LoopFails
  BY <1>20 DEF LoopFails, MountsAt
<1>21. CASE \E sent \in BOOLEAN : KillThrows(sent)
  BY <1>21 DEF KillThrows, MountsAt
<1>q. QED
  BY <1>1, <1>2, <1>3, <1>4, <1>5, <1>6, <1>7, <1>8, <1>9, <1>10, <1>11, <1>12, <1>13,
     <1>14, <1>15, <1>16, <1>17, <1>18, <1>19, <1>20, <1>21 DEF Next, Loop, Messages, ErrorExit

(* The end. *)
LEMMA EndStep ==
    ASSUME MiniTypes, InboxAt, FreshAt, ChildAt, MountsAt, EndAt, [Next]_vars
    PROVE  EndAt'
<1>1. CASE Boot
  BY <1>1 DEF Boot, EndAt, Stays, Leaves, MiniTypes
<1>2. CASE EarlyConfig
  BY <1>2 DEF EarlyConfig, EndAt, Stays, Leaves, MiniTypes, Taking
<1>3. CASE InitialConfig
  BY <1>3 DEF InitialConfig, EndAt, Stays, Leaves, MiniTypes, Taking
<1>4. CASE Launch
  BY <1>4 DEF Launch, EndAt, Stays, Leaves, MiniTypes, Taking
<1>5. CASE DiskTask
  BY <1>5 DEF DiskTask, EndAt, Stays, Leaves, MiniTypes, Taking
<1>6. CASE Eject
  BY <1>6 DEF Eject, EndAt, Stays, Leaves, MiniTypes, Taking
<1>7. CASE MountFolder
  BY <1>7 DEF MountFolder, EndAt, Stays, Leaves, MiniTypes, Taking
<1>8. CASE CreateProcess
  BY <1>8 DEF CreateProcess, EndAt, Stays, Leaves, MiniTypes, Taking
<1>9. CASE Unknown
  BY <1>9 DEF Unknown, EndAt, Stays, Leaves, MiniTypes, Taking
<1>10. CASE \E r \in Reqs : r <= Len(script) /\ InitialConfigRest(r)
  BY <1>10 DEF InitialConfigRest, EndAt, Stays, Leaves, MiniTypes
<1>11. CASE Closed
  BY <1>11 DEF Closed, EndAt, Stays, Leaves, MiniTypes
<1>12. CASE Reap
  BY <1>12 DEF Reap, EndAt, Stays, Leaves, MiniTypes
<1>13. CASE KillChildren
  BY <1>13 DEF KillChildren, EndAt, Stays, Leaves, MiniTypes
<1>14. CASE KilledAll
  BY <1>14 DEF KilledAll, EndAt, Living
<1>15. CASE PowerOff
  <2>1. UNCHANGED <<child, daemons, unkilled>> /\ phase = "detach"
    BY <1>15 DEF PowerOff
  <2>2. \A n \in Names : mounts'[n] = 0 \/ mounts'[n] \in torn'
    BY <1>15, PoweredOff
  <2>q. QED
    BY <2>1, <2>2 DEF EndAt, Living
<1>16. CASE \E r \in Reqs : ChildSteps(r) \/ DistroExits(r) \/ ServiceConnects(r)
  <2>1. PICK r \in Reqs : ChildSteps(r) \/ DistroExits(r) \/ ServiceConnects(r)
    BY <1>16
  <2>2. ChildOutcome(r)
    BY <2>1, ChildStepOutcome DEF ChildAt
  <2>3. r \in Living /\ phase' = phase
    BY <2>2 DEF ChildOutcome, Living, EndedPcs, ChildFrame
  <2>q. QED
    BY <2>2, <2>3 DEF EndAt, ChildOutcome, ChildFrame
<1>17. CASE \E s \in Scripts : ServiceSends(s)
  BY <1>17 DEF ServiceSends, EndAt, Stays, Leaves, MiniTypes, Living
<1>18. CASE ServiceCloses
  BY <1>18 DEF ServiceCloses, EndAt, Stays, Leaves, MiniTypes, Living
<1>19. CASE UNCHANGED vars
  BY <1>19 DEF vars, EndAt, Stays, Leaves, MiniTypes, Living
<1>20. CASE LoopFails
  BY <1>20 DEF LoopFails, EndAt, MiniTypes
<1>21. CASE \E sent \in BOOLEAN : KillThrows(sent)
  BY <1>21 DEF KillThrows, EndAt, MiniTypes
<1>q. QED
  BY <1>1, <1>2, <1>3, <1>4, <1>5, <1>6, <1>7, <1>8, <1>9, <1>10, <1>11, <1>12, <1>13,
     <1>14, <1>15, <1>16, <1>17, <1>18, <1>19, <1>20, <1>21 DEF Next, Loop, Messages, ErrorExit

(* The notices. *)
LEMMA ToldStep ==
    ASSUME MiniTypes, InboxAt, FreshAt, ChildAt, MountsAt, EndAt, ExitTold, [Next]_vars
    PROVE  ExitTold'
<1>1. CASE Boot
  BY <1>1 DEF Boot, ExitTold, GoingDown
<1>2. CASE EarlyConfig
  BY <1>2 DEF EarlyConfig, Taking, Stays, Leaves, ExitTold, GoingDown
<1>3. CASE InitialConfig
  BY <1>3 DEF InitialConfig, Taking, Stays, Leaves, ExitTold, GoingDown
<1>4. CASE Launch
  <2> DEFINE r == Head(inbox)
  <2>1. /\ r \in Reqs /\ phase = "run" /\ notified' = notified /\ phase' \in {"run", "kill"}
    BY <1>4, TakingAt DEF Launch, Stays, Leaves
  <2>2. \/ child' = child \/ \E pc \in SilentPcs : child' = [child EXCEPT ![r].pc = pc]
    BY <1>4, TakingAt DEF Launch, ChildStart, SilentPcs, LaunchTypes
  <2>3. "gone" \notin SilentPcs
    BY DEF SilentPcs
  <2>4. \A q \in Reqs : child'[q].pc = "gone" => child[q].pc = "gone"
    <3>1. ASSUME NEW pc \in SilentPcs, child' = [child EXCEPT ![r].pc = pc], NEW q \in Reqs
          PROVE  child'[q].pc = "gone" => child[q].pc = "gone"
      <4>1. child[q] \in Children /\ child \in [Reqs -> Children]
        BY DEF MiniTypes
      <4>2. child'[q].pc = IF q = r THEN pc ELSE child[q].pc
        BY <3>1, <4>1 DEF Children
      <4>q. QED
        BY <2>3, <4>2
    <3>q. QED
      BY <2>2, <3>1
  <2>q. QED
    BY <2>1, <2>4 DEF ExitTold, GoingDown
<1>5. CASE DiskTask
  <2> DEFINE r == Head(inbox)
  <2>1. /\ r \in Reqs /\ phase = "run" /\ notified' = notified /\ phase' \in {"run", "kill"}
    BY <1>5, TakingAt DEF DiskTask, Stays, Leaves
  <2>2. \/ child' = child \/ \E pc \in SilentPcs : child' = [child EXCEPT ![r].pc = pc]
    <3>1. Kind(r) \in {"mount", "unmount", "detach", "pmem", "resize"}
      BY <1>5, TakingAt DEF DiskTask
    <3>2. TaskStart(Kind(r)) \in SilentPcs
      BY <3>1 DEF TaskStart, SilentPcs
    <3>3. child' = child \/ child' = [child EXCEPT ![r].pc = TaskStart(Kind(r))]
      BY <1>5 DEF DiskTask
    <3>q. QED
      BY <3>2, <3>3
  <2>3. "gone" \notin SilentPcs
    BY DEF SilentPcs
  <2>4. \A q \in Reqs : child'[q].pc = "gone" => child[q].pc = "gone"
    <3>1. ASSUME NEW pc \in SilentPcs, child' = [child EXCEPT ![r].pc = pc], NEW q \in Reqs
          PROVE  child'[q].pc = "gone" => child[q].pc = "gone"
      <4>1. child[q] \in Children /\ child \in [Reqs -> Children]
        BY DEF MiniTypes
      <4>2. child'[q].pc = IF q = r THEN pc ELSE child[q].pc
        BY <3>1, <4>1 DEF Children
      <4>q. QED
        BY <2>3, <4>2
    <3>q. QED
      BY <2>2, <3>1
  <2>q. QED
    BY <2>1, <2>4 DEF ExitTold, GoingDown
<1>6. CASE Eject
  BY <1>6 DEF Eject, Taking, Stays, Leaves, ExitTold, GoingDown
<1>7. CASE MountFolder
  BY <1>7 DEF MountFolder, Taking, Stays, Leaves, ExitTold, GoingDown
<1>8. CASE CreateProcess
  BY <1>8 DEF CreateProcess, Taking, Stays, Leaves, ExitTold, GoingDown
<1>9. CASE Unknown
  BY <1>9 DEF Unknown, Taking, Stays, Leaves, ExitTold, GoingDown
<1>10. CASE \E r \in Reqs : r <= Len(script) /\ InitialConfigRest(r)
  BY <1>10 DEF InitialConfigRest, Leaves, ExitTold, GoingDown
<1>11. CASE Closed
  BY <1>11 DEF Closed, ExitTold, GoingDown
<1>12. CASE Reap
  <2>1. PICK lost \in SUBSET Zombies :
          notified' = [r \in Reqs |-> IF r \in lost THEN "failed"
                                     ELSE IF r \in Zombies THEN "told" ELSE notified[r]]
    BY <1>12 DEF Reap
  <2>2. ASSUME NEW r \in Reqs, child'[r].pc = "gone" PROVE notified'[r] # "no" \/ GoingDown'
    <3>1. CASE child[r].pc = "zombie"
      BY <2>1, <3>1 DEF Zombies
    <3>2. CASE child[r].pc # "zombie"
      <4>1. child'[r] = child[r] /\ phase' = phase
        BY <1>12, <3>2 DEF Reap, Zombies
      <4>2. notified'[r] = notified[r]
        BY <2>1, <3>2 DEF Zombies
      <4>q. QED
        BY <2>2, <4>1, <4>2 DEF ExitTold, GoingDown
    <3>q. QED
      BY <3>1, <3>2
  <2>q. QED
    BY <2>2 DEF ExitTold
<1>13. CASE KillChildren
  BY <1>13 DEF KillChildren, ExitTold, GoingDown
<1>14. CASE KilledAll
  BY <1>14 DEF KilledAll, ExitTold, GoingDown
<1>15. CASE PowerOff
  BY <1>15 DEF PowerOff, ExitTold, GoingDown
<1>16. CASE \E r \in Reqs : ChildSteps(r) \/ DistroExits(r) \/ ServiceConnects(r)
  <2>1. PICK r \in Reqs : ChildSteps(r) \/ DistroExits(r) \/ ServiceConnects(r)
    BY <1>16
  <2>2. ChildOutcome(r)
    BY <2>1, ChildStepOutcome DEF ChildAt
  <2>q. QED
    BY <2>2 DEF ChildOutcome, ChildFrame, ExitTold, GoingDown
<1>17. CASE \E s \in Scripts : ServiceSends(s)
  BY <1>17 DEF ServiceSends, ExitTold, GoingDown
<1>18. CASE ServiceCloses
  BY <1>18 DEF ServiceCloses, ExitTold, GoingDown
<1>19. CASE UNCHANGED vars
  BY <1>19 DEF vars, ExitTold, GoingDown
<1>20. CASE LoopFails
  BY <1>20 DEF LoopFails, ExitTold, GoingDown
<1>21. CASE \E sent \in BOOLEAN : KillThrows(sent)
  BY <1>21 DEF KillThrows, ExitTold, GoingDown
<1>q. QED
  BY <1>1, <1>2, <1>3, <1>4, <1>5, <1>6, <1>7, <1>8, <1>9, <1>10, <1>11, <1>12, <1>13,
     <1>14, <1>15, <1>16, <1>17, <1>18, <1>19, <1>20, <1>21 DEF Next, Loop, Messages, ErrorExit

(* Together they are inductive. *)
LEMMA MiniInvariant == Spec => []MiniInv
<1>1. Init => MiniInv
  <2> SUFFICES ASSUME Init PROVE MiniInv
    OBVIOUS
  <2>1. <<>> \in Seq(MiniMessages) /\ <<>> \in Seq(Reqs) /\ <<>> \in Seq(Answers) /\ Len(<<>>) = 0
    OBVIOUS
  <2>2. NoChild \in Children
    BY DEF NoChild, Children, EndedPcs
  <2>3. config \in [sys : BOOLEAN, gui : BOOLEAN, gpu : BOOLEAN, mods : BOOLEAN, shared : BOOLEAN]
    BY DEF Init
  <2>4. MiniTypes
    <3>1. /\ notified \in [Reqs -> {"no", "told", "failed"}] /\ child \in [Reqs -> Children]
          /\ mounts \in [Names -> Luns \cup {0}]
      BY <2>2 DEF Init
    <3>q. QED
      <4>1. /\ open \in [Reqs -> SUBSET {"init", "system"}] /\ ans \in [Reqs -> Seq(Answers)]
            /\ script \in Seq(MiniMessages) /\ inbox \in Seq(Reqs) /\ Len(script) <= MaxReqs
        BY <2>1, MiniAssumption DEF Init
      <4>2. phase \in {"boot", "run", "dhcp", "kill", "detach", "off", "panic"} /\ unkilled \in BOOLEAN
        BY DEF Init
      <4>3. disks \subseteq Luns /\ torn \subseteq Luns /\ faults \in 0..MaxFaults
        BY MiniAssumption DEF Init
      <4>q. QED
        BY <2>3, <3>1, <4>1, <4>2, <4>3 DEF MiniTypes
  <2>5. InboxAt /\ FreshAt
    BY <2>1 DEF Init, InboxAt, FreshAt
  <2>6. ChildAt
    BY <2>1 DEF Init, ChildAt, ChildOK, NoChild, SilentPcs, ReadyPcs, EndedPcs
  <2>q. QED
    BY <2>4, <2>5, <2>6 DEF Init, MiniInv, MountsAt, EndAt, ExitTold, NoChild
<1>2. MiniInv /\ [Next]_vars => MiniInv'
  BY MiniTypesStep, InboxStep, FreshStep, ChildrenStep, MountsStep, EndStep, ToldStep
  DEF MiniInv
<1>q. QED
  BY <1>1, <1>2, PTL DEF Spec

(* Whatever the service sends and whatever fails: reboot(RB_POWER_OFF) is  *)
(* reached only with every process gone, unless the killing itself was     *)
(* given up, and every disk unmounted whose own unmounting did not fail;   *)
(* no child is reaped without a notice; and an import or export is         *)
(* reported done only if it was prepared.                                  *)
THEOREM MiniInitSafe == Spec => []MiniSafe
<1>1. MiniInv => MiniSafe
  <2> SUFFICES ASSUME MiniInv PROVE MiniSafe
    OBVIOUS
  <2>1. TypeOK
    BY DEF MiniInv, MiniTypes, ChildAt, ChildOK, TypeOK, Children
  <2>2. CleanPowerOff
    BY DEF MiniInv, EndAt, ChildAt, ChildOK, CleanPowerOff, Living, Running, EndedPcs
  <2>3. DoneWasPrepared
    BY DEF MiniInv, ChildAt, ChildOK, DoneWasPrepared
  <2>q. QED
    BY <2>1, <2>2, <2>3 DEF MiniSafe, MiniInv
<1>q. QED
  BY <1>1, MiniInvariant, PTL

-----------------------------------------------------------------------------
(***************************************************************************)
(* The interpreter of Windows programs: NtSafe.                            *)
(*                                                                         *)
(* The loop ends when nothing is polled any more, so the invariant says    *)
(* why each descriptor was dropped (DroppedAt): a stream was read to its   *)
(* end or lost, the channel gave the status or ended, and the signals are  *)
(* dropped only with standard input.  That the channel's end is not seen   *)
(* before the status takes what the channel may hold (ControlAt) and that  *)
(* a turn serves it only for a reason (ServedAt).                          *)
(***************************************************************************)

Pcs == {"console", "connect", "accept", "poll", "write", "close", "ended", "interrupted", "killed"} \cup Descriptors

NtTypes ==
    /\ ntMode \in {"vm", "wsl"} /\ ntOpen \in SUBSET Descriptors /\ ntReady \in SUBSET Descriptors
    /\ ntPc \in Pcs /\ ntSig \in SUBSET {"int", "winch"}
    /\ ntCode \in {"1", "status", "garbage", "thrown"}
    /\ ntHost \in {"none", "asked", "running", "refused", "exited"}

UserNums == ntKeys \in Nat /\ ntActs \in Nat /\ ntKeys <= ntActs /\ ntActs <= MaxActs /\ ntPipe \in 0..StdinRoom

(* What the program wrote is still to be read, written to the user, or     *)
(* lost with an error.                                                     *)
StreamAt ==
    /\ ntSent \in [Streams -> 0..MaxChunks] /\ ntOut \in [Streams -> Nat] /\ ntDone \in [Streams -> Nat]
    /\ \A s \in Streams : /\ ntOut[s] + ntDone[s] <= ntSent[s]
                          /\ s \notin ntLost => ntOut[s] + ntDone[s] = ntSent[s]

(* What the control channel holds, by what the host has done. *)
ControlAt ==
    /\ ntHost \in {"none", "asked"} => ntCtl = <<>>
    /\ ntHost = "running" => ntCtl \in {<<>>, <<"ok">>, <<"gui">>}
    /\ ntHost = "refused" => ntCtl \in {<<>>, <<"failed">>, <<"bad">>, <<"ok", "bad">>, <<"gui", "bad">>}
    /\ ntHost = "exited" => \/ ntCtl \in {<<"ok", "exit">>, <<"gui", "exit">>, <<"exit">>}
                            \/ ntCtl = <<>> /\ ntCode = "status"
    /\ ntCode = "status" => ntHost = "exited"

(* The loop serves the channel only if there is a message or its end. *)
ServedAt == (ntPc = "control" \/ "control" \in ntReady) => ntCtl # <<>> \/ ntCtlEnd

(* Why a descriptor is polled no more. *)
DroppedAt ==
    ntMode = "vm" /\ ntHost # "none" =>
        /\ \A s \in Streams \ ntOpen : s \in ntLost \/ (ntOut[s] = 0 /\ s \in ntEnd)
        /\ "control" \notin ntOpen => ntCode = "status" \/ (ntCtl = <<>> /\ ntCtlEnd)
        /\ "signal" \notin ntOpen => ntShut

(* Before the loop nothing is polled; the loop ends when nothing is.       *)
BoundsAt ==
    /\ ntPc \in {"console", "connect", "accept"} => ntHost = "none" /\ ntOpen = {} /\ ntCode = "1"
    /\ Returned => ntOpen = {}
    /\ ntMode = "wsl" /\ ntCode = "status" => ntPc = "ended"

RawAt ==
    /\ ntRaw \in BOOLEAN /\ ntFd \in {"none", "open", "closed", "failed"}
    /\ ntRaw => ntFd \in {"open", "failed"}
    /\ ConsoleRestored

NtInv ==
    NtTypes /\ UserNums /\ StreamAt /\ ControlAt /\ ServedAt /\ DroppedAt /\ BoundsAt /\ RawAt

LEMMA DescriptorNames == Descriptors = {"in", "out", "err", "control", "signal"}
<1>1. /\ Len(Order) = 5 /\ Order[1] = "in" /\ Order[2] = "out" /\ Order[3] = "err"
      /\ Order[4] = "control" /\ Order[5] = "signal"
  BY DEF Order
<1>2. 1..5 = {1, 2, 3, 4, 5}
  OBVIOUS
<1> QED BY <1>1, <1>2 DEF Descriptors

(* The turn goes on with a descriptor that is ready, or ends. *)
LEMMA FirstIn ==
    ASSUME NEW ready \in SUBSET Descriptors
    PROVE  First(ready) \in ready \cup {"close"}
<1>1. CASE ready = {}
  BY <1>1 DEF First
<1>2. CASE ready # {}
  <2> DEFINE P(d) == \E i \in 1..Len(Order) : Order[i] = d /\ \A j \in 1..(i - 1) : Order[j] \notin ready
  <2>1. /\ Len(Order) = 5 /\ Order[1] = "in" /\ Order[2] = "out" /\ Order[3] = "err"
        /\ Order[4] = "control" /\ Order[5] = "signal"
    BY DEF Order
  <2>2. ASSUME NEW i \in 1..5, Order[i] \in ready, \A j \in 1..(i - 1) : Order[j] \notin ready
        PROVE  \E d \in ready : P(d)
    BY <2>1, <2>2
  <2>3. \E i \in 1..5 : Order[i] \in ready /\ \A j \in 1..(i - 1) : Order[j] \notin ready
    <3>1. "in" \in ready \/ "out" \in ready \/ "err" \in ready \/ "control" \in ready \/ "signal" \in ready
      BY <1>2, DescriptorNames
    <3>2. CASE "in" \in ready
      <4>1. 1 \in 1..5 /\ \A j \in 1..(1 - 1) : Order[j] \notin ready
        OBVIOUS
      <4> QED BY <2>1, <3>2, <4>1
    <3>3. CASE "in" \notin ready /\ "out" \in ready
      <4>1. 2 \in 1..5 /\ \A j \in 1..(2 - 1) : j = 1
        OBVIOUS
      <4> QED BY <2>1, <3>3, <4>1
    <3>4. CASE "in" \notin ready /\ "out" \notin ready /\ "err" \in ready
      <4>1. 3 \in 1..5 /\ \A j \in 1..(3 - 1) : j = 1 \/ j = 2
        OBVIOUS
      <4> QED BY <2>1, <3>4, <4>1
    <3>5. CASE "in" \notin ready /\ "out" \notin ready /\ "err" \notin ready /\ "control" \in ready
      <4>1. 4 \in 1..5 /\ \A j \in 1..(4 - 1) : j = 1 \/ j = 2 \/ j = 3
        OBVIOUS
      <4> QED BY <2>1, <3>5, <4>1
    <3>6. CASE "in" \notin ready /\ "out" \notin ready /\ "err" \notin ready /\ "control" \notin ready
      <4>1. 5 \in 1..5 /\ \A j \in 1..(5 - 1) : j = 1 \/ j = 2 \/ j = 3 \/ j = 4
        OBVIOUS
      <4> QED BY <2>1, <3>1, <3>6, <4>1
    <3> QED BY <3>1, <3>2, <3>3, <3>4, <3>5, <3>6
  <2>4. \E d \in ready : P(d)
    BY <2>2, <2>3
  <2>5. First(ready) = CHOOSE d \in ready : P(d)
    BY <1>2 DEF First
  <2> HIDE DEF P
  <2> QED BY <2>4, <2>5
<1> QED BY <1>1, <1>2

LEMMA PolledIn == Polled \in SUBSET Descriptors
  BY NtAssumption, DescriptorNames DEF Polled

LEMMA AppendsOne ==
    ASSUME NEW S, NEW n \in S, NEW s \in Seq(S), Len(s) = 1
    PROVE  /\ Append(s, n) \in Seq(S) /\ Len(Append(s, n)) = 2
           /\ Append(s, n)[1] = s[1] /\ Append(s, n)[2] = n
<1>1. Append(s, n) \in Seq(S) /\ Len(Append(s, n)) = Len(s) + 1
  BY AppendProperties, Zenon
<1>2. (\A i \in 1..Len(s) : Append(s, n)[i] = s[i]) /\ Append(s, n)[Len(s) + 1] = n
  BY AppendProperties, ZenonT(30)
<1>3. Len(s) + 1 = 2 /\ 1 \in 1..Len(s)
  OBVIOUS
<1> QED BY <1>1, <1>2, <1>3

LEMMA PairOf ==
    ASSUME NEW m, NEW n
    PROVE  Append(<<m>>, n) = <<m, n>>
<1> DEFINE S == {m, n}
<1>1. m \in S /\ n \in S
  OBVIOUS
<1> HIDE DEF S
<1>2. PICK s : s = <<m>>
  OBVIOUS
<1>3. PICK t : t = <<m, n>>
  OBVIOUS
<1>4. s \in Seq(S) /\ Len(s) = 1 /\ s[1] = m
  BY <1>1, <1>2
<1>5. t \in Seq(S) /\ Len(t) = 2 /\ t[1] = m /\ t[2] = n
  BY <1>1, <1>3
<1>6. /\ Append(s, n) \in Seq(S) /\ Len(Append(s, n)) = 2
      /\ Append(s, n)[1] = s[1] /\ Append(s, n)[2] = n
  BY <1>1, <1>4, AppendsOne
<1>7. \A i \in 1..2 : i = 1 \/ i = 2
  OBVIOUS
<1>8. \A i \in 1..2 : Append(s, n)[i] = t[i]
  BY <1>4, <1>5, <1>6, <1>7
<1>9. Append(s, n) = t
  BY <1>5, <1>6, <1>8, SeqEqual
<1> QED BY <1>2, <1>3, <1>9

LEMMA MessageSeqs ==
    /\ \A m : Append(<<>>, m) = <<m>> /\ Head(<<m>>) = m /\ Tail(<<m>>) = <<>> /\ <<m>> # <<>>
    /\ \A m, n : /\ Append(<<m>>, n) = <<m, n>> /\ Head(<<m, n>>) = m /\ Tail(<<m, n>>) = <<n>>
                 /\ <<m, n>> # <<>>
<1>1. ASSUME NEW m
      PROVE  Append(<<>>, m) = <<m>> /\ Head(<<m>>) = m /\ Tail(<<m>>) = <<>> /\ <<m>> # <<>>
  OBVIOUS
<1>2. ASSUME NEW m, NEW n
      PROVE  Head(<<m, n>>) = m /\ <<m, n>> # <<>>
  OBVIOUS
<1>3. ASSUME NEW m, NEW n
      PROVE  Tail(<<m, n>>) = <<n>>
  OBVIOUS
<1> QED BY <1>1, <1>2, <1>3, PairOf

(* What a message of each kind says of the host. *)
LEMMA Taken ==
    ASSUME NtTypes, ControlAt
    PROVE  /\ Takes({"ok", "gui"}) => \/ ntHost = "running" /\ ntCtl' = <<>>
                                      \/ ntHost = "exited" /\ ntCtl' = <<"exit">>
                                      \/ ntHost = "refused" /\ ntCtl' = <<"bad">>
           /\ Takes({"failed", "bad"}) => ntHost = "refused" /\ ntCtl' = <<>>
           /\ Takes({"exit"}) => ntHost = "exited" /\ ntCtl' = <<>>
<1>1. ASSUME NEW types, Takes(types)
      PROVE  /\ Head(ntCtl) \in types /\ ntCtl' = Tail(ntCtl)
             /\ \/ ntHost = "running" /\ ntCtl \in {<<"ok">>, <<"gui">>}
                \/ ntHost = "refused" /\ ntCtl \in {<<"failed">>, <<"bad">>, <<"ok", "bad">>, <<"gui", "bad">>}
                \/ ntHost = "exited" /\ ntCtl \in {<<"ok", "exit">>, <<"gui", "exit">>, <<"exit">>}
  BY <1>1 DEF Takes, NtTypes, ControlAt
<1>2. /\ ntCtl \in {<<"ok">>, <<"gui">>} => Head(ntCtl) \in {"ok", "gui"} /\ Tail(ntCtl) = <<>>
      /\ ntCtl \in {<<"failed">>, <<"bad">>} => Head(ntCtl) \in {"failed", "bad"} /\ Tail(ntCtl) = <<>>
      /\ ntCtl = <<"exit">> => Head(ntCtl) = "exit" /\ Tail(ntCtl) = <<>>
  BY MessageSeqs, Zenon
<1>3. ntCtl \in {<<"ok", "exit">>, <<"gui", "exit">>} => Head(ntCtl) \in {"ok", "gui"} /\ Tail(ntCtl) = <<"exit">>
  BY MessageSeqs, ZenonT(40)
<1>3a. ntCtl \in {<<"ok", "bad">>, <<"gui", "bad">>} => Head(ntCtl) \in {"ok", "gui"} /\ Tail(ntCtl) = <<"bad">>
  BY MessageSeqs, ZenonT(40)
<1>4. ASSUME NEW types, Takes(types)
      PROVE  /\ Head(ntCtl) \in types
             /\ \/ ntHost = "running" /\ Head(ntCtl) \in {"ok", "gui"} /\ ntCtl' = <<>>
                \/ ntHost = "refused" /\ Head(ntCtl) \in {"failed", "bad"} /\ ntCtl' = <<>>
                \/ ntHost = "refused" /\ Head(ntCtl) \in {"ok", "gui"} /\ ntCtl' = <<"bad">>
                \/ ntHost = "exited" /\ Head(ntCtl) \in {"ok", "gui"} /\ ntCtl' = <<"exit">>
                \/ ntHost = "exited" /\ Head(ntCtl) = "exit" /\ ntCtl' = <<>>
  BY <1>1, <1>2, <1>3, <1>3a, <1>4, ZenonT(40)
<1>5. PICK h, e, x, b : h = Head(ntCtl) /\ e = <<>> /\ x = <<"exit">> /\ b = <<"bad">>
  OBVIOUS
<1>6. Takes({"ok", "gui"}) => \/ ntHost = "running" /\ ntCtl' = <<>>
                              \/ ntHost = "exited" /\ ntCtl' = <<"exit">>
                              \/ ntHost = "refused" /\ ntCtl' = <<"bad">>
  <2>1. HAVE Takes({"ok", "gui"})
  <2>2. h \in {"ok", "gui"} /\ \/ ntHost = "running" /\ h \in {"ok", "gui"} /\ ntCtl' = e
                               \/ ntHost = "refused" /\ h \in {"failed", "bad"} /\ ntCtl' = e
                               \/ ntHost = "refused" /\ h \in {"ok", "gui"} /\ ntCtl' = b
                               \/ ntHost = "exited" /\ h \in {"ok", "gui"} /\ ntCtl' = x
                               \/ ntHost = "exited" /\ h = "exit" /\ ntCtl' = e
    BY <1>4, <1>5, <2>1, Zenon
  <2> QED BY <1>5, <2>2
<1>7. Takes({"failed", "bad"}) => ntHost = "refused" /\ ntCtl' = <<>>
  <2>1. HAVE Takes({"failed", "bad"})
  <2>2. h \in {"failed", "bad"} /\ \/ ntHost = "running" /\ h \in {"ok", "gui"} /\ ntCtl' = e
                                   \/ ntHost = "refused" /\ h \in {"failed", "bad"} /\ ntCtl' = e
                                   \/ ntHost = "refused" /\ h \in {"ok", "gui"} /\ ntCtl' = b
                                   \/ ntHost = "exited" /\ h \in {"ok", "gui"} /\ ntCtl' = x
                                   \/ ntHost = "exited" /\ h = "exit" /\ ntCtl' = e
    BY <1>4, <1>5, <2>1, Zenon
  <2> QED BY <1>5, <2>2
<1>8. Takes({"exit"}) => ntHost = "exited" /\ ntCtl' = <<>>
  <2>1. HAVE Takes({"exit"})
  <2>2. h \in {"exit"} /\ \/ ntHost = "running" /\ h \in {"ok", "gui"} /\ ntCtl' = e
                          \/ ntHost = "refused" /\ h \in {"failed", "bad"} /\ ntCtl' = e
                          \/ ntHost = "refused" /\ h \in {"ok", "gui"} /\ ntCtl' = b
                          \/ ntHost = "exited" /\ h \in {"ok", "gui"} /\ ntCtl' = x
                          \/ ntHost = "exited" /\ h = "exit" /\ ntCtl' = e
    BY <1>4, <1>5, <2>1, Zenon
  <2> QED BY <1>5, <2>2
<1> QED BY <1>6, <1>7, <1>8, Zenon

(* The next descriptor of a turn. *)
LEMMA Served ==
    ASSUME NtTypes, NEW d, ServesNext(d)
    PROVE  /\ ntReady' = ntReady \ {d} /\ ntReady' \in SUBSET Descriptors
           /\ ntPc' \in ntReady' \cup {"close"}
           /\ ntPc' \in {"in", "out", "err", "control", "signal", "close"}
<1>1. ntReady' = ntReady \ {d} /\ ntReady' \in SUBSET Descriptors /\ ntPc' = First(ntReady')
  BY DEF ServesNext, NtTypes
<1>2. ntPc' \in ntReady' \cup {"close"}
  BY <1>1, FirstIn
<1> QED BY <1>1, <1>2, DescriptorNames

LEMMA Polling ==
    ASSUME NtTypes, ntReady' = {d \in ntOpen : Pending(d)}, ntPc' = First(ntReady')
    PROVE  /\ ntReady' \in SUBSET Descriptors /\ ntPc' \in ntReady' \cup {"close"}
           /\ ntPc' \in {"in", "out", "err", "control", "signal", "close"}
           /\ "control" \in ntReady' => ntCtl # <<>> \/ ntCtlEnd
<1>1. ntReady' \in SUBSET Descriptors
  BY DEF NtTypes
<1>2. ntPc' \in ntReady' \cup {"close"}
  BY <1>1, FirstIn
<1>3. "control" \in ntReady' => Pending("control")
  OBVIOUS
<1>4. Pending("control") => ntCtl # <<>> \/ ntCtlEnd
  BY NtAssumption DEF Pending
<1> QED BY <1>1, <1>2, <1>3, <1>4, DescriptorNames

LEMMA NumsStep ==
    ASSUME NtInv, [NtNext]_ntVars
    PROVE  UserNums'
<1>0. UserNums
  BY DEF NtInv
<1>1. ASSUME UNCHANGED <<ntKeys, ntActs, ntPipe>>
      PROVE  UserNums'
  BY <1>0, <1>1 DEF UserNums
<1>2. CASE CreateNtProcessMessage \/ ConnectToInterop \/ WslConnect \/ AcceptStreams \/
      PollSockets \/ PollFails \/ ProcessStarted \/ ProcessRefused \/ ExitStatus \/
      ControlEof \/ SignalFd \/ ControlClosed \/ WslExitStatus \/ WslEof \/ HostExits
  BY <1>1, <1>2 DEF CreateNtProcessMessage, ReturnsCode, MovesTo, RestoreConsoleState,
     ConfigureConsole, ConnectToInterop, WslConnect, AcceptStreams, PollSockets, PollFails,
     Interrupted, ProcessStarted, Takes, CtlFrame, ServesNext, ProcessRefused, ExitStatus,
     ControlEof, SignalFd, WindowSizeChanged, BrokenPipe, ControlClosed, WslExitStatus,
     WslEof, HostExits, Says, HostFrame, ctlVars, stdinVars, streamVars, termVars, userVars
<1>3. ASSUME NEW s \in Streams, RelayStream(s)
      PROVE  UserNums'
  BY <1>1, <1>3 DEF RelayStream, ServesNext, BrokenPipe, MovesTo, ctlVars, stdinVars,
     streamVars, termVars, userVars
<1>4. ASSUME NEW m \in {"ok", "gui", "failed", "bad"}, HostResponds(m)
      PROVE  UserNums'
  BY <1>1, <1>4 DEF HostResponds, Says, HostFrame, ctlVars, stdinVars, streamVars, termVars,
     userVars
<1>5. ASSUME NEW s \in Streams, HostWrites(s)
      PROVE  UserNums'
  BY <1>1, <1>5 DEF HostWrites, HostFrame, ctlVars, stdinVars, streamVars, termVars,
     userVars
<1>6. ASSUME NEW d \in {"in", "control"} \cup Streams, HostCloses(d)
      PROVE  UserNums'
  BY <1>1, <1>6 DEF HostCloses, HostFrame, ctlVars, stdinVars, streamVars, termVars,
     userVars
<1>7. CASE ReadInput
  BY <1>0, <1>7, NtAssumption DEF ReadInput, ServesNext, ctlVars, stdinVars, streamVars,
     termVars, userVars, UserNums
<1>8. CASE WriteInput
  BY <1>0, <1>8, NtAssumption DEF WriteInput, ServesNext, BrokenPipe, MovesTo, ctlVars,
     stdinVars, streamVars, termVars, userVars, UserNums
<1>9. CASE UserTypes
  BY <1>0, <1>9, NtAssumption DEF UserTypes, UserFrame, ctlVars, stdinVars, streamVars,
     termVars, userVars, UserNums
<1>10. CASE UserEof
  BY <1>0, <1>10, NtAssumption DEF UserEof, UserFrame, ctlVars, stdinVars, streamVars,
     termVars, userVars, UserNums
<1>11. ASSUME NEW n \in {"int", "winch"}, UserSignals(n)
      PROVE  UserNums'
  BY <1>0, <1>11, NtAssumption DEF UserSignals, UserFrame, ctlVars, stdinVars, streamVars,
     termVars, userVars, UserNums
<1>12. CASE HostReads
  BY <1>0, <1>12, NtAssumption DEF HostReads, HostFrame, ctlVars, stdinVars, streamVars,
     termVars, userVars, UserNums
<1>13. CASE UNCHANGED ntVars
  BY <1>1, <1>13 DEF ntVars, ctlVars, stdinVars, streamVars, termVars, userVars
<1> QED
  BY <1>1, <1>2, <1>3, <1>4, <1>5, <1>6, <1>7, <1>8, <1>9, <1>10, <1>11, <1>12, <1>13 DEF
     NtNext, Interpreter

LEMMA StreamStep ==
    ASSUME NtInv, [NtNext]_ntVars
    PROVE  StreamAt'
<1>0. StreamAt
  BY DEF NtInv
<1>1. ASSUME UNCHANGED <<ntSent, ntOut, ntDone, ntLost>>
      PROVE  StreamAt'
  BY <1>0, <1>1 DEF StreamAt
<1>2. CASE CreateNtProcessMessage \/ ConnectToInterop \/ WslConnect \/ AcceptStreams \/
      PollSockets \/ PollFails \/ ReadInput \/ WriteInput \/ ProcessStarted \/
      ProcessRefused \/ ExitStatus \/ ControlEof \/ SignalFd \/ ControlClosed \/
      WslExitStatus \/ WslEof \/ UserTypes \/ UserEof \/ HostExits \/ HostReads
  BY <1>1, <1>2 DEF CreateNtProcessMessage, ReturnsCode, MovesTo, RestoreConsoleState,
     ConfigureConsole, ConnectToInterop, WslConnect, AcceptStreams, PollSockets, PollFails,
     Interrupted, ReadInput, ServesNext, WriteInput, BrokenPipe, ProcessStarted, Takes,
     CtlFrame, ProcessRefused, ExitStatus, ControlEof, SignalFd, WindowSizeChanged,
     ControlClosed, WslExitStatus, WslEof, UserTypes, UserFrame, UserEof, HostExits, Says,
     HostFrame, HostReads, ctlVars, stdinVars, streamVars, termVars, userVars
<1>3. ASSUME NEW n \in {"int", "winch"}, UserSignals(n)
      PROVE  StreamAt'
  BY <1>1, <1>3 DEF UserSignals, UserFrame, ctlVars, stdinVars, streamVars, termVars,
     userVars
<1>4. ASSUME NEW m \in {"ok", "gui", "failed", "bad"}, HostResponds(m)
      PROVE  StreamAt'
  BY <1>1, <1>4 DEF HostResponds, Says, HostFrame, ctlVars, stdinVars, streamVars, termVars,
     userVars
<1>5. ASSUME NEW d \in {"in", "control"} \cup Streams, HostCloses(d)
      PROVE  StreamAt'
  BY <1>1, <1>5 DEF HostCloses, HostFrame, ctlVars, stdinVars, streamVars, termVars,
     userVars
<1>6. ASSUME NEW s \in Streams, RelayStream(s)
      PROVE  StreamAt'
  <2>1. PICK out, done : out = ntOut[s] /\ done = ntDone[s]
    OBVIOUS
  <2>2. /\ ntSent' = ntSent
        /\ \/ out > 0 /\ ntOut' = [ntOut EXCEPT ![s] = out - 1] /\ ntDone' = [ntDone EXCEPT ![s] = done + 1]
              /\ ntLost' = ntLost
           \/ out > 0 /\ ntOut' = [ntOut EXCEPT ![s] = out - 1] /\ ntDone' = ntDone /\ ntLost' = ntLost \cup {s}
           \/ ntOut' = ntOut /\ ntDone' = ntDone /\ ntLost \subseteq ntLost'
    BY <1>6, <2>1 DEF RelayStream
  <2>3. out \in Nat /\ done \in Nat /\ ntSent[s] \in Nat
    BY <1>0, <2>1 DEF StreamAt
  <2> QED BY <1>0, <2>1, <2>2, <2>3 DEF StreamAt
<1>7. ASSUME NEW s \in Streams, HostWrites(s)
      PROVE  StreamAt'
  <2>1. PICK out, all : out = ntOut[s] /\ all = ntSent[s]
    OBVIOUS
  <2>2. /\ all < MaxChunks /\ ntSent' = [ntSent EXCEPT ![s] = all + 1] /\ ntOut' = [ntOut EXCEPT ![s] = out + 1]
        /\ UNCHANGED <<ntDone, ntLost>>
    BY <1>7, <2>1 DEF HostWrites
  <2>3. out \in Nat /\ all \in Nat /\ ntDone[s] \in Nat /\ all + 1 \in 0..MaxChunks
    BY <1>0, <2>1, <2>2, NtAssumption DEF StreamAt
  <2> QED BY <1>0, <2>1, <2>2, <2>3 DEF StreamAt
<1>8. CASE UNCHANGED ntVars
  BY <1>1, <1>8 DEF ntVars, ctlVars, stdinVars, streamVars, termVars, userVars
<1> QED
  BY <1>1, <1>2, <1>3, <1>4, <1>5, <1>6, <1>7, <1>8 DEF NtNext, Interpreter

LEMMA TypesStep ==
    ASSUME NtInv, [NtNext]_ntVars
    PROVE  NtTypes'
<1>0. NtTypes
  BY DEF NtInv
<1>1. ASSUME UNCHANGED <<ntMode, ntOpen, ntReady, ntPc, ntSig, ntCode, ntHost>>
      PROVE  NtTypes'
  BY <1>0, <1>1 DEF NtTypes
<1>2. CASE HostReads \/ UserTypes \/ UserEof
  BY <1>1, <1>2 DEF HostReads, HostFrame, UserTypes, UserFrame, UserEof, ctlVars, stdinVars,
     streamVars, termVars, userVars
<1>3. ASSUME NEW s \in Streams, HostWrites(s)
      PROVE  NtTypes'
  BY <1>1, <1>3 DEF HostWrites, HostFrame, ctlVars, stdinVars, streamVars, termVars,
     userVars
<1>4. ASSUME NEW d \in {"in", "control"} \cup Streams, HostCloses(d)
      PROVE  NtTypes'
  BY <1>1, <1>4 DEF HostCloses, HostFrame, ctlVars, stdinVars, streamVars, termVars,
     userVars
<1>5. CASE CreateNtProcessMessage
  BY <1>0, <1>5, Served, Polling, PolledIn, DescriptorNames DEF CreateNtProcessMessage,
     ReturnsCode, MovesTo, RestoreConsoleState, ConfigureConsole, ctlVars, stdinVars,
     streamVars, termVars, userVars, NtTypes, Pcs
<1>6. CASE ConnectToInterop
  BY <1>0, <1>6, Served, Polling, PolledIn, DescriptorNames DEF ConnectToInterop,
     ReturnsCode, MovesTo, RestoreConsoleState, ctlVars, stdinVars, streamVars, termVars,
     userVars, NtTypes, Pcs
<1>7. CASE WslConnect
  BY <1>0, <1>7, Served, Polling, PolledIn, DescriptorNames DEF WslConnect, ReturnsCode,
     MovesTo, RestoreConsoleState, ctlVars, stdinVars, streamVars, termVars, userVars,
     NtTypes, Pcs
<1>8. CASE AcceptStreams
  BY <1>0, <1>8, Served, Polling, PolledIn, DescriptorNames DEF AcceptStreams, ReturnsCode,
     MovesTo, RestoreConsoleState, ctlVars, stdinVars, streamVars, termVars, userVars,
     NtTypes, Pcs
<1>9. CASE PollSockets
  BY <1>0, <1>9, Served, Polling, PolledIn, DescriptorNames DEF PollSockets, ReturnsCode,
     MovesTo, RestoreConsoleState, ctlVars, stdinVars, streamVars, termVars, userVars,
     NtTypes, Pcs
<1>10. CASE PollFails
  BY <1>0, <1>10, Served, Polling, PolledIn, DescriptorNames DEF PollFails, Interrupted,
     MovesTo, RestoreConsoleState, ctlVars, stdinVars, streamVars, termVars, userVars,
     NtTypes, Pcs
<1>11. CASE ReadInput
  BY <1>0, <1>11, Served, Polling, PolledIn, DescriptorNames DEF ReadInput, ctlVars,
     stdinVars, streamVars, termVars, userVars, NtTypes, Pcs
<1>12. CASE WriteInput
  BY <1>0, <1>12, Served, Polling, PolledIn, DescriptorNames DEF WriteInput, BrokenPipe,
     MovesTo, ctlVars, stdinVars, streamVars, termVars, userVars, NtTypes, Pcs
<1>13. ASSUME NEW s \in Streams, RelayStream(s)
      PROVE  NtTypes'
  BY <1>0, <1>13, Served, Polling, PolledIn, DescriptorNames DEF RelayStream, BrokenPipe,
     MovesTo, ctlVars, stdinVars, streamVars, termVars, userVars, NtTypes, Pcs
<1>14. CASE ProcessStarted
  BY <1>0, <1>14, Served, Polling, PolledIn, DescriptorNames DEF ProcessStarted, Takes,
     CtlFrame, ReturnsCode, MovesTo, RestoreConsoleState, ctlVars, stdinVars, streamVars,
     termVars, userVars, NtTypes, Pcs
<1>15. CASE ProcessRefused
  BY <1>0, <1>15, Served, Polling, PolledIn, DescriptorNames DEF ProcessRefused, Takes,
     CtlFrame, ReturnsCode, MovesTo, RestoreConsoleState, ctlVars, stdinVars, streamVars,
     termVars, userVars, NtTypes, Pcs
<1>16. CASE ExitStatus
  BY <1>0, <1>16, Served, Polling, PolledIn, DescriptorNames DEF ExitStatus, Takes,
     CtlFrame, ctlVars, stdinVars, streamVars, termVars, userVars, NtTypes, Pcs
<1>17. CASE ControlEof
  BY <1>0, <1>17, Served, Polling, PolledIn, DescriptorNames DEF ControlEof, CtlFrame,
     MovesTo, ctlVars, stdinVars, streamVars, termVars, userVars, NtTypes, Pcs
<1>18. CASE SignalFd
  BY <1>0, <1>18, Served, Polling, PolledIn, DescriptorNames DEF SignalFd, Interrupted,
     MovesTo, RestoreConsoleState, WindowSizeChanged, BrokenPipe, ctlVars, stdinVars,
     streamVars, termVars, userVars, NtTypes, Pcs
<1>19. CASE ControlClosed
  BY <1>0, <1>19, Served, Polling, PolledIn, DescriptorNames DEF ControlClosed, MovesTo,
     ctlVars, stdinVars, streamVars, termVars, userVars, NtTypes, Pcs
<1>20. CASE WslExitStatus
  BY <1>0, <1>20, Served, Polling, PolledIn, DescriptorNames DEF WslExitStatus, Takes,
     CtlFrame, ReturnsCode, MovesTo, RestoreConsoleState, ctlVars, stdinVars, streamVars,
     termVars, userVars, NtTypes, Pcs
<1>21. CASE WslEof
  BY <1>0, <1>21, Served, Polling, PolledIn, DescriptorNames DEF WslEof, CtlFrame,
     ReturnsCode, MovesTo, RestoreConsoleState, ctlVars, stdinVars, streamVars, termVars,
     userVars, NtTypes, Pcs
<1>22. ASSUME NEW n \in {"int", "winch"}, UserSignals(n)
      PROVE  NtTypes'
  BY <1>0, <1>22, Served, Polling, PolledIn, DescriptorNames DEF UserSignals, UserFrame,
     ctlVars, stdinVars, streamVars, termVars, userVars, NtTypes, Pcs
<1>23. ASSUME NEW m \in {"ok", "gui", "failed", "bad"}, HostResponds(m)
      PROVE  NtTypes'
  BY <1>0, <1>23, Served, Polling, PolledIn, DescriptorNames DEF HostResponds, Says,
     HostFrame, ctlVars, stdinVars, streamVars, termVars, userVars, NtTypes, Pcs
<1>24. CASE HostExits
  BY <1>0, <1>24, Served, Polling, PolledIn, DescriptorNames DEF HostExits, Says, HostFrame,
     ctlVars, stdinVars, streamVars, termVars, userVars, NtTypes, Pcs
<1>25. CASE UNCHANGED ntVars
  BY <1>1, <1>25 DEF ntVars, ctlVars, stdinVars, streamVars, termVars, userVars
<1> QED
  BY <1>1, <1>2, <1>3, <1>4, <1>5, <1>6, <1>7, <1>8, <1>9, <1>10, <1>11, <1>12, <1>13,
     <1>14, <1>15, <1>16, <1>17, <1>18, <1>19, <1>20, <1>21, <1>22, <1>23, <1>24, <1>25 DEF
     NtNext, Interpreter

LEMMA ControlStep ==
    ASSUME NtInv, [NtNext]_ntVars
    PROVE  ControlAt'
<1>0. NtTypes /\ ControlAt /\ BoundsAt
  BY DEF NtInv
<1>1. ASSUME UNCHANGED <<ntHost, ntCtl, ntCode>>
      PROVE  ControlAt'
  BY <1>0, <1>1 DEF ControlAt
<1>2. CASE PollSockets \/ PollFails \/ ReadInput \/ WriteInput \/ ControlEof \/ SignalFd \/
      ControlClosed \/ UserTypes \/ UserEof \/ HostReads
  BY <1>1, <1>2 DEF PollSockets, ReturnsCode, MovesTo, RestoreConsoleState, PollFails,
     Interrupted, ReadInput, ServesNext, WriteInput, BrokenPipe, ControlEof, CtlFrame,
     SignalFd, WindowSizeChanged, ControlClosed, UserTypes, UserFrame, UserEof, HostReads,
     HostFrame, ctlVars, stdinVars, streamVars, termVars, userVars
<1>3. ASSUME NEW s \in Streams, RelayStream(s)
      PROVE  ControlAt'
  BY <1>1, <1>3 DEF RelayStream, ServesNext, BrokenPipe, MovesTo, ctlVars, stdinVars,
     streamVars, termVars, userVars
<1>4. ASSUME NEW n \in {"int", "winch"}, UserSignals(n)
      PROVE  ControlAt'
  BY <1>1, <1>4 DEF UserSignals, UserFrame, ctlVars, stdinVars, streamVars, termVars,
     userVars
<1>5. ASSUME NEW s \in Streams, HostWrites(s)
      PROVE  ControlAt'
  BY <1>1, <1>5 DEF HostWrites, HostFrame, ctlVars, stdinVars, streamVars, termVars,
     userVars
<1>6. ASSUME NEW d \in {"in", "control"} \cup Streams, HostCloses(d)
      PROVE  ControlAt'
  BY <1>1, <1>6 DEF HostCloses, HostFrame, ctlVars, stdinVars, streamVars, termVars,
     userVars
<1>7. CASE CreateNtProcessMessage
  BY <1>0, <1>7, MessageSeqs, Taken DEF CreateNtProcessMessage, ReturnsCode, MovesTo,
     RestoreConsoleState, ConfigureConsole, ctlVars, stdinVars, streamVars, termVars,
     userVars, ControlAt, BoundsAt
<1>8. CASE ConnectToInterop
  BY <1>0, <1>8, MessageSeqs, Taken DEF ConnectToInterop, ReturnsCode, MovesTo,
     RestoreConsoleState, ctlVars, stdinVars, streamVars, termVars, userVars, ControlAt,
     BoundsAt
<1>9. CASE WslConnect
  BY <1>0, <1>9, MessageSeqs, Taken DEF WslConnect, ReturnsCode, MovesTo, RestoreConsoleState,
     ctlVars, stdinVars, streamVars, termVars, userVars, ControlAt, BoundsAt
<1>10. CASE AcceptStreams
  BY <1>0, <1>10, MessageSeqs, Taken DEF AcceptStreams, ReturnsCode, MovesTo,
     RestoreConsoleState, ctlVars, stdinVars, streamVars, termVars, userVars, ControlAt,
     BoundsAt
<1>11. CASE ProcessStarted
  BY <1>0, <1>11, MessageSeqs, Taken DEF ProcessStarted, CtlFrame, ServesNext, ReturnsCode,
     MovesTo, RestoreConsoleState, ctlVars, stdinVars, streamVars, termVars, userVars,
     ControlAt, BoundsAt
<1>12. CASE ProcessRefused
  BY <1>0, <1>12, MessageSeqs, Taken DEF ProcessRefused, CtlFrame, ReturnsCode, MovesTo,
     RestoreConsoleState, ctlVars, stdinVars, streamVars, termVars, userVars, ControlAt,
     BoundsAt
<1>13. CASE ExitStatus
  BY <1>0, <1>13, MessageSeqs, Taken DEF ExitStatus, CtlFrame, ServesNext, ctlVars, stdinVars,
     streamVars, termVars, userVars, ControlAt, BoundsAt
<1>14. CASE WslExitStatus
  BY <1>0, <1>14, MessageSeqs, Taken DEF WslExitStatus, CtlFrame, ReturnsCode, MovesTo,
     RestoreConsoleState, ctlVars, stdinVars, streamVars, termVars, userVars, ControlAt,
     BoundsAt
<1>15. CASE WslEof
  BY <1>0, <1>15, MessageSeqs, Taken DEF WslEof, CtlFrame, ServesNext, ReturnsCode, MovesTo,
     RestoreConsoleState, ctlVars, stdinVars, streamVars, termVars, userVars, ControlAt,
     BoundsAt
<1>16. ASSUME NEW m \in {"ok", "gui", "failed", "bad"}, HostResponds(m)
      PROVE  ControlAt'
  <2>1. /\ ntCtl' = Append(ntCtl, m) /\ UNCHANGED ntCode /\ ntCode # "status"
        /\ ntHost' = IF m \in {"ok", "gui"} THEN "running" ELSE "refused"
    BY <1>0, <1>16 DEF HostResponds, Says, HostFrame, userVars, termVars, ControlAt
  <2>2. CASE ntHost = "asked"
    <3>1. ntCtl' = <<m>>
      BY <1>0, <2>1, <2>2, MessageSeqs DEF ControlAt
    <3>q. QED
      BY <2>1, <3>1 DEF ControlAt
  <2>3. CASE ntHost = "running" /\ m = "bad"
    <3>1. ntCtl' \in {<<"bad">>, <<"ok", "bad">>, <<"gui", "bad">>}
      BY <1>0, <2>1, <2>3, MessageSeqs, Zenon DEF ControlAt
    <3>q. QED
      BY <2>1, <2>3, <3>1 DEF ControlAt
  <2>q. QED
    BY <1>16, <2>2, <2>3 DEF HostResponds
<1>17. CASE HostExits
  BY <1>0, <1>17, MessageSeqs, Taken DEF HostExits, Says, HostFrame, ctlVars, stdinVars,
     streamVars, termVars, userVars, ControlAt, BoundsAt
<1>18. CASE UNCHANGED ntVars
  BY <1>1, <1>18 DEF ntVars, ctlVars, stdinVars, streamVars, termVars, userVars
<1> QED
  BY <1>1, <1>2, <1>3, <1>4, <1>5, <1>6, <1>7, <1>8, <1>9, <1>10, <1>11, <1>12, <1>13,
     <1>14, <1>15, <1>16, <1>17, <1>18 DEF NtNext, Interpreter

LEMMA ServedStep ==
    ASSUME NtInv, [NtNext]_ntVars
    PROVE  ServedAt'
<1>0. NtTypes /\ ServedAt
  BY DEF NtInv
<1>1. ASSUME UNCHANGED <<ntPc, ntReady, ntCtl, ntCtlEnd>>
      PROVE  ServedAt'
  BY <1>0, <1>1 DEF ServedAt
<1>2. CASE UserTypes \/ UserEof \/ HostReads
  BY <1>1, <1>2 DEF UserTypes, UserFrame, UserEof, HostReads, HostFrame, ctlVars, stdinVars,
     streamVars, termVars, userVars
<1>3. ASSUME NEW n \in {"int", "winch"}, UserSignals(n)
      PROVE  ServedAt'
  BY <1>1, <1>3 DEF UserSignals, UserFrame, ctlVars, stdinVars, streamVars, termVars,
     userVars
<1>4. ASSUME NEW s \in Streams, HostWrites(s)
      PROVE  ServedAt'
  BY <1>1, <1>4 DEF HostWrites, HostFrame, ctlVars, stdinVars, streamVars, termVars,
     userVars
<1>5. CASE CreateNtProcessMessage
  BY <1>0, <1>5, Served, Polling, MessageSeqs DEF CreateNtProcessMessage, ReturnsCode, MovesTo,
     RestoreConsoleState, ConfigureConsole, ctlVars, stdinVars, streamVars, termVars,
     userVars, ServedAt
<1>6. CASE ConnectToInterop
  BY <1>0, <1>6, Served, Polling, MessageSeqs DEF ConnectToInterop, ReturnsCode, MovesTo,
     RestoreConsoleState, ctlVars, stdinVars, streamVars, termVars, userVars, ServedAt
<1>7. CASE WslConnect
  BY <1>0, <1>7, Served, Polling, MessageSeqs DEF WslConnect, ReturnsCode, MovesTo,
     RestoreConsoleState, ctlVars, stdinVars, streamVars, termVars, userVars, ServedAt
<1>8. CASE AcceptStreams
  BY <1>0, <1>8, Served, Polling, MessageSeqs DEF AcceptStreams, ReturnsCode, MovesTo,
     RestoreConsoleState, ctlVars, stdinVars, streamVars, termVars, userVars, ServedAt
<1>9. CASE PollSockets
  BY <1>0, <1>9, Served, Polling, MessageSeqs DEF PollSockets, ReturnsCode, MovesTo,
     RestoreConsoleState, ctlVars, stdinVars, streamVars, termVars, userVars, ServedAt
<1>10. CASE PollFails
  BY <1>0, <1>10, Served, Polling, MessageSeqs DEF PollFails, Interrupted, MovesTo,
     RestoreConsoleState, ctlVars, stdinVars, streamVars, termVars, userVars, ServedAt
<1>11. CASE ReadInput
  BY <1>0, <1>11, Served, Polling, MessageSeqs DEF ReadInput, ctlVars, stdinVars, streamVars,
     termVars, userVars, ServedAt
<1>12. CASE WriteInput
  BY <1>0, <1>12, Served, Polling, MessageSeqs DEF WriteInput, BrokenPipe, MovesTo, ctlVars,
     stdinVars, streamVars, termVars, userVars, ServedAt
<1>13. ASSUME NEW s \in Streams, RelayStream(s)
      PROVE  ServedAt'
  BY <1>0, <1>13, Served, Polling, MessageSeqs DEF RelayStream, BrokenPipe, MovesTo, ctlVars,
     stdinVars, streamVars, termVars, userVars, ServedAt
<1>14. CASE ProcessStarted
  BY <1>0, <1>14, Served, Polling, MessageSeqs DEF ProcessStarted, Takes, CtlFrame,
     ReturnsCode, MovesTo, RestoreConsoleState, ctlVars, stdinVars, streamVars, termVars,
     userVars, ServedAt
<1>15. CASE ProcessRefused
  BY <1>0, <1>15, Served, Polling, MessageSeqs DEF ProcessRefused, Takes, CtlFrame,
     ReturnsCode, MovesTo, RestoreConsoleState, ctlVars, stdinVars, streamVars, termVars,
     userVars, ServedAt
<1>16. CASE ExitStatus
  BY <1>0, <1>16, Served, Polling, MessageSeqs DEF ExitStatus, Takes, CtlFrame, ctlVars,
     stdinVars, streamVars, termVars, userVars, ServedAt
<1>17. CASE ControlEof
  BY <1>0, <1>17, Served, Polling, MessageSeqs DEF ControlEof, CtlFrame, MovesTo, ctlVars,
     stdinVars, streamVars, termVars, userVars, ServedAt
<1>18. CASE SignalFd
  BY <1>0, <1>18, Served, Polling, MessageSeqs DEF SignalFd, Interrupted, MovesTo,
     RestoreConsoleState, WindowSizeChanged, BrokenPipe, ctlVars, stdinVars, streamVars,
     termVars, userVars, ServedAt
<1>19. CASE ControlClosed
  BY <1>0, <1>19, Served, Polling, MessageSeqs DEF ControlClosed, MovesTo, ctlVars, stdinVars,
     streamVars, termVars, userVars, ServedAt
<1>20. CASE WslExitStatus
  BY <1>0, <1>20, Served, Polling, MessageSeqs DEF WslExitStatus, Takes, CtlFrame, ReturnsCode,
     MovesTo, RestoreConsoleState, ctlVars, stdinVars, streamVars, termVars, userVars,
     ServedAt
<1>21. CASE WslEof
  BY <1>0, <1>21, Served, Polling, MessageSeqs DEF WslEof, CtlFrame, ReturnsCode, MovesTo,
     RestoreConsoleState, ctlVars, stdinVars, streamVars, termVars, userVars, ServedAt
<1>22. ASSUME NEW m \in {"ok", "gui", "failed", "bad"}, HostResponds(m)
      PROVE  ServedAt'
  BY <1>0, <1>22, Served, Polling, MessageSeqs DEF HostResponds, Says, HostFrame, ctlVars,
     stdinVars, streamVars, termVars, userVars, ServedAt
<1>23. CASE HostExits
  BY <1>0, <1>23, Served, Polling, MessageSeqs DEF HostExits, Says, HostFrame, ctlVars,
     stdinVars, streamVars, termVars, userVars, ServedAt
<1>24. ASSUME NEW d \in {"in", "control"} \cup Streams, HostCloses(d)
      PROVE  ServedAt'
  BY <1>0, <1>24, Served, Polling, MessageSeqs DEF HostCloses, HostFrame, ctlVars, stdinVars,
     streamVars, termVars, userVars, ServedAt
<1>25. CASE UNCHANGED ntVars
  BY <1>1, <1>25 DEF ntVars, ctlVars, stdinVars, streamVars, termVars, userVars
<1> QED
  BY <1>1, <1>2, <1>3, <1>4, <1>5, <1>6, <1>7, <1>8, <1>9, <1>10, <1>11, <1>12, <1>13,
     <1>14, <1>15, <1>16, <1>17, <1>18, <1>19, <1>20, <1>21, <1>22, <1>23, <1>24, <1>25 DEF
     NtNext, Interpreter

LEMMA DroppedStep ==
    ASSUME NtInv, [NtNext]_ntVars
    PROVE  DroppedAt'
<1>0. NtTypes /\ StreamAt /\ ControlAt /\ ServedAt /\ DroppedAt /\ BoundsAt
  BY DEF NtInv
<1>1. ASSUME UNCHANGED <<ntMode, ntHost, ntOpen, ntLost, ntOut, ntEnd, ntCode, ntCtl,
      ntCtlEnd, ntShut>>
      PROVE  DroppedAt'
  BY <1>0, <1>1 DEF DroppedAt
<1>2. CASE PollFails \/ WriteInput \/ UserTypes \/ UserEof \/ HostReads
  BY <1>1, <1>2 DEF PollFails, Interrupted, MovesTo, RestoreConsoleState, WriteInput,
     ServesNext, BrokenPipe, UserTypes, UserFrame, UserEof, HostReads, HostFrame, ctlVars,
     stdinVars, streamVars, termVars, userVars
<1>3. ASSUME NEW n \in {"int", "winch"}, UserSignals(n)
      PROVE  DroppedAt'
  BY <1>1, <1>3 DEF UserSignals, UserFrame, ctlVars, stdinVars, streamVars, termVars,
     userVars
<1>4. CASE CreateNtProcessMessage
  BY <1>0, <1>4, NtAssumption DEF CreateNtProcessMessage, ReturnsCode, MovesTo,
     RestoreConsoleState, ConfigureConsole, ctlVars, stdinVars, streamVars, termVars,
     userVars, DroppedAt, NtTypes, StreamAt, ControlAt, ServedAt, BoundsAt, Polled
<1>5. CASE ConnectToInterop
  BY <1>0, <1>5, NtAssumption DEF ConnectToInterop, ReturnsCode, MovesTo,
     RestoreConsoleState, ctlVars, stdinVars, streamVars, termVars, userVars, DroppedAt,
     NtTypes, StreamAt, ControlAt, ServedAt, BoundsAt, Polled
<1>6. CASE WslConnect
  BY <1>0, <1>6, NtAssumption DEF WslConnect, ReturnsCode, MovesTo, RestoreConsoleState,
     ctlVars, stdinVars, streamVars, termVars, userVars, DroppedAt, NtTypes, StreamAt,
     ControlAt, ServedAt, BoundsAt, Polled
<1>7. CASE AcceptStreams
  BY <1>0, <1>7, NtAssumption DEF AcceptStreams, ReturnsCode, MovesTo, RestoreConsoleState,
     ctlVars, stdinVars, streamVars, termVars, userVars, DroppedAt, NtTypes, StreamAt,
     ControlAt, ServedAt, BoundsAt, Polled
<1>8. CASE PollSockets
  BY <1>0, <1>8, NtAssumption DEF PollSockets, ReturnsCode, MovesTo, RestoreConsoleState,
     ctlVars, stdinVars, streamVars, termVars, userVars, DroppedAt, NtTypes, StreamAt,
     ControlAt, ServedAt, BoundsAt, Polled
<1>9. CASE ReadInput
  BY <1>0, <1>9, NtAssumption DEF ReadInput, ServesNext, ctlVars, stdinVars, streamVars,
     termVars, userVars, DroppedAt, NtTypes, StreamAt, ControlAt, ServedAt, BoundsAt, Polled
<1>10. ASSUME NEW s \in Streams, RelayStream(s)
      PROVE  DroppedAt'
  BY <1>0, <1>10, NtAssumption DEF RelayStream, ServesNext, BrokenPipe, MovesTo, ctlVars,
     stdinVars, streamVars, termVars, userVars, DroppedAt, NtTypes, StreamAt, ControlAt,
     ServedAt, BoundsAt, Polled
<1>11. CASE ProcessStarted
  BY <1>0, <1>11, NtAssumption DEF ProcessStarted, Takes, CtlFrame, ServesNext, ReturnsCode,
     MovesTo, RestoreConsoleState, ctlVars, stdinVars, streamVars, termVars, userVars,
     DroppedAt, NtTypes, StreamAt, ControlAt, ServedAt, BoundsAt, Polled
<1>12. CASE ProcessRefused
  BY <1>0, <1>12, NtAssumption DEF ProcessRefused, Takes, CtlFrame, ReturnsCode, MovesTo,
     RestoreConsoleState, ctlVars, stdinVars, streamVars, termVars, userVars, DroppedAt,
     NtTypes, StreamAt, ControlAt, ServedAt, BoundsAt, Polled
<1>13. CASE ExitStatus
  BY <1>0, <1>13, NtAssumption DEF ExitStatus, Takes, CtlFrame, ServesNext, ctlVars,
     stdinVars, streamVars, termVars, userVars, DroppedAt, NtTypes, StreamAt, ControlAt,
     ServedAt, BoundsAt, Polled
<1>14. CASE ControlEof
  BY <1>0, <1>14, NtAssumption DEF ControlEof, CtlFrame, MovesTo, ctlVars, stdinVars,
     streamVars, termVars, userVars, DroppedAt, NtTypes, StreamAt, ControlAt, ServedAt,
     BoundsAt, Polled
<1>15. CASE SignalFd
  BY <1>0, <1>15, NtAssumption DEF SignalFd, Interrupted, MovesTo, RestoreConsoleState,
     WindowSizeChanged, BrokenPipe, ServesNext, ctlVars, stdinVars, streamVars, termVars,
     userVars, DroppedAt, NtTypes, StreamAt, ControlAt, ServedAt, BoundsAt, Polled
<1>16. CASE ControlClosed
  BY <1>0, <1>16, NtAssumption DEF ControlClosed, MovesTo, ctlVars, stdinVars, streamVars,
     termVars, userVars, DroppedAt, NtTypes, StreamAt, ControlAt, ServedAt, BoundsAt, Polled
<1>17. CASE WslExitStatus
  BY <1>0, <1>17, NtAssumption DEF WslExitStatus, Takes, CtlFrame, ReturnsCode, MovesTo,
     RestoreConsoleState, ctlVars, stdinVars, streamVars, termVars, userVars, DroppedAt,
     NtTypes, StreamAt, ControlAt, ServedAt, BoundsAt, Polled
<1>18. CASE WslEof
  BY <1>0, <1>18, NtAssumption DEF WslEof, CtlFrame, ServesNext, ReturnsCode, MovesTo,
     RestoreConsoleState, ctlVars, stdinVars, streamVars, termVars, userVars, DroppedAt,
     NtTypes, StreamAt, ControlAt, ServedAt, BoundsAt, Polled
<1>19. ASSUME NEW m \in {"ok", "gui", "failed", "bad"}, HostResponds(m)
      PROVE  DroppedAt'
  BY <1>0, <1>19, NtAssumption DEF HostResponds, Says, HostFrame, ctlVars, stdinVars,
     streamVars, termVars, userVars, DroppedAt, NtTypes, StreamAt, ControlAt, ServedAt,
     BoundsAt, Polled
<1>20. CASE HostExits
  BY <1>0, <1>20, NtAssumption DEF HostExits, Says, HostFrame, ctlVars, stdinVars,
     streamVars, termVars, userVars, DroppedAt, NtTypes, StreamAt, ControlAt, ServedAt,
     BoundsAt, Polled
<1>21. ASSUME NEW s \in Streams, HostWrites(s)
      PROVE  DroppedAt'
  BY <1>0, <1>21, NtAssumption DEF HostWrites, HostFrame, ctlVars, stdinVars, streamVars,
     termVars, userVars, DroppedAt, NtTypes, StreamAt, ControlAt, ServedAt, BoundsAt, Polled
<1>22. ASSUME NEW d \in {"in", "control"} \cup Streams, HostCloses(d)
      PROVE  DroppedAt'
  BY <1>0, <1>22, NtAssumption DEF HostCloses, HostFrame, ctlVars, stdinVars, streamVars,
     termVars, userVars, DroppedAt, NtTypes, StreamAt, ControlAt, ServedAt, BoundsAt, Polled
<1>23. CASE UNCHANGED ntVars
  BY <1>1, <1>23 DEF ntVars, ctlVars, stdinVars, streamVars, termVars, userVars
<1> QED
  BY <1>1, <1>2, <1>3, <1>4, <1>5, <1>6, <1>7, <1>8, <1>9, <1>10, <1>11, <1>12, <1>13,
     <1>14, <1>15, <1>16, <1>17, <1>18, <1>19, <1>20, <1>21, <1>22, <1>23 DEF NtNext,
     Interpreter

LEMMA BoundsStep ==
    ASSUME NtInv, [NtNext]_ntVars
    PROVE  BoundsAt'
<1>0. NtTypes /\ ControlAt /\ BoundsAt
  BY DEF NtInv
<1>1. ASSUME UNCHANGED <<ntPc, ntHost, ntOpen, ntCode, ntMode>>
      PROVE  BoundsAt'
  BY <1>0, <1>1 DEF BoundsAt, Returned
<1>2. CASE UserTypes \/ UserEof \/ HostReads
  BY <1>1, <1>2 DEF UserTypes, UserFrame, UserEof, HostReads, HostFrame, ctlVars, stdinVars,
     streamVars, termVars, userVars
<1>3. ASSUME NEW n \in {"int", "winch"}, UserSignals(n)
      PROVE  BoundsAt'
  BY <1>1, <1>3 DEF UserSignals, UserFrame, ctlVars, stdinVars, streamVars, termVars,
     userVars
<1>4. ASSUME NEW s \in Streams, HostWrites(s)
      PROVE  BoundsAt'
  BY <1>1, <1>4 DEF HostWrites, HostFrame, ctlVars, stdinVars, streamVars, termVars,
     userVars
<1>5. ASSUME NEW d \in {"in", "control"} \cup Streams, HostCloses(d)
      PROVE  BoundsAt'
  BY <1>1, <1>5 DEF HostCloses, HostFrame, ctlVars, stdinVars, streamVars, termVars,
     userVars
<1>6. CASE CreateNtProcessMessage
  BY <1>0, <1>6, Served, Polling, Taken DEF CreateNtProcessMessage, ReturnsCode, MovesTo,
     RestoreConsoleState, ConfigureConsole, ctlVars, stdinVars, streamVars, termVars,
     userVars, BoundsAt, Returned, Gone
<1>7. CASE ConnectToInterop
  BY <1>0, <1>7, Served, Polling, Taken DEF ConnectToInterop, ReturnsCode, MovesTo,
     RestoreConsoleState, ctlVars, stdinVars, streamVars, termVars, userVars, BoundsAt,
     Returned, Gone
<1>8. CASE WslConnect
  BY <1>0, <1>8, Served, Polling, Taken DEF WslConnect, ReturnsCode, MovesTo,
     RestoreConsoleState, ctlVars, stdinVars, streamVars, termVars, userVars, BoundsAt,
     Returned, Gone
<1>9. CASE AcceptStreams
  BY <1>0, <1>9, Served, Polling, Taken DEF AcceptStreams, ReturnsCode, MovesTo,
     RestoreConsoleState, ctlVars, stdinVars, streamVars, termVars, userVars, BoundsAt,
     Returned, Gone
<1>10. CASE PollSockets
  BY <1>0, <1>10, Served, Polling, Taken DEF PollSockets, ReturnsCode, MovesTo,
     RestoreConsoleState, ctlVars, stdinVars, streamVars, termVars, userVars, BoundsAt,
     Returned, Gone
<1>11. CASE PollFails
  BY <1>0, <1>11, Served, Polling, Taken DEF PollFails, Interrupted, MovesTo,
     RestoreConsoleState, ctlVars, stdinVars, streamVars, termVars, userVars, BoundsAt,
     Returned, Gone
<1>12. CASE ReadInput
  BY <1>0, <1>12, Served, Polling, Taken DEF ReadInput, ctlVars, stdinVars, streamVars,
     termVars, userVars, BoundsAt, Returned, Gone
<1>13. CASE WriteInput
  BY <1>0, <1>13, Served, Polling, Taken DEF WriteInput, BrokenPipe, MovesTo, ctlVars,
     stdinVars, streamVars, termVars, userVars, BoundsAt, Returned, Gone
<1>14. ASSUME NEW s \in Streams, RelayStream(s)
      PROVE  BoundsAt'
  <2>1. ntPc \in {"out", "err"} /\ UNCHANGED <<ntMode, ntCode, ntHost>>
    BY <1>14, NtAssumption DEF RelayStream, ctlVars
  <2>2. ServesNext(s) \/ BrokenPipe(s)
    BY <1>14 DEF RelayStream
  <2>3. ntPc' \in {"in", "out", "err", "control", "signal", "close", "killed"}
    BY <1>0, <2>2, Served DEF BrokenPipe, MovesTo
  <2>4. ~(ntMode = "wsl" /\ ntCode = "status")
    BY <1>0, <2>1 DEF BoundsAt
  <2> QED BY <2>1, <2>3, <2>4 DEF BoundsAt, Returned
<1>15. CASE ProcessStarted
  <2>1. ntPc = "control" /\ UNCHANGED <<ntMode, ntCode, ntHost, ntOpen>>
    BY <1>15 DEF ProcessStarted, Takes, CtlFrame, ReturnsCode
  <2>2. ServesNext("control") \/ (ntMode = "wsl" /\ ntPc' = "ended")
    BY <1>15 DEF ProcessStarted, ReturnsCode, MovesTo
  <2>3. \/ ntPc' \in {"in", "out", "err", "control", "signal", "close"}
        \/ ntMode = "wsl" /\ ntPc' = "ended"
    BY <1>0, <2>2, Served
  <2>4. ~(ntMode = "wsl" /\ ntCode = "status")
    BY <1>0, <2>1 DEF BoundsAt
  <2> QED BY <2>1, <2>3, <2>4 DEF BoundsAt, Returned
<1>16. CASE ProcessRefused
  BY <1>0, <1>16, Served, Polling, Taken DEF ProcessRefused, CtlFrame, ReturnsCode, MovesTo,
     RestoreConsoleState, ctlVars, stdinVars, streamVars, termVars, userVars, BoundsAt,
     Returned, Gone
<1>17. CASE ExitStatus
  BY <1>0, <1>17, Served, Polling, Taken DEF ExitStatus, CtlFrame, ctlVars, stdinVars,
     streamVars, termVars, userVars, BoundsAt, Returned, Gone
<1>18. CASE ControlEof
  BY <1>0, <1>18, Served, Polling, Taken DEF ControlEof, CtlFrame, MovesTo, ctlVars,
     stdinVars, streamVars, termVars, userVars, BoundsAt, Returned, Gone
<1>19. CASE SignalFd
  BY <1>0, <1>19, Served, Polling, Taken DEF SignalFd, Interrupted, MovesTo,
     RestoreConsoleState, WindowSizeChanged, BrokenPipe, ctlVars, stdinVars, streamVars,
     termVars, userVars, BoundsAt, Returned, Gone
<1>20. CASE ControlClosed
  BY <1>0, <1>20, Served, Polling, Taken DEF ControlClosed, MovesTo, ctlVars, stdinVars,
     streamVars, termVars, userVars, BoundsAt, Returned, Gone
<1>21. CASE WslExitStatus
  BY <1>0, <1>21, Served, Polling, Taken DEF WslExitStatus, CtlFrame, ReturnsCode, MovesTo,
     RestoreConsoleState, ctlVars, stdinVars, streamVars, termVars, userVars, BoundsAt,
     Returned, Gone
<1>22. CASE WslEof
  BY <1>0, <1>22, Served, Polling, Taken DEF WslEof, CtlFrame, ReturnsCode, MovesTo,
     RestoreConsoleState, ctlVars, stdinVars, streamVars, termVars, userVars, BoundsAt,
     Returned, Gone
<1>23. ASSUME NEW m \in {"ok", "gui", "failed", "bad"}, HostResponds(m)
      PROVE  BoundsAt'
  BY <1>0, <1>23, Served, Polling, Taken DEF HostResponds, Says, HostFrame, ctlVars,
     stdinVars, streamVars, termVars, userVars, BoundsAt, Returned, Gone
<1>24. CASE HostExits
  BY <1>0, <1>24, Served, Polling, Taken DEF HostExits, Says, HostFrame, ctlVars, stdinVars,
     streamVars, termVars, userVars, BoundsAt, Returned, Gone
<1>25. CASE UNCHANGED ntVars
  BY <1>1, <1>25 DEF ntVars, ctlVars, stdinVars, streamVars, termVars, userVars
<1> QED
  BY <1>1, <1>2, <1>3, <1>4, <1>5, <1>6, <1>7, <1>8, <1>9, <1>10, <1>11, <1>12, <1>13,
     <1>14, <1>15, <1>16, <1>17, <1>18, <1>19, <1>20, <1>21, <1>22, <1>23, <1>24, <1>25 DEF
     NtNext, Interpreter

LEMMA RawStep ==
    ASSUME NtInv, [NtNext]_ntVars
    PROVE  RawAt'
<1>0. NtTypes /\ RawAt
  BY DEF NtInv
<1>1. ASSUME UNCHANGED termVars, ntPc' = ntPc \/ ntPc' \notin {"ended", "interrupted"}
      PROVE  RawAt'
  BY <1>0, <1>1 DEF RawAt, ConsoleRestored, termVars
<1>2. ASSUME RestoreConsoleState
      PROVE  RawAt'
  <2>1. CASE ntFd = "open"
    <3>1. ntRaw' = FALSE /\ ntFd' = "closed"
      BY <1>2, <2>1 DEF RestoreConsoleState
    <3> QED BY <3>1 DEF RawAt, ConsoleRestored
  <2>2. CASE ntFd # "open"
    <3>1. ntRaw' = ntRaw /\ ntFd' = ntFd
      BY <1>2, <2>2 DEF RestoreConsoleState, termVars
    <3> QED BY <1>0, <2>2, <3>1 DEF RawAt, ConsoleRestored
  <2> QED BY <2>1, <2>2
<1>3. ASSUME ConfigureConsole, ntPc' = "connect"
      PROVE  RawAt'
  <2>1. CASE UNCHANGED termVars
    BY <1>1, <1>3, <2>1
  <2>2. CASE ntRaw' = TRUE /\ ntFd' \in {"open", "failed"}
    BY <1>3, <2>2 DEF RawAt, ConsoleRestored
  <2> QED BY <1>3, <2>1, <2>2 DEF ConfigureConsole
<1>4. ASSUME NEW pc, MovesTo(pc), UNCHANGED termVars, pc \notin {"ended", "interrupted"}
      PROVE  RawAt'
  BY <1>1, <1>4 DEF MovesTo
<1>5. ASSUME NEW d, ServesNext(d), UNCHANGED termVars
      PROVE  RawAt'
  <2>1. ntPc' \notin {"ended", "interrupted"}
    BY <1>0, <1>5, Served
  <2> QED BY <1>1, <1>5, <2>1
<1>6. ASSUME NEW code, ReturnsCode(code)
      PROVE  RawAt'
  BY <1>2, <1>6 DEF ReturnsCode
<1>7. CASE CreateNtProcessMessage
  BY <1>3, <1>6, <1>7 DEF CreateNtProcessMessage, MovesTo
<1>8. CASE ConnectToInterop \/ WslConnect \/ AcceptStreams
  BY <1>4, <1>6, <1>8 DEF ConnectToInterop, WslConnect, AcceptStreams, termVars
<1>9. CASE PollSockets
  <2>1. CASE ReturnsCode(ntCode)
    BY <1>6, <2>1
  <2>2. CASE ntReady' = {d \in ntOpen : Pending(d)} /\ ntPc' = First(ntReady') /\ UNCHANGED termVars
    <3>1. ntPc' \notin {"ended", "interrupted"}
      BY <1>0, <2>2, Polling
    <3> QED BY <1>1, <2>2, <3>1
  <2> QED BY <1>9, <2>1, <2>2 DEF PollSockets, termVars
<1>10. CASE PollFails
  BY <1>2, <1>10 DEF PollFails, Interrupted
<1>11. CASE ReadInput
  <2>1. UNCHANGED termVars /\ (ntPc' = "write" \/ ServesNext("in"))
    BY <1>11 DEF ReadInput, termVars
  <2> QED BY <1>1, <1>5, <2>1
<1>12. CASE WriteInput
  <2>1. UNCHANGED termVars /\ (MovesTo("killed") \/ ServesNext("in"))
    BY <1>12 DEF WriteInput, BrokenPipe, termVars
  <2> QED BY <1>4, <1>5, <2>1
<1>13. ASSUME NEW s \in Streams, RelayStream(s)
       PROVE  RawAt'
  <2>1. UNCHANGED termVars /\ (MovesTo("killed") \/ ServesNext(s))
    BY <1>13 DEF RelayStream, BrokenPipe, termVars
  <2> QED BY <1>4, <1>5, <2>1
<1>14. CASE ProcessStarted
  <2>1. CASE ReturnsCode(ntCode)
    BY <1>6, <2>1
  <2>2. CASE ServesNext("control") /\ (RestoreConsoleState \/ UNCHANGED termVars)
    BY <1>2, <1>5, <2>2
  <2> QED BY <1>14, <2>1, <2>2 DEF ProcessStarted
<1>15. CASE ProcessRefused \/ WslExitStatus
  BY <1>6, <1>15 DEF ProcessRefused, WslExitStatus
<1>16. CASE ExitStatus
  BY <1>5, <1>16 DEF ExitStatus
<1>17. CASE ControlEof \/ ControlClosed
  <2>1. UNCHANGED termVars /\ MovesTo("poll")
    BY <1>17 DEF ControlEof, ControlClosed, termVars
  <2> QED BY <1>4, <2>1
<1>18. CASE SignalFd
  <2>1. CASE Interrupted
    BY <1>2, <2>1 DEF Interrupted
  <2>2. CASE UNCHANGED termVars /\ WindowSizeChanged
    <3>1. MovesTo("killed") \/ ServesNext("signal")
      BY <2>2 DEF WindowSizeChanged, BrokenPipe
    <3> QED BY <1>4, <1>5, <2>2, <3>1
  <2> QED BY <1>18, <2>1, <2>2 DEF SignalFd, termVars
<1>19. CASE WslEof
  <2>1. (ServesNext("control") /\ UNCHANGED termVars) \/ \E code : ReturnsCode(code)
    BY <1>19 DEF WslEof, termVars
  <2> QED BY <1>5, <1>6, <2>1
<1>20. CASE UserTypes \/ UserEof \/ HostExits \/ HostReads \/ UNCHANGED ntVars
  BY <1>1, <1>20 DEF UserTypes, UserEof, HostExits, HostReads, UserFrame, HostFrame, ntVars, termVars
<1>21. ASSUME NEW x, UserSignals(x) \/ HostResponds(x) \/ HostWrites(x) \/ HostCloses(x)
       PROVE  RawAt'
  BY <1>1, <1>21 DEF UserSignals, HostResponds, HostWrites, HostCloses, UserFrame, HostFrame, termVars
<1> QED
  BY <1>7, <1>8, <1>9, <1>10, <1>11, <1>12, <1>13, <1>14, <1>15, <1>16, <1>17, <1>18, <1>19, <1>20,
     <1>21 DEF NtNext, Interpreter

(* A loop that returns has flushed every stream it did not report lost,    *)
(* returns the program's status if the program exited, has restored the    *)
(* terminal and has shut standard input, for any number of chunks, acts of *)
(* the user and room in the sockets, in both modes.                        *)
THEOREM InterpreterSafe == NtSpec => []NtSafe
<1>1. NtInit => NtInv
  <2> SUFFICES ASSUME NtInit PROVE NtInv
    OBVIOUS
  <2>1. NtTypes /\ UserNums
    BY NtAssumption DEF NtInit, NtTypes, UserNums, Pcs
  <2>2. StreamAt
    BY NtAssumption DEF NtInit, StreamAt
  <2>3. ControlAt /\ ServedAt /\ DroppedAt /\ BoundsAt /\ RawAt
    BY DEF NtInit, ControlAt, ServedAt, DroppedAt, BoundsAt, RawAt, Returned, ConsoleRestored
  <2> QED BY <2>1, <2>2, <2>3 DEF NtInv
<1>2. NtInv /\ [NtNext]_ntVars => NtInv'
  BY NumsStep, StreamStep, TypesStep, ControlStep, ServedStep, DroppedStep, BoundsStep, RawStep DEF NtInv
<1>3. NtInv => NtSafe
  <2> SUFFICES ASSUME NtInv PROVE NtSafe
    OBVIOUS
  <2>1. NtTypeOK
    BY DEF NtInv, NtTypes, UserNums, StreamAt, RawAt, NtTypeOK, Pcs
  <2>2. ASSUME Returned
        PROVE  /\ \A s \in Streams \ ntLost : s \in ntEnd /\ ntDone[s] = ntSent[s]
               /\ ntHost = "exited" => ntCode = "status"
               /\ ntShut
    <3>1. ntOpen = {} /\ ntMode = "vm" /\ ntHost # "none"
      BY <2>2 DEF NtInv, BoundsAt, Returned
    <3>2. \A s \in Streams : s \in ntLost \/ (ntOut[s] = 0 /\ s \in ntEnd)
      BY <3>1 DEF NtInv, DroppedAt
    <3>3. ntShut /\ (ntCode = "status" \/ (ntCtl = <<>> /\ ntCtlEnd))
      BY <3>1 DEF NtInv, DroppedAt
    <3>4. ntHost = "exited" => ntCode = "status"
      BY <3>3, MessageSeqs DEF NtInv, ControlAt
    <3>5. \A s \in Streams \ ntLost : ntOut[s] + ntDone[s] = ntSent[s] /\ ntDone[s] \in Nat
      BY DEF NtInv, StreamAt
    <3> QED BY <3>2, <3>3, <3>4, <3>5
  <2>3. OutputFlushed /\ StdinShut /\ CodeTruthful
    BY <2>2 DEF OutputFlushed, StdinShut, CodeTruthful, NtInv, ControlAt
  <2> QED BY <2>1, <2>3 DEF NtSafe, NtInv, RawAt
<1> QED BY <1>1, <1>2, <1>3, PTL DEF NtSpec
=============================================================================
