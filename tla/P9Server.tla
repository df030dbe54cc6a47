------------------------------ MODULE P9Server ------------------------------
(***************************************************************************)
(* The Plan 9 file server: the connections HandleConnections accepts, the  *)
(* message loop of Handler::Run, the handlers with their fid table         *)
(* (p9handler.cpp), the files they work on (p9file.cpp), the epoll         *)
(* dispatcher and the asynchronous lock, semaphore, event and cancel token *)
(* they wait on (p9io.cpp, p9await.h), and the command that stops the      *)
(* server (plan9.cpp).                                                     *)
(*                                                                         *)
(* Every request is a coroutine of P9Executor.  What a coroutine does     *)
(* between two points where another thread can see its effects is one      *)
(* step; st[m].pc names the point.  A coroutine steps when the queue's     *)
(* owner resumes it, or on a thread of its own in blocking code; blocking  *)
(* code that throws goes on there, without the queue ("stray").            *)
(*                                                                         *)
(* Abstractions: one connection is followed, and the accept loop takes its *)
(* steps at any time; a share is a root directory with the files of Names; *)
(* the frames a resumed coroutine unwinds through after its answer was     *)
(* sent, up to the end of the RequestTracker, are two hops of the queue.   *)
(***************************************************************************)
EXTENDS P9Executor

CONSTANTS MaxMsgs,      \* requests the client sends
          Scripts,      \* the sequences of requests it may send
          Fids,         \* fids it uses
          Names,        \* file names in the share's root
          Tags,         \* tags it uses
          Permits,      \* maximumMessages: concurrent messages of a connection
          Mounted,      \* whether the followed client has mounted the share
          MaxFull,      \* times the send buffer fills up
          MaxTrouble    \* hang-ups, stop commands and failed accepts

Msgs == 1..MaxMsgs
Conn == 0               \* the coroutine of Handler::Run
Nobody == -1            \* NoCo
RootName == ""          \* the name of the share's root

ASSUME P9Assumption == /\ Coroutines = Msgs \cup {Conn}
                       /\ NoCo = Nobody
                       /\ Permits \in Nat \ {0}
                       /\ MaxMsgs \in Nat /\ MaxFull \in Nat
                       /\ Tags \subseteq Nat /\ RootName \notin Names /\ Mounted \subseteq BOOLEAN

VARIABLES
    \* the client
    st,         \* per request: pc, req, tag, the entry looked up, outcome ...
    sent,       \* requests sent so far
    sock,       \* requests in the socket the server has not read
    hungUp,     \* the client closed the connection
    full,       \* the socket's send buffer is full
    fills,      \* times it has filled up
    \* the connection's Handler
    conn,       \* where Handler::Run is
    cur,        \* the message it read and waits to start
    negotiated, \* m_Negotiated
    fids,       \* m_Fids: fid -> request that made its Fid object, or 0
    objs,       \* the Fid objects, by the request that made them
    reqs,       \* m_Requests, in order of arrival
    permits,    \* messageSemaphore.m_Count
    lock,       \* the holder of m_SocketLock
    lockQ,      \* its waiters
    cancelled,  \* connectionToken
    \* EpollDispatcher: events pending in epoll, remembered, and waiters
    edgeIn, curIn, inOp, edgeOut, curOut, outOp,
    \* the share and the server
    names,      \* files in the share's root
    acc,        \* where HandleConnections is
    token,      \* the server's CancelToken
    trouble,    \* troubles so far
    ctl         \* the control thread: StopPlan9Server

clientVars == <<sent, sock, hungUp, full, fills>>
handlerVars == <<conn, cur, negotiated, fids, objs, reqs, permits, lock, lockQ, cancelled>>
epollVars == <<edgeIn, curIn, inOp, edgeOut, curOut, outOp>>
serverVars == <<names, acc, token, trouble, ctl>>
vars == <<execVars, st, clientVars, handlerVars, epollVars, serverVars>>

NoReq == [op |-> "none", fid |-> 0, nfid |-> 0, name |-> RootName, old |-> 0]
Idle == [pc |-> "idle", req |-> NoReq, tag |-> 0, goal |-> 0,
         ent |-> 0, ent2 |-> 0,      \* the Fid objects looked up
         res |-> "none",             \* what it answers
         tries |-> 0, made |-> FALSE, stat |-> "none",  \* Twopen
         susp |-> FALSE,             \* its coroutine has been suspended
         by |-> 0,                   \* the Tflush that waits for it (Cancelled)
         replied |-> FALSE, lost |-> FALSE]  \* the answer was sent, or could not be
NoObj == [kind |-> "none", name |-> RootName, open |-> FALSE]
RootObj == [NoObj EXCEPT !.kind = "file"]
Base == MaxMsgs + 1     \* the Fid object of the attach that mounted the share

\* The server before its first connection, or idle with a client that mounted
\* the share: the root is attached as fid 1 and the reader waits.
Init ==
    /\ ExecInit
    /\ st = [m \in Msgs |-> Idle]
    /\ sent = 0 /\ sock = <<>> /\ hungUp = FALSE /\ full = FALSE /\ fills = 0
    /\ negotiated \in Mounted
    /\ conn = IF negotiated THEN "loop" ELSE "none"
    /\ inOp = negotiated
    /\ cur = 0
    /\ fids = [f \in Fids |-> IF negotiated /\ f = 1 THEN Base ELSE 0]
    /\ objs = [m \in Msgs \cup {Base} |-> IF m = Base /\ negotiated THEN RootObj ELSE NoObj]
    /\ reqs = <<>> /\ permits = Permits /\ lock = NoCo /\ lockQ = <<>> /\ cancelled = FALSE
    /\ edgeIn = FALSE /\ curIn = FALSE
    /\ edgeOut = FALSE /\ curOut = FALSE /\ outOp = NoCo
    /\ names = {} /\ acc = "accepting"
    /\ token = FALSE /\ trouble = 0 /\ ctl = "idle"

-----------------------------------------------------------------------------
(* The client: it uses the lowest free tag, and flushes a request that is  *)
(* outstanding and that it has not flushed yet.                            *)

Outstanding == {m \in 1..sent : ~st[m].replied}
FreeTags == Tags \ {st[m].tag : m \in Outstanding}
Flushable(t) == {m \in Outstanding : /\ st[m].tag = t
                                     /\ st[m].req.op # "flush"
                                     /\ \A f \in Outstanding : st[f].goal # m}

\* FileSystem::HasConnections
HasConnections == conn \notin {"none", "ended"}

ClientSends(s) ==
    /\ HasConnections /\ ~hungUp
    /\ sent < Len(s) /\ \A i \in 1..sent : st[i].req = s[i]
    /\ FreeTags # {}
    /\ LET m == sent + 1
           r == s[m]
           t == CHOOSE x \in FreeTags : \A y \in FreeTags : x <= y
       IN \E g \in IF r.op = "flush" THEN Flushable(r.old) ELSE {0} :
            /\ st' = [st EXCEPT ![m] = [Idle EXCEPT !.pc = "sent", !.req = r,
                                                    !.tag = t, !.goal = g]]
            /\ sock' = Append(sock, m)
            /\ sent' = m
    /\ edgeIn' = TRUE
    /\ UNCHANGED <<execVars, hungUp, full, fills, handlerVars, curIn, inOp, edgeOut, curOut, outOp, serverVars>>

ClientHangsUp ==
    /\ HasConnections /\ ~hungUp
    /\ trouble < MaxTrouble /\ trouble' = trouble + 1
    /\ hungUp' = TRUE
    /\ edgeIn' = TRUE /\ edgeOut' = TRUE
    /\ UNCHANGED <<execVars, st, sent, sock, full, fills, handlerVars, curIn, inOp, curOut, outOp,
                   names, acc, token, ctl>>

\* The client reads what the server sent: there is room again.
ClientReads ==
    /\ full /\ HasConnections
    /\ full' = FALSE
    /\ edgeOut' = TRUE
    /\ UNCHANGED <<execVars, st, sent, sock, hungUp, fills, handlerVars, edgeIn, curIn, inOp, curOut, outOp, serverVars>>

-----------------------------------------------------------------------------
(* EpollDispatcher, the watcher thread and the cancel token.               *)

\* EpollDispatcher::Notify for EPOLLIN: resume the reader, or remember.
NotifyIn ==
    /\ edgeIn
    /\ edgeIn' = FALSE
    /\ IF inOp THEN Schedule(Conn) /\ inOp' = FALSE /\ UNCHANGED curIn
               ELSE NoSchedule /\ curIn' = TRUE /\ UNCHANGED inOp
    /\ UNCHANGED <<st, clientVars, handlerVars, edgeOut, curOut, outOp, serverVars>>

NotifyOut ==
    /\ edgeOut
    /\ edgeOut' = FALSE
    /\ IF outOp # NoCo THEN Schedule(outOp) /\ outOp' = NoCo /\ UNCHANGED curOut
                       ELSE NoSchedule /\ curOut' = TRUE /\ UNCHANGED outOp
    /\ UNCHANGED <<st, clientVars, handlerVars, edgeIn, curIn, inOp, serverVars>>

\* CancelToken::Cancel reaching the operation the reader registered ...
CancelRecv ==
    /\ cancelled
    /\ inOp
    /\ inOp' = FALSE
    /\ Schedule(Conn)
    /\ UNCHANGED <<st, clientVars, handlerVars, edgeIn, curIn, edgeOut, curOut, outOp, serverVars>>

\* Slip: a send that waits is not registered with the token.
CancelSend_None == FALSE

\* ... and the one a sender registered, which throws ECANCELED.
CancelSend ==
    /\ cancelled
    /\ outOp # NoCo
    /\ outOp' = NoCo
    /\ Schedule(outOp)
    /\ st' = [st EXCEPT ![outOp].lost = TRUE]
    /\ UNCHANGED <<clientVars, handlerVars, edgeIn, curIn, inOp, edgeOut, curOut, serverVars>>

-----------------------------------------------------------------------------
(* HandleConnections                                                       *)

\* AcceptAsync returns the connection followed.  (One that is refused because
\* MaximumConnectionCount are open is closed at once and changes nothing.)
Accept ==
    /\ acc = "accepting" /\ ~token
    /\ conn = "none" /\ conn' = "loop"
    /\ Schedule(Conn)
    /\ UNCHANGED <<st, clientVars, cur, negotiated, fids, objs, reqs, permits, lock, lockQ,
                   cancelled, epollVars, serverVars>>

\* CancelToken::Cancel of the server's token, which cancels its child, the
\* connection's token.
CancelServer ==
    /\ token' = TRUE
    /\ cancelled' = (cancelled \/ HasConnections)
    /\ UNCHANGED <<conn, cur, negotiated, fids, objs, reqs, permits, lock, lockQ>>

\* The accept failed, or was cancelled: the server stops accepting for good and
\* its token ends every connection; WaitGroup::Wait follows.
AcceptEnds ==
    /\ acc = "accepting"
    /\ \/ token /\ UNCHANGED trouble
       \/ ~token /\ trouble < MaxTrouble /\ trouble' = trouble + 1
    /\ acc' = "waiting"
    /\ CancelServer
    /\ UNCHANGED <<execVars, st, clientVars, epollVars, names, ctl>>

WaitGroupDone ==
    /\ acc = "waiting"
    /\ ~HasConnections
    /\ acc' = "done"
    /\ UNCHANGED <<execVars, st, clientVars, handlerVars, epollVars, names, token, trouble, ctl>>

(* The control thread: StopPlan9Server, with or without force.             *)

StopAsked(force) ==
    /\ ctl = "idle"
    /\ trouble < MaxTrouble /\ trouble' = trouble + 1
    /\ ctl' = IF force \/ ~HasConnections THEN "pausing" ELSE "idle"
    /\ UNCHANGED <<execVars, st, clientVars, handlerVars, epollVars, names, acc, token>>

\* FileSystem::Pause: Cancel, and wait until HandleConnections has ended.
Pause ==
    /\ \/ /\ ctl = "pausing"
          /\ ctl' = "waiting"
          /\ CancelServer
       \/ /\ ctl = "waiting" /\ acc = "done"
          /\ ctl' = "stopped"
          /\ UNCHANGED <<token, handlerVars>>
    /\ UNCHANGED <<execVars, st, clientVars, epollVars, names, acc, trouble>>

-----------------------------------------------------------------------------
(* Handler::Run                                                            *)

ConnRuns == owner = Conn
ConnRest == UNCHANGED <<st, sent, hungUp, full, fills, negotiated, fids, objs, lock, lockQ,
                        outOp, serverVars>>
ConnFrame == ConnRest /\ UNCHANGED <<edgeIn, edgeOut, curOut>>

\* A message that does not fit the size negotiated so far.
TooBig(m) == st[m].req.op \in {"write", "read"} /\ ~negotiated

\* One turn of the loop: NextMessage finds a whole message.  The request is
\* registered for Tflush, then it needs a permit to be scheduled.
RunReads ==
    /\ ConnRuns /\ conn = "loop" /\ ~cancelled
    /\ sock # <<>> /\ ~TooBig(Head(sock))
    /\ sock' = Tail(sock)
    /\ reqs' = Append(reqs, Head(sock))
    /\ IF permits > 0
       THEN Schedule(Head(sock)) /\ permits' = permits - 1 /\ UNCHANGED <<conn, cur>>
       ELSE Suspend /\ conn' = "acquire" /\ cur' = Head(sock) /\ UNCHANGED permits
    /\ UNCHANGED <<cancelled, curIn, inOp>>
    /\ ConnFrame

\* RunScheduledTask for the message that waited for its permit.
RunStarts ==
    /\ ConnRuns /\ conn = "start"
    /\ Schedule(cur)
    /\ conn' = "loop"
    /\ cur' = 0
    /\ UNCHANGED <<sock, reqs, permits, cancelled, curIn, inOp>>
    /\ ConnFrame

\* recv would block: EpollDispatcher::Register and CancelToken::Register.
RunWaits ==
    /\ ConnRuns /\ conn = "loop" /\ ~cancelled
    /\ sock = <<>> /\ ~hungUp
    /\ NoSchedule
    /\ conn' = "register"
    /\ UNCHANGED <<sock, cur, reqs, permits, cancelled, curIn, inOp>>
    /\ ConnFrame

RunRegisters ==
    /\ ConnRuns /\ conn = "register"
    /\ CASE curIn -> NoSchedule /\ curIn' = FALSE /\ conn' = "loop" /\ UNCHANGED inOp
         [] ~curIn /\ cancelled -> NoSchedule /\ conn' = "drain" /\ UNCHANGED <<curIn, inOp>>
         [] OTHER -> Suspend /\ inOp' = TRUE /\ conn' = "loop" /\ UNCHANGED curIn
    /\ UNCHANGED <<sock, cur, reqs, permits, cancelled>>
    /\ ConnFrame

\* The token was cancelled, the peer closed, or the message was invalid.
RunBreaks ==
    /\ ConnRuns /\ conn = "loop"
    /\ \/ cancelled
       \/ sock = <<>> /\ hungUp
       \/ sock # <<>> /\ TooBig(Head(sock))
    /\ NoSchedule
    /\ conn' = "drain"
    /\ UNCHANGED <<sock, cur, reqs, permits, cancelled, curIn, inOp>>
    /\ ConnFrame

\* Cancel, then wait until all messages are finished; the socket's destructor
\* takes it out of epoll.
RunDrains ==
    /\ ConnRuns /\ conn \in {"drain", "drained"}
    /\ cancelled' = TRUE
    /\ Suspend
    /\ IF conn = "drained" \/ permits = Permits
       THEN /\ conn' = "ended" /\ permits' = 0
            /\ edgeIn' = FALSE /\ curIn' = FALSE /\ edgeOut' = FALSE /\ curOut' = FALSE
       ELSE /\ conn' = "draining"
            /\ UNCHANGED <<permits, edgeIn, curIn, edgeOut, curOut>>
    /\ UNCHANGED <<sock, cur, reqs, inOp>>
    /\ ConnRest

-----------------------------------------------------------------------------
(* The files: each operation of File with the outcomes it can have.  A     *)
(* File is a path below the root, looked at anew by every operation.       *)

Exists(n) == n = RootName \/ n \in names
IsDir(o) == o.kind = "file" /\ o.name = RootName
Fails(o) == [res |-> "err", names |-> names, obj |-> o]
Raises(o) == [Fails(o) EXCEPT !.res = "throw"]
Works(o) == [Fails(o) EXCEPT !.res = "ok"]

\* What File::Walk needs; it may be refused all the same.
CanWalk(o, n) == IsDir(o) /\ n \in names

\* File::Stat and ValidateExists: an operation on a path works only if it is there.
PathOp(o) ==
    IF o.kind = "file" /\ Exists(o.name) THEN {Works(o), Fails(o)} ELSE {Fails(o)}

\* The operations that look at the path, or change what is behind it.
GetAttr(o) == PathOp(o)
SetAttr(o) == PathOp(o)
StatFs(o) == PathOp(o)
ReadLink(o) == PathOp(o)
Access(o) == PathOp(o)

\* File::Open
Open(o) ==
    IF o.kind = "file" /\ ~o.open /\ Exists(o.name)
    THEN {Works([o EXCEPT !.open = TRUE]), Fails(o)} ELSE {Fails(o)}

\* File::Create: opens or makes the file and moves this fid to it.
Create(o, n) ==
    IF IsDir(o) /\ ~o.open
    THEN {[res |-> "ok", names |-> names \cup {n}, obj |-> [o EXCEPT !.name = n, !.open = TRUE]],
          Fails(o)}
    ELSE {Fails(o)}

\* File::ChildPath: a new name in a directory, which must not exist.
MakeNode(o, n) ==
    IF IsDir(o) /\ n \notin names
    THEN {[res |-> "ok", names |-> names \cup {n}, obj |-> o], Fails(o)} ELSE {Fails(o)}

MkDir(o, n) == MakeNode(o, n)
SymLink(o, n) == MakeNode(o, n)
MkNod(o, n) == MakeNode(o, n)

\* File::Link makes the name for another fid's file, if that is still there.
Link(o, t, n) == IF t.kind = "file" /\ Exists(t.name) THEN MakeNode(o, n) ELSE {Fails(o)}

\* The operations on an open file.  Reading a directory entry, and making the
\* DirectoryEnumerator of a file that is none, throw.
ReadDir(o) ==
    CASE o.kind # "file" \/ ~o.open -> {Fails(o)}
      [] o.kind = "file" /\ o.open /\ ~IsDir(o) -> {Raises(o)}
      [] OTHER -> {Works(o), Fails(o), Raises(o)}

Fsync(o) == IF o.kind = "file" /\ o.open THEN {Works(o), Fails(o)} ELSE {Fails(o)}

\* File::Lock and GetLock always succeed on an open file.
Lock(o) == IF o.kind = "file" /\ o.open THEN {Works(o)} ELSE {Fails(o)}

\* File::UnlinkAt on a directory, File::Remove on the file itself.
UnlinkAt(o, n) ==
    IF IsDir(o) /\ n \in names
    THEN {[res |-> "ok", names |-> names \ {n}, obj |-> o], Fails(o)} ELSE {Fails(o)}

Remove(o) ==
    IF o.kind = "file" /\ o.name \in names
    THEN {[res |-> "ok", names |-> names \ {o.name}, obj |-> o], Fails(o)} ELSE {Fails(o)}

\* File::RenameAt moves a name, File::Rename this file and its path with it.
RenameAt(o, d, n) ==
    IF IsDir(o) /\ IsDir(d)
    THEN {[res |-> "ok", names |-> (names \ {x}) \cup {n}, obj |-> o] : x \in names} \cup {Fails(o)}
    ELSE {Fails(o)}

Rename(o, d, n) ==
    IF o.kind = "file" /\ IsDir(d) /\ o.name \in names
    THEN {[res |-> "ok", names |-> (names \ {o.name}) \cup {n}, obj |-> [o EXCEPT !.name = n]],
          Fails(o)}
    ELSE {Fails(o)}

\* The handlers of these messages look the fids up and call the operation.
FileOutcomes(r, o, d) ==
    CASE r.op = "statfs"   -> StatFs(o)
      [] r.op = "getattr"  -> GetAttr(o)
      [] r.op = "setattr"  -> SetAttr(o)
      [] r.op = "readlink" -> ReadLink(o)
      [] r.op = "access"   -> Access(o)
      [] r.op = "lopen"    -> Open(o)
      [] r.op = "lcreate"  -> Create(o, r.name)
      [] r.op = "symlink"  -> SymLink(o, r.name)
      [] r.op = "mknod"    -> MkNod(o, r.name)
      [] r.op = "mkdir"    -> MkDir(o, r.name)
      [] r.op = "link"     -> Link(o, d, r.name)
      [] r.op = "readdir"  -> ReadDir(o)
      [] r.op = "fsync"    -> Fsync(o)
      [] r.op = "lock"     -> Lock(o)
      [] r.op = "unlinkat" -> UnlinkAt(o, r.name)
      [] r.op = "remove"   -> Remove(o)
      [] r.op = "renameat" -> RenameAt(o, d, r.name)
      [] r.op = "rename"   -> Rename(o, d, r.name)

PairOps == {"link", "renameat", "rename"}
FileOps == PairOps \cup
    {"statfs", "getattr", "setattr", "readlink", "access", "lopen", "lcreate", "symlink", "mknod",
     "mkdir", "readdir", "fsync", "lock", "unlinkat", "remove"}
MakeOps == {"lcreate", "symlink", "mknod", "mkdir", "link", "renameat", "rename"}
NewFidOps == {"attach", "walk", "xattrwalk", "wopen"}

\* A request names the fids and the file its operation needs.
Request ==
    {r \in [op : FileOps \cup NewFidOps \cup {"version", "auth", "flush", "read", "write", "clunk", "xattrcreate"},
            fid : Fids \cup {0}, nfid : Fids \cup {0}, name : Names \cup {RootName}, old : Nat] :
        /\ r.op \notin {"version", "auth", "flush", "attach"} => r.fid \in Fids
        /\ r.op \in NewFidOps \cup PairOps => r.nfid \in Fids
        /\ r.op \in MakeOps => r.name \in Names}

ASSUME ScriptAssumption == \A s \in Scripts : s \in Seq(Request) /\ Len(s) <= MaxMsgs

-----------------------------------------------------------------------------
(* The handlers.  A message's coroutine steps when the owner resumes it or *)
(* on the thread its blocking code runs on.                                *)

Async == {"read", "write", "flush"}
On(m) == owner = m \/ m \in blocked
Park(m) == IF owner = m THEN Suspend ELSE LeaveBlocked(m)

AsyncFrame == UNCHANGED <<clientVars, conn, cur, negotiated, fids, objs, permits, lock, lockQ,
                          cancelled, epollVars, serverVars>>
BlockFrame == UNCHANGED <<clientVars, conn, cur, reqs, permits, lock, lockQ, cancelled, epollVars,
                          acc, token, trouble, ctl>>
SendFrame == UNCHANGED <<sent, sock, hungUp, cur, negotiated, fids, objs,
                         edgeIn, curIn, inOp, edgeOut, serverVars>>

\* Handler::HandleFlush: the first request with the tag that no other Tflush
\* has taken; the answer waits for its end.
HandleFlush(m) ==
    /\ owner = m /\ st[m].pc = "sent" /\ st[m].req.op = "flush"
    /\ LET hits == {i \in 1..Len(reqs) : st[reqs[i]].tag = st[m].req.old /\ st[reqs[i]].by = 0}
       IN IF hits = {}
          THEN NoSchedule /\ st' = [st EXCEPT ![m].pc = "reply", ![m].res = "ok"]
          ELSE LET t == reqs[CHOOSE i \in hits : \A j \in hits : i <= j]
               IN /\ Suspend
                  /\ st' = [st EXCEPT ![t].by = m, ![m].pc = "flushwait",
                                      ![m].res = "ok", ![m].ent = t]
    /\ UNCHANGED reqs /\ AsyncFrame

\* Handler::HandleRead and HandleWrite: an open file's I/O completes later, or
\* at once; anything else is answered on the spot.
HandleIo(m) ==
    /\ owner = m /\ st[m].pc = "sent" /\ st[m].req.op \in {"read", "write"}
    /\ LET e == fids[st[m].req.fid]
           now(r) == NoSchedule /\ st' = [st EXCEPT ![m].pc = "reply", ![m].res = r]
       IN CASE e = 0 -> now("err")
            [] e # 0 /\ objs[e].kind = "file" /\ objs[e].open ->
                 \/ now("ok") \/ now("err")
                 \/ Suspend /\ st' = [st EXCEPT ![m].pc = "io"]
            [] e # 0 /\ objs[e].kind = "xattr" -> now("ok") \/ now("err")
            [] OTHER -> now("err")
    /\ UNCHANGED reqs /\ AsyncFrame

\* CoroutineIoIssuer::Callback
IoCompletes(m, r) ==
    /\ st[m].pc = "io"
    /\ Schedule(m)
    /\ st' = [st EXCEPT ![m].pc = "reply", ![m].res = r, ![m].susp = TRUE]
    /\ UNCHANGED reqs /\ AsyncFrame

\* TaskPromise::Resume: the frames between a sent answer and the coroutine
\* that owns the RequestTracker each wait for their turn.
Unwind(m) ==
    /\ owner = m /\ st[m].pc \in {"hop1", "hop2"}
    /\ Hop
    /\ st' = [st EXCEPT ![m].pc = IF @ = "hop1" THEN "hop2" ELSE "finish"]
    /\ UNCHANGED reqs /\ AsyncFrame

\* BlockingCode for every other message.
EnterBlocking(m) ==
    /\ owner = m /\ st[m].pc = "sent" /\ st[m].req.op \notin Async
    /\ Block
    /\ st' = [st EXCEPT ![m].pc = "lookup"]
    /\ UNCHANGED reqs /\ AsyncFrame

\* Blocking code returns, or throws and skips Unblock.
Returns(m, r) == st' = [st EXCEPT ![m].pc = "unblock", ![m].res = r,
                                   ![m].ent = 0, ![m].ent2 = 0, ![m].tries = 0]
Throws(m) == st' = [st EXCEPT ![m].pc = "reply", ![m].res = "err", ![m].ent = 0, ![m].ent2 = 0]
BlockingAt(m, pc) == m \in blocked /\ st[m].pc = pc /\ NoSchedule

\* Handler::HandleVersion: once for a connection, if the size and the version
\* asked for are supported.
HandleVersion(m) ==
    /\ BlockingAt(m, "lookup") /\ st[m].req.op = "version"
    /\ \/ ~negotiated /\ Returns(m, "ok") /\ negotiated' = TRUE
       \/ Returns(m, "err") /\ UNCHANGED negotiated
    /\ UNCHANGED <<fids, objs, names>> /\ BlockFrame

\* Handler::HandleAttach, ShareList::MakeRoot
HandleAttach(m) ==
    /\ BlockingAt(m, "lookup") /\ st[m].req.op = "attach"
    /\ \/ /\ objs' = [objs EXCEPT ![m] = RootObj]
          /\ st' = [st EXCEPT ![m].pc = "emplace"]
       \/ Returns(m, "err") /\ UNCHANGED objs
    /\ UNCHANGED <<negotiated, fids, names>> /\ BlockFrame

\* XAttr::Clunk sets the attribute a Txattrcreate began, which can fail; the
\* Clunk of any other Fid does nothing.
Clunk(e) == IF objs[e].kind = "xattr" /\ st[e].req.op = "xattrcreate"
            THEN {"ok", "failed"} ELSE {"ok"}

\* Handler::HandleClunk: the fid goes first, whatever its Clunk returns.
HandleClunk(m) ==
    /\ BlockingAt(m, "lookup") /\ st[m].req.op = "clunk"
    /\ LET e == fids[st[m].req.fid]
       IN \E r \in IF e = 0 THEN {"err"} ELSE Clunk(e) : Returns(m, r)
    /\ fids' = [fids EXCEPT ![st[m].req.fid] = 0]
    /\ UNCHANGED <<negotiated, objs, names>> /\ BlockFrame

\* HandleNotSupported and the default of HandleMessage
HandleNotSupported(m) ==
    /\ BlockingAt(m, "lookup") /\ st[m].req.op = "auth"
    /\ Returns(m, "err")
    /\ UNCHANGED <<negotiated, fids, objs, names>> /\ BlockFrame

\* Handler::LookupFid and LookupFidPair
LookupFid(m) ==
    /\ BlockingAt(m, "lookup")
    /\ st[m].req.op \in FileOps \cup {"walk", "wopen", "xattrwalk", "xattrcreate"}
    /\ LET r == st[m].req
           pair == r.op \in PairOps
       IN IF fids[r.fid] = 0 \/ (pair /\ fids[r.nfid] = 0)
          THEN Throws(m)
          ELSE st' = [st EXCEPT ![m].pc = "op", ![m].ent = fids[r.fid],
                                ![m].ent2 = IF pair THEN fids[r.nfid] ELSE 0]
    /\ UNCHANGED <<negotiated, fids, objs, names>> /\ BlockFrame

\* The handlers that only work on the file.
HandleFileOp(m) ==
    /\ BlockingAt(m, "op") /\ st[m].req.op \in FileOps
    /\ LET e == st[m].ent
           d == IF st[m].ent2 = 0 THEN NoObj ELSE objs[st[m].ent2]
       IN \E x \in FileOutcomes(st[m].req, objs[e], d) :
            /\ IF x.res = "throw" THEN Throws(m) ELSE Returns(m, x.res)
            /\ names' = x.names
            /\ objs' = [objs EXCEPT ![e] = x.obj]
    /\ UNCHANGED <<negotiated, fids>> /\ BlockFrame

\* Handler::HandleWalk: a clone walks, and becomes a fid if all names were found.
HandleWalk(m) ==
    /\ BlockingAt(m, "op") /\ st[m].req.op = "walk"
    /\ LET o == objs[st[m].ent]
           n == st[m].req.name
       IN \/ o.kind # "file" /\ Throws(m) /\ UNCHANGED objs
          \/ /\ o.kind = "file" /\ (n = RootName \/ CanWalk(o, n))
             /\ objs' = [objs EXCEPT ![m] = [kind |-> "file", open |-> FALSE,
                                             name |-> IF n = RootName THEN o.name ELSE n]]
             /\ st' = [st EXCEPT ![m].pc = "emplace"]
          \/ o.kind = "file" /\ n # RootName /\ Returns(m, "err") /\ UNCHANGED objs
    /\ UNCHANGED <<negotiated, fids, names>> /\ BlockFrame

\* Handler::HandleXattrWalk and HandleXattrCreate
HandleXattr(m) ==
    /\ BlockingAt(m, "op") /\ st[m].req.op \in {"xattrwalk", "xattrcreate"}
    /\ LET o == objs[st[m].ent]
           walk == st[m].req.op = "xattrwalk"
       IN \/ /\ o.kind = "file" /\ (walk \/ ~o.open)
             /\ objs' = [objs EXCEPT ![m] = [o EXCEPT !.kind = "xattr", !.open = FALSE]]
             /\ st' = [st EXCEPT ![m].pc = IF walk THEN "emplace" ELSE "replace"]
          \/ Returns(m, "err") /\ UNCHANGED objs
    /\ UNCHANGED <<negotiated, fids, names>> /\ BlockFrame

\* Handler::HandleWOpen, find or create: steps 1 and 2 walk to the item, unless
\* it is to be created exclusively.  An answer that makes no fid (not found,
\* stopped) counts as an error here.
WOpenFinds(m) ==
    /\ BlockingAt(m, "op") /\ st[m].req.op = "wopen"
    /\ LET o == objs[st[m].ent]
           n == st[m].req.name
           newFile(x) == objs' = [objs EXCEPT ![m] = [kind |-> "file", open |-> FALSE, name |-> x]]
       IN \/ o.kind # "file" /\ Throws(m) /\ UNCHANGED objs
          \/ /\ o.kind = "file" /\ n = RootName /\ newFile(o.name)
             /\ st' = [st EXCEPT ![m].pc = "wreply", ![m].stat = "created"]
          \/ /\ CanWalk(o, n) /\ newFile(n)
             /\ st' = [st EXCEPT ![m].pc = "wreply", ![m].stat = "opened"]
          \/ /\ IsDir(o) /\ n # RootName /\ newFile(o.name)
             /\ st' = [st EXCEPT ![m].pc = "create"]
          \/ o.kind = "file" /\ n # RootName /\ Returns(m, "err") /\ UNCHANGED objs
    /\ UNCHANGED <<negotiated, fids, names>> /\ BlockFrame

\* ... step 3 creates it, exclusively: File::Create opens the file and moves
\* newFile to it, File::MkDir leaves newFile at the parent.  If it exists by
\* now, look again, at most c_createRetryCount times; any other error ends it ...
WOpenCreates(m) ==
    /\ BlockingAt(m, "create")
    /\ LET n == st[m].req.name
       IN \/ /\ n \notin names
             /\ names' = names \cup {n}
             /\ objs' \in {objs, [objs EXCEPT ![m] = [@ EXCEPT !.open = TRUE, !.name = n]]}
             /\ st' = [st EXCEPT ![m].pc = "wreply", ![m].stat = "created", ![m].made = TRUE]
          \/ /\ n \in names /\ st[m].tries + 1 < 3
             /\ st' = [st EXCEPT ![m].pc = "op", ![m].tries = @ + 1]
             /\ UNCHANGED <<names, objs>>
          \/ Returns(m, "err") /\ objs' = [objs EXCEPT ![m] = NoObj] /\ UNCHANGED names
    /\ UNCHANGED <<negotiated, fids>> /\ BlockFrame

\* ... and steps 4 to 8 check, open and describe it, any of which can fail.
WOpenReplies(m) ==
    /\ BlockingAt(m, "wreply")
    /\ \/ /\ st' = [st EXCEPT ![m].pc = "emplace"]
          /\ objs' \in {objs, [objs EXCEPT ![m] = [@ EXCEPT !.open = TRUE]]}
       \/ Returns(m, "err") /\ objs' = [objs EXCEPT ![m] = NoObj]
    /\ UNCHANGED <<negotiated, fids, names>> /\ BlockFrame

\* Slip: an existing fid is replaced.
EmplaceFid_Replace(m) ==
    /\ BlockingAt(m, "emplace")
    /\ Returns(m, "ok") /\ fids' = [fids EXCEPT ![st[m].req.nfid] = m]
    /\ UNCHANGED <<negotiated, objs, names>> /\ BlockFrame

\* Handler::EmplaceFid
EmplaceFid(m) ==
    /\ BlockingAt(m, "emplace")
    /\ IF fids[st[m].req.nfid] = 0
       THEN Returns(m, "ok") /\ fids' = [fids EXCEPT ![st[m].req.nfid] = m]
       ELSE Throws(m) /\ UNCHANGED fids
    /\ UNCHANGED <<negotiated, objs, names>> /\ BlockFrame

\* The end of HandleXattrCreate: the fid must still be the entry looked up.
ReplaceFid(m) ==
    /\ BlockingAt(m, "replace")
    /\ IF fids[st[m].req.fid] = st[m].ent
       THEN Returns(m, "ok") /\ fids' = [fids EXCEPT ![st[m].req.fid] = m]
       ELSE Throws(m) /\ UNCHANGED fids
    /\ UNCHANGED <<negotiated, objs, names>> /\ BlockFrame

\* The end of BlockingCode: the thread claims the queue, or fails to and lets
\* the owner resume the coroutine.
LeaveBlocking(m) ==
    /\ st[m].pc = "unblock"
    /\ \/ UnblockClaims(m) /\ st' = [st EXCEPT ![m].pc = "reply"]
       \/ UnblockSchedules(m) /\ st' = [st EXCEPT ![m].pc = "reply", ![m].susp = TRUE]
    /\ UNCHANGED reqs /\ AsyncFrame

-----------------------------------------------------------------------------
(* Handler::ProcessMessage: the answer is sent under m_SocketLock.         *)

\* AsyncLock::Lock is held by another: wait in order.
AwaitLock(m) ==
    /\ On(m) /\ st[m].pc = "reply" /\ lock \notin {NoCo, m}
    /\ Park(m)
    /\ lockQ' = Append(lockQ, m)
    /\ st' = [st EXCEPT ![m].susp = TRUE]
    /\ UNCHANGED <<full, fills, conn, reqs, permits, lock, cancelled, curOut, outOp>> /\ SendFrame

\* AsyncLock::Unlock hands the lock to the first waiter.
Unlock == IF lockQ = <<>>
          THEN NoSchedule /\ lock' = NoCo /\ UNCHANGED lockQ
          ELSE Schedule(Head(lockQ)) /\ lock' = Head(lockQ) /\ lockQ' = Tail(lockQ)

AfterSend(m) == IF st[m].susp THEN "hop1" ELSE "finish"

\* SendAsync with the lock: sent ...
SendReply(m) ==
    /\ On(m) /\ st[m].pc = "reply" /\ lock \in {NoCo, m} /\ ~st[m].lost /\ ~full
    /\ Unlock
    /\ st' = [st EXCEPT ![m].pc = AfterSend(m), ![m].replied = TRUE]
    /\ \/ UNCHANGED <<full, fills>>
       \/ fills < MaxFull /\ full' = TRUE /\ fills' = fills + 1
    /\ UNCHANGED <<conn, reqs, permits, cancelled, curOut, outOp>> /\ SendFrame

\* ... failed or cancelled, and the connection is cancelled with it ...
SendFails(m) ==
    /\ On(m) /\ st[m].pc = "reply" /\ lock \in {NoCo, m} /\ (st[m].lost \/ hungUp)
    /\ Unlock
    /\ st' = [st EXCEPT ![m].pc = AfterSend(m), ![m].lost = TRUE]
    /\ cancelled' = TRUE
    /\ UNCHANGED <<full, fills, conn, reqs, permits, curOut, outOp>> /\ SendFrame

\* ... or the buffer is full and the coroutine keeps the lock and waits:
\* EpollDispatcher::Register and CancelToken::Register.
SendBlocks(m) ==
    /\ On(m) /\ st[m].pc = "reply" /\ lock \in {NoCo, m} /\ ~st[m].lost /\ full /\ ~hungUp
    /\ NoSchedule
    /\ lock' = m
    /\ st' = [st EXCEPT ![m].pc = "sendreg"]
    /\ UNCHANGED <<full, fills, conn, reqs, permits, lockQ, cancelled, curOut, outOp>> /\ SendFrame

SendRegisters(m) ==
    /\ On(m) /\ st[m].pc = "sendreg"
    /\ IF curOut \/ cancelled
       THEN /\ NoSchedule /\ curOut' = FALSE /\ UNCHANGED outOp
            /\ st' = [st EXCEPT ![m].pc = "reply", ![m].lost = ~curOut]
       ELSE /\ Park(m) /\ outOp' = m /\ UNCHANGED curOut
            /\ st' = [st EXCEPT ![m].pc = "reply", ![m].susp = TRUE]
    /\ UNCHANGED <<full, fills, conn, reqs, permits, lock, lockQ, cancelled>> /\ SendFrame

\* The task ends: ~RequestTracker takes the request off the list and sets its
\* Event, which resumes the Tflush that waits; AsyncSemaphore::Release resumes
\* the reader that waits for a permit, or for all of them.
Finish(m) ==
    /\ On(m) /\ st[m].pc = "finish"
    /\ LET f == st[m].by
           starts == conn = "acquire"
           drains == conn = "draining" /\ permits + 1 = Permits
       IN /\ queue' = queue \o (IF f = 0 THEN <<>> ELSE <<f>>)
                            \o (IF starts \/ drains THEN <<Conn>> ELSE <<>>)
          /\ IF owner = m THEN owner' = NoCo /\ UNCHANGED blocked
                          ELSE blocked' = blocked \ {m} /\ UNCHANGED owner
          /\ st' = [k \in Msgs |->
                       CASE k = m -> [st[m] EXCEPT !.pc = "done", !.susp = FALSE,
                                                   !.stat = "none", !.made = FALSE]
                         [] k = f -> [st[f] EXCEPT !.pc = "reply", !.susp = TRUE]
                         [] OTHER -> st[k]]
          /\ conn' = IF starts THEN "start" ELSE IF drains THEN "drained" ELSE conn
          /\ permits' = IF starts THEN permits ELSE IF drains THEN 0 ELSE permits + 1
    /\ LET i == CHOOSE j \in 1..Len(reqs) : reqs[j] = m
       IN reqs' = SubSeq(reqs, 1, i - 1) \o SubSeq(reqs, i + 1, Len(reqs))
    /\ UNCHANGED <<full, fills, lock, lockQ, cancelled, curOut, outOp>> /\ SendFrame

-----------------------------------------------------------------------------

Handlers(m) ==
    \/ HandleFlush(m) \/ HandleIo(m) \/ EnterBlocking(m) \/ Unwind(m)
    \/ HandleVersion(m) \/ HandleAttach(m) \/ HandleClunk(m) \/ HandleNotSupported(m)
    \/ LookupFid(m) \/ HandleFileOp(m) \/ HandleWalk(m) \/ HandleXattr(m)
    \/ WOpenFinds(m) \/ WOpenCreates(m) \/ WOpenReplies(m)
    \/ EmplaceFid(m) \/ ReplaceFid(m) \/ LeaveBlocking(m)
    \/ AwaitLock(m) \/ SendReply(m) \/ SendFails(m) \/ SendBlocks(m) \/ SendRegisters(m)
    \/ Finish(m)
    \/ \E r \in {"ok", "err"} : IoCompletes(m, r)

Run == RunReads \/ RunStarts \/ RunWaits \/ RunRegisters \/ RunBreaks \/ RunDrains
Epoll == NotifyIn \/ NotifyOut \/ CancelRecv \/ CancelSend
Threads == Resume /\ UNCHANGED <<st, clientVars, handlerVars, epollVars, serverVars>>
Accepting == WaitGroupDone \/ (token /\ AcceptEnds)

Internal == Run \/ Epoll \/ Threads \/ Accepting \/ Pause \/ \E m \in Msgs : Handlers(m)

Client == \/ \E s \in Scripts : ClientSends(s)
          \/ Accept \/ ClientHangsUp \/ ClientReads

Next == \/ Internal
        \/ Client
        \/ ~token /\ AcceptEnds
        \/ \E force \in BOOLEAN : StopAsked(force)

Spec == Init /\ [][Next]_vars

\* Threads run and I/O completes.
\* The client followed owes nothing: it may stop reading.
FairSpec == Spec /\ WF_vars(Internal)

-----------------------------------------------------------------------------

(* Type invariant. *)
P9TypeOK ==
    /\ queue \in Seq(Coroutines)
    /\ owner \in Coroutines \cup {NoCo} /\ blocked \subseteq Coroutines
    /\ sent \in 0..MaxMsgs /\ fills \in 0..MaxFull
    /\ conn \in {"none", "loop", "register", "start", "acquire", "drain", "draining", "drained", "ended"}
    /\ fids \in [Fids -> 0..Base]
    /\ permits \in 0..Permits
    /\ lock \in Msgs \cup {NoCo} /\ outOp \in Msgs \cup {NoCo}
    /\ names \subseteq Names
    /\ acc \in {"accepting", "waiting", "done"}
    /\ ctl \in {"idle", "pausing", "waiting", "stopped"}

(* Every successful attach, walk, xattrwalk and wopen made its new fid, and *)
(* every clunk that found its fid unmade it, also one that failed to set    *)
(* the attribute: however their steps interleave, a fid is in the table     *)
(* exactly when it was made once more than unmade, and two requests are     *)
(* never both told that they own the same fid.                              *)
FidAccount ==
    \A f \in Fids :
        LET made == {m \in Msgs : /\ st[m].res = "ok" /\ st[m].req.nfid = f
                                  /\ st[m].req.op \in {"attach", "walk", "xattrwalk", "wopen"}}
            gone == {m \in Msgs : /\ st[m].res \in {"ok", "failed"}
                                  /\ st[m].req.fid = f /\ st[m].req.op = "clunk"}
            base == IF f = 1 /\ objs[Base].kind = "file" THEN 1 ELSE 0
        IN Cardinality(made) + base = Cardinality(gone) + (IF fids[f] = 0 THEN 0 ELSE 1)

(* EpollDispatcher::Register fails fast when a second operation waits for   *)
(* EPOLLOUT: of all answers being sent, one at most is past m_SocketLock.   *)
OneSender ==
    Cardinality({m \in Msgs : st[m].pc = "sendreg" \/ outOp = m}) <= 1

(* The Handler is destroyed when Run returns: no request of the connection  *)
(* is still running, and none is registered, when it has ended.             *)
EndedIsDrained ==
    conn = "ended" => /\ reqs = <<>>
                      /\ \A m \in Msgs : \/ st[m].pc \in {"idle", "done"}
                                         \/ \E i \in 1..Len(sock) : sock[i] = m

(* The answer to a Tflush is sent only after the request it took has had    *)
(* its answer sent, or has failed to send it.                               *)
FlushAfterTaken ==
    \A f \in Msgs : (st[f].req.op = "flush" /\ st[f].replied /\ st[f].ent # 0)
                        => st[st[f].ent].replied \/ st[st[f].ent].lost

(* "the client must receive the response to the real request before it      *)
(* receives the Rflush response" (HandleFlush): the request the client      *)
(* meant, the one outstanding with that tag when it sent the Tflush.        *)
FlushAfterReal ==
    \A f \in Msgs : (st[f].req.op = "flush" /\ st[f].replied)
                        => st[st[f].goal].replied \/ st[st[f].goal].lost

(* "Created" is answered only for a file this request created: a name that  *)
(* another request created between the lookup and the create is "opened".   *)
CreatedIsNew ==
    \A m \in Msgs : (st[m].req.op = "wopen" /\ st[m].req.name # RootName /\ st[m].stat # "none")
                        => (st[m].stat = "created" <=> st[m].made)

(* No wakeup is lost between recv and EpollDispatcher::Register: a reader   *)
(* that waits while requests are in its socket has an event on its way.     *)
ReaderWoken == (inOp /\ (sock # <<>> \/ hungUp)) => edgeIn

(* What the server promises in every state: the table of fids accounts for *)
(* its requests, one answer at a time is sent, a flush is answered after   *)
(* what it took, a created file is new, no reader sleeps over a request,   *)
(* and a connection that has ended left nothing running.                   *)
P9Safe ==
    P9TypeOK /\ FidAccount /\ OneSender /\ EndedIsDrained /\ FlushAfterTaken /\ CreatedIsNew /\ ReaderWoken

(* Every request the server read comes to its end, answered or with its    *)
(* connection cancelled, unless the client stops reading for good: no      *)
(* chain of locks, permits, Tflush waits and hops of the queue holds one   *)
(* for ever.  Stopping the server completes even when a client does not    *)
(* read its answers or a request waits for another one.                    *)
P9Live == <>[]((reqs = <<>> \/ full) /\ ctl \notin {"pausing", "waiting"})
=============================================================================
