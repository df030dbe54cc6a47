------------------------------ MODULE Plan9Stub ------------------------------
(***************************************************************************)
(* The file server of FreeBSD/plan9_server.h for a build outside FreeBSD:  *)
(* a forked child that answers the 9P requests of one connection after     *)
(* another from a table of fids, and the parent that starts and stops it.  *)
(*                                                                         *)
(* A path is a sequence of names below the temporary root.  Descriptor     *)
(* numbers are interchangeable; qids, file contents and the wording of     *)
(* errors are left out.  The client keeps 9P's rules: it introduces no fid *)
(* that it already uses on this connection, except to walk a fid in place, *)
(* and a walk has at most 16 names of at most 255 bytes.                   *)
(***************************************************************************)
EXTENDS Integers, Sequences, FiniteSets, FiniteSetsExt

CONSTANTS Fids,      \* fids a client uses; 0 is what a short request means
          MaxFidMap, \* MAX_FID_MAP
          MaxFds,    \* descriptors the child may have besides its root
          MaxStarts  \* starts of the server

ASSUME SbAssumption == MaxFidMap \in Nat /\ MaxFds \in Nat /\ MaxStarts \in Nat

VARIABLES
    sbOn,     \* g_plan9.started
    sbUp,     \* the child runs
    sbConn,   \* a client is connected
    sbMap,    \* g_fid_map; fd = 0 marks an unused slot
    sbFds,    \* open descriptors
    sbTree,   \* the files and directories below the root
    sbRoot,   \* the root directory exists
    sbLeft,   \* a temporary root was left behind
    sbMine,   \* fids the client believes it holds
    sbReply,  \* the last answer
    sbStarts

sbVars == <<sbOn, sbUp, sbConn, sbMap, sbFds, sbTree, sbRoot, sbLeft, sbMine, sbReply, sbStarts>>

Dirs == {<<"d">>}
Files == {<<"f">>, <<"d", "f">>}
SbPaths == {<<>>} \cup Dirs \cup Files
UnusedSlot == [fid |-> 0, fd |-> 0, path |-> <<>>]
NoReply == [type |-> "none", fid |-> 0, path |-> <<>>]

SbInit ==
    /\ sbOn = FALSE /\ sbUp = FALSE /\ sbConn = FALSE
    /\ sbMap = [i \in 1..MaxFidMap |-> UnusedSlot]
    /\ sbFds = {} /\ sbTree = {} /\ sbRoot = FALSE /\ sbLeft = FALSE
    /\ sbMine = {} /\ sbReply = NoReply /\ sbStarts = 0

-----------------------------------------------------------------------------
(* The table.                                                              *)

\* fid_find: the first slot of fid f, or 0.
fid_find(f) ==
    LET slots == {i \in 1..MaxFidMap : sbMap[i].fd # 0 /\ sbMap[i].fid = f}
    IN IF slots = {} THEN 0 ELSE Min(slots)

FreeSlots == {i \in 1..MaxFidMap : sbMap[i].fd = 0}
FreeFds == 1..MaxFds \ sbFds
NewFd == Min(FreeFds)

\* fid_add: the first unused slot.  Whether f is in use is not asked.
fid_add(f, fd, path) == [sbMap EXCEPT ![Min(FreeSlots)] = [fid |-> f, fd |-> fd, path |-> path]]

\* fid_remove: the first slot of f; its descriptor is closed.
fid_remove(f) ==
    IF fid_find(f) = 0 THEN UNCHANGED <<sbMap, sbFds>>
    ELSE /\ sbMap' = [sbMap EXCEPT ![fid_find(f)] = UnusedSlot]
         /\ sbFds' = sbFds \ {sbMap[fid_find(f)].fd}

\* fid_replace: the slot of f gets another descriptor, the old one is closed.
fid_replace(f, fd, path) ==
    /\ sbMap' = [sbMap EXCEPT ![fid_find(f)] = [fid |-> f, fd |-> fd, path |-> path]]
    /\ sbFds' = (sbFds \cup {fd}) \ {sbMap[fid_find(f)].fd}

-----------------------------------------------------------------------------
(* The requests.                                                           *)

Serving == sbUp /\ sbConn
\* What the answer to a walk says is kept; the others only by their kind.
Replies(type, f, path) ==
    sbReply' = IF type = "Rwalk" THEN [type |-> type, fid |-> f, path |-> path]
                                 ELSE [NoReply EXCEPT !.type = IF type = "Rerror" THEN type ELSE "done"]
p9_send_error == Replies("Rerror", 0, <<>>)
ServerFrame == UNCHANGED <<sbOn, sbUp, sbConn, sbLeft, sbStarts>>
Keeps == UNCHANGED <<sbMap, sbFds, sbTree, sbRoot, sbMine>>

\* Tversion, Tflush and every request that is not supported.
Plain(type) == Serving /\ Replies(type, 0, <<>>) /\ Keeps /\ ServerFrame

Tversion == Plain("Rversion")
Tflush == Plain("Rflush")
Unsupported == Plain("Rerror")

\* Slip: the clone keeps the descriptor of the fid it was made from.
Duplicates_Shared(type, g, path) ==
    IF FreeFds = {} \/ FreeSlots = {}
    THEN p9_send_error /\ Keeps
    ELSE /\ sbMap' = fid_add(g, IF sbFds = {} THEN NewFd ELSE Min(sbFds), path)
         /\ sbFds' = IF sbFds = {} THEN {NewFd} ELSE sbFds
         /\ sbMine' = sbMine \cup {g}
         /\ Replies(type, g, path) /\ UNCHANGED <<sbTree, sbRoot>>

\* A new fid for a duplicated descriptor: Tattach and the Twalk of no names.
Duplicates(type, g, path) ==
    IF FreeFds = {} \/ FreeSlots = {}
    THEN p9_send_error /\ Keeps
    ELSE /\ sbMap' = fid_add(g, NewFd, path) /\ sbFds' = sbFds \cup {NewFd}
         /\ sbMine' = sbMine \cup {g}
         /\ Replies(type, g, path) /\ UNCHANGED <<sbTree, sbRoot>>

Tattach(f) ==
    /\ Serving /\ f \notin sbMine
    /\ Duplicates("Rattach", f, <<>>)
    /\ ServerFrame

\* The walk of some names: each is opened in the one before it, which is then
\* closed, except the last: it stays open whatever the end of the walk is.  A
\* request that ends before its names do (short) leaves no new fid.
Walk(g, from, names, short) ==
    LET n == Len(names)
        At(k) == from \o SubSeq(names, 1, k)
        Opens(k) == \A j \in 1..k : At(j) \in sbTree /\ Cardinality(FreeFds) >= (IF j = 1 THEN 1 ELSE 2)
        between == \E k \in 1..n : Opens(k) /\ (k < n \/ short)
        forgotten == IF between THEN {NewFd} ELSE {}
        last == Min(FreeFds \ forgotten)
    IN IF Opens(n) /\ ~short /\ FreeSlots # {}
       THEN /\ sbMap' = fid_add(g, last, At(n)) /\ sbFds' = sbFds \cup forgotten \cup {last}
            /\ sbMine' = sbMine \cup {g} /\ Replies("Rwalk", g, At(n))
       ELSE /\ sbFds' = sbFds \cup forgotten
            /\ UNCHANGED <<sbMap, sbMine>>
            /\ Replies("Rwalk0", g, <<>>)

\* newfid is a new fid, or fid itself.
Twalk(f, g, names, short) ==
    /\ Serving /\ (g = f \/ g \notin sbMine)
    /\ CASE fid_find(f) = 0 -> p9_send_error /\ Keeps
         [] fid_find(f) # 0 /\ names = <<>> -> Duplicates("Rwalk", g, sbMap[fid_find(f)].path)
         [] OTHER -> Walk(g, sbMap[fid_find(f)].path, names, short) /\ UNCHANGED <<sbTree, sbRoot>>
    /\ ServerFrame

\* Tstat, Tread and Twrite look at the fid's descriptor; a write that fails is
\* answered as one of no bytes.
Uses(type, f, ok) ==
    /\ Serving
    /\ IF fid_find(f) # 0 /\ (ok \/ type = "Rwrite")
       THEN Replies(type, f, sbMap[fid_find(f)].path) ELSE p9_send_error
    /\ Keeps /\ ServerFrame

Tstat(f, ok) == Uses("Rstat", f, ok)
Tread(f, ok) == Uses("Rread", f, ok)
Twrite(f, ok) == Uses("Rwrite", f, ok)

Tclunk(f) ==
    /\ Serving /\ fid_remove(f)
    /\ sbMine' = sbMine \ {f}
    /\ Replies("Rclunk", f, <<>>)
    /\ UNCHANGED <<sbTree, sbRoot>> /\ ServerFrame

\* A directory keeps its descriptor; a file is opened again by its path.
Tlopen(f, ok) ==
    LET i == fid_find(f)
        path == sbMap[i].path
    IN /\ Serving
       /\ CASE i = 0 -> p9_send_error /\ Keeps
            [] i # 0 /\ path \notin Files -> Replies("Rlopen", f, path) /\ Keeps
            [] OTHER ->
                 IF ok /\ path \in sbTree /\ FreeFds # {}
                 THEN /\ fid_replace(f, NewFd, path)
                      /\ Replies("Rlopen", f, path) /\ UNCHANGED <<sbTree, sbRoot, sbMine>>
                 ELSE p9_send_error /\ Keeps
       /\ ServerFrame

\* The fid of the directory becomes the fid of the new file.  (A request without
\* a name uses what is on the stack: any name.)
Tlcreate(f, name, ok) ==
    LET i == fid_find(f)
        path == Append(sbMap[i].path, name)
    IN /\ Serving
       /\ IF /\ i # 0 /\ ok /\ FreeFds # {}
             /\ sbMap[i].path \in sbTree \/ (sbMap[i].path = <<>> /\ sbRoot)
             /\ path \in Files
          THEN /\ fid_replace(f, NewFd, path)
               /\ sbTree' = sbTree \cup {path}
               /\ Replies("Rlcreate", f, path) /\ UNCHANGED <<sbRoot, sbMine>>
          ELSE p9_send_error /\ Keeps
       /\ ServerFrame

\* The file, or a directory without entries, is removed; the fid goes, and the
\* answer is the same, whether or not it worked.
Tremove(f) ==
    LET i == fid_find(f)
        path == sbMap[i].path
        empty == \A p \in sbTree : Len(p) > Len(path) => SubSeq(p, 1, Len(path)) # path
    IN /\ Serving
       /\ IF i = 0 THEN p9_send_error /\ Keeps
          ELSE /\ fid_remove(f) /\ sbMine' = sbMine \ {f}
               /\ sbTree' = IF empty THEN sbTree \ {path} ELSE sbTree
               /\ sbRoot' = (sbRoot /\ ~(path = <<>> /\ empty))
               /\ Replies("Rremove", f, path)
       /\ ServerFrame

-----------------------------------------------------------------------------
(* Connections, and the life of the server.                                *)

\* accept, when no client is served.
SbAccept ==
    /\ sbUp /\ ~sbConn /\ sbConn' = TRUE /\ sbMine' = {} /\ sbReply' = NoReply
    /\ UNCHANGED <<sbOn, sbUp, sbMap, sbFds, sbTree, sbRoot, sbLeft, sbStarts>>

\* accept fails, for want of descriptors for instance: the child ends, and its
\* parent does not notice.
SbAcceptFails ==
    /\ sbUp /\ ~sbConn /\ sbUp' = FALSE
    /\ sbMap' = [i \in 1..MaxFidMap |-> UnusedSlot] /\ sbFds' = {} /\ sbReply' = NoReply
    /\ UNCHANGED <<sbOn, sbConn, sbTree, sbRoot, sbLeft, sbMine, sbStarts>>

\* The client hangs up, or its message has a size that is out of range; the table
\* stays as it is.
SbDisconnect ==
    /\ Serving /\ sbConn' = FALSE /\ sbMine' = {} /\ sbReply' = NoReply
    /\ UNCHANGED <<sbOn, sbUp, sbMap, sbFds, sbTree, sbRoot, sbLeft, sbStarts>>

\* Somebody makes a directory in the root.
SbUserMakes(d) ==
    /\ sbUp /\ sbRoot /\ d \notin sbTree /\ sbTree' = sbTree \cup {d}
    /\ UNCHANGED <<sbOn, sbUp, sbConn, sbMap, sbFds, sbRoot, sbLeft, sbMine, sbReply, sbStarts>>

\* plan9_start_server: the root is made first and stays when a later step fails.
SbStart(ok) ==
    /\ ~sbOn /\ sbStarts < MaxStarts /\ sbStarts' = sbStarts + 1
    /\ sbOn' = ok /\ sbUp' = ok /\ sbRoot' = ok /\ sbLeft' = (sbLeft \/ ~ok)
    /\ sbTree' = {} /\ sbFds' = {} /\ sbMap' = [i \in 1..MaxFidMap |-> UnusedSlot]
    /\ sbReply' = NoReply
    /\ UNCHANGED <<sbConn, sbMine>>

\* plan9_stop_server: the child is killed; the files in the root and the empty
\* directories are removed, then the root if it is empty.
SbStop ==
    /\ sbOn /\ sbOn' = FALSE /\ sbUp' = FALSE /\ sbConn' = FALSE /\ sbRoot' = FALSE
    /\ sbLeft' = (sbLeft \/ (sbRoot /\ \E p \in sbTree : Len(p) > 1))
    /\ sbMap' = [i \in 1..MaxFidMap |-> UnusedSlot] /\ sbFds' = {} /\ sbTree' = {}
    /\ sbMine' = {} /\ sbReply' = NoReply
    /\ UNCHANGED sbStarts

SbNames == {<<>>, <<"d">>, <<"f">>, <<"d", "f">>}

SbNext ==
    \/ Tversion \/ Tflush \/ Unsupported \/ SbAccept \/ SbAcceptFails \/ SbDisconnect \/ SbStop
    \/ \E d \in Dirs : SbUserMakes(d)
    \/ \E ok \in BOOLEAN : SbStart(ok)
    \/ \E f \in Fids :
          \/ Tattach(f) \/ Tclunk(f) \/ Tremove(f)
          \/ \E ok \in BOOLEAN : \/ Tstat(f, ok) \/ Tread(f, ok) \/ Twrite(f, ok) \/ Tlopen(f, ok)
                                 \/ \E name \in {"d", "f"} : Tlcreate(f, name, ok)
          \/ \E g \in Fids, names \in SbNames, short \in BOOLEAN : Twalk(f, g, names, short)

SbSpec == SbInit /\ [][SbNext]_sbVars

-----------------------------------------------------------------------------

(* Type invariant. *)
SbTypeOK ==
    /\ sbOn \in BOOLEAN /\ sbUp \in BOOLEAN /\ sbConn \in BOOLEAN /\ sbFds \subseteq 1..MaxFds
    /\ sbMap \in [1..MaxFidMap -> [fid : Fids \cup {0}, fd : 0..MaxFds, path : SbPaths]]
    /\ sbTree \subseteq Dirs \cup Files

(* Every fid owns its descriptor: it is open, and no other fid in the      *)
(* table, however it was cloned, walked, opened again or replaced, would   *)
(* lose its file when this one is clunked.                                 *)
DescriptorsOwned ==
    \A i, j \in 1..MaxFidMap :
        sbMap[i].fd # 0 => sbMap[i].fd \in sbFds /\ (i # j => sbMap[i].fd # sbMap[j].fd)

(* An Rwalk with all its qids means that the new fid is in the table, also *)
(* when the table or the descriptors ran out on the way.                   *)
WalkTruthful ==
    sbReply.type = "Rwalk" =>
        \E i \in 1..MaxFidMap : sbMap[i].fd # 0 /\ sbMap[i].fid = sbReply.fid

(* "Each Plan9 fid maps to a real file descriptor and a path": after an    *)
(* Rwalk the new fid stands for the file the walk led to.                  *)
FidNamesWalked ==
    sbReply.type = "Rwalk" => sbMap[fid_find(sbReply.fid)].path = sbReply.path

(* "Clean up the temp directory recursively": no temporary root is left    *)
(* behind.                                                                 *)
TempRootRemoved == ~sbLeft

(* "Intermediate component: close old cur_fd": every open descriptor       *)
(* belongs to a fid.                                                       *)
NoForgottenDescriptor == sbFds = {sbMap[i].fd : i \in 1..MaxFidMap} \ {0}

(* What the built-in server promises: each descriptor has one owner, and a *)
(* walk is answered with what it reached.                                  *)
StubSafe == SbTypeOK /\ DescriptorsOwned /\ WalkTruthful
=============================================================================
