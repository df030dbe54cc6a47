--------------------------- MODULE P9ServerProofs ---------------------------
(***************************************************************************)
(* The Plan 9 file server, for any number of requests, fids, names, tags   *)
(* and permits: P9Safe.                                                    *)
(*                                                                         *)
(* Three arguments meet here.  A coroutine has one continuation: it runs,  *)
(* is queued, or something holds it (ExecAt, RestAt), so the lock has one  *)
(* holder past it and nobody is resumed twice.  The permits are the        *)
(* requests under way that are missing (PermitAt), so Run returns only     *)
(* when there is none.  And what a handler has answered is known from      *)
(* where it is (Good), so the table of fids can be counted.                *)
(***************************************************************************)
EXTENDS P9Server, FiniteSetTheorems, SequenceTheorems, WellFoundedInduction, TLAPS

Pcs == {"idle", "sent", "flushwait", "io", "lookup", "op", "create", "wreply", "emplace", "replace",
        "unblock", "reply", "sendreg", "hop1", "hop2", "finish", "done"}
Blocking == {"lookup", "op", "create", "wreply", "emplace", "replace", "unblock"}
Rec == [pc : Pcs, req : Request \cup {NoReq}, tag : Nat, goal : Nat, ent : 0..Base, ent2 : 0..Base,
        res : {"none", "ok", "err", "failed"}, tries : Nat, made : BOOLEAN, stat : {"none", "created", "opened"},
        susp : BOOLEAN, by : 0..MaxMsgs, replied : BOOLEAN, lost : BOOLEAN]
Obj == [kind : {"none", "file", "xattr"}, name : Names \cup {RootName}, open : BOOLEAN]
Conns == {"none", "loop", "register", "start", "acquire", "drain", "draining", "drained", "ended"}

In(s, x) == \E i \in 1..Len(s) : s[i] = x
Distinct(s) == \A i, j \in 1..Len(s) : s[i] = s[j] => i = j

ExecTypes == queue \in Seq(Coroutines) /\ owner \in Coroutines \cup {NoCo} /\ blocked \subseteq Msgs
MsgTypes == st \in [Msgs -> Rec]
ClientTypes ==
    /\ sent \in 0..MaxMsgs /\ sock \in Seq(Msgs) /\ hungUp \in BOOLEAN /\ full \in BOOLEAN
    /\ fills \in 0..MaxFull
ConnTypes ==
    /\ conn \in Conns /\ cur \in 0..MaxMsgs /\ reqs \in Seq(Msgs) /\ permits \in Nat
    /\ lock \in Msgs \cup {NoCo} /\ lockQ \in Seq(Msgs) /\ cancelled \in BOOLEAN
FidTypes == fids \in [Fids -> 0..Base] /\ objs \in [1..Base -> Obj] /\ names \subseteq Names
WaitTypes ==
    /\ edgeIn \in BOOLEAN /\ curIn \in BOOLEAN /\ inOp \in BOOLEAN /\ curOut \in BOOLEAN
    /\ outOp \in Msgs \cup {NoCo}
ServerTypes ==
    acc \in {"accepting", "waiting", "done"} /\ ctl \in {"idle", "pausing", "waiting", "stopped"}

(* The requests the client has not sent yet are untouched. *)
IdleAt == \A m \in Msgs : (m > sent => st[m] = Idle) /\ (m <= sent => st[m].pc # "idle")

(* A coroutine has one continuation: it runs, is queued, or something      *)
(* holds it.                                                               *)
Resting(c) == owner # c /\ c \notin blocked /\ ~In(queue, c)
ExecAt ==
    /\ Distinct(queue) /\ ~In(queue, owner) /\ owner \notin blocked
    /\ \A c \in blocked : ~In(queue, c)
RestOf(m) ==
    /\ st[m].pc \in {"idle", "io", "flushwait", "done"} => Resting(m)
    /\ In(sock, m) => st[m].pc = "sent" /\ Resting(m) /\ cur # m
    /\ cur = m => st[m].pc = "sent" /\ Resting(m)
    /\ In(lockQ, m) => st[m].pc = "reply" /\ Resting(m) /\ lock # m
    /\ outOp = m => st[m].pc = "reply" /\ Resting(m) /\ lock = m
    /\ st[m].pc = "sendreg" => lock = m
RestAt == \A m \in Msgs : RestOf(m)
ConnAt ==
    /\ conn \in {"none", "acquire", "draining", "ended"} => Resting(Conn)
    /\ inOp => conn = "loop" /\ Resting(Conn)
    /\ cur # 0 <=> conn \in {"acquire", "start"}

(* The requests under way have the permits that are missing. *)
Active == {m \in Msgs : st[m].pc \notin {"idle", "done"} /\ ~In(sock, m) /\ cur # m}
Promised == IF conn = "start" THEN 1 ELSE 0
PermitAt ==
    /\ conn \notin {"drained", "ended"} => (permits + Cardinality(Active)) + Promised = Permits
    /\ conn \in {"drained", "ended"} => Active = {} /\ permits = 0

(* What is on the list for Tflush. *)
ListAt == \A m \in Msgs : In(reqs, m) <=> st[m].pc \notin {"idle", "done"} /\ ~In(sock, m)
SeqsAt == Distinct(sock) /\ Distinct(lockQ) /\ Distinct(reqs)

(* A Tflush waits for the end of the request it took. *)
TakenAt ==
    \A m \in Msgs :
        /\ st[m].by # 0 /\ st[m].pc # "done" => st[st[m].by].pc = "flushwait" /\ st[st[m].by].ent = m
        /\ st[m].pc \in {"hop1", "hop2", "finish", "done"} => st[m].replied \/ st[m].lost
        /\ st[m].req.op = "flush" /\ st[m].ent # 0 =>
               st[m].ent \in Msgs /\ (st[m].pc = "flushwait" \/ st[st[m].ent].pc = "done")
        /\ st[m].pc = "flushwait" => st[m].req.op = "flush"
        /\ st[m].pc \in Blocking => st[m].req.op \notin Async

(* What a handler has done where it is. *)
Early == {"idle", "sent", "lookup", "op", "create", "wreply", "emplace", "replace", "io"}
Good(s) ==
    /\ s.pc # "idle" => s.req \in Request
    /\ s.pc \in Early => s.res = "none"
    /\ s.pc \in {"idle", "sent", "flushwait"} => ~s.replied
    /\ s.pc = "io" => s.req.op \in {"read", "write"}
    /\ s.pc = "emplace" => s.req.op \in NewFidOps
    /\ s.pc \in {"create", "wreply"} => s.req.op = "wopen"
    /\ s.pc = "create" => s.req.name # RootName
    /\ s.pc = "replace" => s.req.op = "xattrcreate"
    /\ s.pc \in {"op", "create", "replace"} => s.ent # 0
    /\ s.pc = "op" /\ s.req.op \in PairOps => s.ent2 # 0
    /\ s.pc \in {"idle", "sent", "lookup", "op", "create"} => ~s.made
    /\ s.req.op = "wopen" /\ s.req.name # RootName /\ s.stat # "none" => (s.stat = "created" <=> s.made)
HandlerAt == \A m \in Msgs : Good(st[m])

(* No reader registers over a request. *)
RegisterAt == conn = "register" /\ (sock # <<>> \/ hungUp) => edgeIn \/ curIn

P9Inv ==
    /\ ExecTypes /\ MsgTypes /\ ClientTypes /\ ConnTypes /\ FidTypes /\ WaitTypes /\ ServerTypes
    /\ IdleAt /\ ExecAt /\ RestAt /\ SeqsAt /\ ConnAt /\ PermitAt /\ ListAt /\ TakenAt /\ HandlerAt
    /\ RegisterAt /\ FidAccount /\ ReaderWoken

-----------------------------------------------------------------------------
(* Sequences.                                                              *)

LEMMA AppendIn ==
    ASSUME NEW S, NEW s \in Seq(S), NEW x \in S
    PROVE  /\ Append(s, x) \in Seq(S) /\ Append(s, x) # <<>>
           /\ \A y : In(Append(s, x), y) <=> In(s, y) \/ y = x
           /\ Distinct(s) /\ ~In(s, x) => Distinct(Append(s, x))
<1>1. PICK t : t = Append(s, x)
  OBVIOUS
<1>2. PICK n \in Nat : n = Len(s)
  OBVIOUS
<1>3. t \in Seq(S) /\ t # <<>> /\ Len(t) = n + 1 /\ t[n + 1] = x /\ \A i \in 1..n : t[i] = s[i]
  BY <1>1, <1>2, AppendProperties
<1>4. \A i \in 1..(n + 1) : i \in 1..n \/ i = n + 1
  OBVIOUS
<1>5. n + 1 \in 1..(n + 1) /\ \A i \in 1..n : i \in 1..(n + 1) /\ i # n + 1
  OBVIOUS
<1>6. ASSUME NEW y PROVE In(t, y) <=> In(s, y) \/ y = x
  BY <1>2, <1>3, <1>4, <1>5 DEF In
<1>7. ASSUME Distinct(s), ~In(s, x) PROVE Distinct(t)
  BY <1>2, <1>3, <1>4, <1>5, <1>7 DEF In, Distinct
<1> QED BY <1>1, <1>3, <1>6, <1>7

LEMMA TailIn ==
    ASSUME NEW S, NEW s \in Seq(S), s # <<>>
    PROVE  /\ Tail(s) \in Seq(S) /\ Head(s) \in S /\ In(s, Head(s))
           /\ Distinct(s) => Distinct(Tail(s)) /\ \A y : In(Tail(s), y) <=> In(s, y) /\ y # Head(s)
<1>1. PICK t : t = Tail(s)
  OBVIOUS
<1>2. PICK n \in Nat : Len(s) = n + 1
  <2>1. Len(s) \in Nat /\ Len(s) # 0
    OBVIOUS
  <2> QED BY <2>1
<1>3. t \in Seq(S) /\ Len(t) = n /\ Head(s) = s[1] /\ \A i \in 1..n : t[i] = s[i + 1]
  BY <1>1, <1>2
<1>4. 1 \in 1..(n + 1) /\ \A i \in 1..n : i + 1 \in 1..(n + 1) /\ i + 1 # 1
  OBVIOUS
<1>5. \A i \in 1..(n + 1) : i = 1 \/ \E j \in 1..n : i = j + 1
  <2>1. ASSUME NEW i \in 1..(n + 1), i # 1 PROVE i - 1 \in 1..n /\ i = (i - 1) + 1
    BY <2>1
  <2> QED BY <2>1
<1>6. Head(s) \in S /\ In(s, Head(s))
  BY <1>2, <1>3, <1>4 DEF In
<1>7. ASSUME Distinct(s) PROVE Distinct(t)
  <2>1. \A i, j \in 1..n : i + 1 = j + 1 => i = j
    OBVIOUS
  <2> QED BY <1>2, <1>3, <1>4, <1>7, <2>1 DEF Distinct
<1>8. ASSUME Distinct(s), NEW y PROVE In(t, y) <=> In(s, y) /\ y # Head(s)
  <2>1. ASSUME In(t, y) PROVE In(s, y) /\ y # Head(s)
    <3>1. PICK i \in 1..n : t[i] = y
      BY <1>3, <2>1 DEF In
    <3>2. s[i + 1] = y /\ s[i + 1] # s[1]
      BY <1>2, <1>3, <1>4, <1>8, <3>1 DEF Distinct
    <3> QED BY <1>2, <1>3, <1>4, <3>2 DEF In
  <2>2. ASSUME In(s, y), y # Head(s) PROVE In(t, y)
    <3>1. PICK i \in 1..(n + 1) : s[i] = y /\ i # 1
      BY <1>2, <1>3, <2>2 DEF In
    <3>2. PICK j \in 1..n : i = j + 1
      BY <1>5, <3>1
    <3>3. t[j] = y /\ j \in 1..Len(t)
      BY <1>3, <3>1, <3>2
    <3> QED BY <3>3 DEF In
  <2> QED BY <2>1, <2>2
<1> QED BY <1>1, <1>3, <1>6, <1>7, <1>8

LEMMA EmptyIn == Distinct(<<>>) /\ \A x : ~In(<<>>, x)
  BY DEF Distinct, In

LEMMA OnlyMembers ==
    ASSUME NEW S, NEW s \in Seq(S), NEW x, x \notin S
    PROVE  ~In(s, x)
  BY DEF In

(* A number that comes first. *)
LEMMA FirstOf ==
    ASSUME NEW S \in SUBSET Nat, S # {}
    PROVE  \E x \in S : \A y \in S : x <= y
<1>1. PICK x \in S : \A y \in S : ~(<<y, x>> \in OpToRel(<, Nat))
  BY NatLessThanWellFounded, WFMin, Zenon
<1>2. \A y \in S : y \in Nat /\ x \in Nat /\ ~(y < x)
  BY <1>1 DEF OpToRel
<1> QED BY <1>2

(* One element is taken out. *)
Without(s, i) == SubSeq(s, 1, i - 1) \o SubSeq(s, i + 1, Len(s))

LEMMA TakenOut ==
    ASSUME NEW S, NEW s \in Seq(S), NEW i \in 1..Len(s), NEW t, Distinct(s),
           t = Without(s, i)
    PROVE  /\ t \in Seq(S) /\ Distinct(t)
           /\ \A y : In(t, y) <=> In(s, y) /\ y # s[i]
<1>1. PICK n \in Nat : n = Len(s)
  OBVIOUS
<1>2. PICK a, b : a = SubSeq(s, 1, i - 1) /\ b = SubSeq(s, i + 1, n)
  OBVIOUS
<1>3. a \in Seq(S) /\ Len(a) = i - 1 /\ \A j \in 1..(i - 1) : a[j] = s[j]
  BY <1>1, <1>2
<1>4. b \in Seq(S) /\ Len(b) = n - i /\ \A j \in 1..(n - i) : b[j] = s[i + j]
  BY <1>1, <1>2
<1>5. /\ t \in Seq(S) /\ Len(t) = n - 1
      /\ \A j \in 1..(n - 1) : t[j] = IF j < i THEN s[j] ELSE s[j + 1]
  <2>1. t = a \o b
    BY <1>1, <1>2 DEF Without
  <2>2. /\ t \in Seq(S) /\ Len(t) = Len(a) + Len(b)
        /\ \A j \in 1..(Len(a) + Len(b)) : t[j] = IF j <= Len(a) THEN a[j] ELSE b[j - Len(a)]
    <3>1. /\ a \o b \in Seq(S) /\ Len(a \o b) = Len(a) + Len(b)
          /\ \A j \in 1..Len(a) + Len(b) : (a \o b)[j] = IF j <= Len(a) THEN a[j] ELSE b[j - Len(a)]
      <4>1. a \in Seq(S) /\ b \in Seq(S)
        BY <1>3, <1>4
      <4> QED BY <4>1, ConcatProperties
    <3> QED BY <2>1, <3>1
  <2>3. /\ Len(t) = (i - 1) + (n - i)
        /\ \A j \in 1..((i - 1) + (n - i)) : t[j] = IF j <= i - 1 THEN a[j] ELSE b[j - (i - 1)]
    BY <1>3, <1>4, <2>2, Zenon
  <2>4. (i - 1) + (n - i) = n - 1
    BY <1>1
  <2>5. ASSUME NEW j \in 1..(n - 1) PROVE t[j] = IF j < i THEN s[j] ELSE s[j + 1]
    <3>1. CASE j < i
      <4>1. j \in 1..(i - 1) /\ j <= i - 1 /\ j \in 1..((i - 1) + (n - i))
        BY <1>1, <3>1
      <4> QED BY <1>3, <2>3, <3>1, <4>1
    <3>2. CASE ~(j < i)
      <4>1. j - (i - 1) \in 1..(n - i) /\ i + (j - (i - 1)) = j + 1 /\ ~(j <= i - 1)
        BY <1>1, <3>2
      <4>2. t[j] = b[j - (i - 1)]
        <5>1. j \in 1..((i - 1) + (n - i))
          BY <1>1
        <5> QED BY <2>3, <4>1, <5>1
      <4> QED BY <1>4, <3>2, <4>1, <4>2
    <3> QED BY <3>1, <3>2
  <2> QED BY <2>2, <2>3, <2>4, <2>5
<1> HIDE <1>2
<1>6. \A j \in 1..(n - 1) : /\ j < i => j \in 1..n /\ j # i
                            /\ ~(j < i) => j + 1 \in 1..n /\ j + 1 # i
  BY <1>1
<1>7. \A k \in 1..n : \/ k = i
                      \/ k < i /\ k \in 1..(n - 1)
                      \/ k > i /\ k - 1 \in 1..(n - 1) /\ ~(k - 1 < i) /\ (k - 1) + 1 = k
  BY <1>1
<1>8. ASSUME NEW j \in 1..(n - 1) PROVE \E k \in 1..n : k # i /\ t[j] = s[k] /\ k = IF j < i THEN j ELSE j + 1
  BY <1>5, <1>6
<1>9. ASSUME NEW k \in 1..n, k # i PROVE \E j \in 1..(n - 1) : t[j] = s[k]
  BY <1>5, <1>7, <1>9
<1>10. \A y : In(t, y) <=> In(s, y) /\ y # s[i]
  <2>1. ASSUME NEW y, In(t, y) PROVE In(s, y) /\ y # s[i]
    <3>1. PICK j \in 1..(n - 1) : t[j] = y
      BY <1>5, <2>1 DEF In
    <3>2. PICK k \in 1..n : k # i /\ t[j] = s[k]
      BY <1>8
    <3>3. s[k] # s[i]
      BY <1>1, <3>2 DEF Distinct
    <3> QED BY <1>1, <3>1, <3>2, <3>3 DEF In
  <2>2. ASSUME NEW y, In(s, y), y # s[i] PROVE In(t, y)
    <3>1. PICK k \in 1..n : s[k] = y /\ k # i
      BY <1>1, <2>2 DEF In
    <3>2. PICK j \in 1..(n - 1) : t[j] = s[k]
      BY <1>9, <3>1
    <3> QED BY <1>5, <3>1, <3>2 DEF In
  <2> QED BY <2>1, <2>2
<1>11. Distinct(t)
  <2>1. ASSUME NEW j \in 1..(n - 1), NEW k \in 1..(n - 1), t[j] = t[k] PROVE j = k
    <3>1. (IF j < i THEN j ELSE j + 1) = (IF k < i THEN k ELSE k + 1)
      <4>1. PICK a1 \in 1..n : t[j] = s[a1] /\ a1 = IF j < i THEN j ELSE j + 1
        BY <1>8
      <4>2. PICK b1 \in 1..n : t[k] = s[b1] /\ b1 = IF k < i THEN k ELSE k + 1
        BY <1>8
      <4>3. a1 = b1
        BY <1>1, <2>1, <4>1, <4>2 DEF Distinct
      <4> QED BY <4>1, <4>2, <4>3
    <3> QED BY <1>1, <3>1
  <2> QED BY <1>5, <2>1 DEF Distinct
<1> QED BY <1>5, <1>10, <1>11

-----------------------------------------------------------------------------
(* The executor: what each of its steps does to who rests.                 *)

LEMMA Members == /\ Msgs \subseteq Nat /\ Msgs \subseteq Coroutines /\ Conn \in Coroutines /\ Conn \notin Msgs
                 /\ NoCo \notin Coroutines /\ NoCo \notin Msgs /\ 0 \notin Msgs /\ Conn = 0
                 /\ IsFiniteSet(Msgs) /\ Base \notin Msgs /\ Base # 0
                 /\ 1..Base = Msgs \cup {Base} /\ 0..MaxMsgs = Msgs \cup {0}
                 /\ Msgs \subseteq 0..Base /\ 0 \in 0..Base
<1>1. IsFiniteSet(Msgs)
  BY FS_Interval, P9Assumption DEF Msgs
<1> QED BY <1>1, P9Assumption DEF Msgs, Conn, Nobody, Base

ExecInv == ExecTypes /\ ExecAt

LEMMA ExecSame ==
    ASSUME ExecInv, UNCHANGED execVars
    PROVE  ExecInv' /\ \A c : Resting(c)' <=> Resting(c)
  BY DEF ExecInv, ExecTypes, ExecAt, Resting, execVars

LEMMA ExecSchedule ==
    ASSUME ExecInv, NEW d \in Coroutines, Resting(d), Schedule(d)
    PROVE  ExecInv' /\ \A c : Resting(c)' <=> Resting(c) /\ c # d
<1>1. queue' = Append(queue, d) /\ owner' = owner /\ blocked' = blocked
  BY DEF Schedule
<1>2. /\ queue' \in Seq(Coroutines) /\ \A y : In(queue', y) <=> In(queue, y) \/ y = d
      /\ Distinct(queue) /\ ~In(queue, d) => Distinct(queue')
  BY <1>1, AppendIn DEF ExecInv, ExecTypes
<1> QED BY <1>1, <1>2 DEF ExecInv, ExecTypes, ExecAt, Resting

LEMMA ExecSuspend ==
    ASSUME ExecInv, Suspend
    PROVE  ExecInv' /\ \A c \in Coroutines : Resting(c)' <=> Resting(c) \/ c = owner
<1>1. owner' = NoCo /\ queue' = queue /\ blocked' = blocked /\ owner \in Coroutines
  BY DEF Suspend, ExecInv, ExecTypes
<1>2. ~In(queue, NoCo) /\ NoCo \notin blocked
  BY Members, OnlyMembers DEF ExecInv, ExecTypes
<1> QED BY <1>1, <1>2, Members DEF ExecInv, ExecTypes, ExecAt, Resting

LEMMA ExecHop ==
    ASSUME ExecInv, Hop
    PROVE  ExecInv' /\ \A c \in Coroutines : Resting(c)' <=> Resting(c)
<1>1. owner' = NoCo /\ queue' = Append(queue, owner) /\ blocked' = blocked /\ owner \in Coroutines
  BY DEF Hop, ExecInv, ExecTypes
<1>2. /\ queue' \in Seq(Coroutines) /\ \A y : In(queue', y) <=> In(queue, y) \/ y = owner
      /\ Distinct(queue) /\ ~In(queue, owner) => Distinct(queue')
  BY <1>1, AppendIn DEF ExecInv, ExecTypes
<1>3. ~In(queue', NoCo) /\ NoCo \notin blocked
  BY <1>2, Members, OnlyMembers DEF ExecInv, ExecTypes
<1> QED BY <1>1, <1>2, <1>3, Members DEF ExecInv, ExecTypes, ExecAt, Resting

LEMMA ExecBlock ==
    ASSUME ExecInv, Block, owner \in Msgs
    PROVE  ExecInv' /\ \A c \in Coroutines : Resting(c)' <=> Resting(c)
<1>1. owner' = NoCo /\ queue' = queue /\ blocked' = blocked \cup {owner}
  BY DEF Block
<1>2. ~In(queue, NoCo) /\ NoCo \notin blocked'
  BY <1>1, Members, OnlyMembers DEF ExecInv, ExecTypes
<1> QED BY <1>1, <1>2, Members DEF ExecInv, ExecTypes, ExecAt, Resting

LEMMA ExecUnblock ==
    ASSUME ExecInv, NEW d \in Msgs, UnblockClaims(d) \/ UnblockSchedules(d)
    PROVE  ExecInv' /\ \A c \in Coroutines : Resting(c)' <=> Resting(c)
<1>1. CASE UnblockClaims(d)
  BY <1>1, Members DEF UnblockClaims, ExecInv, ExecTypes, ExecAt, Resting
<1>2. CASE UnblockSchedules(d)
  <2>1. owner' = owner /\ queue' = Append(queue, d) /\ blocked' = blocked \ {d} /\ d \in blocked
    BY <1>2 DEF UnblockSchedules
  <2>2. /\ queue' \in Seq(Coroutines) /\ \A y : In(queue', y) <=> In(queue, y) \/ y = d
        /\ Distinct(queue) /\ ~In(queue, d) => Distinct(queue')
    BY <2>1, AppendIn, Members DEF ExecInv, ExecTypes
  <2> QED BY <2>1, <2>2, Members DEF ExecInv, ExecTypes, ExecAt, Resting
<1> QED BY <1>1, <1>2

LEMMA ExecLeave ==
    ASSUME ExecInv, NEW d \in Msgs, LeaveBlocked(d)
    PROVE  ExecInv' /\ \A c \in Coroutines : Resting(c)' <=> Resting(c) \/ c = d
  BY Members DEF LeaveBlocked, ExecInv, ExecTypes, ExecAt, Resting

LEMMA ExecPark ==
    ASSUME ExecInv, NEW d \in Msgs, On(d), Park(d)
    PROVE  ExecInv' /\ \A c \in Coroutines : Resting(c)' <=> Resting(c) \/ c = d
<1>1. CASE owner = d
  BY <1>1, ExecSuspend DEF Park
<1>2. CASE owner # d
  BY <1>2, ExecLeave DEF Park
<1> QED BY <1>1, <1>2

LEMMA ExecResume ==
    ASSUME ExecInv, Resume
    PROVE  ExecInv' /\ \A c \in Coroutines : Resting(c)' <=> Resting(c)
<1>1. owner = NoCo /\ owner' = Head(queue) /\ queue' = Tail(queue) /\ blocked' = blocked /\ queue # <<>>
  BY DEF Resume
<1>2. /\ Tail(queue) \in Seq(Coroutines) /\ Head(queue) \in Coroutines /\ In(queue, Head(queue))
      /\ Distinct(Tail(queue)) /\ \A y : In(Tail(queue), y) <=> In(queue, y) /\ y # Head(queue)
  BY <1>1, TailIn DEF ExecInv, ExecTypes, ExecAt
<1>3. Head(queue) \notin blocked
  BY <1>2 DEF ExecInv, ExecAt
<1> QED BY <1>1, <1>2, <1>3, Members DEF ExecInv, ExecTypes, ExecAt, Resting

(* The end of a task: it leaves, and up to two others are scheduled. *)
LEMMA ExecFinish ==
    ASSUME ExecInv, NEW d \in Msgs, On(d), NEW f \in Msgs \cup {0}, NEW wakes \in BOOLEAN,
           f # 0 => Resting(f), wakes => Resting(Conn),
           queue' = queue \o (IF f = 0 THEN <<>> ELSE <<f>>) \o (IF wakes THEN <<Conn>> ELSE <<>>),
           IF owner = d THEN owner' = NoCo /\ UNCHANGED blocked
                        ELSE blocked' = blocked \ {d} /\ UNCHANGED owner
    PROVE  /\ ExecInv'
           /\ \A c \in Coroutines :
                  Resting(c)' <=> (Resting(c) \/ c = d) /\ (f # 0 => c # f) /\ (wakes => c # Conn)
<1>1. PICK q : q = IF f = 0 THEN queue ELSE Append(queue, f)
  OBVIOUS
<1>2. /\ q \in Seq(Coroutines) /\ Distinct(q)
      /\ \A y : In(q, y) <=> In(queue, y) \/ (f # 0 /\ y = f)
  <2>1. CASE f = 0
    BY <1>1, <2>1 DEF ExecInv, ExecTypes, ExecAt
  <2>2. CASE f # 0
    BY <1>1, <2>2, AppendIn, Members DEF ExecInv, ExecTypes, ExecAt, Resting
  <2> QED BY <2>1, <2>2
<1>3. queue' = IF wakes THEN Append(q, Conn) ELSE q
  <2>1. queue \in Seq(Coroutines) /\ (f # 0 => f \in Coroutines)
    BY Members DEF ExecInv, ExecTypes
  <2>2. queue \o <<>> = queue /\ (f # 0 => queue \o <<f>> = Append(queue, f))
    BY <2>1
  <2>3. q \o <<>> = q /\ q \o <<Conn>> = Append(q, Conn)
    BY <1>2, Members
  <2>4. queue' = q \o (IF wakes THEN <<Conn>> ELSE <<>>)
    BY <1>1, <2>2
  <2> QED BY <2>3, <2>4
<1>4. ~In(q, Conn) \/ ~wakes
  BY <1>2, Members DEF Resting
<1>5. /\ queue' \in Seq(Coroutines) /\ Distinct(queue')
      /\ \A y : In(queue', y) <=> In(queue, y) \/ (f # 0 /\ y = f) \/ (wakes /\ y = Conn)
  <2>1. CASE wakes
    <3>1. /\ Append(q, Conn) \in Seq(Coroutines) /\ \A y : In(Append(q, Conn), y) <=> In(q, y) \/ y = Conn
          /\ Distinct(q) /\ ~In(q, Conn) => Distinct(Append(q, Conn))
      BY <1>2, AppendIn, Members
    <3>2. queue' = Append(q, Conn)
      BY <1>3, <2>1
    <3> HIDE <1>3
    <3> QED BY <1>2, <1>4, <2>1, <3>1, <3>2
  <2>2. CASE ~wakes
    BY <1>2, <1>3, <2>2
  <2> QED BY <2>1, <2>2
<1>6. ~In(queue', NoCo) /\ NoCo \notin blocked
  BY <1>5, Members, OnlyMembers DEF ExecInv, ExecTypes
<1>7. CASE owner = d
  <2>1. owner' = NoCo /\ blocked' = blocked
    BY <1>7
  <2> QED BY <1>5, <1>6, <1>7, <2>1, Members DEF ExecInv, ExecTypes, ExecAt, Resting
<1>8. CASE owner # d
  <2>1. owner' = owner /\ blocked' = blocked \ {d} /\ d \in blocked
    BY <1>8 DEF On
  <2> QED BY <1>5, <1>6, <1>8, <2>1, Members DEF ExecInv, ExecTypes, ExecAt, Resting
<1> QED BY <1>7, <1>8

-----------------------------------------------------------------------------
(* A step of one request: its record changes and keeps what the other      *)
(* requests rely on.                                                       *)

Moves(m, s) ==
    /\ s \in Rec /\ st' = [st EXCEPT ![m] = s] /\ s.req = st[m].req /\ s.by = st[m].by
    /\ st[m].pc \notin {"idle", "flushwait", "done"} /\ s.pc \notin {"idle", "flushwait", "done"}
    /\ s.pc \in {"hop1", "hop2", "finish"} => s.replied \/ s.lost
    /\ s.ent = st[m].ent \/ s.req.op # "flush"
    /\ s.pc \in Blocking => s.req.op \notin Async
    /\ Good(s)

Goes(m, p) == st' = [st EXCEPT ![m].pc = p]
Waits(m, p) == st' = [st EXCEPT ![m].pc = p, ![m].susp = TRUE]
Now(m, r) == st' = [st EXCEPT ![m].pc = "reply", ![m].res = r]
Late(m, r) == st' = [st EXCEPT ![m].pc = "reply", ![m].res = r, ![m].susp = TRUE]
Sleeps(m) == st' = [st EXCEPT ![m].susp = TRUE]
Answered(m, p) == st' = [st EXCEPT ![m].pc = p, ![m].replied = TRUE]
Lost(m, p, b) == st' = [st EXCEPT ![m].pc = p, ![m].lost = b]
LostHere(m) == st' = [st EXCEPT ![m].lost = TRUE]

(* Blocking code returns. *)
LEMMA ReturnsTo ==
    ASSUME MsgTypes, NEW m \in Msgs, NEW r \in {"ok", "err", "failed"},
           Returns(m, r)
    PROVE  \E s \in Rec : /\ st' = [st EXCEPT ![m] = s]
                          /\ s.pc = "unblock" /\ s.req = st[m].req /\ s.by = st[m].by /\ s.ent = 0
                          /\ s.ent2 = 0 /\ s.res = r /\ s.made = st[m].made /\ s.stat = st[m].stat
                          /\ s.replied = st[m].replied /\ s.lost = st[m].lost
<1> DEFINE s == [st[m] EXCEPT !.pc = "unblock", !.res = r, !.ent = 0, !.ent2 = 0, !.tries = 0]
<1>1. st[m] \in Rec
  BY DEF MsgTypes
<1>2. st' = [st EXCEPT ![m] = s]
  BY <1>1 DEF MsgTypes, Returns
<1>3. s \in Rec
  BY <1>1, Members DEF Rec, Pcs
<1>4. /\ s.pc = "unblock" /\ s.req = st[m].req /\ s.by = st[m].by /\ s.ent = 0
      /\ s.ent2 = 0 /\ s.res = r /\ s.made = st[m].made /\ s.stat = st[m].stat
      /\ s.replied = st[m].replied /\ s.lost = st[m].lost
  BY <1>1 DEF Rec
<1> HIDE DEF s
<1> QED BY <1>2, <1>3, <1>4

(* Blocking code throws. *)
LEMMA ThrowsTo ==
    ASSUME MsgTypes, NEW m \in Msgs,
           Throws(m)
    PROVE  \E s \in Rec : /\ st' = [st EXCEPT ![m] = s]
                          /\ s.pc = "reply" /\ s.req = st[m].req /\ s.by = st[m].by /\ s.ent = 0
                          /\ s.ent2 = 0 /\ s.res = "err" /\ s.made = st[m].made /\ s.stat = st[m].stat
                          /\ s.replied = st[m].replied /\ s.lost = st[m].lost
<1> DEFINE s == [st[m] EXCEPT !.pc = "reply", !.res = "err", !.ent = 0, !.ent2 = 0]
<1>1. st[m] \in Rec
  BY DEF MsgTypes
<1>2. st' = [st EXCEPT ![m] = s]
  BY <1>1 DEF MsgTypes, Throws
<1>3. s \in Rec
  BY <1>1, Members DEF Rec, Pcs
<1>4. /\ s.pc = "reply" /\ s.req = st[m].req /\ s.by = st[m].by /\ s.ent = 0
      /\ s.ent2 = 0 /\ s.res = "err" /\ s.made = st[m].made /\ s.stat = st[m].stat
      /\ s.replied = st[m].replied /\ s.lost = st[m].lost
  BY <1>1 DEF Rec
<1> HIDE DEF s
<1> QED BY <1>2, <1>3, <1>4

(* It goes on elsewhere ... *)
LEMMA GoesTo ==
    ASSUME MsgTypes, NEW m \in Msgs, NEW p \in Pcs,
           Goes(m, p)
    PROVE  \E s \in Rec : /\ st' = [st EXCEPT ![m] = s]
                          /\ s.pc = p /\ s.req = st[m].req /\ s.by = st[m].by /\ s.ent = st[m].ent
                          /\ s.ent2 = st[m].ent2 /\ s.res = st[m].res /\ s.made = st[m].made /\ s.stat = st[m].stat
                          /\ s.replied = st[m].replied /\ s.lost = st[m].lost
<1> DEFINE s == [st[m] EXCEPT !.pc = p]
<1>1. st[m] \in Rec
  BY DEF MsgTypes
<1>2. st' = [st EXCEPT ![m] = s]
  BY <1>1 DEF MsgTypes, Goes
<1>3. s \in Rec
  BY <1>1, Members DEF Rec, Pcs
<1>4. /\ s.pc = p /\ s.req = st[m].req /\ s.by = st[m].by /\ s.ent = st[m].ent
      /\ s.ent2 = st[m].ent2 /\ s.res = st[m].res /\ s.made = st[m].made /\ s.stat = st[m].stat
      /\ s.replied = st[m].replied /\ s.lost = st[m].lost
  BY <1>1 DEF Rec
<1> HIDE DEF s
<1> QED BY <1>2, <1>3, <1>4

(* ... or in a resumed coroutine ... *)
LEMMA WaitsFor ==
    ASSUME MsgTypes, NEW m \in Msgs, NEW p \in Pcs,
           Waits(m, p)
    PROVE  \E s \in Rec : /\ st' = [st EXCEPT ![m] = s]
                          /\ s.pc = p /\ s.req = st[m].req /\ s.by = st[m].by /\ s.ent = st[m].ent
                          /\ s.ent2 = st[m].ent2 /\ s.res = st[m].res /\ s.made = st[m].made /\ s.stat = st[m].stat
                          /\ s.replied = st[m].replied /\ s.lost = st[m].lost
<1> DEFINE s == [st[m] EXCEPT !.pc = p, !.susp = TRUE]
<1>1. st[m] \in Rec
  BY DEF MsgTypes
<1>2. st' = [st EXCEPT ![m] = s]
  BY <1>1 DEF MsgTypes, Waits
<1>3. s \in Rec
  BY <1>1, Members DEF Rec, Pcs
<1>4. /\ s.pc = p /\ s.req = st[m].req /\ s.by = st[m].by /\ s.ent = st[m].ent
      /\ s.ent2 = st[m].ent2 /\ s.res = st[m].res /\ s.made = st[m].made /\ s.stat = st[m].stat
      /\ s.replied = st[m].replied /\ s.lost = st[m].lost
  BY <1>1 DEF Rec
<1> HIDE DEF s
<1> QED BY <1>2, <1>3, <1>4

LEMMA Suspends ==
    ASSUME MsgTypes, NEW m \in Msgs,
           Sleeps(m)
    PROVE  \E s \in Rec : /\ st' = [st EXCEPT ![m] = s]
                          /\ s.pc = st[m].pc /\ s.req = st[m].req /\ s.by = st[m].by /\ s.ent = st[m].ent
                          /\ s.ent2 = st[m].ent2 /\ s.res = st[m].res /\ s.made = st[m].made /\ s.stat = st[m].stat
                          /\ s.replied = st[m].replied /\ s.lost = st[m].lost
<1> DEFINE s == [st[m] EXCEPT !.susp = TRUE]
<1>1. st[m] \in Rec
  BY DEF MsgTypes
<1>2. st' = [st EXCEPT ![m] = s]
  BY <1>1 DEF MsgTypes, Sleeps
<1>3. s \in Rec
  BY <1>1, Members DEF Rec, Pcs
<1>4. /\ s.pc = st[m].pc /\ s.req = st[m].req /\ s.by = st[m].by /\ s.ent = st[m].ent
      /\ s.ent2 = st[m].ent2 /\ s.res = st[m].res /\ s.made = st[m].made /\ s.stat = st[m].stat
      /\ s.replied = st[m].replied /\ s.lost = st[m].lost
  BY <1>1 DEF Rec
<1> HIDE DEF s
<1> QED BY <1>2, <1>3, <1>4

(* ... with an answer ... *)
LEMMA AnswersWith ==
    ASSUME MsgTypes, NEW m \in Msgs, NEW r \in {"ok", "err"},
           Now(m, r)
    PROVE  \E s \in Rec : /\ st' = [st EXCEPT ![m] = s]
                          /\ s.pc = "reply" /\ s.req = st[m].req /\ s.by = st[m].by /\ s.ent = st[m].ent
                          /\ s.ent2 = st[m].ent2 /\ s.res = r /\ s.made = st[m].made /\ s.stat = st[m].stat
                          /\ s.replied = st[m].replied /\ s.lost = st[m].lost
<1> DEFINE s == [st[m] EXCEPT !.pc = "reply", !.res = r]
<1>1. st[m] \in Rec
  BY DEF MsgTypes
<1>2. st' = [st EXCEPT ![m] = s]
  BY <1>1 DEF MsgTypes, Now
<1>3. s \in Rec
  BY <1>1, Members DEF Rec, Pcs
<1>4. /\ s.pc = "reply" /\ s.req = st[m].req /\ s.by = st[m].by /\ s.ent = st[m].ent
      /\ s.ent2 = st[m].ent2 /\ s.res = r /\ s.made = st[m].made /\ s.stat = st[m].stat
      /\ s.replied = st[m].replied /\ s.lost = st[m].lost
  BY <1>1 DEF Rec
<1> HIDE DEF s
<1> QED BY <1>2, <1>3, <1>4

LEMMA AnswersLate ==
    ASSUME MsgTypes, NEW m \in Msgs, NEW r \in {"ok", "err"},
           Late(m, r)
    PROVE  \E s \in Rec : /\ st' = [st EXCEPT ![m] = s]
                          /\ s.pc = "reply" /\ s.req = st[m].req /\ s.by = st[m].by /\ s.ent = st[m].ent
                          /\ s.ent2 = st[m].ent2 /\ s.res = r /\ s.made = st[m].made /\ s.stat = st[m].stat
                          /\ s.replied = st[m].replied /\ s.lost = st[m].lost
<1> DEFINE s == [st[m] EXCEPT !.pc = "reply", !.res = r, !.susp = TRUE]
<1>1. st[m] \in Rec
  BY DEF MsgTypes
<1>2. st' = [st EXCEPT ![m] = s]
  BY <1>1 DEF MsgTypes, Late
<1>3. s \in Rec
  BY <1>1, Members DEF Rec, Pcs
<1>4. /\ s.pc = "reply" /\ s.req = st[m].req /\ s.by = st[m].by /\ s.ent = st[m].ent
      /\ s.ent2 = st[m].ent2 /\ s.res = r /\ s.made = st[m].made /\ s.stat = st[m].stat
      /\ s.replied = st[m].replied /\ s.lost = st[m].lost
  BY <1>1 DEF Rec
<1> HIDE DEF s
<1> QED BY <1>2, <1>3, <1>4

(* ... with a file ... *)
LEMMA Opens ==
    ASSUME MsgTypes, NEW m \in Msgs, NEW v \in {"created", "opened"},
           st' = [st EXCEPT ![m].pc = "wreply", ![m].stat = v]
    PROVE  \E s \in Rec : /\ st' = [st EXCEPT ![m] = s]
                          /\ s.pc = "wreply" /\ s.req = st[m].req /\ s.by = st[m].by /\ s.ent = st[m].ent
                          /\ s.ent2 = st[m].ent2 /\ s.res = st[m].res /\ s.made = st[m].made /\ s.stat = v
                          /\ s.replied = st[m].replied /\ s.lost = st[m].lost
<1> DEFINE s == [st[m] EXCEPT !.pc = "wreply", !.stat = v]
<1>1. st[m] \in Rec
  BY DEF MsgTypes
<1>2. st' = [st EXCEPT ![m] = s]
  BY <1>1 DEF MsgTypes
<1>3. s \in Rec
  BY <1>1, Members DEF Rec, Pcs
<1>4. /\ s.pc = "wreply" /\ s.req = st[m].req /\ s.by = st[m].by /\ s.ent = st[m].ent
      /\ s.ent2 = st[m].ent2 /\ s.res = st[m].res /\ s.made = st[m].made /\ s.stat = v
      /\ s.replied = st[m].replied /\ s.lost = st[m].lost
  BY <1>1 DEF Rec
<1> HIDE DEF s
<1> QED BY <1>2, <1>3, <1>4

LEMMA Makes ==
    ASSUME MsgTypes, NEW m \in Msgs,
           st' = [st EXCEPT ![m].pc = "wreply", ![m].stat = "created", ![m].made = TRUE]
    PROVE  \E s \in Rec : /\ st' = [st EXCEPT ![m] = s]
                          /\ s.pc = "wreply" /\ s.req = st[m].req /\ s.by = st[m].by /\ s.ent = st[m].ent
                          /\ s.ent2 = st[m].ent2 /\ s.res = st[m].res /\ s.made = TRUE /\ s.stat = "created"
                          /\ s.replied = st[m].replied /\ s.lost = st[m].lost
<1> DEFINE s == [st[m] EXCEPT !.pc = "wreply", !.stat = "created", !.made = TRUE]
<1>1. st[m] \in Rec
  BY DEF MsgTypes
<1>2. st' = [st EXCEPT ![m] = s]
  BY <1>1 DEF MsgTypes
<1>3. s \in Rec
  BY <1>1, Members DEF Rec, Pcs
<1>4. /\ s.pc = "wreply" /\ s.req = st[m].req /\ s.by = st[m].by /\ s.ent = st[m].ent
      /\ s.ent2 = st[m].ent2 /\ s.res = st[m].res /\ s.made = TRUE /\ s.stat = "created"
      /\ s.replied = st[m].replied /\ s.lost = st[m].lost
  BY <1>1 DEF Rec
<1> HIDE DEF s
<1> QED BY <1>2, <1>3, <1>4

LEMMA TriesAgain ==
    ASSUME MsgTypes, NEW m \in Msgs, NEW n \in Nat,
           st' = [st EXCEPT ![m].pc = "op", ![m].tries = n]
    PROVE  \E s \in Rec : /\ st' = [st EXCEPT ![m] = s]
                          /\ s.pc = "op" /\ s.req = st[m].req /\ s.by = st[m].by /\ s.ent = st[m].ent
                          /\ s.ent2 = st[m].ent2 /\ s.res = st[m].res /\ s.made = st[m].made /\ s.stat = st[m].stat
                          /\ s.replied = st[m].replied /\ s.lost = st[m].lost
<1> DEFINE s == [st[m] EXCEPT !.pc = "op", !.tries = n]
<1>1. st[m] \in Rec
  BY DEF MsgTypes
<1>2. st' = [st EXCEPT ![m] = s]
  BY <1>1 DEF MsgTypes
<1>3. s \in Rec
  BY <1>1, Members DEF Rec, Pcs
<1>4. /\ s.pc = "op" /\ s.req = st[m].req /\ s.by = st[m].by /\ s.ent = st[m].ent
      /\ s.ent2 = st[m].ent2 /\ s.res = st[m].res /\ s.made = st[m].made /\ s.stat = st[m].stat
      /\ s.replied = st[m].replied /\ s.lost = st[m].lost
  BY <1>1 DEF Rec
<1> HIDE DEF s
<1> QED BY <1>2, <1>3, <1>4

(* ... or its answer was sent, or could not be. *)
LEMMA Replies ==
    ASSUME MsgTypes, NEW m \in Msgs, NEW p \in Pcs,
           Answered(m, p)
    PROVE  \E s \in Rec : /\ st' = [st EXCEPT ![m] = s]
                          /\ s.pc = p /\ s.req = st[m].req /\ s.by = st[m].by /\ s.ent = st[m].ent
                          /\ s.ent2 = st[m].ent2 /\ s.res = st[m].res /\ s.made = st[m].made /\ s.stat = st[m].stat
                          /\ s.replied = TRUE /\ s.lost = st[m].lost
<1> DEFINE s == [st[m] EXCEPT !.pc = p, !.replied = TRUE]
<1>1. st[m] \in Rec
  BY DEF MsgTypes
<1>2. st' = [st EXCEPT ![m] = s]
  BY <1>1 DEF MsgTypes, Answered
<1>3. s \in Rec
  BY <1>1, Members DEF Rec, Pcs
<1>4. /\ s.pc = p /\ s.req = st[m].req /\ s.by = st[m].by /\ s.ent = st[m].ent
      /\ s.ent2 = st[m].ent2 /\ s.res = st[m].res /\ s.made = st[m].made /\ s.stat = st[m].stat
      /\ s.replied = TRUE /\ s.lost = st[m].lost
  BY <1>1 DEF Rec
<1> HIDE DEF s
<1> QED BY <1>2, <1>3, <1>4

LEMMA Loses ==
    ASSUME MsgTypes, NEW m \in Msgs, NEW p \in Pcs, NEW b \in BOOLEAN,
           Lost(m, p, b)
    PROVE  \E s \in Rec : /\ st' = [st EXCEPT ![m] = s]
                          /\ s.pc = p /\ s.req = st[m].req /\ s.by = st[m].by /\ s.ent = st[m].ent
                          /\ s.ent2 = st[m].ent2 /\ s.res = st[m].res /\ s.made = st[m].made /\ s.stat = st[m].stat
                          /\ s.replied = st[m].replied /\ s.lost = b
<1> DEFINE s == [st[m] EXCEPT !.pc = p, !.lost = b]
<1>1. st[m] \in Rec
  BY DEF MsgTypes
<1>2. st' = [st EXCEPT ![m] = s]
  BY <1>1 DEF MsgTypes, Lost
<1>3. s \in Rec
  BY <1>1, Members DEF Rec, Pcs
<1>4. /\ s.pc = p /\ s.req = st[m].req /\ s.by = st[m].by /\ s.ent = st[m].ent
      /\ s.ent2 = st[m].ent2 /\ s.res = st[m].res /\ s.made = st[m].made /\ s.stat = st[m].stat
      /\ s.replied = st[m].replied /\ s.lost = b
  BY <1>1 DEF Rec
<1> HIDE DEF s
<1> QED BY <1>2, <1>3, <1>4

LEMMA LosesHere ==
    ASSUME MsgTypes, NEW m \in Msgs,
           LostHere(m)
    PROVE  \E s \in Rec : /\ st' = [st EXCEPT ![m] = s]
                          /\ s.pc = st[m].pc /\ s.req = st[m].req /\ s.by = st[m].by /\ s.ent = st[m].ent
                          /\ s.ent2 = st[m].ent2 /\ s.res = st[m].res /\ s.made = st[m].made /\ s.stat = st[m].stat
                          /\ s.replied = st[m].replied /\ s.lost = TRUE
<1> DEFINE s == [st[m] EXCEPT !.lost = TRUE]
<1>1. st[m] \in Rec
  BY DEF MsgTypes
<1>2. st' = [st EXCEPT ![m] = s]
  BY <1>1 DEF MsgTypes, LostHere
<1>3. s \in Rec
  BY <1>1, Members DEF Rec, Pcs
<1>4. /\ s.pc = st[m].pc /\ s.req = st[m].req /\ s.by = st[m].by /\ s.ent = st[m].ent
      /\ s.ent2 = st[m].ent2 /\ s.res = st[m].res /\ s.made = st[m].made /\ s.stat = st[m].stat
      /\ s.replied = st[m].replied /\ s.lost = TRUE
  BY <1>1 DEF Rec
<1> HIDE DEF s
<1> QED BY <1>2, <1>3, <1>4

-----------------------------------------------------------------------------
(* What an operation on a file can do: it keeps the kind of its object and *)
(* makes no name but one the client gave.                                  *)

Outcome(o) == {x \in [res : {"ok", "err", "throw"}, names : SUBSET Names, obj : Obj] : x.obj.kind = o.kind}

LEMMA Endings ==
    ASSUME NEW o \in Obj, names \subseteq Names
    PROVE  /\ Fails(o) \in Outcome(o) /\ Works(o) \in Outcome(o) /\ Raises(o) \in Outcome(o)
           /\ \A p \in Obj, N \in SUBSET Names :
                  p.kind = o.kind => [res |-> "ok", names |-> N, obj |-> p] \in Outcome(o)
<1>1. Fails(o) \in Outcome(o)
  BY DEF Fails, Outcome
<1>2. Works(o) \in Outcome(o) /\ Raises(o) \in Outcome(o)
  BY DEF Fails, Works, Raises, Outcome
<1>3. ASSUME NEW p \in Obj, NEW N \in SUBSET Names, p.kind = o.kind
      PROVE  [res |-> "ok", names |-> N, obj |-> p] \in Outcome(o)
  BY <1>3 DEF Outcome
<1> QED BY <1>1, <1>2, <1>3

LEMMA PathOutcome ==
    ASSUME NEW o \in Obj, names \subseteq Names
    PROVE  PathOp(o) \subseteq Outcome(o)
  BY Endings DEF PathOp

LEMMA OpenOutcome ==
    ASSUME NEW o \in Obj, names \subseteq Names
    PROVE  Open(o) \subseteq Outcome(o)
<1>1. PICK p : p = [o EXCEPT !.open = TRUE]
  OBVIOUS
<1>2. p \in Obj /\ p.kind = o.kind
  BY <1>1 DEF Obj
<1>3. Works(p) \in Outcome(o)
  BY <1>2 DEF Works, Fails, Outcome
<1> QED BY <1>1, <1>3, Endings DEF Open

LEMMA CreateOutcome ==
    ASSUME NEW o \in Obj, names \subseteq Names, NEW n \in Names
    PROVE  Create(o, n) \subseteq Outcome(o)
<1>1. PICK p : p = [o EXCEPT !.name = n, !.open = TRUE]
  OBVIOUS
<1>2. p \in Obj /\ p.kind = o.kind
  BY <1>1 DEF Obj
<1>3. PICK N \in SUBSET Names : N = names \cup {n}
  OBVIOUS
<1>4. [res |-> "ok", names |-> N, obj |-> p] \in Outcome(o)
  BY <1>2, Endings
<1> QED BY <1>1, <1>3, <1>4, Endings DEF Create

LEMMA NodeOutcome ==
    ASSUME NEW o \in Obj, names \subseteq Names, NEW n \in Names
    PROVE  MakeNode(o, n) \subseteq Outcome(o)
<1>1. PICK N \in SUBSET Names : N = names \cup {n}
  OBVIOUS
<1>2. [res |-> "ok", names |-> N, obj |-> o] \in Outcome(o)
  BY Endings
<1> QED BY <1>1, <1>2, Endings DEF MakeNode

LEMMA UnlinkOutcome ==
    ASSUME NEW o \in Obj, names \subseteq Names, NEW n
    PROVE  UnlinkAt(o, n) \subseteq Outcome(o) /\ Remove(o) \subseteq Outcome(o)
<1>1. ASSUME NEW k PROVE [res |-> "ok", names |-> names \ {k}, obj |-> o] \in Outcome(o)
  <2>1. PICK N \in SUBSET Names : N = names \ {k}
    OBVIOUS
  <2> QED BY <2>1, Endings
<1> QED BY <1>1, Endings DEF UnlinkAt, Remove

LEMMA RenameOutcome ==
    ASSUME NEW o \in Obj, NEW d, names \subseteq Names, NEW n \in Names
    PROVE  RenameAt(o, d, n) \subseteq Outcome(o) /\ Rename(o, d, n) \subseteq Outcome(o)
<1>1. PICK p : p = [o EXCEPT !.name = n]
  OBVIOUS
<1>2. p \in Obj /\ p.kind = o.kind
  BY <1>1 DEF Obj
<1>3. ASSUME NEW k PROVE /\ [res |-> "ok", names |-> (names \ {k}) \cup {n}, obj |-> o] \in Outcome(o)
                         /\ [res |-> "ok", names |-> (names \ {k}) \cup {n}, obj |-> p] \in Outcome(o)
  <2>1. PICK N \in SUBSET Names : N = (names \ {k}) \cup {n}
    OBVIOUS
  <2> QED BY <1>2, <2>1, Endings
<1> QED BY <1>1, <1>3, Endings DEF RenameAt, Rename

LEMMA FileOutcome ==
    ASSUME NEW r \in Request, r.op \in FileOps, NEW o \in Obj, NEW d, names \subseteq Names,
           NEW x \in FileOutcomes(r, o, d)
    PROVE  x.res \in {"ok", "err", "throw"} /\ x.names \subseteq Names /\ x.obj \in Obj /\ x.obj.kind = o.kind
<1>1. r.op \in MakeOps => r.name \in Names
  BY DEF Request
<1>2. x \in Outcome(o)
  <2>1. CASE r.op \in {"statfs", "getattr", "setattr", "readlink", "access"}
    BY <2>1, PathOutcome DEF FileOutcomes, StatFs, GetAttr, SetAttr, ReadLink, Access
  <2>2. CASE r.op = "lopen"
    BY <2>2, OpenOutcome DEF FileOutcomes
  <2>3. CASE r.op = "lcreate"
    BY <1>1, <2>3, CreateOutcome DEF FileOutcomes, MakeOps
  <2>4. CASE r.op \in {"symlink", "mknod", "mkdir"}
    BY <1>1, <2>4, NodeOutcome DEF FileOutcomes, MakeOps, SymLink, MkNod, MkDir
  <2>5. CASE r.op = "link"
    BY <1>1, <2>5, NodeOutcome, Endings DEF FileOutcomes, MakeOps, Link
  <2>6. CASE r.op = "readdir"
    <3>1. ReadDir(o) \subseteq {Works(o), Fails(o), Raises(o)}
      BY DEF ReadDir
    <3> QED BY <2>6, <3>1, Endings DEF FileOutcomes
  <2>7. CASE r.op \in {"fsync", "lock"}
    BY <2>7, Endings DEF FileOutcomes, Fsync, Lock
  <2>8. CASE r.op \in {"unlinkat", "remove"}
    BY <2>8, UnlinkOutcome DEF FileOutcomes
  <2>9. CASE r.op \in {"renameat", "rename"}
    BY <1>1, <2>9, RenameOutcome DEF FileOutcomes, MakeOps
  <2> QED BY <2>1, <2>2, <2>3, <2>4, <2>5, <2>6, <2>7, <2>8, <2>9 DEF FileOps, PairOps
<1> QED BY <1>2 DEF Outcome

-----------------------------------------------------------------------------
(* The handlers of blocking code.                                          *)

Counted == NewFidOps \cup {"clunk"}

(* What it answers does not change the account of the fids. *)
Quiet(m, s) == \/ s.res = st[m].res \/ st[m].req.op \notin Counted
               \/ st[m].res \notin {"ok", "failed"} /\ s.res \notin {"ok", "failed"}

(* A step of blocking code, and one that adds nothing to the account. *)
BlockMove(m) == \E s : Moves(m, s) /\ s.pc \in Blocking \cup {"reply"} /\ Quiet(m, s)

LEMMA BlockReturns ==
    ASSUME MsgTypes, TakenAt, HandlerAt, NEW m \in Msgs, st[m].pc \in Blocking \ {"unblock"},
           NEW r \in {"ok", "err", "failed"}, Returns(m, r)
    PROVE  \E s : Moves(m, s) /\ s.pc = "unblock" /\ s.res = r /\ (r = "err" => Quiet(m, s))
<1>1. PICK s \in Rec : /\ st' = [st EXCEPT ![m] = s]
                       /\ s.pc = "unblock" /\ s.req = st[m].req /\ s.by = st[m].by /\ s.ent = 0
                       /\ s.ent2 = 0 /\ s.res = r /\ s.made = st[m].made /\ s.stat = st[m].stat
  BY ReturnsTo
<1>2. Good(st[m]) /\ st[m].req.op \notin Async /\ st[m].pc \notin {"idle", "flushwait", "done"}
  BY DEF TakenAt, HandlerAt, Blocking
<1>3. st[m].res = "none"
  BY <1>2 DEF Good, Blocking, Early
<1>4. Good(s)
  BY <1>1, <1>2 DEF Good, Early
<1> QED BY <1>1, <1>2, <1>3, <1>4 DEF Moves, Quiet, Blocking, Async

LEMMA BlockThrows ==
    ASSUME MsgTypes, TakenAt, HandlerAt, NEW m \in Msgs, st[m].pc \in Blocking \ {"unblock"}, Throws(m)
    PROVE  BlockMove(m)
<1>1. PICK s \in Rec : /\ st' = [st EXCEPT ![m] = s]
                       /\ s.pc = "reply" /\ s.req = st[m].req /\ s.by = st[m].by /\ s.ent = 0
                       /\ s.ent2 = 0 /\ s.res = "err" /\ s.made = st[m].made /\ s.stat = st[m].stat
  BY ThrowsTo
<1>2. Good(st[m]) /\ st[m].req.op \notin Async /\ st[m].pc \notin {"idle", "flushwait", "done"}
  BY DEF TakenAt, HandlerAt, Blocking
<1>3. st[m].res = "none"
  BY <1>2 DEF Good, Blocking, Early
<1>4. Good(s)
  BY <1>1, <1>2 DEF Good, Early
<1> QED BY <1>1, <1>2, <1>3, <1>4 DEF Moves, Quiet, Blocking, Async, BlockMove

LEMMA BlockFails ==
    ASSUME MsgTypes, TakenAt, HandlerAt, NEW m \in Msgs, st[m].pc \in Blocking \ {"unblock"}, Returns(m, "err")
    PROVE  BlockMove(m)
  BY BlockReturns DEF BlockMove, Blocking

LEMMA BlockDone ==
    ASSUME MsgTypes, TakenAt, HandlerAt, NEW m \in Msgs, st[m].pc \in Blocking \ {"unblock"},
           st[m].req.op \notin Counted, NEW r \in {"ok", "err"}, Returns(m, r)
    PROVE  BlockMove(m)
<1>1. PICK s : Moves(m, s) /\ s.pc = "unblock" /\ s.res = r
  BY BlockReturns
<1> QED BY <1>1 DEF BlockMove, Blocking, Quiet

(* It goes on at another point of the handler. *)
LEMMA BlockGoes ==
    ASSUME MsgTypes, TakenAt, HandlerAt, NEW m \in Msgs, st[m].pc \in Blocking \ {"unblock"},
           NEW p \in Blocking, st' = [st EXCEPT ![m].pc = p],
           \/ p = "emplace" /\ st[m].req.op \in NewFidOps
           \/ p = "create" /\ st[m].req.op = "wopen" /\ st[m].req.name # RootName /\ st[m].pc = "op"
           \/ p = "replace" /\ st[m].req.op = "xattrcreate" /\ st[m].pc = "op"
    PROVE  BlockMove(m)
<1>1. PICK s \in Rec : /\ st' = [st EXCEPT ![m] = s]
                       /\ s.pc = p /\ s.req = st[m].req /\ s.by = st[m].by /\ s.ent = st[m].ent
                       /\ s.ent2 = st[m].ent2 /\ s.res = st[m].res /\ s.made = st[m].made /\ s.stat = st[m].stat
  <2>1. p \in Pcs /\ Goes(m, p)
    BY DEF Blocking, Pcs, Goes
  <2> QED BY <2>1, GoesTo, ZenonT(40)
<1>2. Good(st[m]) /\ st[m].req.op \notin Async /\ st[m].pc \notin {"idle", "flushwait", "done"}
  BY DEF TakenAt, HandlerAt, Blocking
<1>3. st[m].res = "none" /\ p \notin {"idle", "flushwait", "done", "hop1", "hop2", "finish"}
  BY <1>2 DEF Good, Blocking, Early
<1>4. Good(s)
  BY <1>1, <1>2, <1>3 DEF Good, Early
<1> QED BY <1>1, <1>2, <1>3, <1>4 DEF Moves, Quiet, Blocking, BlockMove

LEMMA VersionMoves ==
    ASSUME MsgTypes, TakenAt, HandlerAt, NEW m \in Msgs, HandleVersion(m)
    PROVE  BlockMove(m)
<1>1. PICK r \in {"ok", "err"} : Returns(m, r)
  BY DEF HandleVersion
<1>2. st[m].pc = "lookup" /\ st[m].req.op = "version"
  BY DEF HandleVersion, BlockingAt
<1> QED BY <1>1, <1>2, BlockDone DEF Blocking, Counted, NewFidOps

LEMMA AttachMoves ==
    ASSUME MsgTypes, TakenAt, HandlerAt, NEW m \in Msgs, HandleAttach(m)
    PROVE  BlockMove(m)
<1>1. st[m].pc = "lookup" /\ st[m].req.op = "attach"
  BY DEF HandleAttach, BlockingAt
<1>2. st' = [st EXCEPT ![m].pc = "emplace"] \/ Returns(m, "err")
  BY DEF HandleAttach
<1>3. CASE st' = [st EXCEPT ![m].pc = "emplace"]
  BY <1>1, <1>3, BlockGoes DEF Blocking, NewFidOps
<1> QED BY <1>1, <1>2, <1>3, BlockFails DEF Blocking

LEMMA NotSupportedMoves ==
    ASSUME MsgTypes, TakenAt, HandlerAt, NEW m \in Msgs, HandleNotSupported(m)
    PROVE  BlockMove(m)
  BY BlockFails DEF HandleNotSupported, BlockingAt, Blocking

LEMMA LookupMoves ==
    ASSUME MsgTypes, TakenAt, HandlerAt, FidTypes, NEW m \in Msgs, LookupFid(m)
    PROVE  BlockMove(m)
<1>1. st[m].pc = "lookup" /\ st[m].req.op \in FileOps \cup {"walk", "wopen", "xattrwalk", "xattrcreate"}
  BY DEF LookupFid, BlockingAt
<1>2. CASE Throws(m)
  BY <1>1, <1>2, BlockThrows DEF Blocking
<1>3. CASE ~Throws(m)
  <2>1. PICK e, d : e = fids[st[m].req.fid] /\ d = IF st[m].req.op \in PairOps THEN fids[st[m].req.nfid] ELSE 0
    OBVIOUS
  <2>2. /\ st' = [st EXCEPT ![m].pc = "op", ![m].ent = e, ![m].ent2 = d]
         /\ e # 0 /\ (st[m].req.op \in PairOps => d # 0)
    <3>1. ~(fids[st[m].req.fid] = 0 \/ (st[m].req.op \in PairOps /\ fids[st[m].req.nfid] = 0))
      BY <1>3 DEF LookupFid
    <3>2. st' = [st EXCEPT ![m].pc = "op", ![m].ent = fids[st[m].req.fid],
                           ![m].ent2 = IF st[m].req.op \in PairOps THEN fids[st[m].req.nfid] ELSE 0]
      BY <3>1, ZenonT(40) DEF LookupFid
    <3> QED BY <2>1, <3>1, <3>2
  <2>3. Good(st[m]) /\ st[m].req.op \notin Async
    BY <1>1 DEF TakenAt, HandlerAt, Blocking
  <2>4. st[m].req \in Request
    BY <1>1, <2>3 DEF Good
  <2>5. st[m].req.fid \in Fids /\ (st[m].req.op \in PairOps => st[m].req.nfid \in Fids)
    BY <1>1, <2>4 DEF Request, FileOps, PairOps
  <2>6. e \in 0..Base /\ d \in 0..Base
    BY <2>1, <2>5, Members DEF FidTypes
  <2>7. PICK s \in Rec : /\ st' = [st EXCEPT ![m] = s]
                         /\ s.pc = "op" /\ s.req = st[m].req /\ s.by = st[m].by /\ s.ent = e
                         /\ s.ent2 = d /\ s.res = st[m].res /\ s.made = st[m].made /\ s.stat = st[m].stat
    <3> DEFINE s == [st[m] EXCEPT !.pc = "op", !.ent = e, !.ent2 = d]
    <3>1. st[m] \in Rec
      BY DEF MsgTypes
    <3>2. st' = [st EXCEPT ![m] = s]
      BY <2>2, <3>1 DEF MsgTypes
    <3>3. s \in Rec
      BY <2>6, <3>1 DEF Rec, Pcs
    <3>4. /\ s.pc = "op" /\ s.req = st[m].req /\ s.by = st[m].by /\ s.ent = e
          /\ s.ent2 = d /\ s.res = st[m].res /\ s.made = st[m].made /\ s.stat = st[m].stat
      BY <3>1 DEF Rec
    <3> HIDE DEF s
    <3> QED BY <3>2, <3>3, <3>4
  <2>8. st[m].res = "none" /\ ~st[m].made
    BY <1>1, <2>3 DEF Good, Early
  <2>9. Good(s)
    BY <1>1, <2>3, <2>7, <2>8, <2>2 DEF Good, Early
  <2>10. st[m].req.op # "flush"
    BY <2>3 DEF Async
  <2> QED BY <1>1, <2>3, <2>7, <2>8, <2>9, <2>10 DEF Moves, Quiet, Blocking, BlockMove
<1> QED BY <1>2, <1>3

LEMMA FileOpMoves ==
    ASSUME MsgTypes, TakenAt, HandlerAt, FidTypes, NEW m \in Msgs, HandleFileOp(m)
    PROVE  /\ BlockMove(m)
           /\ \E e \in 1..Base, o \in Obj : objs' = [objs EXCEPT ![e] = o] /\ o.kind = objs[e].kind
           /\ names' \subseteq Names
<1>1. st[m].pc = "op" /\ st[m].req.op \in FileOps
  BY DEF HandleFileOp, BlockingAt
<1>2. st[m].req \in Request /\ st[m].ent # 0 /\ st[m] \in Rec
  BY <1>1 DEF HandlerAt, Good, MsgTypes
<1>3. PICK e : e = st[m].ent
  OBVIOUS
<1>4. e \in 1..Base
  BY <1>2, <1>3, Members DEF Rec
<1>5. PICK d, x : /\ x \in FileOutcomes(st[m].req, objs[e], d)
                  /\ IF x.res = "throw" THEN Throws(m) ELSE Returns(m, x.res)
                  /\ names' = x.names /\ objs' = [objs EXCEPT ![e] = x.obj]
  BY <1>3 DEF HandleFileOp
<1>6. x.res \in {"ok", "err", "throw"} /\ x.names \subseteq Names /\ x.obj \in Obj /\ x.obj.kind = objs[e].kind
  BY <1>1, <1>2, <1>4, <1>5, FileOutcome DEF FidTypes
<1>7. st[m].req.op \notin Counted
  BY <1>1 DEF FileOps, PairOps, Counted, NewFidOps
<1>8. BlockMove(m)
  <2>1. CASE x.res = "throw"
    BY <1>1, <1>5, <2>1, BlockThrows DEF Blocking
  <2>2. CASE x.res # "throw"
    BY <1>1, <1>5, <1>6, <1>7, <2>2, BlockDone DEF Blocking
  <2> QED BY <2>1, <2>2
<1> QED BY <1>4, <1>5, <1>6, <1>8

LEMMA WalkMoves ==
    ASSUME MsgTypes, TakenAt, HandlerAt, FidTypes, NEW m \in Msgs, HandleWalk(m)
    PROVE  /\ BlockMove(m)
           /\ objs' = objs \/ \E o \in Obj : objs' = [objs EXCEPT ![m] = o]
<1>1. st[m].pc = "op" /\ st[m].req.op = "walk"
  BY DEF HandleWalk, BlockingAt
<1>2. st[m].req \in Request /\ st[m].ent # 0 /\ st[m] \in Rec
  BY <1>1 DEF HandlerAt, Good, MsgTypes
<1>3. st[m].ent \in 1..Base /\ st[m].req.name \in Names \cup {RootName}
  BY <1>2, Members DEF Rec, Request
<1>4. objs[st[m].ent].name \in Names \cup {RootName}
  BY <1>3 DEF FidTypes, Obj
<1>5. CASE Throws(m) /\ UNCHANGED objs
  BY <1>1, <1>5, BlockThrows DEF Blocking
<1>6. CASE Returns(m, "err") /\ UNCHANGED objs
  BY <1>1, <1>6, BlockFails DEF Blocking
<1>7. CASE /\ st' = [st EXCEPT ![m].pc = "emplace"]
           /\ \E n \in Names \cup {RootName} :
                  objs' = [objs EXCEPT ![m] = [kind |-> "file", open |-> FALSE, name |-> n]]
  <2>1. \A n \in Names \cup {RootName} : [kind |-> "file", open |-> FALSE, name |-> n] \in Obj
    BY DEF Obj
  <2> QED BY <1>1, <1>7, <2>1, BlockGoes DEF Blocking, NewFidOps
<1> QED BY <1>3, <1>4, <1>5, <1>6, <1>7 DEF HandleWalk

LEMMA XattrMoves ==
    ASSUME MsgTypes, TakenAt, HandlerAt, FidTypes, NEW m \in Msgs, HandleXattr(m)
    PROVE  /\ BlockMove(m)
           /\ objs' = objs \/ \E o \in Obj : objs' = [objs EXCEPT ![m] = o]
<1>1. st[m].pc = "op" /\ st[m].req.op \in {"xattrwalk", "xattrcreate"}
  BY DEF HandleXattr, BlockingAt
<1>2. st[m].req \in Request /\ st[m].ent # 0 /\ st[m] \in Rec
  BY <1>1 DEF HandlerAt, Good, MsgTypes
<1>3. objs[st[m].ent] \in Obj
  BY <1>2, Members DEF Rec, FidTypes
<1>4. CASE Returns(m, "err") /\ UNCHANGED objs
  BY <1>1, <1>4, BlockFails DEF Blocking
<1>5. CASE /\ st' = [st EXCEPT ![m].pc = IF st[m].req.op = "xattrwalk" THEN "emplace" ELSE "replace"]
           /\ objs' = [objs EXCEPT ![m] = [objs[st[m].ent] EXCEPT !.kind = "xattr", !.open = FALSE]]
  <2>1. [objs[st[m].ent] EXCEPT !.kind = "xattr", !.open = FALSE] \in Obj
    BY <1>3 DEF Obj
  <2>2. BlockMove(m)
    <3>1. CASE st[m].req.op = "xattrwalk"
      BY <1>1, <1>5, <3>1, BlockGoes DEF Blocking, NewFidOps
    <3>2. CASE st[m].req.op = "xattrcreate"
      BY <1>1, <1>5, <3>2, BlockGoes DEF Blocking, NewFidOps
    <3> QED BY <1>1, <3>1, <3>2
  <2> QED BY <1>5, <2>1, <2>2
<1> QED BY <1>4, <1>5 DEF HandleXattr

(* The file a Twopen found or made. *)
LEMMA BlockOpens ==
    ASSUME MsgTypes, TakenAt, HandlerAt, NEW m \in Msgs, st[m].pc = "op", st[m].req.op = "wopen",
           NEW v \in {"created", "opened"}, st' = [st EXCEPT ![m].pc = "wreply", ![m].stat = v],
           st[m].req.name # RootName => v = "opened"
    PROVE  BlockMove(m)
<1>1. PICK s \in Rec : /\ st' = [st EXCEPT ![m] = s]
                       /\ s.pc = "wreply" /\ s.req = st[m].req /\ s.by = st[m].by /\ s.ent = st[m].ent
                       /\ s.ent2 = st[m].ent2 /\ s.res = st[m].res /\ s.made = st[m].made /\ s.stat = v
                       /\ s.replied = st[m].replied /\ s.lost = st[m].lost
  BY Opens, ZenonT(40)
<1>2. Good(st[m]) /\ st[m].req.op \notin Async
  BY DEF TakenAt, HandlerAt, Blocking
<1>3. Good(s)
  BY <1>1, <1>2 DEF Good, Early
<1> QED BY <1>1, <1>2, <1>3 DEF Moves, Quiet, Blocking, BlockMove

LEMMA WOpenFindsMoves ==
    ASSUME MsgTypes, TakenAt, HandlerAt, FidTypes, NEW m \in Msgs, WOpenFinds(m)
    PROVE  /\ BlockMove(m)
           /\ objs' = objs \/ \E o \in Obj : objs' = [objs EXCEPT ![m] = o]
<1>1. st[m].pc = "op" /\ st[m].req.op = "wopen"
  BY DEF WOpenFinds, BlockingAt
<1>2. st[m].req \in Request /\ st[m].ent # 0 /\ st[m] \in Rec
  BY <1>1 DEF HandlerAt, Good, MsgTypes
<1>3. objs[st[m].ent] \in Obj /\ st[m].req.name \in Names \cup {RootName}
  BY <1>2, Members DEF Rec, FidTypes, Request
<1>4. PICK o : o = objs[st[m].ent]
  OBVIOUS
<1>5. PICK n : n = st[m].req.name
  OBVIOUS
<1>6. PICK c, p : /\ c = [kind |-> "file", open |-> FALSE, name |-> n]
                  /\ p = [kind |-> "file", open |-> FALSE, name |-> o.name]
  OBVIOUS
<1>7. c \in Obj /\ p \in Obj
  BY <1>3, <1>4, <1>5, <1>6 DEF Obj
<1>8. \/ Throws(m) /\ UNCHANGED objs
      \/ Returns(m, "err") /\ UNCHANGED objs
      \/ /\ objs' = [objs EXCEPT ![m] = p] /\ n = RootName
         /\ st' = [st EXCEPT ![m].pc = "wreply", ![m].stat = "created"]
      \/ objs' = [objs EXCEPT ![m] = c] /\ st' = [st EXCEPT ![m].pc = "wreply", ![m].stat = "opened"]
      \/ objs' = [objs EXCEPT ![m] = p] /\ n # RootName /\ st' = [st EXCEPT ![m].pc = "create"]
  BY <1>4, <1>5, <1>6, ZenonT(40) DEF WOpenFinds
<1>9. CASE Throws(m) /\ UNCHANGED objs
  BY <1>1, <1>9, BlockThrows DEF Blocking
<1>10. CASE Returns(m, "err") /\ UNCHANGED objs
  BY <1>1, <1>10, BlockFails DEF Blocking
<1>11. CASE /\ objs' = [objs EXCEPT ![m] = p] /\ n = RootName
            /\ st' = [st EXCEPT ![m].pc = "wreply", ![m].stat = "created"]
  BY <1>1, <1>5, <1>7, <1>11, BlockOpens
<1>12. CASE objs' = [objs EXCEPT ![m] = c] /\ st' = [st EXCEPT ![m].pc = "wreply", ![m].stat = "opened"]
  BY <1>1, <1>7, <1>12, BlockOpens
<1>13. CASE objs' = [objs EXCEPT ![m] = p] /\ n # RootName /\ st' = [st EXCEPT ![m].pc = "create"]
  BY <1>1, <1>5, <1>7, <1>13, BlockGoes DEF Blocking
<1> QED BY <1>8, <1>9, <1>10, <1>11, <1>12, <1>13

LEMMA WOpenCreatesMoves ==
    ASSUME MsgTypes, TakenAt, HandlerAt, FidTypes, NEW m \in Msgs, WOpenCreates(m)
    PROVE  /\ BlockMove(m) /\ names' \subseteq Names
           /\ objs' = objs \/ \E o \in Obj : objs' = [objs EXCEPT ![m] = o]
<1>1. st[m].pc = "create" /\ st[m] \in Rec
  BY DEF WOpenCreates, BlockingAt, MsgTypes
<1>2. Good(st[m]) /\ st[m].req.op \notin Async
  BY <1>1 DEF TakenAt, HandlerAt, Blocking
<1>3. st[m].req \in Request /\ st[m].req.op = "wopen" /\ st[m].req.name # RootName /\ st[m].ent # 0
  BY <1>1, <1>2 DEF Good
<1>4. st[m].req.name \in Names
  BY <1>3 DEF Request
<1>5. CASE /\ names' = names \cup {st[m].req.name}
           /\ objs' \in {objs, [objs EXCEPT ![m] = [@ EXCEPT !.open = TRUE, !.name = st[m].req.name]]}
           /\ st' = [st EXCEPT ![m].pc = "wreply", ![m].stat = "created", ![m].made = TRUE]
  <2>1. PICK o : o = [objs[m] EXCEPT !.open = TRUE, !.name = st[m].req.name]
    OBVIOUS
  <2>2. o \in Obj /\ (objs' = objs \/ objs' = [objs EXCEPT ![m] = o])
    <3>1. objs[m] \in Obj
      BY Members DEF FidTypes
    <3>2. o \in Obj
      BY <1>4, <2>1, <3>1 DEF Obj
    <3> QED BY <1>5, <2>1, <3>2
  <2>3. PICK s \in Rec : /\ st' = [st EXCEPT ![m] = s]
                         /\ s.pc = "wreply" /\ s.req = st[m].req /\ s.by = st[m].by /\ s.ent = st[m].ent
                         /\ s.ent2 = st[m].ent2 /\ s.res = st[m].res /\ s.made = TRUE /\ s.stat = "created"
    BY <1>5, Makes, ZenonT(40)
  <2>4. Good(s)
    BY <1>1, <1>2, <1>3, <2>3 DEF Good, Early
  <2>5. BlockMove(m)
    BY <1>1, <1>2, <2>3, <2>4 DEF Moves, Quiet, Blocking, BlockMove
  <2> QED BY <1>4, <1>5, <2>2, <2>5 DEF FidTypes
<1>6. CASE /\ UNCHANGED <<names, objs>>
           /\ st' = [st EXCEPT ![m].pc = "op", ![m].tries = st[m].tries + 1]
  <2>2. BlockMove(m)
    <3>1. st[m].tries + 1 \in Nat
      BY <1>1 DEF Rec
    <3>2. PICK s \in Rec : /\ st' = [st EXCEPT ![m] = s]
                           /\ s.pc = "op" /\ s.req = st[m].req /\ s.by = st[m].by /\ s.ent = st[m].ent
                           /\ s.ent2 = st[m].ent2 /\ s.res = st[m].res /\ s.made = st[m].made /\ s.stat = st[m].stat
      BY <1>6, <3>1, TriesAgain
    <3>3. Good(s)
      BY <1>1, <1>2, <1>3, <3>2 DEF Good, Early, PairOps
    <3> QED BY <1>1, <1>2, <3>2, <3>3 DEF Moves, Quiet, Blocking, BlockMove
  <2> QED BY <1>6, <2>2 DEF FidTypes
<1>7. st' = [st EXCEPT ![m].pc = "op", ![m].tries = @ + 1]
         => st' = [st EXCEPT ![m].pc = "op", ![m].tries = st[m].tries + 1]
  OBVIOUS
<1>8. CASE Returns(m, "err") /\ objs' = [objs EXCEPT ![m] = NoObj] /\ UNCHANGED names
  <2>1. NoObj \in Obj
    BY DEF NoObj, Obj
  <2> QED BY <1>1, <1>8, <2>1, BlockFails DEF Blocking, FidTypes
<1> QED BY <1>5, <1>6, <1>7, <1>8 DEF WOpenCreates

LEMMA WOpenRepliesMoves ==
    ASSUME MsgTypes, TakenAt, HandlerAt, FidTypes, NEW m \in Msgs, WOpenReplies(m)
    PROVE  /\ BlockMove(m)
           /\ objs' = objs \/ \E o \in Obj : objs' = [objs EXCEPT ![m] = o]
<1>1. st[m].pc = "wreply"
  BY DEF WOpenReplies, BlockingAt
<1>2. st[m].req.op = "wopen"
  BY <1>1 DEF HandlerAt, Good
<1>3. st' = [st EXCEPT ![m].pc = "emplace"] \/ Returns(m, "err")
  BY DEF WOpenReplies
<1>4. st' = [st EXCEPT ![m].pc = "emplace"] => BlockMove(m)
  BY <1>1, <1>2, BlockGoes DEF Blocking, NewFidOps
<1>5. BlockMove(m)
  BY <1>1, <1>3, <1>4, BlockFails DEF Blocking
<1>6. PICK o : o = [objs[m] EXCEPT !.open = TRUE]
  OBVIOUS
<1>7. o \in Obj /\ NoObj \in Obj
  <2>1. objs[m] \in Obj
    BY Members DEF FidTypes
  <2> QED BY <1>6, <2>1 DEF Obj, NoObj
<1>8. objs' = objs \/ objs' = [objs EXCEPT ![m] = o] \/ objs' = [objs EXCEPT ![m] = NoObj]
  BY <1>6 DEF WOpenReplies
<1> QED BY <1>5, <1>7, <1>8

-----------------------------------------------------------------------------
(* What a step of one request keeps.                                       *)

LEMMA MovesKeeps ==
    ASSUME MsgTypes, IdleAt, TakenAt, HandlerAt, NEW m \in Msgs, NEW s, Moves(m, s), UNCHANGED sent
    PROVE  /\ MsgTypes' /\ IdleAt' /\ TakenAt' /\ HandlerAt'
           /\ st'[m] = s /\ \A k \in Msgs : k # m => st'[k] = st[k]
           /\ \A k \in Msgs : st'[k].pc \in {"idle", "done"} <=> st[k].pc \in {"idle", "done"}
<1>1. /\ s \in Rec /\ st' = [st EXCEPT ![m] = s] /\ s.req = st[m].req /\ s.by = st[m].by
      /\ st[m].pc \notin {"idle", "flushwait", "done"} /\ s.pc \notin {"idle", "flushwait", "done"}
      /\ s.pc \in {"hop1", "hop2", "finish"} => s.replied \/ s.lost
      /\ s.ent = st[m].ent \/ s.req.op # "flush"
      /\ s.pc \in Blocking => s.req.op \notin Async
      /\ Good(s)
  BY DEF Moves
<1>2. MsgTypes' /\ st'[m] = s /\ \A k \in Msgs : k # m => st'[k] = st[k]
  BY <1>1 DEF MsgTypes
<1>3. \A k \in Msgs : st'[k].pc \in {"idle", "done"} <=> st[k].pc \in {"idle", "done"}
  BY <1>1, <1>2
<1>4. IdleAt'
  <2>1. m \in Nat /\ sent' = sent /\ st[m] # Idle
    BY <1>1, Members DEF Idle
  <2>2. ASSUME NEW k \in Msgs PROVE (k > sent => st'[k] = Idle) /\ (k <= sent => st'[k].pc # "idle")
    <3>1. CASE k = m
      <4>1. ~(m > sent)
        BY <2>1 DEF IdleAt
      <4> QED BY <1>1, <1>2, <3>1, <4>1
    <3>2. CASE k # m
      BY <1>2, <3>2 DEF IdleAt
    <3> QED BY <3>1, <3>2
  <2> QED BY <2>1, <2>2 DEF IdleAt
<1>5. HandlerAt'
  BY <1>1, <1>2 DEF HandlerAt
<1>6. TakenAt'
  <2>1. ASSUME NEW k \in Msgs
        PROVE  /\ st'[k].by # 0 /\ st'[k].pc # "done" => st'[st'[k].by].pc = "flushwait" /\ st'[st'[k].by].ent = k
               /\ st'[k].pc \in {"hop1", "hop2", "finish", "done"} => st'[k].replied \/ st'[k].lost
               /\ st'[k].req.op = "flush" /\ st'[k].ent # 0 =>
                      st'[k].ent \in Msgs /\ (st'[k].pc = "flushwait" \/ st'[st'[k].ent].pc = "done")
               /\ st'[k].pc = "flushwait" => st'[k].req.op = "flush"
               /\ st'[k].pc \in Blocking => st'[k].req.op \notin Async
    <3>1. /\ st[k].by # 0 /\ st[k].pc # "done" => st[st[k].by].pc = "flushwait" /\ st[st[k].by].ent = k
          /\ st[k].pc \in {"hop1", "hop2", "finish", "done"} => st[k].replied \/ st[k].lost
          /\ st[k].req.op = "flush" /\ st[k].ent # 0 =>
                 st[k].ent \in Msgs /\ (st[k].pc = "flushwait" \/ st[st[k].ent].pc = "done")
          /\ st[k].pc = "flushwait" => st[k].req.op = "flush"
          /\ st[k].pc \in Blocking => st[k].req.op \notin Async
      BY DEF TakenAt
    <3>2. st[k].by \in Msgs \cup {0}
      BY Members DEF MsgTypes, Rec
    <3>3. CASE k = m
      <4>1. st[m].by # 0 => st[m].by # m /\ st[m].by \in Msgs
        BY <1>1, <3>1, <3>2, <3>3
      <4>2. s.by # 0 => st'[s.by] = st[s.by]
        BY <1>1, <1>2, <4>1
      <4>3. s.req.op = "flush" /\ s.ent # 0 => s.ent \in Msgs /\ st[s.ent].pc = "done" /\ st'[s.ent] = st[s.ent]
        BY <1>1, <1>2, <3>1, <3>3
      <4> HIDE DEF Blocking, Async
      <4> QED BY <1>1, <1>2, <3>1, <3>3, <4>2, <4>3
    <3>4. CASE k # m
      <4>1. st'[k] = st[k]
        BY <1>2, <3>4
      <4>2. st[k].by # 0 /\ st[k].pc # "done" => st'[st[k].by] = st[st[k].by]
        BY <1>1, <1>2, <3>1, <3>2
      <4>3. st[k].req.op = "flush" /\ st[k].ent # 0 /\ st[st[k].ent].pc = "done" => st'[st[k].ent] = st[st[k].ent]
        BY <1>1, <1>2, <3>1
      <4> QED BY <3>1, <4>1, <4>2, <4>3
    <3> QED BY <3>3, <3>4
  <2> QED BY <2>1 DEF TakenAt
<1> QED BY <1>2, <1>3, <1>4, <1>5, <1>6

(* The requests under way, and the list. *)
LEMMA ActiveKept ==
    ASSUME \A k \in Msgs : st'[k].pc \in {"idle", "done"} <=> st[k].pc \in {"idle", "done"},
           UNCHANGED <<sock, cur>>
    PROVE  Active' = Active /\ (ListAt /\ UNCHANGED reqs => ListAt')
<1>1. Active' = Active
  BY DEF Active
<1>2. ASSUME ListAt, UNCHANGED reqs PROVE ListAt'
  BY <1>2 DEF ListAt
<1> QED BY <1>1, <1>2

(* The other requests rest as before. *)
LEMMA OthersRest ==
    ASSUME RestAt, NEW m \in Msgs, \A k \in Msgs : k # m => st'[k].pc = st[k].pc,
           \A c \in Coroutines : c # m => (Resting(c)' <=> Resting(c)),
           UNCHANGED <<sock, cur, lockQ, lock, outOp>>, RestOf(m)'
    PROVE  RestAt'
<1>1. ASSUME NEW k \in Msgs, k # m PROVE RestOf(k)'
  <2>1. RestOf(k) /\ st'[k].pc = st[k].pc /\ (Resting(k)' <=> Resting(k))
    BY <1>1, Members DEF RestAt
  <2> QED BY <2>1 DEF RestOf
<1> QED BY <1>1 DEF RestAt

-----------------------------------------------------------------------------
(* The account of the fids.                                                *)

Made(f) == {m \in Msgs : st[m].res = "ok" /\ st[m].req.nfid = f /\ st[m].req.op \in NewFidOps}
Gone(f) == {m \in Msgs : /\ st[m].res \in {"ok", "failed"}
                         /\ st[m].req.fid = f /\ st[m].req.op = "clunk"}
Mounts(f) == IF f = 1 /\ objs[Base].kind = "file" THEN 1 ELSE 0
Held(f) == IF fids[f] = 0 THEN 0 ELSE 1
Account == \A f \in Fids : Cardinality(Made(f)) + Mounts(f) = Cardinality(Gone(f)) + Held(f)

LEMMA AccountIs == (FidAccount <=> Account) /\ (FidAccount' <=> Account')
<1>1. FidAccount <=> Account
  BY DEF FidAccount, Account, Made, Gone, Mounts, Held, NewFidOps
<1>2. FidAccount' <=> Account'
  BY DEF FidAccount, Account, Made, Gone, Mounts, Held, NewFidOps
<1> QED BY <1>1, <1>2

LEMMA QuietKeeps ==
    ASSUME MsgTypes, NEW m \in Msgs, NEW s, Moves(m, s), Quiet(m, s), NEW f
    PROVE  Made(f)' = Made(f) /\ Gone(f)' = Gone(f)
<1>1. st'[m] = s /\ s.req = st[m].req /\ \A k \in Msgs : k # m => st'[k] = st[k]
  BY DEF MsgTypes, Moves
<1>2. \A k \in Msgs : st'[k].req = st[k].req
  BY <1>1
<1>3. ASSUME NEW k \in Msgs, st[k].req.op \in Counted
      PROVE  (st'[k].res = "ok" <=> st[k].res = "ok") /\ (st'[k].res = "failed" <=> st[k].res = "failed")
  <2>1. CASE k = m
    BY <1>1, <1>3, <2>1 DEF Quiet
  <2>2. CASE k # m
    BY <1>1, <2>2
  <2> QED BY <2>1, <2>2
<1>4. \A g : Made(g)' = Made(g) /\ Gone(g)' = Gone(g)
  BY <1>2, <1>3 DEF Made, Gone, Counted
<1> QED BY <1>4

LEMMA AccountKept ==
    ASSUME FidAccount, \A f \in Fids : Made(f)' = Made(f) /\ Gone(f)' = Gone(f) /\ (fids'[f] = 0 <=> fids[f] = 0),
           objs'[Base].kind = objs[Base].kind
    PROVE  FidAccount'
<1>1. \A f \in Fids : Mounts(f)' = Mounts(f) /\ Held(f)' = Held(f)
  BY DEF Mounts, Held
<1> QED BY <1>1, AccountIs DEF Account

LEMMA Counts ==
    ASSUME NEW f
    PROVE  /\ IsFiniteSet(Made(f)) /\ Cardinality(Made(f)) \in Nat
           /\ IsFiniteSet(Gone(f)) /\ Cardinality(Gone(f)) \in Nat
<1>1. IsFiniteSet(Made(f)) /\ IsFiniteSet(Gone(f))
  BY Members, FS_Subset DEF Made, Gone
<1> QED BY <1>1, FS_CardinalityType

(* Handler::EmplaceFid: the account and the table gain the same fid. *)
LEMMA EmplaceCounts ==
    ASSUME MsgTypes, TakenAt, HandlerAt, FidTypes, FidAccount, NEW m \in Msgs, EmplaceFid(m)
    PROVE  /\ \E s : Moves(m, s) /\ s.pc \in Blocking \cup {"reply"}
           /\ FidTypes' /\ FidAccount'
<1>1. st[m].pc = "emplace" /\ UNCHANGED <<objs, names>>
  BY DEF EmplaceFid, BlockingAt
<1>2. Good(st[m])
  BY DEF HandlerAt
<1>3. st[m].res = "none" /\ st[m].req \in Request /\ st[m].req.op \in NewFidOps
  BY <1>1, <1>2 DEF Good, Early
<1>4. PICK f \in Fids : f = st[m].req.nfid
  BY <1>3 DEF Request
<1>5. CASE Throws(m) /\ UNCHANGED fids
  <2>1. PICK s : Moves(m, s) /\ s.pc \in Blocking \cup {"reply"} /\ Quiet(m, s)
    BY <1>1, <1>5, BlockThrows DEF Blocking, BlockMove
  <2>2. \A g \in Fids : Made(g)' = Made(g) /\ Gone(g)' = Gone(g)
    BY <2>1, QuietKeeps
  <2> QED BY <1>1, <1>5, <2>1, <2>2, AccountKept DEF FidTypes
<1>6. CASE fids[f] = 0 /\ Returns(m, "ok") /\ fids' = [fids EXCEPT ![f] = m]
  <2>1. PICK s : Moves(m, s) /\ s.pc = "unblock" /\ s.res = "ok"
    BY <1>1, <1>6, BlockReturns DEF Blocking
  <2>2. st'[m] = s /\ s.req = st[m].req /\ \A k \in Msgs : k # m => st'[k] = st[k]
    BY <2>1 DEF MsgTypes, Moves
  <2>3. Made(f)' = Made(f) \cup {m} /\ m \notin Made(f) /\ \A g \in Fids : g # f => Made(g)' = Made(g)
    BY <1>3, <1>4, <2>1, <2>2 DEF Made
  <2>4. \A g \in Fids : Gone(g)' = Gone(g)
    <3>1. st[m].req.op # "clunk"
      BY <1>3 DEF NewFidOps
    <3> QED BY <2>2, <3>1 DEF Gone
  <2>5. FidTypes' /\ fids'[f] = m /\ \A g \in Fids : g # f => fids'[g] = fids[g]
    BY <1>1, <1>6, Members DEF FidTypes
  <2>6. Cardinality(Made(f)') = Cardinality(Made(f)) + 1
    BY <2>3, Counts, FS_AddElement
  <2>7. \A g \in Fids : Mounts(g)' = Mounts(g) /\ (g # f => Held(g)' = Held(g))
    BY <1>1, <2>5 DEF Mounts, Held
  <2>8. Held(f)' = 1 /\ Held(f) = 0
    BY <1>6, <2>5, Members DEF Held
  <2>9. Account'
    <3>1. ASSUME NEW g \in Fids PROVE Cardinality(Made(g)') + Mounts(g)' = Cardinality(Gone(g)') + Held(g)'
      <4>1. Cardinality(Made(g)) + Mounts(g) = Cardinality(Gone(g)) + Held(g)
        BY AccountIs DEF Account
      <4>2. CASE g = f
        <5>1. PICK a \in Nat, b \in Nat : a = Cardinality(Made(f)) /\ b = Cardinality(Gone(f))
          BY Counts
        <5>2. Mounts(f) \in Nat
          BY DEF Mounts
        <5>3. a + Mounts(f) = b + 0
          BY <2>8, <4>1, <4>2, <5>1
        <5>4. (a + 1) + Mounts(f) = b + 1
          BY <5>2, <5>3
        <5> QED BY <2>4, <2>6, <2>7, <2>8, <4>2, <5>1, <5>4
      <4>3. CASE g # f
        BY <2>3, <2>4, <2>7, <4>1, <4>3
      <4> QED BY <4>2, <4>3
    <3> QED BY <3>1 DEF Account
  <2> QED BY <2>1, <2>5, <2>9, AccountIs DEF Blocking
<1> QED BY <1>4, <1>5, <1>6 DEF EmplaceFid

(* Handler::HandleClunk: both lose it. *)
LEMMA ClunkCounts ==
    ASSUME MsgTypes, TakenAt, HandlerAt, FidTypes, FidAccount, NEW m \in Msgs, HandleClunk(m)
    PROVE  /\ \E s : Moves(m, s) /\ s.pc \in Blocking \cup {"reply"}
           /\ FidTypes' /\ FidAccount'
<1>1. st[m].pc = "lookup" /\ UNCHANGED <<objs, names>> /\ st[m].req.op = "clunk"
  BY DEF HandleClunk, BlockingAt
<1>2. Good(st[m])
  BY DEF HandlerAt
<1>3. st[m].res = "none" /\ st[m].req \in Request
  BY <1>1, <1>2 DEF Good, Early
<1>4. PICK f \in Fids : f = st[m].req.fid
  BY <1>1, <1>3 DEF Request
<1>5. FidTypes' /\ fids'[f] = 0 /\ \A g \in Fids : g # f => fids'[g] = fids[g]
  BY <1>1, <1>4, Members DEF HandleClunk, FidTypes
<1>6. CASE fids[f] = 0
  <2>1. Returns(m, "err")
    BY <1>4, <1>6 DEF HandleClunk
  <2>2. PICK s : Moves(m, s) /\ s.pc \in Blocking \cup {"reply"} /\ Quiet(m, s)
    BY <1>1, <2>1, BlockFails DEF Blocking, BlockMove
  <2>3. \A g \in Fids : Made(g)' = Made(g) /\ Gone(g)' = Gone(g)
    BY <2>2, QuietKeeps
  <2>4. \A g \in Fids : fids'[g] = 0 <=> fids[g] = 0
    BY <1>5, <1>6
  <2> QED BY <1>1, <1>5, <2>2, <2>3, <2>4, AccountKept
<1>7. CASE fids[f] # 0
  <2>1. PICK r \in {"ok", "failed"} : Returns(m, r)
    BY <1>4, <1>7 DEF HandleClunk, Clunk
  <2>2. PICK s : Moves(m, s) /\ s.pc = "unblock" /\ s.res = r
    BY <1>1, <2>1, BlockReturns DEF Blocking
  <2>3. st'[m] = s /\ s.req = st[m].req /\ \A k \in Msgs : k # m => st'[k] = st[k]
    BY <2>2 DEF MsgTypes, Moves
  <2>4. Gone(f)' = Gone(f) \cup {m} /\ m \notin Gone(f) /\ \A g \in Fids : g # f => Gone(g)' = Gone(g)
    BY <1>1, <1>3, <1>4, <2>2, <2>3 DEF Gone
  <2>5. \A g \in Fids : Made(g)' = Made(g)
    <3>1. st[m].req.op \notin NewFidOps
      BY <1>1 DEF NewFidOps
    <3> QED BY <2>3, <3>1 DEF Made
  <2>6. Cardinality(Gone(f)') = Cardinality(Gone(f)) + 1
    BY <2>4, Counts, FS_AddElement
  <2>7. \A g \in Fids : Mounts(g)' = Mounts(g) /\ (g # f => Held(g)' = Held(g))
    BY <1>1, <1>5 DEF Mounts, Held
  <2>8. Held(f)' = 0 /\ Held(f) = 1
    BY <1>5, <1>7 DEF Held
  <2>9. Account'
    <3>1. ASSUME NEW g \in Fids PROVE Cardinality(Made(g)') + Mounts(g)' = Cardinality(Gone(g)') + Held(g)'
      <4>1. Cardinality(Made(g)) + Mounts(g) = Cardinality(Gone(g)) + Held(g)
        BY AccountIs DEF Account
      <4>2. CASE g = f
        <5>1. PICK a \in Nat, b \in Nat : a = Cardinality(Made(f)) /\ b = Cardinality(Gone(f))
          BY Counts
        <5>2. Mounts(f) \in Nat
          BY DEF Mounts
        <5>3. a + Mounts(f) = b + 1
          BY <2>8, <4>1, <4>2, <5>1
        <5>4. a + Mounts(f) = (b + 1) + 0
          BY <5>2, <5>3
        <5> QED BY <2>5, <2>6, <2>7, <2>8, <4>2, <5>1, <5>4
      <4>3. CASE g # f
        BY <2>4, <2>5, <2>7, <4>1, <4>3
      <4> QED BY <4>2, <4>3
    <3> QED BY <3>1 DEF Account
  <2> QED BY <1>5, <2>2, <2>9, AccountIs DEF Blocking
<1> QED BY <1>6, <1>7

-----------------------------------------------------------------------------
(* The steps of the handlers.                                              *)

LEMMA AllKept ==
    ASSUME P9Inv, MsgTypes', IdleAt', TakenAt', HandlerAt',
           \A k \in Msgs : st'[k].pc \in {"idle", "done"} <=> st[k].pc \in {"idle", "done"},
           ExecInv', RestAt', FidTypes', FidAccount', Resting(Conn)' <=> Resting(Conn),
           lock' \in Msgs \cup {NoCo}, lockQ' \in Seq(Msgs), Distinct(lockQ'), cancelled' \in BOOLEAN,
           full' \in BOOLEAN, fills' \in 0..MaxFull, curOut' \in BOOLEAN, outOp' \in Msgs \cup {NoCo},
           UNCHANGED <<sent, sock, hungUp, conn, cur, reqs, permits, inOp, edgeIn, curIn, acc, ctl>>
    PROVE  P9Inv'
<1>1. Active' = Active /\ ListAt'
  BY ActiveKept DEF P9Inv
<1>2. ExecTypes' /\ ExecAt'
  BY DEF ExecInv
<1>3. ClientTypes' /\ ConnTypes' /\ WaitTypes' /\ ServerTypes'
  BY DEF P9Inv, ClientTypes, ConnTypes, WaitTypes, ServerTypes
<1>4. SeqsAt' /\ ConnAt'
  BY DEF P9Inv, SeqsAt, ConnAt
<1>5. PermitAt'
  BY <1>1 DEF P9Inv, PermitAt, Promised
<1>6. RegisterAt' /\ ReaderWoken'
  BY DEF P9Inv, RegisterAt, ReaderWoken
<1> QED BY <1>1, <1>2, <1>3, <1>4, <1>5, <1>6 DEF P9Inv

LEMMA Kept ==
    ASSUME P9Inv, NEW m \in Msgs, NEW s, Moves(m, s), ExecInv', RestAt', FidTypes', FidAccount',
           Resting(Conn)' <=> Resting(Conn),
           lock' \in Msgs \cup {NoCo}, lockQ' \in Seq(Msgs), Distinct(lockQ'), cancelled' \in BOOLEAN,
           full' \in BOOLEAN, fills' \in 0..MaxFull, curOut' \in BOOLEAN, outOp' \in Msgs \cup {NoCo},
           UNCHANGED <<sent, sock, hungUp, conn, cur, reqs, permits, inOp, edgeIn, curIn, acc, ctl>>
    PROVE  P9Inv'
<1>1. /\ MsgTypes' /\ IdleAt' /\ TakenAt' /\ HandlerAt'
      /\ \A k \in Msgs : st'[k].pc \in {"idle", "done"} <=> st[k].pc \in {"idle", "done"}
  BY MovesKeeps DEF P9Inv
<1> QED BY <1>1, AllKept

(* A step of blocking code. *)
LEMMA BlockStep ==
    ASSUME P9Inv, NEW m \in Msgs, NEW s, Moves(m, s), s.pc \in Blocking \cup {"reply"}, m \in blocked,
           NoSchedule, FidTypes', FidAccount', BlockFrame
    PROVE  P9Inv'
<1>1. /\ UNCHANGED <<sent, sock, hungUp, full, fills, conn, cur, reqs, permits, lock, lockQ, cancelled>>
      /\ UNCHANGED <<edgeIn, curIn, inOp, edgeOut, curOut, outOp, acc, ctl>>
  BY DEF BlockFrame, clientVars, epollVars
<1>2. ExecInv' /\ \A c : Resting(c)' <=> Resting(c)
  BY ExecSame DEF P9Inv, ExecInv, NoSchedule
<1>3. st'[m] = s /\ \A k \in Msgs : k # m => st'[k] = st[k]
  BY MovesKeeps, <1>1 DEF P9Inv
<1>4. ~Resting(m) /\ ~Resting(m)' /\ RestOf(m)
  BY <1>2 DEF Resting, P9Inv, RestAt
<1>5. RestOf(m)'
  <2>1. ~In(sock, m) /\ cur # m /\ ~In(lockQ, m) /\ outOp # m
    BY <1>4 DEF RestOf
  <2>2. s.pc \notin {"idle", "io", "flushwait", "done", "sendreg"}
    BY DEF Blocking
  <2> QED BY <1>1, <1>3, <2>1, <2>2 DEF RestOf
<1>6. RestAt'
  <2>1. UNCHANGED <<sock, cur, lockQ, lock, outOp>>
    BY <1>1
  <2> QED BY <1>2, <1>3, <1>5, <2>1, OthersRest DEF P9Inv
<1> QED BY <1>1, <1>2, <1>6, Kept DEF P9Inv, ConnTypes, SeqsAt, ClientTypes, WaitTypes

(* One whose answer leaves the account alone. *)
LEMMA QuietStep ==
    ASSUME P9Inv, NEW m \in Msgs, BlockMove(m), m \in blocked, NoSchedule, BlockFrame, FidTypes',
           objs'[Base].kind = objs[Base].kind, \A f \in Fids : fids'[f] = 0 <=> fids[f] = 0
    PROVE  P9Inv'
<1>1. PICK s : Moves(m, s) /\ s.pc \in Blocking \cup {"reply"} /\ Quiet(m, s)
  BY DEF BlockMove
<1>2. \A f \in Fids : Made(f)' = Made(f) /\ Gone(f)' = Gone(f)
  BY <1>1, QuietKeeps DEF P9Inv
<1>3. FidAccount'
  BY <1>2, AccountKept DEF P9Inv
<1> QED BY <1>1, <1>3, BlockStep

(* ... and one that changes no more than its own object. *)
LEMMA ObjectStep ==
    ASSUME P9Inv, NEW m \in Msgs, BlockMove(m), m \in blocked, NoSchedule, BlockFrame,
           UNCHANGED fids, names' \subseteq Names,
           objs' = objs \/ \E o \in Obj : objs' = [objs EXCEPT ![m] = o]
    PROVE  P9Inv'
<1>1. FidTypes' /\ objs'[Base] = objs[Base]
  BY Members DEF P9Inv, FidTypes
<1> QED BY <1>1, QuietStep

LEMMA BlockingSteps ==
    ASSUME P9Inv, NEW m \in Msgs,
           \/ HandleVersion(m) \/ HandleAttach(m) \/ HandleClunk(m) \/ HandleNotSupported(m)
           \/ LookupFid(m) \/ HandleFileOp(m) \/ HandleWalk(m) \/ HandleXattr(m)
           \/ WOpenFinds(m) \/ WOpenCreates(m) \/ WOpenReplies(m) \/ EmplaceFid(m) \/ ReplaceFid(m)
    PROVE  P9Inv'
<1>1. MsgTypes /\ TakenAt /\ HandlerAt /\ FidTypes /\ FidAccount /\ names \subseteq Names
  BY DEF P9Inv, FidTypes
<1>2. CASE HandleVersion(m)
  <2>1. m \in blocked /\ NoSchedule /\ BlockFrame /\ UNCHANGED <<fids, objs, names>>
    BY <1>2 DEF HandleVersion, BlockingAt
  <2> QED BY <1>1, <1>2, <2>1, VersionMoves, ObjectStep
<1>3. CASE HandleAttach(m)
  <2>1. /\ m \in blocked /\ NoSchedule /\ BlockFrame /\ UNCHANGED <<fids, names>>
        /\ objs' = objs \/ objs' = [objs EXCEPT ![m] = RootObj]
    BY <1>3 DEF HandleAttach, BlockingAt
  <2>2. RootObj \in Obj
    BY DEF RootObj, NoObj, Obj
  <2> QED BY <1>1, <1>3, <2>1, <2>2, AttachMoves, ObjectStep
<1>4. CASE HandleClunk(m)
  <2>1. m \in blocked /\ NoSchedule /\ BlockFrame
    BY <1>4 DEF HandleClunk, BlockingAt
  <2> QED BY <1>1, <1>4, <2>1, ClunkCounts, BlockStep
<1>5. CASE HandleNotSupported(m)
  <2>1. m \in blocked /\ NoSchedule /\ BlockFrame /\ UNCHANGED <<fids, objs, names>>
    BY <1>5 DEF HandleNotSupported, BlockingAt
  <2> QED BY <1>1, <1>5, <2>1, NotSupportedMoves, ObjectStep
<1>6. CASE LookupFid(m)
  <2>1. m \in blocked /\ NoSchedule /\ BlockFrame /\ UNCHANGED <<fids, objs, names>>
    BY <1>6 DEF LookupFid, BlockingAt
  <2> QED BY <1>1, <1>6, <2>1, LookupMoves, ObjectStep
<1>7. CASE HandleFileOp(m)
  <2>1. m \in blocked /\ NoSchedule /\ BlockFrame /\ UNCHANGED fids
    BY <1>7 DEF HandleFileOp, BlockingAt
  <2>2. BlockMove(m) /\ names' \subseteq Names
    BY <1>1, <1>7, FileOpMoves
  <2>3. PICK e \in 1..Base, o \in Obj : objs' = [objs EXCEPT ![e] = o] /\ o.kind = objs[e].kind
    BY <1>1, <1>7, FileOpMoves
  <2>4. FidTypes' /\ objs'[Base].kind = objs[Base].kind
    BY <1>1, <2>1, <2>2, <2>3, Members DEF FidTypes
  <2> QED BY <2>1, <2>2, <2>4, QuietStep
<1>8. CASE HandleWalk(m)
  <2>1. m \in blocked /\ NoSchedule /\ BlockFrame /\ UNCHANGED <<fids, names>>
    BY <1>8 DEF HandleWalk, BlockingAt
  <2> QED BY <1>1, <1>8, <2>1, WalkMoves, ObjectStep
<1>9. CASE HandleXattr(m)
  <2>1. m \in blocked /\ NoSchedule /\ BlockFrame /\ UNCHANGED <<fids, names>>
    BY <1>9 DEF HandleXattr, BlockingAt
  <2> QED BY <1>1, <1>9, <2>1, XattrMoves, ObjectStep
<1>10. CASE WOpenFinds(m)
  <2>1. m \in blocked /\ NoSchedule /\ BlockFrame /\ UNCHANGED <<fids, names>>
    BY <1>10 DEF WOpenFinds, BlockingAt
  <2> QED BY <1>1, <1>10, <2>1, WOpenFindsMoves, ObjectStep
<1>11. CASE WOpenCreates(m)
  <2>1. m \in blocked /\ NoSchedule /\ BlockFrame /\ UNCHANGED fids
    BY <1>11 DEF WOpenCreates, BlockingAt
  <2> QED BY <1>1, <1>11, <2>1, WOpenCreatesMoves, ObjectStep
<1>12. CASE WOpenReplies(m)
  <2>1. m \in blocked /\ NoSchedule /\ BlockFrame /\ UNCHANGED <<fids, names>>
    BY <1>12 DEF WOpenReplies, BlockingAt
  <2> QED BY <1>1, <1>12, <2>1, WOpenRepliesMoves, ObjectStep
<1>13. CASE EmplaceFid(m)
  <2>1. m \in blocked /\ NoSchedule /\ BlockFrame
    BY <1>13 DEF EmplaceFid, BlockingAt
  <2> QED BY <1>1, <1>13, <2>1, EmplaceCounts, BlockStep
<1>14. CASE ReplaceFid(m)
  <2>1. m \in blocked /\ NoSchedule /\ BlockFrame /\ UNCHANGED <<objs, names>> /\ st[m].pc = "replace"
    BY <1>14 DEF ReplaceFid, BlockingAt
  <2>2. st[m].req \in Request /\ st[m].req.op = "xattrcreate" /\ st[m].ent # 0
    BY <1>1, <2>1 DEF HandlerAt, Good
  <2>3. st[m].req.fid \in Fids /\ st[m].req.op \notin Counted
    BY <2>2 DEF Request, Counted, NewFidOps
  <2>4. CASE Throws(m) /\ UNCHANGED fids
    <3>1. BlockMove(m)
      BY <1>1, <2>1, <2>4, BlockThrows DEF Blocking
    <3> QED BY <1>1, <2>1, <2>4, <3>1, ObjectStep
  <2>5. CASE /\ fids[st[m].req.fid] = st[m].ent /\ Returns(m, "ok")
             /\ fids' = [fids EXCEPT ![st[m].req.fid] = m]
    <3>1. BlockMove(m)
      BY <1>1, <2>1, <2>3, <2>5, BlockDone DEF Blocking
    <3>2. FidTypes' /\ \A f \in Fids : fids'[f] = 0 <=> fids[f] = 0
      BY <1>1, <2>1, <2>2, <2>3, <2>5, Members DEF FidTypes
    <3> QED BY <2>1, <3>1, <3>2, QuietStep
  <2> QED BY <1>14, <2>4, <2>5 DEF ReplaceFid
<1> QED BY <1>2, <1>3, <1>4, <1>5, <1>6, <1>7, <1>8, <1>9, <1>10, <1>11, <1>12, <1>13, <1>14

LEMMA FidsKept ==
    ASSUME P9Inv, NEW m \in Msgs, NEW s, Moves(m, s), Quiet(m, s), UNCHANGED <<fids, objs, names>>
    PROVE  FidTypes' /\ FidAccount'
<1>1. \A f \in Fids : Made(f)' = Made(f) /\ Gone(f)' = Gone(f)
  BY QuietKeeps DEF P9Inv
<1>2. FidAccount'
  BY <1>1, AccountKept DEF P9Inv
<1> QED BY <1>2 DEF P9Inv, FidTypes

(* A step on the queue. *)
LEMMA AsyncStep ==
    ASSUME P9Inv, NEW m \in Msgs, NEW s, Moves(m, s), Quiet(m, s), ExecInv',
           \A c \in Coroutines : c # m => (Resting(c)' <=> Resting(c)),
           ~Resting(m) \/ st[m].pc \notin {"sent", "reply"},
           s.pc \notin {"sendreg"}, s.pc = "io" => Resting(m)', UNCHANGED reqs, AsyncFrame
    PROVE  P9Inv'
<1>1. /\ UNCHANGED <<sent, sock, hungUp, full, fills, conn, cur, reqs, permits, lock, lockQ, cancelled>>
      /\ UNCHANGED <<edgeIn, curIn, inOp, edgeOut, curOut, outOp, acc, ctl, fids, objs, names>>
  BY DEF AsyncFrame, clientVars, epollVars, serverVars
<1>2. FidTypes' /\ FidAccount'
  <2>1. UNCHANGED <<fids, objs, names>>
    BY <1>1
  <2> QED BY <2>1, FidsKept
<1>3. st'[m] = s /\ \A k \in Msgs : k # m => st'[k] = st[k]
  BY MovesKeeps, <1>1 DEF P9Inv
<1>4. RestOf(m)'
  <2>1. RestOf(m) /\ s.pc \notin {"idle", "flushwait", "done"}
    BY DEF P9Inv, RestAt, Moves
  <2>2. ~In(sock, m) /\ cur # m /\ ~In(lockQ, m) /\ outOp # m
    BY <2>1 DEF RestOf
  <2> QED BY <1>1, <1>3, <2>1, <2>2 DEF RestOf
<1>5. RestAt'
  <2>1. UNCHANGED <<sock, cur, lockQ, lock, outOp>>
    BY <1>1
  <2> QED BY <1>3, <1>4, <2>1, OthersRest DEF P9Inv
<1>6. Resting(Conn)' <=> Resting(Conn)
  BY Members
<1> QED BY <1>1, <1>2, <1>5, <1>6, Kept DEF P9Inv, ConnTypes, SeqsAt, ClientTypes, WaitTypes

(* An answer on the spot. *)
LEMMA NowStep ==
    ASSUME P9Inv, NEW m \in Msgs, owner = m, st[m].pc = "sent", st[m].req.op \in Async,
           NEW r \in {"ok", "err"}, NoSchedule, Now(m, r),
           UNCHANGED reqs, AsyncFrame
    PROVE  P9Inv'
<1>1. PICK s \in Rec : /\ st' = [st EXCEPT ![m] = s]
                       /\ s.pc = "reply" /\ s.req = st[m].req /\ s.by = st[m].by /\ s.ent = st[m].ent
                       /\ s.ent2 = st[m].ent2 /\ s.res = r /\ s.made = st[m].made /\ s.stat = st[m].stat
  <2>1. MsgTypes
    BY DEF P9Inv
  <2> QED BY <2>1, AnswersWith
<1>2. Good(st[m])
  BY DEF P9Inv, HandlerAt
<1>3. Good(s)
  BY <1>1, <1>2 DEF Good, Early
<1>4. Moves(m, s) /\ Quiet(m, s)
  BY <1>1, <1>3 DEF Moves, Quiet, Blocking, Async, Counted, NewFidOps
<1>5. ExecInv' /\ \A c : Resting(c)' <=> Resting(c)
  BY ExecSame DEF P9Inv, ExecInv, NoSchedule
<1> QED BY <1>1, <1>4, <1>5, AsyncStep DEF Resting

LEMMA IoSteps ==
    ASSUME P9Inv, NEW m \in Msgs, HandleIo(m)
    PROVE  P9Inv'
<1>1. owner = m /\ st[m].pc = "sent" /\ st[m].req.op \in {"read", "write"} /\ UNCHANGED reqs /\ AsyncFrame
  BY DEF HandleIo
<1>2. \/ NoSchedule /\ Now(m, "ok")
      \/ NoSchedule /\ Now(m, "err")
      \/ Suspend /\ st' = [st EXCEPT ![m].pc = "io"]
  <2>1. PICK e : e = fids[st[m].req.fid]
    OBVIOUS
  <2>2. CASE e = 0
    BY <2>1, <2>2 DEF HandleIo, Now
  <2>3. CASE e # 0 /\ objs[e].kind = "file" /\ objs[e].open
    BY <2>1, <2>3 DEF HandleIo, Now
  <2>4. CASE e # 0 /\ objs[e].kind = "xattr"
    BY <2>1, <2>4 DEF HandleIo, Now
  <2>5. CASE e # 0 /\ ~(objs[e].kind = "file" /\ objs[e].open) /\ objs[e].kind # "xattr"
    BY <2>1, <2>5 DEF HandleIo, Now
  <2> QED BY <2>2, <2>3, <2>4, <2>5
<1>3. CASE NoSchedule /\ Now(m, "ok")
  BY <1>1, <1>3, NowStep DEF Async
<1>4. CASE NoSchedule /\ Now(m, "err")
  BY <1>1, <1>4, NowStep DEF Async
<1>5. CASE Suspend /\ st' = [st EXCEPT ![m].pc = "io"]
  <2>1. PICK s \in Rec : /\ st' = [st EXCEPT ![m] = s]
                         /\ s.pc = "io" /\ s.req = st[m].req /\ s.by = st[m].by /\ s.ent = st[m].ent
                         /\ s.ent2 = st[m].ent2 /\ s.res = st[m].res /\ s.made = st[m].made /\ s.stat = st[m].stat
    <3>1. MsgTypes /\ "io" \in Pcs /\ Goes(m, "io")
      BY <1>5 DEF P9Inv, Pcs, Goes
    <3> QED BY <3>1, GoesTo
  <2>2. Good(st[m])
    BY DEF P9Inv, HandlerAt
  <2>3. Good(s)
    BY <1>1, <2>1, <2>2 DEF Good, Early
  <2>4. Moves(m, s) /\ Quiet(m, s)
    BY <1>1, <2>1, <2>3 DEF Moves, Quiet, Blocking
  <2>5. ExecInv' /\ \A c \in Coroutines : Resting(c)' <=> Resting(c) \/ c = m
    BY <1>1, <1>5, ExecSuspend DEF P9Inv, ExecInv
  <2> QED BY <1>1, <2>1, <2>4, <2>5, AsyncStep, Members DEF Resting
<1> QED BY <1>2, <1>3, <1>4, <1>5

LEMMA IoCompletesStep ==
    ASSUME P9Inv, NEW m \in Msgs, NEW r \in {"ok", "err"}, IoCompletes(m, r)
    PROVE  P9Inv'
<1>1. st[m].pc = "io" /\ Schedule(m) /\ UNCHANGED reqs /\ AsyncFrame
  BY DEF IoCompletes
<1>2. PICK s \in Rec : /\ st' = [st EXCEPT ![m] = s]
                       /\ s.pc = "reply" /\ s.req = st[m].req /\ s.by = st[m].by /\ s.ent = st[m].ent
                       /\ s.ent2 = st[m].ent2 /\ s.res = r /\ s.made = st[m].made /\ s.stat = st[m].stat
  <2>1. MsgTypes /\ Late(m, r)
    BY DEF P9Inv, IoCompletes, Late
  <2> QED BY <2>1, AnswersLate
<1>3. Good(st[m]) /\ Resting(m)
  BY <1>1 DEF P9Inv, HandlerAt, RestAt, RestOf
<1>4. Good(s) /\ st[m].req.op \in {"read", "write"}
  BY <1>1, <1>2, <1>3 DEF Good, Early
<1>5. Moves(m, s) /\ Quiet(m, s)
  BY <1>1, <1>2, <1>4 DEF Moves, Quiet, Blocking, Counted, NewFidOps
<1>6. ExecInv' /\ \A c : Resting(c)' <=> Resting(c) /\ c # m
  BY <1>1, <1>3, ExecSchedule, Members DEF P9Inv, ExecInv
<1> QED BY <1>1, <1>2, <1>5, <1>6, AsyncStep

LEMMA UnwindStep ==
    ASSUME P9Inv, NEW m \in Msgs, Unwind(m)
    PROVE  P9Inv'
<1>1. owner = m /\ st[m].pc \in {"hop1", "hop2"} /\ Hop /\ UNCHANGED reqs /\ AsyncFrame
  BY DEF Unwind
<1>2. PICK p \in Pcs : p \in {"hop2", "finish"} /\ Goes(m, p)
  BY DEF Unwind, Pcs, Goes
<1>3. PICK s \in Rec : /\ st' = [st EXCEPT ![m] = s]
                       /\ s.pc = p /\ s.req = st[m].req /\ s.by = st[m].by /\ s.ent = st[m].ent
                       /\ s.ent2 = st[m].ent2 /\ s.res = st[m].res /\ s.made = st[m].made /\ s.stat = st[m].stat
                       /\ s.replied = st[m].replied /\ s.lost = st[m].lost
  <2>1. MsgTypes
    BY DEF P9Inv
  <2> QED BY <1>2, <2>1, GoesTo
<1>4. Good(st[m]) /\ (st[m].replied \/ st[m].lost)
  BY <1>1 DEF P9Inv, HandlerAt, TakenAt
<1>5. Good(s)
  BY <1>1, <1>2, <1>3, <1>4 DEF Good, Early
<1>6. Moves(m, s) /\ Quiet(m, s)
  BY <1>1, <1>2, <1>3, <1>4, <1>5 DEF Moves, Quiet, Blocking
<1>7. ExecInv' /\ \A c \in Coroutines : Resting(c)' <=> Resting(c)
  BY <1>1, ExecHop DEF P9Inv, ExecInv
<1> QED BY <1>1, <1>2, <1>3, <1>6, <1>7, AsyncStep

LEMMA EnterStep ==
    ASSUME P9Inv, NEW m \in Msgs, EnterBlocking(m)
    PROVE  P9Inv'
<1>1. owner = m /\ st[m].pc = "sent" /\ st[m].req.op \notin Async /\ Block /\ UNCHANGED reqs /\ AsyncFrame
  BY DEF EnterBlocking
<1>2. PICK s \in Rec : /\ st' = [st EXCEPT ![m] = s]
                       /\ s.pc = "lookup" /\ s.req = st[m].req /\ s.by = st[m].by /\ s.ent = st[m].ent
                       /\ s.ent2 = st[m].ent2 /\ s.res = st[m].res /\ s.made = st[m].made /\ s.stat = st[m].stat
  <2>1. MsgTypes /\ "lookup" \in Pcs /\ Goes(m, "lookup")
    BY DEF P9Inv, Pcs, EnterBlocking, Goes
  <2> QED BY <2>1, GoesTo
<1>3. Good(st[m])
  BY DEF P9Inv, HandlerAt
<1>4. Good(s)
  BY <1>1, <1>2, <1>3 DEF Good, Early
<1>5. Moves(m, s) /\ Quiet(m, s)
  BY <1>1, <1>2, <1>4 DEF Moves, Quiet
<1>6. ExecInv' /\ \A c \in Coroutines : Resting(c)' <=> Resting(c)
  BY <1>1, ExecBlock DEF P9Inv, ExecInv
<1> QED BY <1>1, <1>2, <1>5, <1>6, AsyncStep DEF Resting

LEMMA LeaveStep ==
    ASSUME P9Inv, NEW m \in Msgs, LeaveBlocking(m)
    PROVE  P9Inv'
<1>1. /\ st[m].pc = "unblock" /\ UNCHANGED reqs /\ AsyncFrame
      /\ UnblockClaims(m) \/ UnblockSchedules(m)
      /\ st' = [st EXCEPT ![m].pc = "reply"] \/ st' = [st EXCEPT ![m].pc = "reply", ![m].susp = TRUE]
  BY DEF LeaveBlocking
<1>2. PICK s \in Rec : /\ st' = [st EXCEPT ![m] = s]
                       /\ s.pc = "reply" /\ s.req = st[m].req /\ s.by = st[m].by /\ s.ent = st[m].ent
                       /\ s.ent2 = st[m].ent2 /\ s.res = st[m].res /\ s.made = st[m].made /\ s.stat = st[m].stat
  <2>1. MsgTypes /\ "reply" \in Pcs
    BY DEF P9Inv, Pcs
  <2>2. Goes(m, "reply") \/ Waits(m, "reply")
    BY <1>1 DEF Goes, Waits
  <2>3. CASE Goes(m, "reply")
    BY <2>1, <2>3, GoesTo
  <2>4. CASE Waits(m, "reply")
    BY <2>1, <2>4, WaitsFor
  <2> QED BY <2>2, <2>3, <2>4
<1>3. Good(st[m])
  BY DEF P9Inv, HandlerAt
<1>4. Good(s)
  BY <1>1, <1>2, <1>3 DEF Good, Early
<1>5. Moves(m, s) /\ Quiet(m, s)
  BY <1>1, <1>2, <1>4 DEF Moves, Quiet, Blocking
<1>6. ExecInv' /\ \A c \in Coroutines : Resting(c)' <=> Resting(c)
  BY <1>1, ExecUnblock DEF P9Inv, ExecInv
<1> QED BY <1>1, <1>2, <1>5, <1>6, AsyncStep

-----------------------------------------------------------------------------
(* The answers.  Past m_SocketLock is its holder.                          *)

LEMMA SendKept ==
    ASSUME P9Inv, NEW m \in Msgs, NEW s, Moves(m, s), s.res = st[m].res, ExecInv', RestAt',
           Resting(Conn)' <=> Resting(Conn), UNCHANGED <<conn, reqs, permits>>, SendFrame,
           lock' \in Msgs \cup {NoCo}, lockQ' \in Seq(Msgs), Distinct(lockQ'), cancelled' \in BOOLEAN,
           full' \in BOOLEAN, fills' \in 0..MaxFull, curOut' \in BOOLEAN, outOp' \in Msgs \cup {NoCo}
    PROVE  P9Inv'
<1>1. UNCHANGED <<sent, sock, hungUp, conn, cur, reqs, permits, inOp, edgeIn, curIn, acc, ctl>>
  BY DEF SendFrame, serverVars
<1>2. FidTypes' /\ FidAccount'
  <2>1. UNCHANGED <<fids, objs, names>> /\ Quiet(m, s)
    BY DEF SendFrame, serverVars, Quiet
  <2> QED BY <2>1, FidsKept
<1> QED BY <1>1, <1>2, Kept

(* What the others rely on of a sender that is running. *)
LEMMA Sender ==
    ASSUME P9Inv, NEW m \in Msgs, On(m)
    PROVE  ~Resting(m) /\ ~In(sock, m) /\ cur # m /\ ~In(lockQ, m) /\ outOp # m
<1>1. ~Resting(m) /\ RestOf(m)
  BY DEF On, Resting, P9Inv, RestAt
<1> QED BY <1>1 DEF RestOf

LEMMA AwaitLockStep ==
    ASSUME P9Inv, NEW m \in Msgs, AwaitLock(m)
    PROVE  P9Inv'
<1>1. /\ On(m) /\ st[m].pc = "reply" /\ lock \notin {NoCo, m} /\ Park(m) /\ lockQ' = Append(lockQ, m)
      /\ Sleeps(m) /\ SendFrame
      /\ UNCHANGED <<full, fills, conn, reqs, permits, lock, cancelled, curOut, outOp, sock, cur, sent>>
  BY DEF AwaitLock, Sleeps, SendFrame
<1>2. PICK s \in Rec : /\ st' = [st EXCEPT ![m] = s]
                       /\ s.pc = st[m].pc /\ s.req = st[m].req /\ s.by = st[m].by /\ s.ent = st[m].ent
                       /\ s.ent2 = st[m].ent2 /\ s.res = st[m].res /\ s.made = st[m].made /\ s.stat = st[m].stat
  BY <1>1, Suspends DEF P9Inv
<1>3. Good(st[m])
  BY DEF P9Inv, HandlerAt
<1>4. Good(s)
  BY <1>1, <1>2, <1>3 DEF Good, Early
<1>5. Moves(m, s)
  BY <1>1, <1>2, <1>4 DEF Moves, Blocking
<1>6. ExecInv' /\ \A c \in Coroutines : Resting(c)' <=> Resting(c) \/ c = m
  BY <1>1, ExecPark DEF P9Inv, ExecInv
<1>7. ~In(sock, m) /\ cur # m /\ ~In(lockQ, m) /\ outOp # m
  BY <1>1, Sender
<1>8. lockQ' \in Seq(Msgs) /\ Distinct(lockQ') /\ \A y : In(lockQ', y) <=> In(lockQ, y) \/ y = m
  BY <1>1, <1>7, AppendIn DEF P9Inv, ConnTypes, SeqsAt
<1>9. st'[m] = s /\ \A k \in Msgs : k # m => st'[k] = st[k]
  BY <1>1, <1>5, MovesKeeps DEF P9Inv
<1>10. RestAt'
  <2>1. RestOf(m)'
    BY <1>1, <1>2, <1>6, <1>7, <1>9, Members DEF RestOf
  <2>2. ASSUME NEW k \in Msgs, k # m PROVE RestOf(k)'
    <3>1. RestOf(k) /\ st'[k] = st[k] /\ (Resting(k)' <=> Resting(k)) /\ (In(lockQ', k) <=> In(lockQ, k))
      BY <1>6, <1>8, <1>9, <2>2, Members DEF P9Inv, RestAt
    <3> QED BY <1>1, <3>1 DEF RestOf
  <2> QED BY <2>1, <2>2 DEF RestAt
<1>11. Resting(Conn)' <=> Resting(Conn)
  BY <1>6, Members
<1> QED BY <1>1, <1>2, <1>5, <1>6, <1>8, <1>10, <1>11, SendKept DEF P9Inv, ConnTypes, ClientTypes, WaitTypes

(* AsyncLock::Unlock gives the lock to one that waits and to no other. *)
LEMMA UnlockRests ==
    ASSUME P9Inv, NEW m \in Msgs, On(m), lock \in {NoCo, m}, Unlock, UNCHANGED <<sock, cur, outOp>>,
           \A k \in Msgs : k # m => st'[k] = st[k],
           st'[m].pc \in {"hop1", "finish"}
    PROVE  /\ ExecInv' /\ RestAt' /\ (Resting(Conn)' <=> Resting(Conn))
           /\ lock' \in Msgs \cup {NoCo} /\ lockQ' \in Seq(Msgs) /\ Distinct(lockQ')
<1>1. ~Resting(m) /\ ~In(sock, m) /\ cur # m /\ ~In(lockQ, m) /\ outOp # m
  BY Sender
<1>2. \A k \in Msgs : outOp # k /\ (k # m => st[k].pc # "sendreg")
  BY <1>1, Members DEF P9Inv, RestAt, RestOf
<1>3. lockQ \in Seq(Msgs) /\ Distinct(lockQ)
  BY DEF P9Inv, ConnTypes, SeqsAt
<1>4. CASE lockQ = <<>>
  <2>1. NoSchedule /\ lock' = NoCo /\ lockQ' = lockQ
    BY <1>4 DEF Unlock
  <2>2. ExecInv' /\ \A c : Resting(c)' <=> Resting(c)
    BY <2>1, ExecSame DEF P9Inv, ExecInv, NoSchedule
  <2>3. \A k \in Msgs : ~In(lockQ', k)
    BY <1>4, <2>1, EmptyIn
  <2>4. RestOf(m)'
    BY <1>1, <2>1, <2>3 DEF RestOf
  <2>5. ASSUME NEW k \in Msgs, k # m PROVE RestOf(k)'
    <3>1. RestOf(k) /\ st'[k] = st[k] /\ st[k].pc # "sendreg" /\ outOp # k /\ (Resting(k)' <=> Resting(k))
      BY <1>2, <2>2, <2>5 DEF P9Inv, RestAt
    <3> QED BY <2>3, <3>1 DEF RestOf
  <2> QED BY <1>3, <2>1, <2>2, <2>4, <2>5 DEF RestAt
<1>5. CASE lockQ # <<>>
  <2>1. PICK h : h = Head(lockQ)
    OBVIOUS
  <2>2. Schedule(h) /\ lock' = h /\ lockQ' = Tail(lockQ)
    BY <1>5, <2>1 DEF Unlock
  <2>3. /\ h \in Msgs /\ In(lockQ, h) /\ lockQ' \in Seq(Msgs) /\ Distinct(lockQ')
        /\ \A y : In(lockQ', y) <=> In(lockQ, y) /\ y # h
    BY <1>3, <1>5, <2>1, <2>2, TailIn
  <2>4. RestOf(h) /\ st[h].pc = "reply" /\ Resting(h) /\ h # m
    BY <1>1, <2>3 DEF P9Inv, RestAt, RestOf
  <2>5. ExecInv' /\ \A c : Resting(c)' <=> Resting(c) /\ c # h
    BY <2>2, <2>3, <2>4, ExecSchedule, Members DEF P9Inv, ExecInv
  <2>6. RestOf(m)'
    BY <1>1, <2>2, <2>3, <2>4 DEF RestOf
  <2>7. RestOf(h)'
    <3>1. st'[h] = st[h] /\ ~In(sock, h) /\ cur # h /\ ~In(lockQ', h) /\ outOp # h
      BY <1>2, <2>3, <2>4 DEF RestOf
    <3> QED BY <2>2, <2>4, <3>1 DEF RestOf
  <2>8. ASSUME NEW k \in Msgs, k # m, k # h PROVE RestOf(k)'
    <3>1. /\ RestOf(k) /\ st'[k] = st[k] /\ st[k].pc # "sendreg" /\ outOp # k /\ (Resting(k)' <=> Resting(k))
          /\ (In(lockQ', k) <=> In(lockQ, k)) /\ lock' # k
      BY <1>2, <2>2, <2>3, <2>5, <2>8 DEF P9Inv, RestAt
    <3> QED BY <3>1 DEF RestOf
  <2> QED BY <2>2, <2>3, <2>5, <2>6, <2>7, <2>8, Members DEF RestAt
<1> QED BY <1>4, <1>5

LEMMA SendReplyStep ==
    ASSUME P9Inv, NEW m \in Msgs, SendReply(m)
    PROVE  P9Inv'
<1>1. PICK p \in Pcs : p \in {"hop1", "finish"} /\ Answered(m, p)
  BY DEF SendReply, AfterSend, Pcs, Answered
<1>2. /\ On(m) /\ st[m].pc = "reply" /\ lock \in {NoCo, m} /\ Unlock /\ SendFrame
      /\ UNCHANGED <<conn, reqs, permits, cancelled, curOut, outOp, sock, cur, sent>>
      /\ UNCHANGED <<full, fills>> \/ (fills < MaxFull /\ full' = TRUE /\ fills' = fills + 1)
  BY DEF SendReply, SendFrame
<1>3. PICK s \in Rec : /\ st' = [st EXCEPT ![m] = s]
                       /\ s.pc = p /\ s.req = st[m].req /\ s.by = st[m].by /\ s.ent = st[m].ent
                       /\ s.ent2 = st[m].ent2 /\ s.res = st[m].res /\ s.made = st[m].made /\ s.stat = st[m].stat
                       /\ s.replied = TRUE
  BY <1>1, Replies DEF P9Inv
<1>4. Good(st[m])
  BY DEF P9Inv, HandlerAt
<1>5. Good(s)
  BY <1>1, <1>2, <1>3, <1>4 DEF Good, Early
<1>6. Moves(m, s)
  BY <1>1, <1>2, <1>3, <1>5 DEF Moves, Blocking
<1>7. st'[m] = s /\ \A k \in Msgs : k # m => st'[k] = st[k]
  BY <1>2, <1>6, MovesKeeps DEF P9Inv
<1>8. /\ ExecInv' /\ RestAt' /\ (Resting(Conn)' <=> Resting(Conn))
      /\ lock' \in Msgs \cup {NoCo} /\ lockQ' \in Seq(Msgs) /\ Distinct(lockQ')
  BY <1>1, <1>2, <1>3, <1>7, UnlockRests
<1>9. full' \in BOOLEAN /\ fills' \in 0..MaxFull
  <2>1. full \in BOOLEAN /\ fills \in 0..MaxFull /\ MaxFull \in Nat
    BY P9Assumption DEF P9Inv, ClientTypes
  <2>2. CASE UNCHANGED <<full, fills>>
    BY <2>1, <2>2
  <2>3. CASE fills < MaxFull /\ full' = TRUE /\ fills' = fills + 1
    BY <2>1, <2>3
  <2> QED BY <1>2, <2>2, <2>3
<1> QED BY <1>2, <1>3, <1>6, <1>8, <1>9, SendKept DEF P9Inv, ConnTypes, WaitTypes

LEMMA SendFailsStep ==
    ASSUME P9Inv, NEW m \in Msgs, SendFails(m)
    PROVE  P9Inv'
<1>1. PICK p \in Pcs : p \in {"hop1", "finish"} /\ Lost(m, p, TRUE)
  BY DEF SendFails, AfterSend, Pcs, Lost
<1>2. /\ On(m) /\ st[m].pc = "reply" /\ lock \in {NoCo, m} /\ Unlock /\ SendFrame /\ cancelled' = TRUE
      /\ UNCHANGED <<full, fills, conn, reqs, permits, curOut, outOp, sock, cur, sent>>
  BY DEF SendFails, SendFrame
<1>3. PICK s \in Rec : /\ st' = [st EXCEPT ![m] = s]
                       /\ s.pc = p /\ s.req = st[m].req /\ s.by = st[m].by /\ s.ent = st[m].ent
                       /\ s.ent2 = st[m].ent2 /\ s.res = st[m].res /\ s.made = st[m].made /\ s.stat = st[m].stat
                       /\ s.lost = TRUE
  BY <1>1, Loses DEF P9Inv
<1>4. Good(st[m])
  BY DEF P9Inv, HandlerAt
<1>5. Good(s)
  BY <1>1, <1>2, <1>3, <1>4 DEF Good, Early
<1>6. Moves(m, s)
  BY <1>1, <1>2, <1>3, <1>5 DEF Moves, Blocking
<1>7. st'[m] = s /\ \A k \in Msgs : k # m => st'[k] = st[k]
  BY <1>2, <1>6, MovesKeeps DEF P9Inv
<1>8. /\ ExecInv' /\ RestAt' /\ (Resting(Conn)' <=> Resting(Conn))
      /\ lock' \in Msgs \cup {NoCo} /\ lockQ' \in Seq(Msgs) /\ Distinct(lockQ')
  BY <1>1, <1>2, <1>3, <1>7, UnlockRests
<1> QED BY <1>2, <1>3, <1>6, <1>8, SendKept DEF P9Inv, ConnTypes, ClientTypes, WaitTypes

LEMMA SendBlocksStep ==
    ASSUME P9Inv, NEW m \in Msgs, SendBlocks(m)
    PROVE  P9Inv'
<1>1. /\ On(m) /\ st[m].pc = "reply" /\ lock \in {NoCo, m} /\ NoSchedule /\ lock' = m /\ SendFrame
      /\ UNCHANGED <<full, fills, conn, reqs, permits, lockQ, cancelled, curOut, outOp, sock, cur, sent>>
      /\ Goes(m, "sendreg") /\ "sendreg" \in Pcs
  BY DEF SendBlocks, SendFrame, Goes, Pcs
<1>2. PICK s \in Rec : /\ st' = [st EXCEPT ![m] = s]
                       /\ s.pc = "sendreg" /\ s.req = st[m].req /\ s.by = st[m].by /\ s.ent = st[m].ent
                       /\ s.ent2 = st[m].ent2 /\ s.res = st[m].res /\ s.made = st[m].made /\ s.stat = st[m].stat
  BY <1>1, GoesTo DEF P9Inv
<1>3. Good(st[m])
  BY DEF P9Inv, HandlerAt
<1>4. Good(s)
  BY <1>1, <1>2, <1>3 DEF Good, Early
<1>5. Moves(m, s)
  BY <1>1, <1>2, <1>4 DEF Moves, Blocking
<1>6. ExecInv' /\ \A c : Resting(c)' <=> Resting(c)
  BY <1>1, ExecSame DEF P9Inv, ExecInv, NoSchedule
<1>7. ~In(sock, m) /\ cur # m /\ ~In(lockQ, m) /\ outOp # m
  BY <1>1, Sender
<1>8. st'[m] = s /\ \A k \in Msgs : k # m => st'[k] = st[k]
  BY <1>1, <1>5, MovesKeeps DEF P9Inv
<1>9. RestAt'
  <2>1. RestOf(m)'
    BY <1>1, <1>2, <1>7, <1>8 DEF RestOf
  <2>2. ASSUME NEW k \in Msgs, k # m PROVE RestOf(k)'
    <3>1. RestOf(k) /\ st'[k] = st[k] /\ (Resting(k)' <=> Resting(k)) /\ lock # k /\ lock' # k
      BY <1>1, <1>6, <1>8, <2>2, Members DEF P9Inv, RestAt
    <3> QED BY <1>1, <3>1 DEF RestOf
  <2> QED BY <2>1, <2>2 DEF RestAt
<1> QED BY <1>1, <1>2, <1>5, <1>6, <1>9, SendKept DEF P9Inv, ConnTypes, SeqsAt, ClientTypes, WaitTypes

LEMMA SendRegistersStep ==
    ASSUME P9Inv, NEW m \in Msgs, SendRegisters(m)
    PROVE  P9Inv'
<1>1. /\ On(m) /\ st[m].pc = "sendreg" /\ SendFrame
      /\ UNCHANGED <<full, fills, conn, reqs, permits, lock, lockQ, cancelled, sock, cur, sent>>
  BY DEF SendRegisters, SendFrame
<1>2. ~In(sock, m) /\ cur # m /\ ~In(lockQ, m) /\ outOp # m /\ lock = m
  BY <1>1, Sender DEF P9Inv, RestAt, RestOf
<1>3. Good(st[m]) /\ "reply" \in Pcs /\ curOut \in BOOLEAN
  BY DEF P9Inv, HandlerAt, Pcs, WaitTypes
<1>4. \A k \in Msgs : k # m => outOp # k
  BY <1>2 DEF P9Inv, RestAt, RestOf
<1>5. CASE NoSchedule /\ curOut' = FALSE /\ outOp' = outOp /\ Lost(m, "reply", ~curOut)
  <2>1. PICK s \in Rec : /\ st' = [st EXCEPT ![m] = s]
                         /\ s.pc = "reply" /\ s.req = st[m].req /\ s.by = st[m].by /\ s.ent = st[m].ent
                         /\ s.ent2 = st[m].ent2 /\ s.res = st[m].res /\ s.made = st[m].made /\ s.stat = st[m].stat
    <3>1. PICK b \in BOOLEAN : Lost(m, "reply", b)
      <4>1. (~curOut) \in BOOLEAN
        BY Zenon
      <4> QED BY <1>5, <4>1, Zenon
    <3> QED BY <1>3, <3>1, Loses DEF P9Inv
  <2>2. Good(s)
    BY <1>1, <1>3, <2>1 DEF Good, Early
  <2>3. Moves(m, s)
    BY <1>1, <2>1, <2>2 DEF Moves, Blocking
  <2>4. ExecInv' /\ \A c : Resting(c)' <=> Resting(c)
    BY <1>5, ExecSame DEF P9Inv, ExecInv, NoSchedule
  <2>5. st'[m] = s /\ \A k \in Msgs : k # m => st'[k] = st[k]
    BY <1>1, <2>3, MovesKeeps DEF P9Inv
  <2>6. RestAt'
    <3>1. RestOf(m)'
      BY <1>1, <1>2, <1>5, <2>1, <2>5 DEF RestOf
    <3> QED BY <1>1, <1>5, <2>4, <2>5, <3>1, OthersRest DEF P9Inv
  <2> QED BY <1>1, <1>5, <2>1, <2>3, <2>4, <2>6, SendKept DEF P9Inv, ConnTypes, SeqsAt, ClientTypes, WaitTypes
<1>6. CASE Park(m) /\ outOp' = m /\ curOut' = curOut /\ Waits(m, "reply")
  <2>1. PICK s \in Rec : /\ st' = [st EXCEPT ![m] = s]
                         /\ s.pc = "reply" /\ s.req = st[m].req /\ s.by = st[m].by /\ s.ent = st[m].ent
                         /\ s.ent2 = st[m].ent2 /\ s.res = st[m].res /\ s.made = st[m].made /\ s.stat = st[m].stat
    BY <1>3, <1>6, WaitsFor DEF P9Inv
  <2>2. Good(s)
    BY <1>1, <1>3, <2>1 DEF Good, Early
  <2>3. Moves(m, s)
    BY <1>1, <2>1, <2>2 DEF Moves, Blocking
  <2>4. ExecInv' /\ \A c \in Coroutines : Resting(c)' <=> Resting(c) \/ c = m
    BY <1>1, <1>6, ExecPark DEF P9Inv, ExecInv
  <2>5. st'[m] = s /\ \A k \in Msgs : k # m => st'[k] = st[k]
    BY <1>1, <2>3, MovesKeeps DEF P9Inv
  <2>6. RestAt'
    <3>1. RestOf(m)'
      BY <1>1, <1>2, <1>6, <2>1, <2>4, <2>5, Members DEF RestOf
    <3>2. ASSUME NEW k \in Msgs, k # m PROVE RestOf(k)'
      <4>1. RestOf(k) /\ st'[k] = st[k] /\ (Resting(k)' <=> Resting(k)) /\ outOp' # k
        BY <1>6, <2>4, <2>5, <3>2, Members DEF P9Inv, RestAt
      <4> QED BY <1>1, <4>1 DEF RestOf
    <3> QED BY <3>1, <3>2 DEF RestAt
  <2>7. Resting(Conn)' <=> Resting(Conn)
    BY <2>4, Members
  <2> QED BY <1>1, <1>3, <1>6, <2>1, <2>3, <2>4, <2>6, <2>7, SendKept DEF P9Inv, ConnTypes, SeqsAt, ClientTypes
<1> QED BY <1>5, <1>6 DEF SendRegisters, Lost, Waits

(* CancelToken::Cancel takes the one that waits in epoll. *)
LEMMA CancelSendStep ==
    ASSUME P9Inv, CancelSend
    PROVE  P9Inv'
<1>1. PICK m \in Msgs : outOp = m
  BY DEF CancelSend, P9Inv, WaitTypes
<1>2. /\ Schedule(m) /\ outOp' = NoCo /\ LostHere(m)
      /\ UNCHANGED <<sent, sock, hungUp, full, fills, conn, cur, fids, objs, reqs, permits, lock, lockQ, cancelled>>
      /\ UNCHANGED <<edgeIn, curIn, inOp, curOut, names, acc, ctl>>
  BY <1>1 DEF CancelSend, LostHere, clientVars, handlerVars, serverVars
<1>3. st[m].pc = "reply" /\ Resting(m) /\ lock = m /\ RestOf(m)
  BY <1>1 DEF P9Inv, RestAt, RestOf
<1>4. PICK s \in Rec : /\ st' = [st EXCEPT ![m] = s]
                       /\ s.pc = st[m].pc /\ s.req = st[m].req /\ s.by = st[m].by /\ s.ent = st[m].ent
                       /\ s.ent2 = st[m].ent2 /\ s.res = st[m].res /\ s.made = st[m].made /\ s.stat = st[m].stat
  BY <1>2, LosesHere DEF P9Inv
<1>5. Good(st[m])
  BY DEF P9Inv, HandlerAt
<1>6. Good(s)
  BY <1>3, <1>4, <1>5 DEF Good, Early
<1>7. Moves(m, s) /\ Quiet(m, s)
  BY <1>3, <1>4, <1>6 DEF Moves, Blocking, Quiet
<1>8. ExecInv' /\ \A c : Resting(c)' <=> Resting(c) /\ c # m
  BY <1>2, <1>3, ExecSchedule, Members DEF P9Inv, ExecInv
<1>9. st'[m] = s /\ \A k \in Msgs : k # m => st'[k] = st[k]
  BY <1>2, <1>7, MovesKeeps DEF P9Inv
<1>10. RestAt'
  <2>1. ~In(sock, m) /\ cur # m /\ ~In(lockQ, m)
    BY <1>3 DEF RestOf
  <2>2. RestOf(m)'
    BY <1>2, <1>3, <1>4, <1>9, <2>1, Members DEF RestOf
  <2>3. ASSUME NEW k \in Msgs, k # m PROVE RestOf(k)'
    <3>1. RestOf(k) /\ st'[k] = st[k] /\ (Resting(k)' <=> Resting(k)) /\ outOp' # k
      BY <1>2, <1>8, <1>9, <2>3, Members DEF P9Inv, RestAt
    <3> QED BY <1>2, <3>1 DEF RestOf
  <2> QED BY <2>2, <2>3 DEF RestAt
<1>11. FidTypes' /\ FidAccount'
  BY <1>2, <1>7, FidsKept
<1>12. Resting(Conn)' <=> Resting(Conn)
  BY <1>8, Members
<1> QED BY <1>2, <1>7, <1>8, <1>10, <1>11, <1>12, Kept DEF P9Inv, ConnTypes, SeqsAt, ClientTypes, WaitTypes

-----------------------------------------------------------------------------
(* Handler::HandleFlush takes the first request with the tag.              *)

Takes(m, t) == st' = [st EXCEPT ![t].by = m, ![m].pc = "flushwait", ![m].res = "ok", ![m].ent = t]

LEMMA FlushTakes ==
    ASSUME P9Inv, NEW m \in Msgs, NEW t \in Msgs, owner = m, st[m].pc = "sent", st[m].req.op = "flush",
           st[t].by = 0, st[t].pc \notin {"idle", "done"}, Suspend,
           Takes(m, t), UNCHANGED reqs, AsyncFrame
    PROVE  P9Inv'
<1>1. /\ UNCHANGED <<sent, sock, hungUp, full, fills, conn, cur, reqs, permits, lock, lockQ, cancelled>>
      /\ UNCHANGED <<edgeIn, curIn, inOp, edgeOut, curOut, outOp, acc, ctl, fids, objs, names>>
  BY DEF AsyncFrame, clientVars, epollVars, serverVars
<1>2. st \in [Msgs -> Rec] /\ \A k \in Msgs : st[k] \in Rec
  BY DEF P9Inv, MsgTypes
<1>3. PICK a : a = [st EXCEPT ![t].by = m]
  OBVIOUS
<1>4. st' = [a EXCEPT ![m].pc = "flushwait", ![m].res = "ok", ![m].ent = t]
  BY <1>3 DEF Takes
<1>5. a \in [Msgs -> Rec] /\ (\A k \in Msgs : k # t => a[k] = st[k]) /\ a[t] = [st[t] EXCEPT !.by = m]
  <2>1. m \in 0..MaxMsgs
    BY Members
  <2>2. [st[t] EXCEPT !.by = m] \in Rec
    BY <1>2, <2>1 DEF Rec
  <2> QED BY <1>2, <1>3, <2>2
<1>6. /\ a[t].by = m /\ a[t].pc = st[t].pc /\ a[t].req = st[t].req /\ a[t].ent = st[t].ent
      /\ a[t].ent2 = st[t].ent2 /\ a[t].res = st[t].res /\ a[t].made = st[t].made /\ a[t].stat = st[t].stat
      /\ a[t].replied = st[t].replied /\ a[t].lost = st[t].lost
  <2>1. st[t] \in Rec
    BY <1>2
  <2> QED BY <1>5, <2>1 DEF Rec
<1> HIDE <1>3
<1>7. /\ st' \in [Msgs -> Rec] /\ (\A k \in Msgs : k # m => st'[k] = a[k])
      /\ st'[m] = [a[m] EXCEPT !.pc = "flushwait", !.res = "ok", !.ent = t]
  <2>1. [a[m] EXCEPT !.pc = "flushwait", !.res = "ok", !.ent = t] \in Rec
    <3>1. a[m] \in Rec /\ t \in 0..Base
      BY <1>5, Members
    <3>2. "flushwait" \in Pcs /\ "ok" \in {"none", "ok", "err", "failed"}
      BY DEF Pcs
    <3> QED BY <3>1, <3>2, Zenon DEF Rec
  <2> QED BY <1>4, <1>5, <2>1
<1>8. /\ st'[m].pc = "flushwait" /\ st'[m].res = "ok" /\ st'[m].ent = t /\ st'[m].req = a[m].req
      /\ st'[m].by = a[m].by /\ st'[m].made = a[m].made /\ st'[m].stat = a[m].stat /\ st'[m].replied = a[m].replied
  <2>1. a[m] \in Rec
    BY <1>5
  <2> QED BY <1>7, <2>1 DEF Rec
<1>9. ASSUME NEW k \in Msgs
       PROVE  /\ a[k].by = (IF k = t THEN m ELSE st[k].by) /\ a[k].req = st[k].req
              /\ a[k].made = st[k].made /\ a[k].stat = st[k].stat
              /\ a[k].pc = st[k].pc /\ a[k].ent = st[k].ent /\ a[k].ent2 = st[k].ent2
              /\ a[k].res = st[k].res /\ a[k].replied = st[k].replied /\ a[k].lost = st[k].lost
  <2>1. CASE k = t
    BY <1>6, <2>1
  <2>2. CASE k # t
    BY <1>5, <2>2
  <2> QED BY <2>1, <2>2
<1>10. ASSUME NEW k \in Msgs
      PROVE  /\ st'[k].by = (IF k = t THEN m ELSE st[k].by) /\ st'[k].req = st[k].req
             /\ st'[k].made = st[k].made /\ st'[k].stat = st[k].stat
             /\ k # m => /\ st'[k].pc = st[k].pc /\ st'[k].ent = st[k].ent /\ st'[k].ent2 = st[k].ent2
                         /\ st'[k].res = st[k].res
                         /\ st'[k].replied = st[k].replied /\ st'[k].lost = st[k].lost
  <2>1. CASE k = m
    BY <1>8, <1>9, <2>1
  <2>2. CASE k # m
    <3>1. st'[k] = a[k]
      BY <1>7, <2>2
    <3> QED BY <1>9, <2>2, <3>1
  <2> QED BY <2>1, <2>2
<1>11. MsgTypes'
  BY <1>7 DEF MsgTypes
<1>12. IdleAt'
  <2>1. ASSUME NEW k \in Msgs PROVE (k > sent => st'[k] = Idle) /\ (k <= sent => st'[k].pc # "idle")
    <3>1. (k > sent => st[k] = Idle) /\ (k <= sent => st[k].pc # "idle")
      BY DEF P9Inv, IdleAt
    <3>2. k \in Nat /\ sent \in Nat
      BY Members DEF P9Inv, ClientTypes
    <3>3. ~(k > sent) \/ (k # m /\ k # t)
      BY <3>1 DEF Idle
    <3>4. k > sent => st'[k] = st[k]
      BY <1>5, <1>7, <3>3
    <3>5. k <= sent => st'[k].pc # "idle"
      BY <1>8, <1>10, <3>1
    <3> QED BY <3>1, <3>4, <3>5
  <2> QED BY <1>1, <2>1 DEF IdleAt
<1>13. HandlerAt'
  <2>1. ASSUME NEW k \in Msgs PROVE Good(st'[k])
    <3>1. Good(st[k])
      BY DEF P9Inv, HandlerAt
    <3>2. CASE k = m
      BY <1>8, <1>10, <1>9, <3>1, <3>2 DEF Good, Early
    <3>3. CASE k # m
      BY <1>10, <3>1, <3>3 DEF Good, Early
    <3> QED BY <3>2, <3>3
  <2> QED BY <2>1 DEF HandlerAt
<1>14. TakenAt'
  <2>1. ASSUME NEW k \in Msgs
        PROVE  /\ st'[k].by # 0 /\ st'[k].pc # "done" => st'[st'[k].by].pc = "flushwait" /\ st'[st'[k].by].ent = k
               /\ st'[k].pc \in {"hop1", "hop2", "finish", "done"} => st'[k].replied \/ st'[k].lost
               /\ st'[k].req.op = "flush" /\ st'[k].ent # 0 =>
                      st'[k].ent \in Msgs /\ (st'[k].pc = "flushwait" \/ st'[st'[k].ent].pc = "done")
               /\ st'[k].pc = "flushwait" => st'[k].req.op = "flush"
               /\ st'[k].pc \in Blocking => st'[k].req.op \notin Async
    <3>1. /\ st[k].by # 0 /\ st[k].pc # "done" => st[st[k].by].pc = "flushwait" /\ st[st[k].by].ent = k
          /\ st[k].pc \in {"hop1", "hop2", "finish", "done"} => st[k].replied \/ st[k].lost
          /\ st[k].req.op = "flush" /\ st[k].ent # 0 =>
                 st[k].ent \in Msgs /\ (st[k].pc = "flushwait" \/ st[st[k].ent].pc = "done")
          /\ st[k].pc = "flushwait" => st[k].req.op = "flush"
          /\ st[k].pc \in Blocking => st[k].req.op \notin Async
      BY DEF P9Inv, TakenAt
    <3>2. st[k].by \in Msgs \cup {0}
      BY <1>2, Members DEF Rec
    <3>3. st'[k].by # 0 /\ st'[k].pc # "done" => st'[st'[k].by].pc = "flushwait" /\ st'[st'[k].by].ent = k
      <4>1. CASE k = t
        BY <1>8, <1>10, <4>1
      <4>2. CASE k # t
        <5>1. st'[k].by = st[k].by /\ (st'[k].pc # "done" => st[k].pc # "done")
          BY <1>10, <4>2
        <5>2. ASSUME st[k].by # 0, st[k].pc # "done" PROVE st[k].by \in Msgs /\ st[k].by # m
          BY <3>1, <3>2, <5>2
        <5> QED BY <1>10, <3>1, <5>1, <5>2
      <4> QED BY <4>1, <4>2
    <3>4. CASE k = m
      BY <1>8, <1>10, <3>3, <3>4 DEF Blocking
    <3>5. CASE k # m
      <4>1. st[k].req.op = "flush" /\ st[k].ent # 0 /\ st[st[k].ent].pc = "done" => st'[st[k].ent].pc = "done"
        BY <1>10, <3>1
      <4> QED BY <1>10, <3>1, <3>3, <3>5, <4>1
    <3> QED BY <3>4, <3>5
  <2> QED BY <2>1 DEF TakenAt
<1>15. ExecInv' /\ \A c \in Coroutines : Resting(c)' <=> Resting(c) \/ c = m
  BY ExecSuspend DEF P9Inv, ExecInv
<1>16. RestAt'
  <2>1. ~In(sock, m) /\ cur # m /\ ~In(lockQ, m) /\ outOp # m
    BY Sender DEF On
  <2>2. RestOf(m)'
    BY <1>1, <1>8, <1>15, <2>1, Members DEF RestOf
  <2>3. \A k \in Msgs : k # m => st'[k].pc = st[k].pc
    BY <1>10
  <2>4. UNCHANGED <<sock, cur, lockQ, lock, outOp>>
    BY <1>1
  <2> QED BY <1>15, <2>2, <2>3, <2>4, OthersRest DEF P9Inv
<1>17. FidTypes' /\ FidAccount'
  <2>1. ASSUME NEW f PROVE Made(f)' = Made(f) /\ Gone(f)' = Gone(f)
    <3>1. \A k \in Msgs : st'[k].req = st[k].req /\ (st[k].req.op \in Counted => st'[k].res = st[k].res)
      BY <1>10 DEF Counted, NewFidOps
    <3> QED BY <3>1 DEF Made, Gone, Counted
  <2>2. FidAccount'
    BY <1>1, <2>1, AccountKept DEF P9Inv
  <2> QED BY <1>1, <2>2 DEF P9Inv, FidTypes
<1>18. \A k \in Msgs : st'[k].pc \in {"idle", "done"} <=> st[k].pc \in {"idle", "done"}
  BY <1>8, <1>10
<1>19. Resting(Conn)' <=> Resting(Conn)
  BY <1>15, Members
<1> QED BY <1>1, <1>11, <1>12, <1>13, <1>14, <1>15, <1>16, <1>17, <1>18, <1>19, AllKept
        DEF P9Inv, ConnTypes, SeqsAt, ClientTypes, WaitTypes

LEMMA FlushStep ==
    ASSUME P9Inv, NEW m \in Msgs, HandleFlush(m)
    PROVE  P9Inv'
<1>1. owner = m /\ st[m].pc = "sent" /\ st[m].req.op = "flush" /\ UNCHANGED reqs /\ AsyncFrame
  BY DEF HandleFlush
<1> DEFINE hits == {i \in 1..Len(reqs) : st[reqs[i]].tag = st[m].req.old /\ st[reqs[i]].by = 0}
           t == reqs[CHOOSE i \in hits : \A j \in hits : i <= j]
<1>2. IF hits = {} THEN NoSchedule /\ Now(m, "ok") ELSE Suspend /\ Takes(m, t)
  BY Zenon DEF HandleFlush, Now, Takes
<1>3. CASE hits = {}
  <2>1. NoSchedule /\ Now(m, "ok")
    <3> HIDE DEF hits, t
    <3> QED BY <1>3, <1>2
  <2> HIDE DEF hits
  <2> QED BY <1>1, <2>1, NowStep DEF Async
<1>4. CASE hits # {}
  <2>1. Suspend /\ Takes(m, t)
    <3> HIDE DEF hits, t
    <3> QED BY <1>4, <1>2
  <2>2. PICK i \in hits : t = reqs[i]
    <3>1. hits \in SUBSET Nat
      OBVIOUS
    <3> HIDE DEF hits
    <3>2. \E x \in hits : \A y \in hits : x <= y
      BY <1>4, <3>1, FirstOf
    <3> QED BY <3>2
  <2>3. i \in 1..Len(reqs) /\ st[reqs[i]].by = 0
    BY <2>2
  <2> HIDE DEF hits, t
  <2>4. t \in Msgs /\ In(reqs, t) /\ st[t].by = 0
    BY <2>2, <2>3 DEF P9Inv, ConnTypes, In
  <2>5. st[t].pc \notin {"idle", "done"}
    BY <2>4 DEF P9Inv, ListAt
  <2> QED BY <1>1, <2>1, <2>4, <2>5, FlushTakes
<1> QED BY <1>3, <1>4

-----------------------------------------------------------------------------
(* The end of a task.                                                      *)

Ends(m, f) == st' = [k \in Msgs |->
                        CASE k = m -> [st[m] EXCEPT !.pc = "done", !.susp = FALSE, !.stat = "none", !.made = FALSE]
                          [] k = f -> [st[f] EXCEPT !.pc = "reply", !.susp = TRUE]
                          [] OTHER -> st[k]]

(* What becomes of the requests: one is done, and the Tflush that waited   *)
(* for it goes on.                                                         *)
LEMMA EndsKeeps ==
    ASSUME MsgTypes, IdleAt, TakenAt, HandlerAt, NEW m \in Msgs, NEW f, f = st[m].by, st[m].pc = "finish",
           Ends(m, f), UNCHANGED sent
    PROVE  /\ MsgTypes' /\ IdleAt' /\ TakenAt' /\ HandlerAt'
           /\ f \in Msgs \cup {0} /\ f # m /\ (f # 0 => st[f].pc = "flushwait")
           /\ st'[m].pc = "done" /\ (f # 0 => st'[f].pc = "reply")
           /\ \A k \in Msgs : k # m /\ k # f => st'[k] = st[k]
           /\ \A k \in Msgs : st'[k].req = st[k].req /\ st'[k].res = st[k].res
<1>1. f \in Msgs \cup {0} /\ st[m] \in Rec
  BY Members DEF MsgTypes, Rec
<1>2. f # 0 => st[f].pc = "flushwait" /\ st[f].ent = m /\ st[f] \in Rec
  BY <1>1 DEF TakenAt, MsgTypes
<1>3. f # m
  BY <1>2, Members
<1>4. PICK d : d = [st[m] EXCEPT !.pc = "done", !.susp = FALSE, !.stat = "none", !.made = FALSE]
  OBVIOUS
<1>5. PICK e : e = [st[f] EXCEPT !.pc = "reply", !.susp = TRUE]
  OBVIOUS
<1>6. st' = [k \in Msgs |-> IF k = m THEN d ELSE IF k = f THEN e ELSE st[k]]
  BY <1>3, <1>4, <1>5 DEF Ends
<1>7. /\ d \in Rec /\ d.pc = "done" /\ d.stat = "none" /\ d.made = FALSE /\ d.req = st[m].req /\ d.by = st[m].by
      /\ d.ent = st[m].ent /\ d.ent2 = st[m].ent2 /\ d.res = st[m].res /\ d.replied = st[m].replied /\ d.lost = st[m].lost
  BY <1>1, <1>4 DEF Rec, Pcs
<1>8. f # 0 => /\ e \in Rec /\ e.pc = "reply" /\ e.req = st[f].req /\ e.by = st[f].by /\ e.stat = st[f].stat
               /\ e.made = st[f].made /\ e.ent = st[f].ent /\ e.ent2 = st[f].ent2 /\ e.res = st[f].res
  BY <1>2, <1>5 DEF Rec, Pcs
<1>9. st'[m] = d /\ (f # 0 => st'[f] = e) /\ \A k \in Msgs : k # m /\ k # f => st'[k] = st[k]
  BY <1>1, <1>3, <1>6
<1> HIDE <1>4, <1>5, <1>6
<1>10. MsgTypes'
  <2>1. \A k \in Msgs : (IF k = m THEN d ELSE IF k = f THEN e ELSE st[k]) \in Rec
    BY <1>7, <1>8, Members DEF MsgTypes
  <2> QED BY <1>6, <2>1 DEF MsgTypes
<1>11. IdleAt'
  <2>1. ASSUME NEW k \in Msgs PROVE (k > sent => st'[k] = Idle) /\ (k <= sent => st'[k].pc # "idle")
    <3>1. (k > sent => st[k] = Idle) /\ (k <= sent => st[k].pc # "idle")
      BY DEF IdleAt
    <3>2. CASE k = m
      BY <1>7, <1>9, <3>1, <3>2 DEF Idle
    <3>3. CASE k = f
      <4>1. f # 0
        BY <3>3, Members
      <4> QED BY <1>2, <1>8, <1>9, <3>1, <3>3, <4>1 DEF Idle
    <3>4. CASE k # m /\ k # f
      BY <1>9, <3>1, <3>4
    <3> QED BY <3>2, <3>3, <3>4
  <2> QED BY <2>1 DEF IdleAt
<1>12. HandlerAt'
  <2>1. ASSUME NEW k \in Msgs PROVE Good(st'[k])
    <3>1. Good(st[k])
      BY DEF HandlerAt
    <3>2. CASE k = m
      BY <1>7, <1>9, <3>1, <3>2 DEF Good, Early
    <3>3. CASE k = f
      <4>1. f # 0
        BY <3>3, Members
      <4> QED BY <1>2, <1>8, <1>9, <3>1, <3>3, <4>1 DEF Good, Early
    <3>4. CASE k # m /\ k # f
      BY <1>9, <3>1, <3>4
    <3> QED BY <3>2, <3>3, <3>4
  <2> QED BY <2>1 DEF HandlerAt
<1>13. TakenAt'
  <2>1. ASSUME NEW k \in Msgs
        PROVE  /\ st'[k].by # 0 /\ st'[k].pc # "done" => st'[st'[k].by].pc = "flushwait" /\ st'[st'[k].by].ent = k
               /\ st'[k].pc \in {"hop1", "hop2", "finish", "done"} => st'[k].replied \/ st'[k].lost
               /\ st'[k].req.op = "flush" /\ st'[k].ent # 0 =>
                      st'[k].ent \in Msgs /\ (st'[k].pc = "flushwait" \/ st'[st'[k].ent].pc = "done")
               /\ st'[k].pc = "flushwait" => st'[k].req.op = "flush"
               /\ st'[k].pc \in Blocking => st'[k].req.op \notin Async
    <3>1. /\ st[k].by # 0 /\ st[k].pc # "done" => st[st[k].by].pc = "flushwait" /\ st[st[k].by].ent = k
          /\ st[k].pc \in {"hop1", "hop2", "finish", "done"} => st[k].replied \/ st[k].lost
          /\ st[k].req.op = "flush" /\ st[k].ent # 0 =>
                 st[k].ent \in Msgs /\ (st[k].pc = "flushwait" \/ st[st[k].ent].pc = "done")
          /\ st[k].pc = "flushwait" => st[k].req.op = "flush"
          /\ st[k].pc \in Blocking => st[k].req.op \notin Async
      BY DEF TakenAt
    <3>2. st[k].by \in Msgs \cup {0}
      BY Members DEF MsgTypes, Rec
    <3>3. k # m /\ st[k].by # 0 /\ st[k].pc # "done" => st'[st[k].by] = st[st[k].by]
      <4>1. ASSUME k # m, st[k].by # 0, st[k].pc # "done" PROVE st[k].by # m /\ st[k].by # f
        BY <1>2, <3>1, <4>1, Members
      <4> QED BY <1>9, <3>2, <4>1
    <3>4. st[k].req.op = "flush" /\ st[k].ent # 0 /\ st[st[k].ent].pc = "done" => st'[st[k].ent].pc = "done"
      <4>1. ASSUME st[k].ent \in Msgs, st[st[k].ent].pc = "done" PROVE st[k].ent # m /\ st[k].ent # f
        BY <1>2, <4>1, Members
      <4> QED BY <1>9, <3>1, <4>1
    <3>5. CASE k = m
      BY <1>7, <1>9, <3>1, <3>4, <3>5 DEF Blocking
    <3>6. CASE k = f
      <4>1. f # 0
        BY <3>6, Members
      <4>2. st'[m].pc = "done"
        BY <1>7, <1>9
      <4> QED BY <1>2, <1>3, <1>8, <1>9, <3>1, <3>3, <3>6, <4>1, <4>2 DEF Blocking
    <3>7. CASE k # m /\ k # f
      BY <1>9, <3>1, <3>3, <3>4, <3>7
    <3> QED BY <3>5, <3>6, <3>7
  <2> QED BY <2>1 DEF TakenAt
<1>14. ASSUME NEW k \in Msgs PROVE st'[k].req = st[k].req /\ st'[k].res = st[k].res
  <2>1. CASE k = m
    BY <1>7, <1>9, <2>1
  <2>2. CASE k = f
    BY <1>8, <1>9, <2>2, Members
  <2>3. CASE k # m /\ k # f
    BY <1>9, <2>3
  <2> QED BY <2>1, <2>2, <2>3
<1> QED BY <1>1, <1>2, <1>3, <1>7, <1>8, <1>9, <1>10, <1>11, <1>12, <1>13, <1>14

(* The permit of the request goes to the reader that waits for one, to the *)
(* one that waits for all, or back.                                        *)
LEMMA PermitBack ==
    ASSUME P9Inv, NEW m \in Active, Active' = Active \ {m},
           \/ conn = "acquire" /\ conn' = "start" /\ permits' = permits
           \/ conn = "draining" /\ permits + 1 = Permits /\ conn' = "drained" /\ permits' = 0
           \/ conn # "acquire" /\ conn' = conn /\ permits' = permits + 1
    PROVE  PermitAt' /\ permits' \in Nat
<1>1. IsFiniteSet(Active)
  BY Members, FS_Subset DEF Active
<1>2. PICK n \in Nat : n = Cardinality(Active)
  BY <1>1, FS_CardinalityType
<1>3. Cardinality(Active') = n - 1 /\ IsFiniteSet(Active')
  BY <1>1, <1>2, FS_RemoveElement
<1>4. permits \in Nat /\ Permits \in Nat
  BY P9Assumption DEF P9Inv, ConnTypes
<1>5. conn \notin {"drained", "ended"} /\ (permits + n) + Promised = Permits
  BY <1>2 DEF P9Inv, PermitAt
<1>6. CASE conn = "acquire" /\ conn' = "start" /\ permits' = permits
  <2>1. Promised = 0 /\ Promised' = 1
    BY <1>6 DEF Promised
  <2>2. (permits' + (n - 1)) + Promised' = Permits
    BY <1>4, <1>5, <1>6, <2>1
  <2> QED BY <1>3, <1>4, <1>6, <2>2 DEF PermitAt
<1>7. CASE conn = "draining" /\ permits + 1 = Permits /\ conn' = "drained" /\ permits' = 0
  <2>1. Promised = 0
    BY <1>7 DEF Promised
  <2>2. n - 1 = 0
    BY <1>4, <1>5, <1>7, <2>1
  <2>3. Active' = {}
    BY <1>3, <2>2, FS_EmptySet
  <2> QED BY <1>7, <2>3 DEF PermitAt
<1>8. CASE conn # "acquire" /\ conn' = conn /\ permits' = permits + 1
  <2>1. Promised' = Promised /\ Promised \in Nat
    BY <1>8 DEF Promised
  <2>2. (permits' + (n - 1)) + Promised' = Permits
    BY <1>4, <1>5, <1>8, <2>1
  <2> QED BY <1>3, <1>4, <1>5, <1>8, <2>2 DEF PermitAt
<1> QED BY <1>6, <1>7, <1>8

LEMMA FinishStep ==
    ASSUME P9Inv, NEW m \in Msgs, Finish(m)
    PROVE  P9Inv'
<1>1. /\ On(m) /\ st[m].pc = "finish"
      /\ UNCHANGED <<sent, sock, hungUp, cur, fids, objs, edgeIn, curIn, inOp, names, acc, ctl>>
      /\ UNCHANGED <<full, fills, lock, lockQ, cancelled, curOut, outOp>>
  BY DEF Finish, SendFrame, serverVars
<1>2. PICK f : f = st[m].by
  OBVIOUS
<1>3. PICK wakes \in BOOLEAN : wakes <=> conn = "acquire" \/ (conn = "draining" /\ permits + 1 = Permits)
  BY Zenon
<1>4. /\ queue' = queue \o (IF f = 0 THEN <<>> ELSE <<f>>) \o (IF wakes THEN <<Conn>> ELSE <<>>)
      /\ IF owner = m THEN owner' = NoCo /\ UNCHANGED blocked
                      ELSE blocked' = blocked \ {m} /\ UNCHANGED owner
      /\ Ends(m, f)
  <2>1. queue' = queue \o (IF f = 0 THEN <<>> ELSE <<f>>) \o (IF wakes THEN <<Conn>> ELSE <<>>)
    BY <1>2, <1>3 DEF Finish
  <2>2. IF owner = m THEN owner' = NoCo /\ UNCHANGED blocked
                     ELSE blocked' = blocked \ {m} /\ UNCHANGED owner
    BY DEF Finish
  <2>3. Ends(m, st[m].by)
    BY DEF Finish, Ends
  <2> QED BY <1>2, <2>1, <2>2, <2>3
<1>5. \/ conn = "acquire" /\ conn' = "start" /\ permits' = permits
      \/ conn = "draining" /\ permits + 1 = Permits /\ conn' = "drained" /\ permits' = 0
      \/ conn # "acquire" /\ ~wakes /\ conn' = conn /\ permits' = permits + 1
  BY <1>3 DEF Finish
<1>6. /\ MsgTypes' /\ IdleAt' /\ TakenAt' /\ HandlerAt'
      /\ f \in Msgs \cup {0} /\ f # m /\ (f # 0 => st[f].pc = "flushwait")
      /\ st'[m].pc = "done" /\ (f # 0 => st'[f].pc = "reply")
      /\ \A k \in Msgs : k # m /\ k # f => st'[k] = st[k]
      /\ \A k \in Msgs : st'[k].req = st[k].req /\ st'[k].res = st[k].res
  BY <1>1, <1>2, <1>4, EndsKeeps DEF P9Inv
<1>7. f # 0 => Resting(f) /\ RestOf(f)
  BY <1>6 DEF P9Inv, RestAt, RestOf
<1>8. wakes => Resting(Conn)
  BY <1>3 DEF P9Inv, ConnAt
<1>9. /\ ExecInv'
      /\ \A c \in Coroutines : Resting(c)' <=> (Resting(c) \/ c = m) /\ (f # 0 => c # f) /\ (wakes => c # Conn)
  BY <1>1, <1>4, <1>6, <1>7, <1>8, ExecFinish DEF P9Inv, ExecInv
<1>10. ~In(sock, m) /\ cur # m /\ ~In(lockQ, m) /\ outOp # m
  BY <1>1, Sender
<1>11. RestAt'
  <2>1. RestOf(m)'
    BY <1>1, <1>6, <1>9, <1>10, Members DEF RestOf
  <2>2. ASSUME f # 0 PROVE RestOf(f)'
    <3>1. ~In(sock, f) /\ cur # f /\ ~In(lockQ, f) /\ outOp # f
      BY <1>6, <1>7, <2>2 DEF RestOf
    <3> QED BY <1>1, <1>6, <2>2, <3>1 DEF RestOf
  <2>3. ASSUME NEW k \in Msgs, k # m, k # f PROVE RestOf(k)'
    <3>1. RestOf(k) /\ st'[k] = st[k] /\ (Resting(k)' <=> Resting(k))
      BY <1>6, <1>9, <2>3, Members DEF P9Inv, RestAt
    <3> QED BY <1>1, <3>1 DEF RestOf
  <2> QED BY <2>1, <2>2, <2>3, Members DEF RestAt
<1>12. \A k \in Msgs : k # m => (st'[k].pc \in {"idle", "done"} <=> st[k].pc \in {"idle", "done"})
  BY <1>6, Members
<1>13. m \in Active /\ Active' = Active \ {m}
  BY <1>1, <1>6, <1>10, <1>12 DEF Active
<1>14. PermitAt' /\ permits' \in Nat
  BY <1>5, <1>13, PermitBack
<1>15. reqs' \in Seq(Msgs) /\ Distinct(reqs') /\ \A y : In(reqs', y) <=> In(reqs, y) /\ y # m
  <2>1. reqs \in Seq(Msgs) /\ Distinct(reqs) /\ In(reqs, m)
    BY <1>1, <1>10 DEF P9Inv, ConnTypes, SeqsAt, ListAt
  <2>2. PICK i \in 1..Len(reqs) : reqs[i] = m /\ reqs' = Without(reqs, i)
    <3> DEFINE i == CHOOSE j \in 1..Len(reqs) : reqs[j] = m
    <3>1. i \in 1..Len(reqs) /\ reqs[i] = m
      BY <2>1 DEF In
    <3>2. reqs' = Without(reqs, i)
      BY DEF Finish, Without
    <3> HIDE DEF i
    <3> QED BY <3>1, <3>2
  <2> QED BY <2>1, <2>2, TakenOut
<1>16. ListAt'
  <2>1. ASSUME NEW k \in Msgs PROVE In(reqs', k) <=> st'[k].pc \notin {"idle", "done"} /\ ~In(sock, k)
    <3>1. In(reqs, k) <=> st[k].pc \notin {"idle", "done"} /\ ~In(sock, k)
      BY DEF P9Inv, ListAt
    <3> QED BY <1>6, <1>12, <1>15, <3>1
  <2> QED BY <1>1, <2>1 DEF ListAt
<1>17. conn' \in Conns /\ ConnAt'
  <2>1. Resting(Conn)' <=> Resting(Conn) /\ ~wakes
    BY <1>6, <1>9, Members
  <2>2. ConnAt /\ conn \in Conns
    BY DEF P9Inv, ConnTypes
  <2>3. CASE conn = "acquire" /\ conn' = "start"
    BY <1>1, <2>2, <2>3 DEF ConnAt, Conns
  <2>4. CASE conn = "draining" /\ conn' = "drained"
    BY <1>1, <2>2, <2>4 DEF ConnAt, Conns
  <2>5. CASE ~wakes /\ conn' = conn
    BY <1>1, <2>1, <2>2, <2>5 DEF ConnAt
  <2> QED BY <1>5, <2>3, <2>4, <2>5
<1>18. FidTypes' /\ FidAccount'
  <2>1. ASSUME NEW g PROVE Made(g)' = Made(g) /\ Gone(g)' = Gone(g)
    BY <1>6 DEF Made, Gone
  <2>2. FidAccount'
    BY <1>1, <2>1, AccountKept DEF P9Inv
  <2> QED BY <1>1, <2>2 DEF P9Inv, FidTypes
<1>19. ClientTypes' /\ ConnTypes' /\ WaitTypes' /\ ServerTypes' /\ SeqsAt'
  BY <1>1, <1>14, <1>15, <1>17 DEF P9Inv, ClientTypes, ConnTypes, WaitTypes, ServerTypes, SeqsAt
<1>20. RegisterAt' /\ ReaderWoken'
  BY <1>1, <1>5 DEF P9Inv, RegisterAt, ReaderWoken
<1> QED BY <1>6, <1>9, <1>11, <1>14, <1>16, <1>17, <1>18, <1>19, <1>20 DEF P9Inv, ExecInv

-----------------------------------------------------------------------------
(* The client sends its next request.                                      *)

NewReq(r, t, g) == [Idle EXCEPT !.pc = "sent", !.req = r, !.tag = t, !.goal = g]

LEMMA SendsStep ==
    ASSUME P9Inv, NEW s \in Scripts, ClientSends(s)
    PROVE  P9Inv'
<1>1. /\ sent < Len(s) /\ sent' = sent + 1 /\ sock' = Append(sock, sent + 1) /\ edgeIn' = TRUE /\ FreeTags # {}
      /\ UNCHANGED <<queue, owner, blocked, hungUp, full, fills, conn, cur, fids, objs, reqs, permits>>
      /\ UNCHANGED <<lock, lockQ, cancelled, curIn, inOp, curOut, outOp, names, acc, ctl>>
  BY DEF ClientSends, execVars, handlerVars, serverVars
<1>2. PICK m : m = sent + 1
  OBVIOUS
<1>3. s \in Seq(Request) /\ Len(s) <= MaxMsgs
  BY ScriptAssumption
<1>4. m \in Msgs /\ sent \in Nat /\ m \in 1..Len(s)
  BY <1>1, <1>2, <1>3, P9Assumption DEF P9Inv, ClientTypes, Msgs
<1>5. PICK r : r = s[m]
  OBVIOUS
<1>6. r \in Request
  BY <1>3, <1>4, <1>5
<1>7. PICK t \in Nat, g \in Nat : st' = [st EXCEPT ![m] = NewReq(r, t, g)]
  <2> DEFINE low == CHOOSE x \in FreeTags : \A y \in FreeTags : x <= y
  <2>1. low \in Nat
    <3>1. FreeTags \in SUBSET Nat
      BY P9Assumption DEF FreeTags
    <3>2. \E x \in FreeTags : \A y \in FreeTags : x <= y
      BY <1>1, <3>1, FirstOf
    <3> QED BY <3>1, <3>2
  <2>2. \E x \in IF s[sent + 1].op = "flush" THEN Flushable(s[sent + 1].old) ELSE {0} :
            st' = [st EXCEPT ![sent + 1] = NewReq(s[sent + 1], low, x)]
    BY Zenon DEF ClientSends, NewReq
  <2> HIDE DEF low
  <2>3. PICK x \in IF s[sent + 1].op = "flush" THEN Flushable(s[sent + 1].old) ELSE {0} :
            st' = [st EXCEPT ![sent + 1] = NewReq(s[sent + 1], low, x)]
    BY <2>2
  <2>4. x \in Nat
    <3>1. x = 0 \/ x \in 1..sent
      BY <2>3 DEF Flushable, Outstanding
    <3> QED BY <1>4, <3>1
  <2>5. st' = [st EXCEPT ![m] = NewReq(r, low, x)]
    BY <1>2, <1>5, <2>3
  <2> QED BY <2>1, <2>4, <2>5
<1>8. PICK z : z = NewReq(r, t, g)
  OBVIOUS
<1>9. /\ z \in Rec /\ z.pc = "sent" /\ z.req = r /\ z.ent = 0 /\ z.ent2 = 0 /\ z.res = "none" /\ z.by = 0
      /\ z.made = FALSE /\ z.stat = "none" /\ z.lost = FALSE /\ z.replied = FALSE
  BY <1>6, <1>7, <1>8, Members DEF Idle, Rec, Pcs, NewReq
<1>10. st' = [st EXCEPT ![m] = z]
  BY <1>7, <1>8
<1> HIDE <1>7, <1>8
<1>11. MsgTypes' /\ st'[m] = z /\ \A k \in Msgs : k # m => st'[k] = st[k]
  BY <1>4, <1>9, <1>10 DEF P9Inv, MsgTypes
<1>12. st[m] = Idle
  BY <1>2, <1>4 DEF P9Inv, IdleAt
<1>13. st[m].pc = "idle" /\ st[m].res = "none"
  BY <1>12 DEF Idle
<1>14. Resting(m) /\ ~In(sock, m) /\ cur # m /\ ~In(lockQ, m) /\ outOp # m
  <2>1. RestOf(m)
    BY <1>4 DEF P9Inv, RestAt
  <2> QED BY <1>13, <2>1 DEF RestOf
<1>15. sock' \in Seq(Msgs) /\ Distinct(sock') /\ \A y : In(sock', y) <=> In(sock, y) \/ y = m
  BY <1>1, <1>2, <1>4, <1>14, AppendIn DEF P9Inv, ClientTypes, SeqsAt
<1>16. IdleAt'
  <2>1. ASSUME NEW k \in Msgs PROVE (k > m => st'[k] = Idle) /\ (k <= m => st'[k].pc # "idle")
    <3>1. (k > sent => st[k] = Idle) /\ (k <= sent => st[k].pc # "idle")
      BY DEF P9Inv, IdleAt
    <3>2. k \in Nat
      BY Members
    <3>3. CASE k = m
      BY <1>9, <1>11, <3>2, <3>3
    <3>4. CASE k # m
      BY <1>2, <1>4, <1>11, <3>1, <3>2, <3>4
    <3> QED BY <3>3, <3>4
  <2> QED BY <1>1, <1>2, <2>1 DEF IdleAt
<1>17. HandlerAt'
  <2>1. Good(z)
    BY <1>6, <1>9 DEF Good
  <2> QED BY <1>11, <2>1 DEF P9Inv, HandlerAt
<1>18. TakenAt'
  <2>1. ASSUME NEW k \in Msgs
        PROVE  /\ st'[k].by # 0 /\ st'[k].pc # "done" => st'[st'[k].by].pc = "flushwait" /\ st'[st'[k].by].ent = k
               /\ st'[k].pc \in {"hop1", "hop2", "finish", "done"} => st'[k].replied \/ st'[k].lost
               /\ st'[k].req.op = "flush" /\ st'[k].ent # 0 =>
                      st'[k].ent \in Msgs /\ (st'[k].pc = "flushwait" \/ st'[st'[k].ent].pc = "done")
               /\ st'[k].pc = "flushwait" => st'[k].req.op = "flush"
               /\ st'[k].pc \in Blocking => st'[k].req.op \notin Async
    <3>1. CASE k = m
      BY <1>9, <1>11, <3>1 DEF Blocking
    <3>2. CASE k # m
      <4>1. /\ st[k].by # 0 /\ st[k].pc # "done" => st[st[k].by].pc = "flushwait" /\ st[st[k].by].ent = k
            /\ st[k].pc \in {"hop1", "hop2", "finish", "done"} => st[k].replied \/ st[k].lost
            /\ st[k].req.op = "flush" /\ st[k].ent # 0 =>
                   st[k].ent \in Msgs /\ (st[k].pc = "flushwait" \/ st[st[k].ent].pc = "done")
            /\ st[k].pc = "flushwait" => st[k].req.op = "flush"
            /\ st[k].pc \in Blocking => st[k].req.op \notin Async
        BY DEF P9Inv, TakenAt
      <4>2. st[k].by \in Msgs \cup {0}
        BY Members DEF P9Inv, MsgTypes, Rec
      <4>3. st[k].by # 0 /\ st[k].pc # "done" => st'[st[k].by] = st[st[k].by]
        BY <1>11, <1>13, <4>1, <4>2
      <4>4. st[k].req.op = "flush" /\ st[k].ent # 0 /\ st[st[k].ent].pc = "done" => st'[st[k].ent] = st[st[k].ent]
        BY <1>11, <1>13, <4>1
      <4> QED BY <1>11, <3>2, <4>1, <4>3, <4>4
    <3> QED BY <3>1, <3>2
  <2> QED BY <2>1 DEF TakenAt
<1>19. ExecInv' /\ \A c : Resting(c)' <=> Resting(c)
  BY <1>1, ExecSame DEF P9Inv, ExecInv, execVars
<1>20. RestAt'
  <2>1. RestOf(m)'
    BY <1>1, <1>9, <1>11, <1>14, <1>19 DEF RestOf
  <2>2. ASSUME NEW k \in Msgs, k # m PROVE RestOf(k)'
    <3>1. RestOf(k) /\ st'[k] = st[k] /\ (Resting(k)' <=> Resting(k)) /\ (In(sock', k) <=> In(sock, k))
      BY <1>11, <1>15, <1>19, <2>2 DEF P9Inv, RestAt
    <3> QED BY <1>1, <3>1 DEF RestOf
  <2> QED BY <2>1, <2>2 DEF RestAt
<1>21. Active' = Active
  BY <1>1, <1>4, <1>11, <1>13, <1>15 DEF Active
<1>22. ListAt'
  <2>1. ASSUME NEW k \in Msgs PROVE In(reqs, k) <=> st'[k].pc \notin {"idle", "done"} /\ ~In(sock', k)
    <3>1. In(reqs, k) <=> st[k].pc \notin {"idle", "done"} /\ ~In(sock, k)
      BY DEF P9Inv, ListAt
    <3> QED BY <1>11, <1>13, <1>15, <3>1
  <2> QED BY <1>1, <2>1 DEF ListAt
<1>23. PermitAt' /\ ConnAt'
  BY <1>1, <1>19, <1>21 DEF P9Inv, PermitAt, Promised, ConnAt
<1>24. FidTypes' /\ FidAccount'
  <2>1. ASSUME NEW f PROVE Made(f)' = Made(f) /\ Gone(f)' = Gone(f)
    BY <1>9, <1>11, <1>13 DEF Made, Gone
  <2>2. FidAccount'
    BY <1>1, <2>1, AccountKept DEF P9Inv
  <2> QED BY <1>1, <2>2 DEF P9Inv, FidTypes
<1>25. sent' \in 0..MaxMsgs
  BY <1>1, <1>2, <1>4, Members
<1>26. ClientTypes' /\ ConnTypes' /\ WaitTypes' /\ ServerTypes' /\ SeqsAt'
  BY <1>1, <1>15, <1>25 DEF P9Inv, ClientTypes, ConnTypes, WaitTypes, ServerTypes, SeqsAt
<1>27. RegisterAt' /\ ReaderWoken'
  BY <1>1 DEF RegisterAt, ReaderWoken
<1> QED BY <1>11, <1>16, <1>17, <1>18, <1>19, <1>20, <1>22, <1>23, <1>24, <1>26, <1>27 DEF P9Inv, ExecInv

-----------------------------------------------------------------------------
(* The steps that leave the requests alone.                                *)

LEMMA Still ==
    ASSUME P9Inv, UNCHANGED <<st, sent, fids, objs, names>>
    PROVE  MsgTypes' /\ IdleAt' /\ TakenAt' /\ HandlerAt' /\ FidTypes' /\ FidAccount'
<1>1. MsgTypes' /\ IdleAt' /\ FidTypes'
  BY DEF P9Inv, MsgTypes, IdleAt, FidTypes
<1>2. TakenAt' /\ HandlerAt'
  BY DEF P9Inv, TakenAt, HandlerAt
<1>3. ASSUME NEW f PROVE Made(f)' = Made(f) /\ Gone(f)' = Gone(f)
  BY DEF Made, Gone
<1>4. FidAccount'
  BY <1>3, AccountKept DEF P9Inv
<1> QED BY <1>1, <1>2, <1>4

(* One where the reader moves between its points, or is woken. *)
LEMMA ReaderStep ==
    ASSUME P9Inv, UNCHANGED <<st, sent, fids, objs, names>>,
           UNCHANGED <<sock, cur, reqs, lock, lockQ, outOp>>,
           ExecInv', \A m \in Msgs : Resting(m)' <=> Resting(m),
           conn' \in Conns, permits' \in Nat, ConnAt', PermitAt', RegisterAt', ReaderWoken',
           hungUp' \in BOOLEAN, full' \in BOOLEAN, fills' = fills, cancelled' \in BOOLEAN,
           edgeIn' \in BOOLEAN, curIn' \in BOOLEAN, inOp' \in BOOLEAN, curOut' \in BOOLEAN, ServerTypes'
    PROVE  P9Inv'
<1>1. MsgTypes' /\ IdleAt' /\ TakenAt' /\ HandlerAt' /\ FidTypes' /\ FidAccount'
  BY Still
<1>2. RestAt'
  <2>1. ASSUME NEW k \in Msgs PROVE RestOf(k)'
    <3>1. RestOf(k) /\ (Resting(k)' <=> Resting(k))
      BY DEF P9Inv, RestAt
    <3> QED BY <3>1 DEF RestOf
  <2> QED BY <2>1 DEF RestAt
<1>3. ListAt' /\ SeqsAt'
  BY DEF P9Inv, ListAt, SeqsAt
<1>4. ClientTypes' /\ ConnTypes' /\ WaitTypes'
  BY DEF P9Inv, ClientTypes, ConnTypes, WaitTypes
<1> QED BY <1>1, <1>2, <1>3, <1>4 DEF P9Inv, ExecInv

LEMMA SameActive ==
    ASSUME UNCHANGED <<st, sock, cur>>
    PROVE  Active' = Active
  BY DEF Active

(* The epoll dispatcher. *)
LEMMA WakesReader ==
    ASSUME P9Inv, NotifyIn \/ CancelRecv
    PROVE  P9Inv'
<1>1. /\ UNCHANGED <<st, sent, fids, objs, names>>
      /\ UNCHANGED <<sock, cur, reqs, lock, lockQ, outOp>>
      /\ UNCHANGED <<conn, permits, hungUp, full, fills, cancelled, curOut, acc, ctl>>
  BY DEF NotifyIn, CancelRecv, clientVars, handlerVars, serverVars
<1>2. edgeIn \in BOOLEAN /\ curIn \in BOOLEAN /\ inOp \in BOOLEAN
  BY DEF P9Inv, WaitTypes
<1>3. Active' = Active
  BY <1>1, SameActive
<1>4. PermitAt' /\ ServerTypes'
  BY <1>1, <1>3 DEF P9Inv, PermitAt, Promised, ServerTypes
<1>5. ConnAt
  BY DEF P9Inv
<1>6. CASE inOp /\ Schedule(Conn) /\ inOp' = FALSE /\ UNCHANGED curIn /\ edgeIn' \in BOOLEAN
  <2>1. ExecInv' /\ \A c : Resting(c)' <=> Resting(c) /\ c # Conn
    BY <1>5, <1>6, ExecSchedule, Members DEF P9Inv, ExecInv, ConnAt
  <2>2. conn = "loop"
    BY <1>5, <1>6 DEF ConnAt
  <2>3. ConnAt' /\ RegisterAt' /\ ReaderWoken'
    BY <1>1, <1>5, <1>6, <2>2 DEF ConnAt, RegisterAt, ReaderWoken
  <2>4. \A m \in Msgs : Resting(m)' <=> Resting(m)
    BY <2>1, Members
  <2> QED BY <1>1, <1>2, <1>4, <1>6, <2>1, <2>3, <2>4, ReaderStep DEF P9Inv, ClientTypes, ConnTypes, WaitTypes
<1>7. CASE ~inOp /\ NoSchedule /\ curIn' = TRUE /\ UNCHANGED inOp /\ edgeIn' = FALSE
  <2>1. ExecInv' /\ \A c : Resting(c)' <=> Resting(c)
    BY <1>7, ExecSame DEF P9Inv, ExecInv, NoSchedule
  <2>2. ConnAt' /\ RegisterAt' /\ ReaderWoken'
    BY <1>1, <1>5, <1>7, <2>1 DEF ConnAt, RegisterAt, ReaderWoken
  <2> QED BY <1>1, <1>2, <1>4, <1>7, <2>1, <2>2, ReaderStep DEF P9Inv, ClientTypes, ConnTypes, WaitTypes
<1> QED BY <1>2, <1>6, <1>7 DEF NotifyIn, CancelRecv

LEMMA WakesSender ==
    ASSUME P9Inv, NotifyOut
    PROVE  P9Inv'
<1>1. /\ UNCHANGED <<st, sent, fids, objs, names>>
      /\ UNCHANGED <<sock, cur, reqs, lock, lockQ>>
      /\ UNCHANGED <<conn, permits, hungUp, full, fills, cancelled, edgeIn, curIn, inOp, acc, ctl>>
  BY DEF NotifyOut, clientVars, handlerVars, serverVars
<1>2. MsgTypes' /\ IdleAt' /\ TakenAt' /\ HandlerAt' /\ FidTypes' /\ FidAccount'
  BY <1>1, Still
<1>3. \A k \in Msgs : st'[k].pc \in {"idle", "done"} <=> st[k].pc \in {"idle", "done"}
  BY <1>1
<1>4. curOut \in BOOLEAN /\ lockQ \in Seq(Msgs) /\ Distinct(lockQ) /\ RestAt
  BY DEF P9Inv, WaitTypes, ConnTypes, SeqsAt
<1>5. CASE outOp # NoCo /\ Schedule(outOp) /\ outOp' = NoCo /\ UNCHANGED curOut
  <2>1. PICK m \in Msgs : outOp = m
    BY <1>5 DEF P9Inv, WaitTypes
  <2>2. st[m].pc = "reply" /\ Resting(m) /\ RestOf(m)
    BY <2>1 DEF P9Inv, RestAt, RestOf
  <2>3. ExecInv' /\ \A c : Resting(c)' <=> Resting(c) /\ c # m
    BY <1>5, <2>1, <2>2, ExecSchedule, Members DEF P9Inv, ExecInv
  <2>4. RestAt'
    <3>1. ~In(sock, m) /\ cur # m /\ ~In(lockQ, m)
      BY <2>1, <2>2 DEF RestOf
    <3>2. RestOf(m)'
      BY <1>1, <1>5, <2>2, <3>1, Members DEF RestOf
    <3>3. ASSUME NEW k \in Msgs, k # m PROVE RestOf(k)'
      <4>1. RestOf(k) /\ (Resting(k)' <=> Resting(k)) /\ outOp' # k
        BY <1>4, <1>5, <2>3, <3>3, Members DEF RestAt
      <4> QED BY <1>1, <4>1 DEF RestOf
    <3> QED BY <3>2, <3>3 DEF RestAt
  <2>5. Resting(Conn)' <=> Resting(Conn)
    BY <2>3, Members
  <2> QED BY <1>1, <1>2, <1>3, <1>4, <1>5, <2>3, <2>4, <2>5, AllKept DEF P9Inv, ConnTypes, ClientTypes
<1>6. CASE outOp = NoCo /\ NoSchedule /\ curOut' = TRUE /\ UNCHANGED outOp
  <2>1. ExecInv' /\ \A c : Resting(c)' <=> Resting(c)
    BY <1>6, ExecSame DEF P9Inv, ExecInv, NoSchedule
  <2>2. ASSUME NEW k \in Msgs PROVE RestOf(k)'
    <3>1. RestOf(k) /\ (Resting(k)' <=> Resting(k))
      BY <1>4, <2>1 DEF RestAt
    <3> QED BY <1>1, <1>6, <3>1 DEF RestOf
  <2>3. RestAt'
    BY <2>2 DEF RestAt
  <2> QED BY <1>1, <1>2, <1>3, <1>4, <1>6, <2>1, <2>3, AllKept DEF P9Inv, ConnTypes, ClientTypes
<1>7. CASE outOp # NoCo
  <2>1. Schedule(outOp) /\ outOp' = NoCo /\ UNCHANGED curOut
    BY <1>7 DEF NotifyOut
  <2> QED BY <1>5, <1>7, <2>1
<1>8. CASE outOp = NoCo
  <2>1. NoSchedule /\ curOut' = TRUE /\ UNCHANGED outOp
    BY <1>8 DEF NotifyOut
  <2> QED BY <1>6, <1>8, <2>1
<1> QED BY <1>7, <1>8

(* Handler::Run without a message. *)
LEMMA IdleReader ==
    ASSUME P9Inv, RunWaits \/ RunRegisters \/ RunBreaks
    PROVE  P9Inv'
<1>1. /\ UNCHANGED <<st, sent, fids, objs, names>>
      /\ UNCHANGED <<sock, cur, reqs, lock, lockQ, outOp>>
      /\ UNCHANGED <<permits, hungUp, full, fills, cancelled, edgeIn, curOut, acc, ctl>>
      /\ owner = Conn /\ conn \in {"loop", "register"} /\ conn' \in {"loop", "register", "drain"}
  BY DEF RunWaits, RunRegisters, RunBreaks, ConnFrame, ConnRest, ConnRuns, serverVars
<1>2. edgeIn \in BOOLEAN /\ curIn \in BOOLEAN /\ inOp \in BOOLEAN
  BY DEF P9Inv, WaitTypes
<1>3. Active' = Active
  BY <1>1, SameActive
<1>4. PermitAt' /\ ServerTypes' /\ conn' \in Conns
  BY <1>1, <1>3 DEF P9Inv, PermitAt, Promised, ServerTypes, Conns
<1>5. ConnAt /\ ~Resting(Conn) /\ ~inOp /\ cur = 0
  BY <1>1 DEF P9Inv, ConnAt, Resting
<1>6. CASE /\ NoSchedule /\ inOp' = inOp /\ curIn' \in BOOLEAN
           /\ conn' = "register" => curIn' = curIn /\ sock = <<>> /\ ~hungUp
  <2>1. ExecInv' /\ \A c : Resting(c)' <=> Resting(c)
    BY <1>6, ExecSame DEF P9Inv, ExecInv, NoSchedule
  <2>2. ConnAt' /\ RegisterAt' /\ ReaderWoken'
    BY <1>1, <1>5, <1>6, <2>1 DEF ConnAt, RegisterAt, ReaderWoken
  <2> QED BY <1>1, <1>2, <1>4, <1>6, <2>1, <2>2, ReaderStep DEF P9Inv, ClientTypes, ConnTypes, WaitTypes
<1>7. CASE Suspend /\ conn = "register" /\ ~curIn /\ inOp' = TRUE /\ conn' = "loop" /\ UNCHANGED curIn
  <2>1. ExecInv' /\ \A c \in Coroutines : Resting(c)' <=> Resting(c) \/ c = Conn
    BY <1>1, <1>7, ExecSuspend DEF P9Inv, ExecInv
  <2>2. Resting(Conn)' /\ \A m \in Msgs : Resting(m)' <=> Resting(m)
    BY <2>1, Members
  <2>3. ConnAt' /\ RegisterAt'
    BY <1>1, <1>5, <1>7, <2>2 DEF ConnAt, RegisterAt
  <2>4. ReaderWoken'
    BY <1>1, <1>7 DEF P9Inv, RegisterAt, ReaderWoken
  <2> QED BY <1>1, <1>2, <1>4, <1>7, <2>1, <2>2, <2>3, <2>4, ReaderStep DEF P9Inv, ClientTypes, ConnTypes, WaitTypes
<1>8. CASE RunWaits
  BY <1>2, <1>6, <1>8 DEF RunWaits
<1>9. CASE RunBreaks
  BY <1>2, <1>6, <1>9 DEF RunBreaks
<1>10. CASE RunRegisters
  <2>1. CASE curIn
    BY <1>6, <1>10, <2>1 DEF RunRegisters
  <2>2. CASE ~curIn /\ cancelled
    BY <1>2, <1>6, <1>10, <2>2 DEF RunRegisters
  <2>3. CASE ~curIn /\ ~cancelled
    BY <1>7, <1>10, <2>3 DEF RunRegisters
  <2> QED BY <2>1, <2>2, <2>3
<1> QED BY <1>8, <1>9, <1>10

(* The connection begins, and ends when nothing is under way. *)
LEMMA AcceptStep ==
    ASSUME P9Inv, Accept
    PROVE  P9Inv'
<1>1. /\ UNCHANGED <<st, sent, fids, objs, names>>
      /\ UNCHANGED <<sock, cur, reqs, lock, lockQ, outOp>>
      /\ UNCHANGED <<permits, hungUp, full, fills, cancelled, edgeIn, curIn, inOp, curOut, acc, ctl>>
      /\ conn = "none" /\ conn' = "loop" /\ Schedule(Conn)
  BY DEF Accept, clientVars, epollVars, serverVars
<1>2. Resting(Conn) /\ ~inOp /\ cur = 0
  BY <1>1 DEF P9Inv, ConnAt
<1>3. ExecInv' /\ \A c : Resting(c)' <=> Resting(c) /\ c # Conn
  BY <1>1, <1>2, ExecSchedule, Members DEF P9Inv, ExecInv
<1>4. Active' = Active
  BY <1>1, SameActive
<1>5. PermitAt' /\ ServerTypes' /\ conn' \in Conns
  BY <1>1, <1>4 DEF P9Inv, PermitAt, Promised, ServerTypes, Conns
<1>6. ConnAt' /\ RegisterAt' /\ ReaderWoken'
  BY <1>1, <1>2 DEF ConnAt, RegisterAt, ReaderWoken
<1>7. \A m \in Msgs : Resting(m)' <=> Resting(m)
  BY <1>3, Members
<1> QED BY <1>1, <1>3, <1>5, <1>6, <1>7, ReaderStep DEF P9Inv, ClientTypes, ConnTypes, WaitTypes

LEMMA DrainsStep ==
    ASSUME P9Inv, RunDrains
    PROVE  P9Inv'
<1>1. /\ UNCHANGED <<st, sent, fids, objs, names>>
      /\ UNCHANGED <<sock, cur, reqs, lock, lockQ, outOp>>
      /\ UNCHANGED <<hungUp, full, fills, inOp, acc, ctl>>
      /\ owner = Conn /\ conn \in {"drain", "drained"} /\ cancelled' = TRUE /\ Suspend
  BY DEF RunDrains, ConnRest, ConnRuns, serverVars
<1>2. edgeIn \in BOOLEAN /\ curIn \in BOOLEAN /\ curOut \in BOOLEAN /\ ~inOp /\ cur = 0
  BY <1>1 DEF P9Inv, WaitTypes, ConnAt
<1>3. ExecInv' /\ \A c \in Coroutines : Resting(c)' <=> Resting(c) \/ c = Conn
  BY <1>1, ExecSuspend DEF P9Inv, ExecInv
<1>4. Resting(Conn)' /\ \A m \in Msgs : Resting(m)' <=> Resting(m)
  BY <1>3, Members
<1>5. Active' = Active
  BY <1>1, SameActive
<1>6. permits \in Nat /\ Permits \in Nat /\ PermitAt
  BY P9Assumption DEF P9Inv, ConnTypes
<1>7. CASE /\ conn = "drained" \/ permits = Permits
           /\ conn' = "ended" /\ permits' = 0 /\ edgeIn' = FALSE /\ curIn' = FALSE /\ curOut' = FALSE
  <2>1. Active = {}
    <3>1. CASE conn = "drained"
      BY <1>6, <3>1 DEF PermitAt
    <3>2. CASE conn = "drain" /\ permits = Permits
      <4>1. IsFiniteSet(Active)
        BY Members, FS_Subset DEF Active
      <4>2. PICK n \in Nat : n = Cardinality(Active)
        BY <4>1, FS_CardinalityType
      <4>3. (permits + n) + 0 = Permits
        BY <1>6, <3>2, <4>2 DEF PermitAt, Promised
      <4>4. n = 0
        BY <1>6, <3>2, <4>3
      <4> QED BY <4>1, <4>2, <4>4, FS_EmptySet
    <3> QED BY <1>1, <1>7, <3>1, <3>2
  <2>2. PermitAt'
    BY <1>5, <1>7, <2>1 DEF PermitAt
  <2>3. ConnAt' /\ RegisterAt' /\ ReaderWoken' /\ conn' \in Conns
    BY <1>1, <1>2, <1>4, <1>7 DEF ConnAt, RegisterAt, ReaderWoken, Conns
  <2>4. ServerTypes'
    BY <1>1 DEF P9Inv, ServerTypes
  <2> QED BY <1>1, <1>3, <1>4, <1>7, <2>2, <2>3, <2>4, ReaderStep DEF P9Inv, ClientTypes, WaitTypes
<1>8. CASE conn = "drain" /\ conn' = "draining" /\ UNCHANGED <<permits, edgeIn, curIn, curOut>>
  <2>1. PermitAt'
    BY <1>5, <1>6, <1>8 DEF PermitAt, Promised
  <2>2. ConnAt' /\ RegisterAt' /\ ReaderWoken' /\ conn' \in Conns
    BY <1>1, <1>2, <1>4, <1>8 DEF ConnAt, RegisterAt, ReaderWoken, Conns
  <2>3. ServerTypes'
    BY <1>1 DEF P9Inv, ServerTypes
  <2> QED BY <1>1, <1>2, <1>3, <1>4, <1>6, <1>8, <2>1, <2>2, <2>3, ReaderStep DEF P9Inv, ClientTypes, WaitTypes
<1> QED BY <1>1, <1>7, <1>8 DEF RunDrains

(* The client hangs up or reads, the server stops, a thread resumes. *)
LEMMA OtherSteps ==
    ASSUME P9Inv, \/ ClientHangsUp \/ ClientReads \/ AcceptEnds \/ WaitGroupDone \/ Pause \/ Threads
                  \/ \E force \in BOOLEAN : StopAsked(force)
    PROVE  P9Inv'
<1>1. /\ UNCHANGED <<st, sent, fids, objs, names>>
      /\ UNCHANGED <<sock, cur, reqs, lock, lockQ, outOp>>
      /\ UNCHANGED <<conn, permits, fills, curIn, inOp, curOut>>
  BY DEF ClientHangsUp, ClientReads, AcceptEnds, WaitGroupDone, Pause, Threads, StopAsked, CancelServer,
         clientVars, handlerVars, epollVars, serverVars
<1>2. (UNCHANGED execVars) \/ Resume
  BY DEF ClientHangsUp, ClientReads, AcceptEnds, WaitGroupDone, Pause, Threads, StopAsked
<1>3. hungUp' \in BOOLEAN /\ full' \in BOOLEAN /\ edgeIn' \in BOOLEAN /\ (edgeIn => edgeIn') /\ (hungUp' = hungUp \/ edgeIn')
  BY DEF ClientHangsUp, ClientReads, AcceptEnds, WaitGroupDone, Pause, Threads, StopAsked,
         clientVars, epollVars, P9Inv, ClientTypes, WaitTypes
<1>4. cancelled' \in BOOLEAN
  <2>1. cancelled \in BOOLEAN
    BY DEF P9Inv, ConnTypes
  <2>2. cancelled' = cancelled \/ cancelled' = (cancelled \/ HasConnections)
    BY DEF ClientHangsUp, ClientReads, AcceptEnds, WaitGroupDone, Pause, Threads, StopAsked, CancelServer, handlerVars
  <2>3. (cancelled \/ HasConnections) \in BOOLEAN
    BY Zenon
  <2> QED BY <2>1, <2>2, <2>3
<1>5. ServerTypes'
  BY DEF ClientHangsUp, ClientReads, AcceptEnds, WaitGroupDone, Pause, Threads, StopAsked, serverVars,
         P9Inv, ServerTypes
<1>6. ExecInv' /\ \A c \in Coroutines : Resting(c)' <=> Resting(c)
  <2>1. CASE UNCHANGED execVars
    BY <2>1, ExecSame DEF P9Inv, ExecInv
  <2>2. CASE Resume
    BY <2>2, ExecResume DEF P9Inv, ExecInv
  <2> QED BY <1>2, <2>1, <2>2
<1>7. (\A m \in Msgs : Resting(m)' <=> Resting(m)) /\ (Resting(Conn)' <=> Resting(Conn))
  BY <1>6, Members
<1>8. Active' = Active
  BY <1>1, SameActive
<1>9. PermitAt' /\ ConnAt'
  BY <1>1, <1>7, <1>8 DEF P9Inv, PermitAt, Promised, ConnAt
<1>10. RegisterAt' /\ ReaderWoken'
  BY <1>1, <1>3 DEF P9Inv, RegisterAt, ReaderWoken
<1> QED BY <1>1, <1>3, <1>4, <1>5, <1>6, <1>7, <1>9, <1>10, ReaderStep DEF P9Inv, ConnTypes, WaitTypes

-----------------------------------------------------------------------------
(* Handler::Run with a message: the permit goes with the request.          *)

LEMMA PermitOut ==
    ASSUME P9Inv, NEW m \in Msgs, m \notin Active, Active' = Active \cup {m}, conn' = "loop",
           \/ conn = "loop" /\ permits > 0 /\ permits' = permits - 1
           \/ conn = "start" /\ permits' = permits
    PROVE  PermitAt' /\ permits' \in Nat
<1>1. IsFiniteSet(Active)
  BY Members, FS_Subset DEF Active
<1>2. PICK n \in Nat : n = Cardinality(Active)
  BY <1>1, FS_CardinalityType
<1>3. Cardinality(Active') = n + 1
  BY <1>1, <1>2, FS_AddElement
<1>4. permits \in Nat /\ Permits \in Nat
  BY P9Assumption DEF P9Inv, ConnTypes
<1>5. (permits + n) + Promised = Permits /\ Promised' = 0
  BY <1>2 DEF P9Inv, PermitAt, Promised
<1>6. CASE conn = "loop" /\ permits > 0 /\ permits' = permits - 1
  <2>1. Promised = 0
    BY <1>6 DEF Promised
  <2>2. (permits' + (n + 1)) + Promised' = Permits /\ permits' \in Nat
    BY <1>4, <1>5, <1>6, <2>1
  <2> QED BY <1>3, <2>2 DEF PermitAt
<1>7. CASE conn = "start" /\ permits' = permits
  <2>1. Promised = 1
    BY <1>7 DEF Promised
  <2>2. (permits' + (n + 1)) + Promised' = Permits /\ permits' \in Nat
    BY <1>4, <1>5, <1>7, <2>1
  <2> QED BY <1>3, <2>2 DEF PermitAt
<1> QED BY <1>6, <1>7

LEMMA ReadsStep ==
    ASSUME P9Inv, RunReads
    PROVE  P9Inv'
<1>1. /\ UNCHANGED <<st, sent, fids, objs, names>>
      /\ UNCHANGED <<lock, lockQ, outOp>>
      /\ UNCHANGED <<hungUp, full, fills, cancelled, edgeIn, curIn, inOp, curOut, acc, ctl>>
      /\ owner = Conn /\ conn = "loop" /\ sock # <<>>
  BY DEF RunReads, ConnFrame, ConnRest, ConnRuns, serverVars
<1>2. PICK h : h = Head(sock)
  OBVIOUS
<1>3. /\ sock' = Tail(sock) /\ reqs' = Append(reqs, h)
      /\ \/ permits > 0 /\ Schedule(h) /\ permits' = permits - 1 /\ UNCHANGED <<conn, cur>>
         \/ Suspend /\ conn' = "acquire" /\ cur' = h /\ UNCHANGED permits
  BY <1>2 DEF RunReads
<1>4. /\ h \in Msgs /\ In(sock, h) /\ sock' \in Seq(Msgs) /\ Distinct(sock')
      /\ \A y : In(sock', y) <=> In(sock, y) /\ y # h
  BY <1>1, <1>2, <1>3, TailIn DEF P9Inv, ClientTypes, SeqsAt
<1>5. RestOf(h) /\ st[h].pc = "sent" /\ Resting(h) /\ cur # h
  BY <1>4 DEF P9Inv, RestAt, RestOf
<1>6. ~In(lockQ, h) /\ outOp # h /\ ~In(reqs, h) /\ h \notin Active
  <2>1. ~In(reqs, h)
    BY <1>4 DEF P9Inv, ListAt
  <2>2. h \notin Active
    BY <1>4 DEF Active
  <2> QED BY <1>5, <2>1, <2>2 DEF RestOf
<1>7. reqs' \in Seq(Msgs) /\ Distinct(reqs') /\ \A y : In(reqs', y) <=> In(reqs, y) \/ y = h
  BY <1>3, <1>4, <1>6, AppendIn DEF P9Inv, ConnTypes, SeqsAt
<1>8. MsgTypes' /\ IdleAt' /\ TakenAt' /\ HandlerAt' /\ FidTypes' /\ FidAccount'
  BY <1>1, Still
<1>9. ListAt'
  <2>1. ASSUME NEW k \in Msgs PROVE In(reqs', k) <=> st[k].pc \notin {"idle", "done"} /\ ~In(sock', k)
    <3>1. In(reqs, k) <=> st[k].pc \notin {"idle", "done"} /\ ~In(sock, k)
      BY DEF P9Inv, ListAt
    <3> QED BY <1>4, <1>5, <1>7, <3>1
  <2> QED BY <1>1, <2>1 DEF ListAt
<1>10. ConnAt /\ ~inOp /\ cur = 0
  BY <1>1 DEF P9Inv, ConnAt, Resting
<1>11. ServerTypes' /\ WaitTypes' /\ SeqsAt'
  BY <1>1, <1>4, <1>7 DEF P9Inv, ServerTypes, WaitTypes, SeqsAt
<1>12. CASE permits > 0 /\ Schedule(h) /\ permits' = permits - 1 /\ UNCHANGED <<conn, cur>>
  <2>1. ExecInv' /\ \A c : Resting(c)' <=> Resting(c) /\ c # h
    BY <1>4, <1>5, <1>12, ExecSchedule, Members DEF P9Inv, ExecInv
  <2>2. RestAt'
    <3>1. RestOf(h)'
      BY <1>1, <1>4, <1>5, <1>6, <1>12 DEF RestOf
    <3>2. ASSUME NEW k \in Msgs, k # h PROVE RestOf(k)'
      <4>1. RestOf(k) /\ (Resting(k)' <=> Resting(k)) /\ (In(sock', k) <=> In(sock, k))
        BY <1>4, <2>1, <3>2 DEF P9Inv, RestAt
      <4> QED BY <1>1, <1>12, <4>1 DEF RestOf
    <3> QED BY <3>1, <3>2 DEF RestAt
  <2>3. Active' = Active \cup {h}
    BY <1>1, <1>4, <1>5, <1>12 DEF Active
  <2>4. PermitAt' /\ permits' \in Nat
    BY <1>1, <1>4, <1>6, <1>12, <2>3, PermitOut
  <2>5. ConnAt' /\ RegisterAt' /\ ReaderWoken'
    BY <1>1, <1>10, <1>12 DEF ConnAt, RegisterAt, ReaderWoken
  <2>6. ClientTypes' /\ ConnTypes'
    BY <1>1, <1>4, <1>7, <1>12, <2>4 DEF P9Inv, ClientTypes, ConnTypes
  <2> QED BY <1>8, <1>9, <1>11, <2>1, <2>2, <2>4, <2>5, <2>6 DEF P9Inv, ExecInv
<1>13. CASE Suspend /\ conn' = "acquire" /\ cur' = h /\ UNCHANGED permits
  <2>1. ExecInv' /\ \A c \in Coroutines : Resting(c)' <=> Resting(c) \/ c = Conn
    BY <1>1, <1>13, ExecSuspend DEF P9Inv, ExecInv
  <2>2. Resting(Conn)' /\ \A k \in Msgs : Resting(k)' <=> Resting(k)
    BY <2>1, Members
  <2>3. RestAt'
    <3>1. RestOf(h)'
      BY <1>1, <1>4, <1>5, <1>6, <1>13, <2>2 DEF RestOf
    <3>2. ASSUME NEW k \in Msgs, k # h PROVE RestOf(k)'
      <4>1. RestOf(k) /\ (Resting(k)' <=> Resting(k)) /\ (In(sock', k) <=> In(sock, k)) /\ cur' # k
        BY <1>4, <1>13, <2>2, <3>2 DEF P9Inv, RestAt
      <4> QED BY <1>1, <4>1 DEF RestOf
    <3> QED BY <3>1, <3>2 DEF RestAt
  <2>4. Active' = Active
    BY <1>1, <1>4, <1>5, <1>10, <1>13, Members DEF Active
  <2>5. PermitAt'
    BY <1>1, <1>13, <2>4 DEF P9Inv, PermitAt, Promised
  <2>6. ConnAt' /\ RegisterAt' /\ ReaderWoken'
    BY <1>1, <1>4, <1>10, <1>13, <2>2, Members DEF ConnAt, RegisterAt, ReaderWoken
  <2>7. ClientTypes' /\ ConnTypes'
    BY <1>1, <1>4, <1>7, <1>13, Members DEF P9Inv, ClientTypes, ConnTypes, Conns
  <2> QED BY <1>8, <1>9, <1>11, <2>1, <2>3, <2>5, <2>6, <2>7 DEF P9Inv, ExecInv
<1> QED BY <1>3, <1>12, <1>13

LEMMA StartsStep ==
    ASSUME P9Inv, RunStarts
    PROVE  P9Inv'
<1>1. /\ UNCHANGED <<st, sent, fids, objs, names>>
      /\ UNCHANGED <<sock, reqs, permits, lock, lockQ, outOp>>
      /\ UNCHANGED <<hungUp, full, fills, cancelled, edgeIn, curIn, inOp, curOut, acc, ctl>>
      /\ conn = "start" /\ Schedule(cur) /\ conn' = "loop" /\ cur' = 0
  BY DEF RunStarts, ConnFrame, ConnRest, serverVars
<1>2. PICK h \in Msgs : cur = h
  BY <1>1, Members DEF P9Inv, ConnAt, ConnTypes
<1>3. RestOf(h) /\ st[h].pc = "sent" /\ Resting(h) /\ ~In(sock, h)
  BY <1>2 DEF P9Inv, RestAt, RestOf
<1>4. ~In(lockQ, h) /\ outOp # h
  BY <1>3 DEF RestOf
<1>5. ExecInv' /\ \A c : Resting(c)' <=> Resting(c) /\ c # h
  BY <1>1, <1>2, <1>3, ExecSchedule, Members DEF P9Inv, ExecInv
<1>6. MsgTypes' /\ IdleAt' /\ TakenAt' /\ HandlerAt' /\ FidTypes' /\ FidAccount'
  BY <1>1, Still
<1>7. RestAt'
  <2>1. RestOf(h)'
    BY <1>1, <1>2, <1>3, <1>4, Members DEF RestOf
  <2>2. ASSUME NEW k \in Msgs, k # h PROVE RestOf(k)'
    <3>1. RestOf(k) /\ (Resting(k)' <=> Resting(k)) /\ cur' # k
      BY <1>1, <1>5, <2>2, Members DEF P9Inv, RestAt
    <3> QED BY <1>1, <3>1 DEF RestOf
  <2> QED BY <2>1, <2>2 DEF RestAt
<1>8. h \notin Active /\ Active' = Active \cup {h}
  BY <1>1, <1>2, <1>3, Members DEF Active
<1>9. PermitAt'
  BY <1>1, <1>8, PermitOut
<1>10. ~inOp
  BY <1>1 DEF P9Inv, ConnAt
<1>11. ConnAt' /\ RegisterAt' /\ ReaderWoken'
  BY <1>1, <1>10 DEF ConnAt, RegisterAt, ReaderWoken
<1>12. ListAt' /\ SeqsAt' /\ ServerTypes' /\ WaitTypes'
  BY <1>1 DEF P9Inv, ListAt, SeqsAt, ServerTypes, WaitTypes
<1>13. ClientTypes' /\ ConnTypes'
  BY <1>1, Members DEF P9Inv, ClientTypes, ConnTypes, Conns
<1> QED BY <1>5, <1>6, <1>7, <1>9, <1>11, <1>12, <1>13 DEF P9Inv, ExecInv

-----------------------------------------------------------------------------
(* The theorem.                                                            *)

LEMMA InitInv ==
    ASSUME Init
    PROVE  P9Inv
<1>1. /\ queue = <<>> /\ owner = NoCo /\ blocked = {} /\ st = [m \in Msgs |-> Idle]
      /\ sent = 0 /\ sock = <<>> /\ hungUp = FALSE /\ full = FALSE /\ fills = 0
      /\ negotiated \in BOOLEAN /\ conn = (IF negotiated THEN "loop" ELSE "none") /\ inOp = negotiated /\ cur = 0
      /\ reqs = <<>> /\ permits = Permits /\ lock = NoCo /\ lockQ = <<>> /\ cancelled = FALSE
      /\ edgeIn = FALSE /\ curIn = FALSE /\ curOut = FALSE /\ outOp = NoCo
      /\ names = {} /\ acc = "accepting" /\ ctl = "idle"
  BY P9Assumption DEF Init, ExecInit
<1>2. (\A x : ~In(<<>>, x)) /\ Distinct(<<>>)
  BY EmptyIn
<1>3. \A c \in Coroutines : Resting(c)
  BY <1>1, <1>2, Members DEF Resting
<1>4. ExecTypes /\ ExecAt
  BY <1>1, <1>2 DEF ExecTypes, ExecAt
<1>5. Idle \in Rec
  BY Members DEF Idle, Rec, Pcs
<1>6. MsgTypes /\ \A m \in Msgs : st[m] = Idle
  BY <1>1, <1>5 DEF MsgTypes
<1>7. /\ Idle.pc = "idle" /\ Idle.by = 0 /\ Idle.ent = 0 /\ Idle.res = "none" /\ Idle.made = FALSE /\ Idle.replied = FALSE
      /\ Idle.stat = "none" /\ Idle.req.op = "none"
  BY DEF Idle, NoReq
<1>8. IdleAt
  BY <1>1, <1>6, <1>7, Members DEF IdleAt, Msgs
<1>9. TakenAt /\ HandlerAt
  BY <1>6, <1>7 DEF TakenAt, HandlerAt, Good, Blocking
<1>10. ClientTypes /\ ConnTypes /\ WaitTypes /\ ServerTypes
  <2>1. 0 \in 0..MaxMsgs /\ 0 \in 0..MaxFull /\ Permits \in Nat /\ <<>> \in Seq(Msgs)
    BY P9Assumption
  <2>2. ClientTypes /\ ServerTypes
    BY <1>1, <2>1 DEF ClientTypes, ServerTypes
  <2>3. conn \in Conns
    BY <1>1 DEF Conns
  <2>4. ConnTypes
    BY <1>1, <2>1, <2>3 DEF ConnTypes
  <2>5. WaitTypes
    BY <1>1, Zenon DEF WaitTypes
  <2> QED BY <2>2, <2>4, <2>5
<1>11. RestAt
  BY <1>1, <1>2, <1>3, <1>6, <1>7, Members DEF RestAt, RestOf
<1>12. ConnAt /\ SeqsAt
  BY <1>1, <1>2, <1>3, Members DEF ConnAt, SeqsAt
<1>13. ListAt /\ Active = {}
  BY <1>1, <1>2, <1>6, <1>7 DEF ListAt, Active
<1>14. PermitAt
  <2>1. Cardinality(Active) = 0 /\ Promised = 0 /\ Permits \in Nat
    BY <1>1, <1>13, FS_EmptySet, P9Assumption DEF Promised
  <2> QED BY <1>1, <2>1 DEF PermitAt
<1>15. RegisterAt /\ ReaderWoken
  BY <1>1 DEF RegisterAt, ReaderWoken
<1>16. FidTypes
  <2>1. NoObj \in Obj /\ RootObj \in Obj
    BY DEF NoObj, RootObj, Obj
  <2>2. objs \in [1..Base -> Obj]
    BY <2>1, Members DEF Init
  <2>3. fids \in [Fids -> 0..Base]
    <3>1. Base \in 0..Base /\ 0 \in 0..Base
      BY P9Assumption DEF Base
    <3> QED BY <3>1 DEF Init
  <2> QED BY <1>1, <2>2, <2>3 DEF FidTypes
<1>17. FidAccount
  <2>1. ASSUME NEW f \in Fids PROVE Cardinality(Made(f)) + Mounts(f) = Cardinality(Gone(f)) + Held(f)
    <3>1. Made(f) = {} /\ Gone(f) = {}
      BY <1>6, <1>7 DEF Made, Gone
    <3>2. objs[Base].kind = (IF negotiated THEN "file" ELSE "none")
      <4>1. Base \in Msgs \cup {Base}
        OBVIOUS
      <4>2. objs[Base] = IF negotiated THEN RootObj ELSE NoObj
        BY <4>1 DEF Init
      <4> QED BY <4>2 DEF RootObj, NoObj
    <3>3. fids[f] = 0 <=> ~(negotiated /\ f = 1)
      BY Members DEF Init
    <3>4. Mounts(f) = Held(f)
      BY <3>2, <3>3 DEF Mounts, Held
    <3> QED BY <3>1, <3>4
  <2> QED BY <2>1, AccountIs DEF Account
<1> QED BY <1>4, <1>6, <1>8, <1>9, <1>10, <1>11, <1>12, <1>13, <1>14, <1>15, <1>16, <1>17 DEF P9Inv

LEMMA StepInv ==
    ASSUME P9Inv, [Next]_vars
    PROVE  P9Inv'
<1>1. CASE Internal
  <2>1. CASE Run
    BY <2>1, ReadsStep, StartsStep, IdleReader, DrainsStep DEF Run
  <2>2. CASE Epoll
    BY <2>2, WakesReader, WakesSender, CancelSendStep DEF Epoll
  <2>3. CASE Threads \/ Accepting \/ Pause
    BY <2>3, OtherSteps DEF Accepting
  <2>4. ASSUME NEW m \in Msgs, Handlers(m) PROVE P9Inv'
    BY <2>4, BlockingSteps, FlushStep, IoSteps, IoCompletesStep, UnwindStep, EnterStep, LeaveStep, AwaitLockStep,
       SendReplyStep, SendFailsStep, SendBlocksStep, SendRegistersStep, FinishStep DEF Handlers
  <2> QED BY <1>1, <2>1, <2>2, <2>3, <2>4 DEF Internal
<1>2. CASE Client
  BY <1>2, SendsStep, AcceptStep, OtherSteps DEF Client
<1>3. CASE (~token /\ AcceptEnds) \/ \E force \in BOOLEAN : StopAsked(force)
  BY <1>3, OtherSteps
<1>4. CASE UNCHANGED vars
  <2>1. /\ UNCHANGED <<st, sent, fids, objs, names>>
        /\ UNCHANGED <<sock, cur, reqs, lock, lockQ, outOp>>
        /\ UNCHANGED <<conn, permits, hungUp, full, fills, cancelled, edgeIn, curIn, inOp, curOut, acc, ctl>>
        /\ UNCHANGED execVars
    BY <1>4 DEF vars, clientVars, handlerVars, epollVars, serverVars
  <2>2. ExecInv' /\ \A c : Resting(c)' <=> Resting(c)
    BY <2>1, ExecSame DEF P9Inv, ExecInv
  <2>3. Active' = Active
    BY <2>1, SameActive
  <2>4. PermitAt' /\ ConnAt' /\ RegisterAt' /\ ReaderWoken' /\ ServerTypes'
    BY <2>1, <2>2, <2>3 DEF P9Inv, PermitAt, Promised, ConnAt, RegisterAt, ReaderWoken, ServerTypes
  <2> QED BY <2>1, <2>2, <2>4, ReaderStep DEF P9Inv, ClientTypes, ConnTypes, WaitTypes
<1> QED BY <1>1, <1>2, <1>3, <1>4 DEF Next

(* Nobody is under way when Run has returned, and the lock has one holder. *)
LEMMA InvSafe ==
    ASSUME P9Inv
    PROVE  P9Safe
<1>1. permits \in 0..Permits
  <2>1. permits \in Nat /\ Permits \in Nat
    BY P9Assumption DEF P9Inv, ConnTypes
  <2>2. CASE conn \in {"drained", "ended"}
    BY <2>1, <2>2 DEF P9Inv, PermitAt
  <2>3. CASE conn \notin {"drained", "ended"}
    <3>1. PICK n \in Nat : n = Cardinality(Active)
      BY Members, FS_Subset, FS_CardinalityType DEF Active
    <3>2. (permits + n) + Promised = Permits /\ Promised \in Nat
      BY <2>3, <3>1 DEF P9Inv, PermitAt, Promised
    <3> QED BY <2>1, <3>2
  <2> QED BY <2>2, <2>3
<1>2. P9TypeOK
  BY <1>1, Members DEF P9Inv, P9TypeOK, ExecTypes, ClientTypes, ConnTypes, FidTypes, WaitTypes, ServerTypes, Conns
<1>3. OneSender
  <2>1. PICK S : S = {m \in Msgs : st[m].pc = "sendreg" \/ outOp = m}
    OBVIOUS
  <2>2. S \subseteq Msgs /\ \A m \in S : lock = m
    BY <2>1 DEF P9Inv, RestAt, RestOf
  <2>3. S = {} \/ S = {lock}
    BY <2>2
  <2>4. Cardinality(S) <= 1
    <3>1. Cardinality({}) = 0 /\ Cardinality({lock}) = 1
      BY FS_EmptySet, FS_Singleton
    <3> QED BY <2>3, <3>1
  <2> QED BY <2>1, <2>4 DEF OneSender
<1>4. EndedIsDrained
  <2>1. ASSUME conn = "ended" PROVE /\ reqs = <<>>
                                    /\ \A m \in Msgs : st[m].pc \in {"idle", "done"} \/ In(sock, m)
    <3>1. Active = {} /\ cur = 0
      BY <2>1 DEF P9Inv, PermitAt, ConnAt
    <3>2. \A m \in Msgs : st[m].pc \in {"idle", "done"} \/ In(sock, m)
      BY <3>1, Members DEF Active
    <3>3. \A m \in Msgs : ~In(reqs, m)
      BY <3>2 DEF P9Inv, ListAt
    <3>4. reqs = <<>>
      <4>1. reqs \in Seq(Msgs)
        BY DEF P9Inv, ConnTypes
      <4>2. ASSUME reqs # <<>> PROVE FALSE
        BY <3>3, <4>1, <4>2, TailIn
      <4> QED BY <4>2
    <3> QED BY <3>2, <3>4
  <2> QED BY <2>1 DEF EndedIsDrained, In
<1>5. FlushAfterTaken
  <2>1. ASSUME NEW f \in Msgs, st[f].req.op = "flush", st[f].replied, st[f].ent # 0
        PROVE  st[st[f].ent].replied \/ st[st[f].ent].lost
    <3>1. st[f].ent \in Msgs /\ (st[f].pc = "flushwait" \/ st[st[f].ent].pc = "done")
      BY <2>1 DEF P9Inv, TakenAt
    <3>2. st[f].pc # "flushwait"
      BY <2>1 DEF P9Inv, HandlerAt, Good
    <3> QED BY <3>1, <3>2 DEF P9Inv, TakenAt
  <2> QED BY <2>1 DEF FlushAfterTaken
<1>6. CreatedIsNew
  BY DEF P9Inv, HandlerAt, Good, CreatedIsNew
<1> QED BY <1>2, <1>3, <1>4, <1>5, <1>6 DEF P9Inv, P9Safe

(* The Plan 9 file server keeps what it promises in every state, whatever  *)
(* the client sends and however its coroutines, the epoll dispatcher, the  *)
(* accept loop and the control thread interleave.                          *)
THEOREM ServerSafe == Spec => []P9Safe
<1>1. Init => P9Inv
  BY InitInv
<1>2. P9Inv /\ [Next]_vars => P9Inv'
  BY StepInv
<1>3. P9Inv => P9Safe
  BY InvSafe
<1> QED BY <1>1, <1>2, <1>3, PTL DEF Spec

=============================================================================
