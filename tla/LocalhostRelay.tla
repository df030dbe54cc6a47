--------------------------- MODULE LocalhostRelay ---------------------------
(***************************************************************************)
(* The localhost relay of the virtual machine (linux/init/localhost.cpp,   *)
(* without its port tracker).  A scanner tells the host every second which *)
(* TCP sockets listen; for each connection the host accepted on such a     *)
(* port a worker copies bytes both ways, with one buffer for both.         *)
(***************************************************************************)
EXTENDS Integers, Sequences

CONSTANTS Sockets,   \* sockets that may listen: [v6, high, low, port]
          Workers,   \* connections of the host
          MaxBytes,  \* bytes each end of a connection writes
          Capacity   \* bytes an end's socket holds before it is read

ASSUME LhAssumption ==
    /\ Sockets \subseteq [v6 : BOOLEAN, high : Nat, low : Nat, port : Nat]
    /\ MaxBytes \in Nat /\ Capacity \in Nat

VARIABLES
    lhListen, \* sockets that listen
    lhScan,   \* the scanner: tcp4, tcp6, only6, stop, start, sleep, ended
    lhSeen,   \* the sockets vector of this round
    lhTodo,   \* its entries for_each has not reached
    lhRelays, \* the relays vector
    lhFailed, \* result < 0
    lhChan,   \* the channel to the host is open
    lhHost,   \* the listeners of the host
    lhEcho,   \* a start of a listener the host has, or a stop of one it has not
    lhServing,\* ListenThread runs
    lhWork,   \* a worker: none, hello, connect, poll, first, second, ended
    lhReady,  \* the ends poll reported
    lhEof,    \* ends read to their end: their descriptor is -1
    lhBuf,    \* the worker's buffer and the end it goes to
    lhIn,     \* bytes an end has written and the worker has not read
    lhOut,    \* bytes the worker has written to an end
    lhGot,    \* bytes an end has read
    lhSent,   \* bytes an end has written
    lhShut    \* an end has closed

scanVars == <<lhListen, lhScan, lhSeen, lhTodo, lhRelays, lhFailed, lhChan, lhHost, lhEcho>>
workVars == <<lhServing, lhWork, lhReady, lhEof, lhBuf, lhIn, lhOut, lhGot, lhSent, lhShut>>

Ends == {1, 2}            \* the relay socket and the server's
OtherEnd(e) == 3 - e
Nothing == [to |-> 1, bytes |-> <<>>]

ScanInit ==
    /\ lhListen = {} /\ lhScan = "tcp4" /\ lhSeen = {} /\ lhTodo = {} /\ lhRelays = {}
    /\ lhFailed = FALSE /\ lhChan = TRUE /\ lhHost = {} /\ lhEcho = FALSE

WorkInit ==
    /\ lhServing = TRUE /\ lhWork = [w \in Workers |-> "none"] /\ lhReady = [w \in Workers |-> {}] /\ lhEof = [w \in Workers |-> {}]
    /\ lhBuf = [w \in Workers |-> Nothing] /\ lhShut = [w \in Workers |-> {}]
    /\ lhIn = [w \in Workers |-> [e \in Ends |-> <<>>]]
    /\ lhOut = [w \in Workers |-> [e \in Ends |-> <<>>]]
    /\ lhGot = [w \in Workers |-> [e \in Ends |-> <<>>]]
    /\ lhSent = [w \in Workers |-> [e \in Ends |-> 0]]

-----------------------------------------------------------------------------
(* ScanProcNetTCP                                                          *)

\* ParseTcpFile takes sixteen of the 32 digits of an IPv6 address: two sockets that
\* differ in the others are one entry.
ParseTcpFile(v6) == {IF s.v6 THEN [s EXCEPT !.low = 0] ELSE s : s \in {t \in lhListen : t.v6 = v6}}

\* A file that cannot be opened adds nothing; without both, or when a file that was
\* opened cannot be read, the scan ends.
OpensTcp4 ==
    /\ lhScan = "tcp4" /\ lhScan' \in {"tcp6", "only6", "ended"}
    /\ lhSeen' = IF lhScan' = "tcp6" THEN ParseTcpFile(FALSE) ELSE {}
    /\ UNCHANGED <<lhListen, lhTodo, lhRelays, lhFailed, lhChan, lhHost, lhEcho>>

OpensTcp6 ==
    /\ \/ lhScan \in {"tcp6", "only6"} /\ lhSeen' = lhSeen \cup ParseTcpFile(TRUE) /\ lhScan' = "stop"
       \/ lhScan = "tcp6" /\ UNCHANGED lhSeen /\ lhScan' = "stop"
       \/ lhScan \in {"tcp6", "only6"} /\ UNCHANGED lhSeen /\ lhScan' = "ended"
    /\ UNCHANGED <<lhListen, lhTodo, lhRelays, lhFailed, lhChan, lhHost, lhEcho>>

\* An entry is removed whether the message could be sent or not.
StopHostListener(s) ==
    /\ lhScan = "stop" /\ s \in lhRelays \ lhSeen /\ lhRelays' = lhRelays \ {s}
    /\ lhFailed' = (lhFailed \/ ~lhChan) /\ lhHost' = IF lhChan THEN lhHost \ {s} ELSE lhHost
    /\ lhEcho' = (lhEcho \/ (lhChan /\ s \notin lhHost))
    /\ UNCHANGED <<lhListen, lhScan, lhSeen, lhTodo, lhChan>>

Stopped ==
    /\ lhScan = "stop" /\ lhRelays \subseteq lhSeen /\ lhScan' = "start" /\ lhTodo' = lhSeen
    /\ UNCHANGED <<lhListen, lhSeen, lhRelays, lhFailed, lhChan, lhHost, lhEcho>>

\* An entry that relays does not have is started; it is kept if the message was sent.
StartHostListener(s) ==
    /\ lhScan = "start" /\ s \in lhTodo /\ lhTodo' = lhTodo \ {s}
    /\ LET new == s \notin lhRelays
       IN /\ lhRelays' = IF new /\ lhChan THEN lhRelays \cup {s} ELSE lhRelays
          /\ lhHost' = IF new /\ lhChan THEN lhHost \cup {s} ELSE lhHost
          /\ lhFailed' = (lhFailed \/ (new /\ ~lhChan))
          /\ lhEcho' = (lhEcho \/ (new /\ lhChan /\ s \in lhHost))
    /\ UNCHANGED <<lhListen, lhScan, lhSeen, lhChan>>

Started ==
    /\ lhScan = "start" /\ lhTodo = {} /\ lhScan' = IF lhFailed THEN "ended" ELSE "sleep"
    /\ UNCHANGED <<lhListen, lhSeen, lhTodo, lhRelays, lhFailed, lhChan, lhHost, lhEcho>>

Wakes ==
    /\ lhScan = "sleep" /\ lhScan' = "tcp4"
    /\ UNCHANGED <<lhListen, lhSeen, lhTodo, lhRelays, lhFailed, lhChan, lhHost, lhEcho>>

Listens ==
    /\ \E s \in Sockets : lhListen' = IF s \in lhListen THEN lhListen \ {s} ELSE lhListen \cup {s}
    /\ UNCHANGED <<lhScan, lhSeen, lhTodo, lhRelays, lhFailed, lhChan, lhHost, lhEcho>>

ChannelCloses ==
    /\ lhChan /\ lhChan' = FALSE
    /\ UNCHANGED <<lhListen, lhScan, lhSeen, lhTodo, lhRelays, lhFailed, lhHost, lhEcho>>

-----------------------------------------------------------------------------
(* ListenThread and its workers                                            *)

Goes(w, from, to) == lhWork[w] \in from /\ lhWork' = [lhWork EXCEPT ![w] = to]

\* ListenThread accepts a connection and starts its worker.
ListenThread(w) ==
    /\ lhServing /\ Goes(w, {"none"}, "hello")
    /\ UNCHANGED <<lhServing, lhReady, lhEof, lhBuf, lhIn, lhOut, lhGot, lhSent, lhShut>>

\* poll or accept fails: no connection is accepted any more.
AcceptFails ==
    /\ lhServing /\ lhServing' = FALSE
    /\ UNCHANGED <<lhWork, lhReady, lhEof, lhBuf, lhIn, lhOut, lhGot, lhSent, lhShut>>

\* The message that names the port, or an end, or something else.
Hello(w) ==
    /\ \E to \in {"connect", "ended"} : Goes(w, {"hello"}, to)
    /\ UNCHANGED <<lhServing, lhReady, lhEof, lhBuf, lhIn, lhOut, lhGot, lhSent, lhShut>>

\* The server may have stopped listening.
Connect(w) ==
    /\ \E to \in {"poll", "ended"} : Goes(w, {"connect"}, to)
    /\ UNCHANGED <<lhServing, lhReady, lhEof, lhBuf, lhIn, lhOut, lhGot, lhSent, lhShut>>

Readable(w) == {e \in Ends : lhIn[w][e] # <<>> \/ e \in lhShut[w]}

WorkerPolls(w) ==
    /\ Goes(w, {"poll"}, "first") /\ Readable(w) # {} /\ lhReady' = [lhReady EXCEPT ![w] = Readable(w)]
    /\ UNCHANGED <<lhServing, lhEof, lhBuf, lhIn, lhOut, lhGot, lhSent, lhShut>>

\* The loop over the descriptors goes on; it returns when one of them was -1.
Onward(w, eof) == IF lhWork[w] = "first" THEN "second" ELSE IF eof # {} THEN "ended" ELSE "poll"

\* The end whose turn it is has nothing to read.
Skips(w, e) ==
    /\ e \notin lhReady[w] /\ lhWork' = [lhWork EXCEPT ![w] = Onward(w, lhEof[w])] /\ UNCHANGED <<lhEof, lhBuf, lhIn>>

\* It has closed: it is read no more and the other end is told.
ReadsEof(w, e) ==
    /\ e \in lhReady[w] /\ lhIn[w][e] = <<>> /\ lhEof' = [lhEof EXCEPT ![w] = @ \cup {e}]
    /\ lhWork' = [lhWork EXCEPT ![w] = Onward(w, lhEof'[w])] /\ UNCHANGED <<lhBuf, lhIn>>

ReadsBytes(w, e) ==
    /\ e \in lhReady[w] /\ lhIn[w][e] # <<>>
    /\ lhBuf' = [lhBuf EXCEPT ![w] = [to |-> OtherEnd(e), bytes |-> lhIn[w][e]]]
    /\ lhIn' = [lhIn EXCEPT ![w][e] = <<>>] /\ UNCHANGED <<lhEof, lhWork>>

\* A read that fails ends the worker.
ReadFails(w, e) ==
    /\ e \in lhReady[w] /\ lhWork' = [lhWork EXCEPT ![w] = "ended"] /\ UNCHANGED <<lhEof, lhBuf, lhIn>>

WorkerReads(w) ==
    /\ lhWork[w] \in {"first", "second"} /\ lhBuf[w].bytes = <<>>
    /\ LET e == IF lhWork[w] = "first" THEN 1 ELSE 2 
       IN Skips(w, e) \/ ReadsEof(w, e) \/ ReadsBytes(w, e) \/ ReadFails(w, e)
    /\ UNCHANGED <<lhServing, lhReady, lhOut, lhGot, lhSent, lhShut>>

\* Slip: what does not fit is lost.
WorkerWrites_Once(w) ==
    LET to == lhBuf[w].to
        room == Capacity - Len(lhOut[w][to])
        bytes == lhBuf[w].bytes
    IN /\ bytes # <<>> /\ to \notin lhShut[w] /\ room > 0
       /\ lhOut' = [lhOut EXCEPT ![w][to] = @ \o SubSeq(bytes, 1, IF room < Len(bytes) THEN room ELSE Len(bytes))]
       /\ lhBuf' = [lhBuf EXCEPT ![w] = Nothing] /\ lhWork' = [lhWork EXCEPT ![w] = Onward(w, lhEof[w])]
       /\ UNCHANGED <<lhServing, lhReady, lhEof, lhIn, lhGot, lhSent, lhShut>>

\* UtilWriteBuffer writes until all is written, as the end has room; the worker waits
\* meanwhile.
WorkerWrites(w) ==
    LET to == lhBuf[w].to
        bytes == lhBuf[w].bytes
    IN /\ bytes # <<>> /\ to \notin lhShut[w] /\ Len(lhOut[w][to]) < Capacity
       /\ lhOut' = [lhOut EXCEPT ![w][to] = Append(@, Head(bytes))]
       /\ lhBuf' = [lhBuf EXCEPT ![w].bytes = Tail(bytes)]
       /\ lhWork' = IF Len(bytes) = 1 THEN [lhWork EXCEPT ![w] = Onward(w, lhEof[w])] ELSE lhWork
       /\ UNCHANGED <<lhServing, lhReady, lhEof, lhIn, lhGot, lhSent, lhShut>>

\* The end is gone: EPIPE, SIGPIPE being ignored.
WriteFails(w) ==
    /\ lhBuf[w].bytes # <<>> /\ lhBuf[w].to \in lhShut[w]
    /\ lhBuf' = [lhBuf EXCEPT ![w] = Nothing] /\ Goes(w, {"first", "second"}, "ended")
    /\ UNCHANGED <<lhServing, lhReady, lhEof, lhIn, lhOut, lhGot, lhSent, lhShut>>

EndWrites(w, e) ==
    /\ lhWork[w] \in {"poll", "first", "second"} /\ e \notin lhShut[w] /\ lhSent[w][e] < MaxBytes
    /\ lhSent' = [lhSent EXCEPT ![w][e] = @ + 1]
    /\ lhIn' = [lhIn EXCEPT ![w][e] = Append(@, lhSent[w][e] + 1)]
    /\ UNCHANGED <<lhServing, lhWork, lhReady, lhEof, lhBuf, lhOut, lhGot, lhShut>>

EndReads(w, e) ==
    /\ lhOut[w][e] # <<>> /\ e \notin lhShut[w]
    /\ lhGot' = [lhGot EXCEPT ![w][e] = Append(@, Head(lhOut[w][e]))]
    /\ lhOut' = [lhOut EXCEPT ![w][e] = Tail(@)]
    /\ UNCHANGED <<lhServing, lhWork, lhReady, lhEof, lhBuf, lhIn, lhSent, lhShut>>

EndCloses(w, e) ==
    /\ lhWork[w] \in {"poll", "first", "second"} /\ e \notin lhShut[w]
    /\ lhShut' = [lhShut EXCEPT ![w] = @ \cup {e}]
    /\ UNCHANGED <<lhServing, lhWork, lhReady, lhEof, lhBuf, lhIn, lhOut, lhGot, lhSent>>

ScanNext ==
    \/ OpensTcp4 \/ OpensTcp6 \/ Stopped \/ Started \/ Wakes \/ Listens \/ ChannelCloses
    \/ \E s \in lhRelays : StopHostListener(s)
    \/ \E s \in lhTodo : StartHostListener(s)

WorkNext ==
    \/ AcceptFails
    \/ \E w \in Workers :
           \/ ListenThread(w) \/ Hello(w) \/ Connect(w) \/ WorkerPolls(w) \/ WorkerReads(w)
           \/ WorkerWrites(w) \/ WriteFails(w)
           \/ \E e \in Ends : EndWrites(w, e) \/ EndReads(w, e) \/ EndCloses(w, e)

\* The scanner and the workers share nothing.
ScanSpec == ScanInit /\ [][ScanNext]_scanVars
WorkSpec == WorkInit /\ [][WorkNext]_workVars

-----------------------------------------------------------------------------

(* Type invariant. *)
LhTypeOK ==
    /\ lhTodo \subseteq lhSeen /\ \A s \in lhSeen : s.v6 => s.low = 0
    /\ \A w \in Workers : \A e \in Ends : Len(lhOut[w][e]) <= Capacity

(* When a round is over and every message was sent, the host listens for   *)
(* exactly the sockets the round saw, whatever failed to open and whatever *)
(* came and went between the two files; and it was never told twice.       *)
HostFollowsScan == ~lhEcho /\ (lhScan = "sleep" => lhHost = lhSeen)

(* While a worker runs no byte is lost, doubled or overtaken, although one *)
(* buffer serves both directions and a write is partial: what one end read *)
(* and what is still on its way are the bytes the other wrote.             *)
BytesInOrder ==
    \A w \in Workers : \A e \in Ends :
        LET o == OtherEnd(e)
            held == IF lhBuf[w].to = o THEN lhBuf[w].bytes ELSE <<>>
        IN lhWork[w] # "ended" =>
               lhGot[w][o] \o lhOut[w][o] \o held \o lhIn[w][e] = [i \in 1..lhSent[w][e] |-> i]

(* What the localhost relay promises: the host follows the scan, and bytes *)
(* arrive in order.                                                        *)
LocalhostSafe == LhTypeOK /\ HostFollowsScan /\ BytesInOrder
=============================================================================
