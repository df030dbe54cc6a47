---------------------------- MODULE ProcessRelay ----------------------------
(***************************************************************************)
(* The relay process of InitCreateProcessUtilityVm (linux/init/init.cpp):  *)
(* it accepts the service's sockets, creates the user's process on a       *)
(* pseudoterminal or on pipes, and relays its input, its output, its local *)
(* interop requests, its exit status and the size of its window in one     *)
(* poll loop.                                                              *)
(*                                                                         *)
(* One turn of the loop is a sequence of steps.  poll looks at the         *)
(* descriptors in their order, so it is two steps: the data first, then    *)
(* the signal and the sockets that come after it.  Data is counted in      *)
(* buffers of at most 0x1000 bytes, which a pipe takes whole or not at all *)
(* and a terminal may take in part.                                        *)
(***************************************************************************)
EXTENDS Integers, Sequences

CONSTANTS MaxIn,      \* buffers of input the service sends
          MaxOut,     \* buffers of output the process writes
          Cases       \* [consoles, scene]: which of "in", "out" and "err" are consoles, and
                      \* which of "orphan", "local" and "terminal" may come up

VARIABLES
    ryPc,      \* where the relay is
    scene,     \* the events that may come up
    consoles,  \* LxInitCreateProcessFlagsStd*Console
    revents,   \* what poll returned
    wrote,     \* BytesWritten: 0, 1 or -1
    pending,   \* PendingStdin: the buffer it holds, or 0
    cut,       \* buffers of input of which only a part was written
    polled,    \* descriptors with fd # -1
    inSent,    \* input the service has sent ...
    inRead,    \* ... and the relay has read
    inEnd,     \* the service has shut its side down
    inPipe,    \* input in the pipe or terminal
    inGot,     \* input the process has read
    inReader,  \* somebody holds the read end of stdin
    outBuf,    \* output waiting in each pipe and in the terminal
    outMade,   \* output written
    sockets,   \* output sockets not shut down: 1 stdout, 2 stderr
    lostOut,   \* output was lost although the service did not hang up
    ryChild,   \* the process
    orphan,    \* a process it leaves behind, which the relay inherits
    rySigchld,   \* SIGCHLD is pending
    status,    \* the exit status message and its answer
    local,     \* a client of the interop server
    terminal   \* the terminal control socket

ryVars == <<ryPc, scene, consoles, revents, wrote, pending, cut, polled, inSent, inRead, inEnd, inPipe, inGot,
            inReader, outBuf, outMade, sockets, lostOut, ryChild, orphan, rySigchld, status, local,
            terminal>>
inVars == <<inSent, inRead, inEnd, inPipe, inGot, inReader, pending, cut>>
outVars == <<outBuf, outMade, sockets, lostOut>>
procVars == <<ryChild, orphan, rySigchld>>
hostVars == <<status, local, terminal>>

Sources == {"out", "err", "pty"}
Data == {"in"} \cup Sources
SourceOf(d) == IF d \in consoles THEN "pty" ELSE d
Target(s) == IF s # "pty" THEN s
             ELSE IF "out" \in consoles THEN "out" ELSE IF "err" \in consoles THEN "err" ELSE "none"

RyInit ==
    /\ ryPc = "listen" /\ \E k \in Cases : consoles = k.consoles /\ scene = k.scene
    /\ revents = {} /\ wrote = 0 /\ pending = 0 /\ cut = {} /\ polled = {}
    /\ inSent = 0 /\ inRead = 0 /\ inEnd = FALSE /\ inPipe = <<>> /\ inGot = <<>> /\ inReader = FALSE
    /\ outBuf = [s \in Sources |-> 0] /\ outMade = 0 /\ sockets = {"out", "err"} /\ lostOut = FALSE
    /\ ryChild = "none" /\ orphan = "none" /\ rySigchld = FALSE
    /\ status = "none" /\ local = "none" /\ terminal = "open"

\* Everybody who has the standard handles open.
Holders == ryChild \in {"starting", "running"} \/ orphan = "alive"
\* The terminal hangs up when its last holder is gone: after exec if nothing is a console.
HungUp(s) == IF s = "pty" /\ consoles \cap {"in", "out", "err"} = {}
             THEN ryChild \notin {"none", "starting"} ELSE ~Holders

-----------------------------------------------------------------------------
(* The service, the process and the clients of the interop server.         *)

Connected == ryPc \notin {"listen", "accept", "setup"}

HostSendsInput ==
    /\ Connected /\ inSent < MaxIn /\ ~inEnd /\ inSent' = inSent + 1
    /\ UNCHANGED <<ryPc, scene, consoles, revents, wrote, polled, inRead, inEnd, inPipe, inGot, inReader,
                   pending, cut, outVars, procVars, hostVars>>

HostEndsInput ==
    /\ Connected /\ ~inEnd /\ inEnd' = TRUE
    /\ UNCHANGED <<ryPc, scene, consoles, revents, wrote, polled, inSent, inRead, inPipe, inGot, inReader,
                   pending, cut, outVars, procVars, hostVars>>

\* The window changes its size; wsl.exe closes its terminal.
HostTerminal(t) ==
    /\ Connected /\ "terminal" \in scene /\ terminal = "open" /\ terminal' = t
    /\ UNCHANGED <<ryPc, scene, consoles, revents, wrote, polled, inVars, outVars, procVars, status, local>>

HostAnswersStatus ==
    /\ status = "sent" /\ status' = "answered"
    /\ UNCHANGED <<ryPc, scene, consoles, revents, wrote, polled, inVars, outVars, procVars, local, terminal>>

\* A local client connects to the interop server ...
LocalConnects ==
    /\ ryChild = "running" /\ "local" \in scene /\ local = "none" /\ local' = "connected"
    /\ UNCHANGED <<ryPc, scene, consoles, revents, wrote, polled, inVars, outVars, procVars, status, terminal>>

\* ... and, once accepted, sends a message or something else, or closes the connection.
LocalSends(what) ==
    /\ local = "accepted" /\ local' = what
    /\ UNCHANGED <<ryPc, scene, consoles, revents, wrote, polled, inVars, outVars, procVars, status, terminal>>

\* CreateProcessCommon: the first-run command, if it was asked for, then exec; a
\* failure of either ends the process.
ChildStarts(ok) ==
    /\ ryChild = "starting"
    /\ ryChild' = IF ok THEN "running" ELSE "zombie"
    /\ rySigchld' = (rySigchld \/ ~ok)
    /\ inReader' = ok
    /\ UNCHANGED <<ryPc, scene, consoles, revents, wrote, polled, inSent, inRead, inEnd, inPipe, inGot,
                   pending, cut, outVars, orphan, hostVars>>

ProcessReads ==
    /\ ryChild = "running" \/ orphan = "alive"
    /\ inPipe # <<>> /\ inReader
    /\ inGot' = Append(inGot, Head(inPipe)) /\ inPipe' = Tail(inPipe)
    /\ UNCHANGED <<ryPc, scene, consoles, revents, wrote, polled, inSent, inRead, inEnd, inReader, pending, cut,
                   outVars, procVars, hostVars>>

ProcessClosesInput ==
    /\ ryChild = "running" /\ inReader /\ "in" \notin consoles
    /\ inReader' = FALSE /\ inPipe' = <<>>
    /\ UNCHANGED <<ryPc, scene, consoles, revents, wrote, polled, inSent, inRead, inEnd, inGot, pending, cut,
                   outVars, procVars, hostVars>>

\* A write waits while the pipe is full; it fails when the reader is gone.
ProcessWrites(d) ==
    /\ ryChild = "running" \/ orphan = "alive"
    /\ outMade < MaxOut /\ outMade' = outMade + 1
    /\ SourceOf(d) \in polled /\ outBuf[SourceOf(d)] = 0
    /\ outBuf' = [outBuf EXCEPT ![SourceOf(d)] = 1]
    /\ UNCHANGED <<ryPc, scene, consoles, revents, wrote, polled, inVars, sockets, lostOut, procVars, hostVars>>

ProcessForks ==
    /\ ryChild = "running" /\ "orphan" \in scene /\ orphan = "none" /\ orphan' = "alive"
    /\ UNCHANGED <<ryPc, scene, consoles, revents, wrote, polled, inVars, outVars, ryChild, rySigchld, hostVars>>

Exits ==
    /\ \/ ryChild = "running" /\ ryChild' = "zombie" /\ UNCHANGED orphan
       \/ orphan = "alive" /\ orphan' = "zombie" /\ UNCHANGED ryChild
    /\ rySigchld' = TRUE
    /\ inReader' = (inReader /\ (ryChild' = "running" \/ orphan' = "alive"))
    /\ inPipe' = IF inReader' \/ "in" \in consoles THEN inPipe ELSE <<>>
    /\ UNCHANGED <<ryPc, scene, consoles, revents, wrote, polled, inSent, inRead, inEnd, inGot, pending, cut,
                   outVars, hostVars>>

Surroundings ==
    \/ HostSendsInput \/ HostEndsInput \/ HostAnswersStatus
    \/ \E t \in {"resized", "closed"} : HostTerminal(t)
    \/ LocalConnects \/ \E w \in {"sent", "closed", "bad"} : LocalSends(w)
    \/ \E ok \in BOOLEAN : ChildStarts(ok)
    \/ ProcessReads \/ ProcessClosesInput \/ ProcessForks \/ Exits
    \/ \E d \in {"out", "err"} : ProcessWrites(d)

-----------------------------------------------------------------------------
(* The start of the relay.                                                 *)

RyGoes(pc) == ryPc' = pc /\ UNCHANGED <<scene, consoles>>
StartFrame == UNCHANGED <<revents, wrote, inSent, inRead, inEnd, inPipe, inGot, pending, cut, outVars, orphan,
                          rySigchld, hostVars>>

\* The port is sent, or -1 and nothing else happens; the relay is forked.
RelayListen(ok) ==
    /\ ryPc = "listen" /\ RyGoes(IF ok THEN "accept" ELSE "done")
    /\ UNCHANGED <<polled, ryChild, inReader>> /\ StartFrame

\* ConfigSetMountNamespace, and one accept for each socket.
RelayAccept(ok) ==
    /\ ryPc = "accept" /\ RyGoes(IF ok THEN "setup" ELSE "done")
    /\ UNCHANGED <<polled, ryChild, inReader>> /\ StartFrame

PollDescriptors == {"in", "pty", "interop", "signal", "terminal"} \cup ({"out", "err"} \ consoles)

\* The interop server, pipes for what is no console, the subreaper, forkpty; in
\* the parent the poll descriptors.
RelaySetup(ok) ==
    /\ ryPc = "setup" /\ RyGoes(IF ok THEN "scan" ELSE "done")
    /\ ryChild' = IF ok THEN "starting" ELSE ryChild
    /\ inReader' = ok
    /\ polled' = IF ok THEN PollDescriptors ELSE polled
    /\ StartFrame

-----------------------------------------------------------------------------
(* One turn of the loop.                                                   *)

Ready(d) ==
    CASE d = "in"       -> inRead < inSent \/ inEnd
      [] d \in Sources  -> outBuf[d] > 0 \/ HungUp(d)
      [] d = "interop"  -> local = "connected"
      [] d = "signal"   -> rySigchld
      [] d = "terminal" -> terminal # "open"

Stages == <<"in", "out", "err", "pty", "interop", "signal", "terminal">>

\* The next descriptor to handle after stage i, when BytesWritten is w.  "Ensure
\* all data has been written": a turn that wrote data goes back to poll first.
Proceeds(i, rev, w) ==
    LET later == {j \in i + 1..7 : Stages[j] \in rev /\ (j > 4 => w <= 0)}
        turn == later # {}
    IN /\ RyGoes(IF turn THEN Stages[CHOOSE j \in later : \A k \in later : j <= k] ELSE "scan")
       /\ revents' = IF turn THEN rev ELSE {}
       /\ wrote' = IF turn THEN w ELSE 0

\* poll looks at the descriptors the data comes from ...
PollData ==
    /\ ryPc = "scan"
    /\ pending # 0 \/ \E d \in polled : Ready(d)
    /\ RyGoes("scan2")
    /\ revents' = {d \in polled \cap Data : Ready(d)}
    /\ UNCHANGED <<wrote, polled, inVars, outVars, procVars, hostVars>>

\* ... then at the others.  With input pending it returns after 100 ms.
PollRest ==
    /\ ryPc = "scan2"
    /\ Proceeds(0, revents \cup {d \in polled \ Data : Ready(d)}
                           \cup (IF pending = 0 THEN {} ELSE {"in"}), 0)
    /\ UNCHANGED <<polled, inVars, outVars, procVars, hostVars>>

PipeRoom == Len(inPipe) = 0
Readable == inReader \/ "in" \in consoles
InputFrame == UNCHANGED <<inSent, inEnd, inGot, inReader, outVars, procVars, hostVars>>

\* Slip: what could not be written in time is dropped.
RelayPending_Drops ==
    /\ ryPc = "in" /\ pending # 0
    /\ pending' = 0
    /\ IF PipeRoom /\ Readable
       THEN inPipe' = Append(inPipe, pending) /\ wrote' = 1 /\ UNCHANGED <<ryPc, scene, consoles, revents>>
       ELSE Proceeds(1, revents, -1) /\ UNCHANGED inPipe
    /\ UNCHANGED <<polled, inRead, cut>> /\ InputFrame

\* The delayed write; when it empties PendingStdin, input is read in the same turn.
\* What a terminal does not take stays in PendingStdin.
RelayPending ==
    /\ ryPc = "in" /\ pending # 0
    /\ \/ /\ PipeRoom /\ Readable
          /\ inPipe' = Append(inPipe, pending) /\ pending' = 0 /\ cut' = cut \ {pending}
          /\ wrote' = 1 /\ UNCHANGED <<ryPc, scene, consoles, revents>>
       \/ /\ PipeRoom /\ "in" \in consoles /\ pending \notin cut
          /\ cut' = cut \cup {pending} /\ Proceeds(1, revents, 1) /\ UNCHANGED <<inPipe, pending>>
       \/ /\ ~(PipeRoom /\ Readable)
          /\ Proceeds(1, revents, -1) /\ UNCHANGED <<inPipe, pending, cut>>
    /\ UNCHANGED <<polled, inRead>> /\ InputFrame

\* Slip: the write of new input waits for room.
RelayInput_Blocking ==
    /\ ryPc = "in" /\ pending = 0 /\ inRead < inSent /\ PipeRoom /\ Readable
    /\ inRead' = inRead + 1 /\ inPipe' = Append(inPipe, inRead + 1) /\ Proceeds(1, revents, 1)
    /\ UNCHANGED <<polled, pending, cut>> /\ InputFrame

\* New input is written, or kept as pending when the pipe is full; any other
\* error, EPIPE when nobody reads, ends the relay.  What a terminal does not take
\* of it is dropped: only BytesWritten < 0 is looked for.
RelayInput ==
    /\ ryPc = "in" /\ pending = 0 /\ inRead < inSent
    /\ inRead' = inRead + 1
    /\ \/ ~Readable /\ RyGoes("end") /\ UNCHANGED <<inPipe, pending, cut, revents, wrote>>
       \/ /\ Readable /\ PipeRoom
          /\ inPipe' = Append(inPipe, inRead + 1) /\ UNCHANGED pending /\ Proceeds(1, revents, 1)
          /\ \/ UNCHANGED cut
             \/ "in" \in consoles /\ cut' = cut \cup {inRead + 1}
       \/ /\ Readable /\ ~PipeRoom
          /\ pending' = inRead + 1 /\ UNCHANGED <<inPipe, cut>> /\ Proceeds(1, revents, -1)
    /\ UNCHANGED polled /\ InputFrame

\* The input is at its end: StdIn is closed, and the terminal if it is a console.
\* (After a delayed write without new input there is nothing to read.)
RelayInputEnd ==
    /\ ryPc = "in" /\ pending = 0 /\ inRead = inSent
    /\ IF inEnd
       THEN LET gone == IF "in" \in consoles THEN {"in", "pty"} ELSE {"in"}
            IN polled' = polled \ gone /\ Proceeds(1, revents \ gone, wrote)
       ELSE UNCHANGED polled /\ Proceeds(1, revents, wrote)
    /\ UNCHANGED <<inRead, inPipe, pending, cut>> /\ InputFrame

\* Output goes from pipe s, or the terminal, to its socket; after the socket was
\* shut down the write fails with EPIPE and the pipe is closed.  At its end the
\* socket is shut down.
RelayOutput(i) ==
    LET s == Stages[i]
    IN /\ ryPc = s
       /\ IF outBuf[s] > 0
          THEN /\ outBuf' = [outBuf EXCEPT ![s] = 0]
               /\ IF Target(s) \in sockets
                  THEN Proceeds(i, revents, 1) /\ UNCHANGED <<lostOut, polled>>
                  ELSE /\ IF s = "pty" THEN RyGoes("end") /\ UNCHANGED <<revents, wrote>>
                                       ELSE Proceeds(i, revents, -1)
                       /\ lostOut' = TRUE
                       /\ polled' = polled \ {s}
               /\ UNCHANGED sockets
          ELSE /\ polled' = polled \ {s}
               /\ sockets' = sockets \ (IF s = "pty" THEN consoles ELSE {s})
               /\ Proceeds(i, revents, wrote)
               /\ UNCHANGED <<outBuf, lostOut>>
       /\ UNCHANGED <<inVars, outMade, procVars, hostVars>>

\* An interop client is accepted, or has gone ...
RelayAccepts ==
    /\ ryPc = "interop"
    /\ \/ RyGoes("local") /\ local' = "accepted" /\ UNCHANGED <<revents, wrote>>
       \/ RyGoes("scan") /\ local' = "done" /\ revents' = {} /\ wrote' = 0
    /\ UNCHANGED <<polled, inVars, outVars, procVars, status, terminal>>

\* ... and its message is awaited and handled (ConfigHandleInteropMessage); one that
\* is no message is an exception, which ends the relay.
RelayInterop ==
    /\ ryPc = "local" /\ local \in {"sent", "closed", "bad"}
    /\ IF local = "bad" THEN RyGoes("end") /\ UNCHANGED <<revents, wrote>> ELSE Proceeds(5, revents, 0)
    /\ local' = "done"
    /\ UNCHANGED <<polled, inVars, outVars, procVars, status, terminal>>

RelaySignal ==
    /\ ryPc = "signal" /\ RyGoes("reap") /\ rySigchld' = FALSE
    /\ UNCHANGED <<revents, wrote, polled, inVars, outVars, ryChild, orphan, hostVars>>

\* waitpid until no process has ended: the child's status is sent, and the relay
\* ends when it has no children left.
RelayReaps ==
    /\ ryPc = "reap"
    /\ \/ /\ orphan = "zombie" /\ orphan' = "reaped" /\ UNCHANGED <<ryChild, status>>
          /\ RyGoes("reap") /\ UNCHANGED <<revents, wrote>>
       \/ /\ ryChild = "zombie" /\ ryChild' = "reaped" /\ status' = "sent" /\ UNCHANGED orphan
          /\ RyGoes("answer") /\ UNCHANGED <<revents, wrote>>
       \/ /\ ryChild # "zombie" /\ orphan # "zombie" /\ UNCHANGED <<ryChild, orphan, status>>
          /\ IF Holders THEN Proceeds(6, revents, 0) ELSE RyGoes("end") /\ UNCHANGED <<revents, wrote>>
    /\ UNCHANGED <<polled, inVars, outVars, rySigchld, local, terminal>>

\* The service answers the status; the sockets are shut down.
RelayAnswered ==
    /\ ryPc = "answer" /\ status = "answered"
    /\ RyGoes("reap")
    /\ sockets' = {}
    /\ polled' = polled \ {"terminal"}
    /\ UNCHANGED <<revents, wrote, inVars, outBuf, outMade, lostOut, procVars, hostVars>>

RelayTerminal ==
    /\ ryPc = "terminal"
    /\ IF terminal = "closed" THEN RyGoes("end") /\ UNCHANGED <<terminal, revents, wrote>>
                              ELSE Proceeds(7, revents, 0) /\ terminal' = "same"
    /\ UNCHANGED <<polled, inVars, outVars, procVars, status, local>>

\* The sockets are shut down, the interop socket is removed, and the relay exits.
RelayEnd ==
    /\ ryPc = "end" /\ RyGoes("done")
    /\ sockets' = {} /\ polled' = {} /\ revents' = {} /\ wrote' = 0
    /\ lostOut' = (lostOut \/ (terminal # "closed" /\ \E s \in polled \cap Sources : outBuf[s] > 0))
    /\ UNCHANGED <<inVars, outBuf, outMade, procVars, hostVars>>

Starts == \E ok \in BOOLEAN : RelayListen(ok) \/ RelayAccept(ok) \/ RelaySetup(ok)
Turn == \/ PollData \/ PollRest
        \/ RelayPending \/ RelayInput \/ RelayInputEnd \/ \E i \in 2..4 : RelayOutput(i)
        \/ RelayAccepts \/ RelayInterop \/ RelaySignal \/ RelayReaps \/ RelayAnswered \/ RelayTerminal
        \/ RelayEnd

RyNext == Starts \/ Turn \/ Surroundings
RySpec == RyInit /\ [][RyNext]_ryVars

\* The relay runs; the service answers the exit status; an accepted client sends
\* or closes.  The process owes nothing.
RyFairSpec ==
    /\ RySpec
    /\ WF_ryVars(Turn) /\ WF_ryVars(HostAnswersStatus)
    /\ WF_ryVars(LocalSends("sent") \/ LocalSends("closed"))

-----------------------------------------------------------------------------

(* Type invariant. *)
RyTypeOK ==
    /\ polled \cup revents \subseteq Data \cup {"interop", "signal", "terminal"}
    /\ wrote \in {-1, 0, 1} /\ pending \in 0..MaxIn
    /\ inRead \in 0..inSent /\ inSent \in 0..MaxIn
    /\ outBuf \in [Sources -> 0..1] /\ sockets \subseteq {"out", "err"}
    /\ ryChild \in {"none", "starting", "running", "zombie", "reaped"}
    /\ orphan \in {"none", "alive", "zombie", "reaped"}

\* What was read, is in the pipe and is pending is all that came, in its order ...
ReadInOrder ==
    inReader => inGot \o inPipe \o (IF pending = 0 THEN <<>> ELSE <<pending>>) = [i \in 1..inRead |-> i]

\* ... and no buffer in it is torn, unless a terminal did not take it whole.
PipesTakeWhole == "in" \notin consoles => cut = {}

(* Input reaches a process that reads it in the order in which the service *)
(* sent it, also when the pipe was full and a buffer had to be kept as     *)
(* pending; and nothing is left out, except that a terminal may have taken *)
(* only a part of a buffer.                                                *)
InputInOrder == ReadInOrder /\ PipesTakeWhole

(* "blocking on the write() could lead to a deadlock if the child process    *)
(* is blocking trying to write on stderr / stdout while the relay tries to *)
(* write stdin": output is always taken out of the pipe, even from a       *)
(* process that reads no input before its output is read, as long as the   *)
(* relay has not closed it.                                                *)
OutputTaken == \A s \in Sources : outBuf[s] = 0 \/ s \notin polled

(* The relay ends when the process and all it left behind have ended,      *)
(* whichever of them SIGCHLD was merged for.                               *)
RelayEnds == (ryChild \in {"zombie", "reaped"} /\ orphan # "alive") => ryPc = "done"

(* "If the child process exits, write the exit status message": whatever    *)
(* else ends the relay, the service learns how the process ended, unless   *)
(* it hung up itself.                                                      *)
StatusReported == (ryPc = "done" /\ ryChild \in {"zombie", "reaped"} /\ terminal # "closed")
                      => status # "none"

(* "Ensure all data has been written" before the exit status is handled:   *)
(* what the process wrote reaches the service.                             *)
OutputDelivered == ~lostOut

(* What the relay promises in the end, input and output being finite: from *)
(* some moment on no output waits, and the relay has ended if all it       *)
(* serves has.                                                             *)
RelayLive == []RyTypeOK /\ <>[](OutputTaken /\ RelayEnds)
=============================================================================
