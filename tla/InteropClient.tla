--------------------------- MODULE InteropClient ---------------------------
(***************************************************************************)
(* The binfmt interpreter (linux/init/binfmt.cpp): the process that runs   *)
(* in the place of a Windows program.  It puts the terminal in raw mode,   *)
(* asks the interop server for the program and relays its standard         *)
(* streams, its response and its exit status over four sockets ("vm"), or  *)
(* only waits for the status when Windows holds the streams ("wsl").       *)
(*                                                                         *)
(* One turn of the loop polls once and then serves the descriptors in a    *)
(* fixed order, while the host and the user go on.                         *)
(***************************************************************************)
EXTENDS Integers, Sequences

CONSTANTS Streams,   \* standard output, standard error: the loop treats both alike
          MaxActs,   \* chunks, signals and an end of input of the user
          MaxChunks, \* chunks the program writes to each stream
          StdinRoom   \* chunks the stdin socket holds

ASSUME NtAssumption == Streams \subseteq {"out", "err"} /\ MaxActs \in Nat /\ MaxChunks \in Nat /\ StdinRoom \in Nat \ {0}

VARIABLES
    ntMode,   \* UtilIsUtilityVm: vm or wsl
    ntPc,     \* what the interpreter does
    ntOpen,   \* descriptors whose entry is not -1
    ntReady,  \* descriptors poll reported and the turn has not served
    ntRaw,    \* the terminal is in raw mode
    ntFd,     \* g_ConsoleFd: none, open, closed; failed: dup failed
    ntCode,   \* ExitCode: 1, status, garbage, thrown
    ntSig,    \* signals of the signalfd
    ntActs,   \* what the user has done
    ntKeys,   \* typed chunks not read
    ntEof,    \* the end of standard input
    ntPipe,   \* chunks in the stdin socket
    ntShut,   \* shutdown(SHUT_WR) of it
    ntHostIn, \* the host has its end of it
    ntSent,   \* chunks the program wrote to a stream
    ntOut,    \* of these, the ones not read
    ntDone,   \* of these, the ones written to the user
    ntLost,   \* streams for which an error was printed
    ntEnd,    \* streams the host has closed
    ntCtl,    \* the control channel
    ntCtlEnd, \* the host has closed it
    ntHost    \* the program: none, asked, running, refused, exited

termVars == <<ntRaw, ntFd>>
userVars == <<ntActs, ntKeys, ntEof>>
stdinVars == <<ntPipe, ntShut, ntHostIn>>
streamVars == <<ntSent, ntOut, ntDone, ntLost, ntEnd>>
ctlVars == <<ntCtl, ntCtlEnd, ntHost>>
ntVars == <<ntMode, ntPc, ntOpen, ntReady, termVars, ntCode, ntSig, userVars, stdinVars, streamVars, ctlVars>>

Polled == IF ntMode = "vm" THEN {"in", "control", "signal"} \cup Streams ELSE {"control", "signal"}
\* A turn serves them in this order.
Order == <<"in", "out", "err", "control", "signal">>
Descriptors == {Order[i] : i \in 1..Len(Order)}
First(ready) ==
    IF ready = {} THEN "close"
    ELSE CHOOSE d \in ready : \E i \in 1..Len(Order) : Order[i] = d /\ \A j \in 1..(i - 1) : Order[j] \notin ready
ServesNext(d) == ntReady' = ntReady \ {d} /\ ntPc' = First(ntReady \ {d})
MovesTo(pc) == ntReady' = {} /\ ntPc' = pc
Gone == ntPc \in {"ended", "interrupted", "killed"}

NtInit ==
    /\ ntMode \in {"vm", "wsl"} /\ ntPc = "console" /\ ntOpen = {} /\ ntReady = {}
    /\ ntRaw = FALSE /\ ntFd = "none" /\ ntCode = "1" /\ ntSig = {}
    /\ ntActs = 0 /\ ntKeys = 0 /\ ntEof = FALSE /\ ntPipe = 0 /\ ntShut = FALSE /\ ntHostIn = TRUE
    /\ ntSent = [s \in Streams |-> 0] /\ ntOut = [s \in Streams |-> 0]
    /\ ntDone = [s \in Streams |-> 0] /\ ntLost = {} /\ ntEnd = {}
    /\ ntCtl = <<>> /\ ntCtlEnd = FALSE /\ ntHost = "none"

-----------------------------------------------------------------------------
(* CreateNtProcess up to the loop                                          *)

\* A terminal whose descriptor could not be duplicated stays raw.
RestoreConsoleState ==
    IF ntFd = "open" THEN ntRaw' = FALSE /\ ntFd' = "closed" ELSE UNCHANGED termVars

\* Every way out of the loop and of what precedes it; a signal or a failed poll may
\* leave the loop at any time.
ReturnsCode(code) == MovesTo("ended") /\ ntCode' = code /\ RestoreConsoleState
Interrupted == MovesTo("interrupted") /\ UNCHANGED ntCode /\ RestoreConsoleState

\* Nothing is changed unless the three streams are one terminal of this process
\* group with a size; a failure after that is no failure.
ConfigureConsole ==
    \/ UNCHANGED termVars
    \/ ntRaw' = TRUE /\ ntFd' \in {"open", "failed"}

\* CreateNtProcessMessage: no message without a Windows path or on an overflow.
CreateNtProcessMessage ==
    /\ ntPc = "console"
    /\ \/ ReturnsCode("1")
       \/ ConfigureConsole /\ MovesTo("connect") /\ UNCHANGED ntCode
    /\ UNCHANGED <<ntMode, ntOpen, ntSig, userVars, stdinVars, streamVars, ctlVars>>

\* UtilConnectToInteropServer finds a server of this process or of a parent; the
\* request is sent, which may throw.
ConnectToInterop ==
    /\ ntPc = "connect" /\ ntMode = "vm"
    /\ \/ \E code \in {"1", "thrown"} : ReturnsCode(code)
       \/ MovesTo("accept") /\ UNCHANGED <<ntCode, termVars>>
    /\ UNCHANGED <<ntMode, ntOpen, ntSig, userVars, stdinVars, streamVars, ctlVars>>

\* The host connects four times, or a wait of ACCEPT_TIMEOUT ends without it.
AcceptStreams ==
    /\ ntPc = "accept"
    /\ \/ MovesTo("poll") /\ ntOpen' = Polled /\ ntHost' = "asked" /\ UNCHANGED <<ntCode, termVars>>
       \/ ReturnsCode("1") /\ UNCHANGED <<ntOpen, ntHost>>
    /\ UNCHANGED <<ntMode, ntSig, userVars, stdinVars, streamVars, ntCtl, ntCtlEnd>>

\* CreateNtProcessWsl: the streams are marshalled to the server on the bus and closed
\* here; only its port and the signals are polled.
WslConnect ==
    /\ ntPc = "connect" /\ ntMode = "wsl"
    /\ \/ MovesTo("poll") /\ ntOpen' = Polled /\ ntHost' = "asked" /\ UNCHANGED <<ntCode, termVars>>
       \/ ReturnsCode("1") /\ UNCHANGED <<ntOpen, ntHost>>
    /\ UNCHANGED <<ntMode, ntSig, userVars, stdinVars, streamVars, ntCtl, ntCtlEnd>>

-----------------------------------------------------------------------------
(* One turn of the loop                                                    *)

Pending(d) ==
    CASE d = "in" -> ntKeys > 0 \/ ntEof
      [] d \in Streams -> ntOut[d] > 0 \/ d \in ntEnd
      [] d = "control" -> ntCtl # <<>> \/ ntCtlEnd
      [] d = "signal" -> ntSig # {}

\* HasOpenFileDescriptors, then poll.
PollSockets ==
    /\ ntPc = "poll"
    /\ \/ ntOpen = {} /\ ReturnsCode(ntCode)
       \/ /\ ntReady' = {d \in ntOpen : Pending(d)} /\ ntReady' # {}
          /\ ntPc' = First(ntReady') /\ UNCHANGED <<ntCode, termVars>>
    /\ UNCHANGED <<ntMode, ntOpen, ntSig, userVars, stdinVars, streamVars, ctlVars>>

PollFails ==
    /\ ntPc = "poll" /\ ntOpen # {} /\ Interrupted
    /\ UNCHANGED <<ntMode, ntOpen, ntSig, userVars, stdinVars, streamVars, ctlVars>>

\* A write to a peer that has gone: SIGPIPE has its default, unless the process was
\* started with another, and nothing restores the terminal.
BrokenPipe(d) == MovesTo("killed") \/ ServesNext(d)

\* Standard input: a read error is not told to the host.
ReadInput ==
    /\ ntPc = "in"
    /\ \/ ntKeys > 0 /\ ntKeys' = ntKeys - 1 /\ ntPc' = "write" /\ UNCHANGED <<ntReady, ntOpen, ntShut>>
       \/ ntKeys = 0 /\ ntEof /\ ntOpen' = ntOpen \ {"in"} /\ ntShut' = TRUE /\ ServesNext("in") /\ UNCHANGED ntKeys
       \/ ntOpen' = ntOpen \ {"in"} /\ ServesNext("in") /\ UNCHANGED <<ntKeys, ntShut>>
    /\ UNCHANGED <<ntMode, termVars, ntCode, ntSig, ntActs, ntEof, ntPipe, ntHostIn, streamVars, ctlVars>>

\* The write waits for room, and the other streams wait with it.
WriteInput ==
    /\ ntPc = "write"
    /\ \/ ntHostIn /\ ntPipe < StdinRoom /\ ntPipe' = ntPipe + 1 /\ ServesNext("in")
       \/ ~ntHostIn /\ BrokenPipe("in") /\ UNCHANGED ntPipe
    /\ UNCHANGED <<ntMode, ntOpen, termVars, ntCode, ntSig, userVars, ntShut, ntHostIn, streamVars, ctlVars>>

\* A stream of the program: what was read is written or an error is printed.
RelayStream(s) ==
    /\ ntPc = s
    /\ \/ /\ ntOut[s] > 0 /\ ntOut' = [ntOut EXCEPT ![s] = @ - 1] /\ UNCHANGED ntOpen
          /\ \/ ntDone' = [ntDone EXCEPT ![s] = @ + 1] /\ ServesNext(s) /\ UNCHANGED ntLost
             \/ ntLost' = ntLost \cup {s} /\ BrokenPipe(s) /\ UNCHANGED ntDone
       \/ /\ ntOut[s] = 0 /\ s \in ntEnd /\ ntOpen' = ntOpen \ {s} /\ ServesNext(s)
          /\ UNCHANGED <<ntOut, ntDone, ntLost>>
       \/ ntOpen' = ntOpen \ {s} /\ ntLost' = ntLost \cup {s} /\ ServesNext(s) /\ UNCHANGED <<ntOut, ntDone>>
    /\ UNCHANGED <<ntMode, termVars, ntCode, ntSig, userVars, stdinVars, ntSent, ntEnd, ctlVars>>

CtlFrame == UNCHANGED <<ntMode, ntSig, userVars, stdinVars, streamVars, ntCtlEnd, ntHost>>
Takes(types) ==
    /\ ntPc = "control" /\ ntCtl # <<>>
    /\ Head(ntCtl) \in types /\ ntCtl' = Tail(ntCtl)

\* The response: a graphical program needs no raw terminal.
ProcessStarted ==
    /\ Takes({"ok", "gui"}) /\ UNCHANGED ntOpen /\ CtlFrame
    /\ \/ /\ ServesNext("control") /\ UNCHANGED ntCode
          /\ IF Head(ntCtl) = "gui" THEN RestoreConsoleState ELSE UNCHANGED termVars
       \/ ntMode = "wsl" /\ ReturnsCode(ntCode)   \* no signal pipe

\* A failed start, or a message of another type or size.
ProcessRefused == Takes({"failed", "bad"}) /\ ReturnsCode(ntCode) /\ UNCHANGED ntOpen /\ CtlFrame

\* Slip: the status ends the loop.
ExitStatus_Returns ==
    Takes({"exit"}) /\ ntMode = "vm" /\ ReturnsCode("status") /\ ntOpen' = ntOpen \ {"control"} /\ CtlFrame

\* The exit status: the streams are still relayed to their ends.
ExitStatus ==
    /\ Takes({"exit"}) /\ ntMode = "vm"
    /\ ntCode' = "status" /\ ntOpen' = ntOpen \ {"control"} /\ ServesNext("control")
    /\ UNCHANGED termVars /\ CtlFrame

\* RecvMessage returns nothing: the rest of the turn is skipped.
ControlEof ==
    /\ ntPc = "control" /\ ntMode = "vm" /\ ntCtl = <<>>
    /\ ntOpen' = ntOpen \ {"control"} /\ MovesTo("poll")
    /\ UNCHANGED <<ntCtl, ntCode, termVars>> /\ CtlFrame

\* WindowSizeChanged: the new size goes to the host over the control channel, or over
\* a pipe that lasts as long.
WindowSizeChanged ==
    IF ntFd = "open" /\ ntCtlEnd THEN BrokenPipe("signal") ELSE ServesNext("signal")

\* The signalfd gives SIGINT before SIGWINCH.
SignalFd ==
    /\ ntPc = "signal"
    /\ \/ /\ "int" \in ntSig /\ ntSig' = ntSig \ {"int"}
          /\ ntShut' = (ntMode = "vm" \/ ntShut) /\ Interrupted
       \/ /\ "int" \notin ntSig /\ ntSig' = {} /\ UNCHANGED <<ntShut, ntCode, termVars>>
          /\ WindowSizeChanged
    /\ UNCHANGED <<ntMode, ntOpen, userVars, ntPipe, ntHostIn, streamVars, ctlVars>>

\* Slip: the user's input and signals are polled until they end.
ControlClosed_Polls ==
    /\ ntPc = "close" /\ MovesTo("poll") /\ ntShut' = (ntShut \/ "control" \notin ntOpen)
    /\ UNCHANGED <<ntMode, ntOpen, termVars, ntCode, ntSig, userVars, ntPipe, ntHostIn, streamVars, ctlVars>>

\* The end of a turn: without a control channel only the streams are polled.
ControlClosed ==
    /\ ntPc = "close" /\ MovesTo("poll")
    /\ IF "control" \notin ntOpen THEN ntShut' = TRUE /\ ntOpen' = ntOpen \ {"in", "signal"}
                                  ELSE UNCHANGED <<ntShut, ntOpen>>
    /\ UNCHANGED <<ntMode, termVars, ntCode, ntSig, userVars, ntPipe, ntHostIn, streamVars, ctlVars>>

\* CreateNtProcessWsl: the status is sent back and ends the loop at once.
WslExitStatus ==
    Takes({"exit"}) /\ ntMode = "wsl" /\ ReturnsCode("status") /\ UNCHANGED ntOpen /\ CtlFrame

\* An empty read leaves Reply uninitialised: what it holds passes for a response, for
\* a status, or for no message.
WslEof ==
    /\ ntPc = "control" /\ ntMode = "wsl" /\ ntCtl = <<>>
    /\ \/ ServesNext("control") /\ UNCHANGED <<ntCode, termVars>>
       \/ \E code \in {ntCode, "garbage"} : ReturnsCode(code)
    /\ UNCHANGED <<ntOpen, ntCtl>> /\ CtlFrame

Interpreter ==
    \/ CreateNtProcessMessage \/ ConnectToInterop \/ WslConnect \/ AcceptStreams \/ PollSockets
    \/ ReadInput \/ WriteInput \/ \E s \in Streams : RelayStream(s)
    \/ ProcessStarted \/ ProcessRefused \/ ExitStatus \/ ControlEof \/ SignalFd \/ ControlClosed
    \/ WslExitStatus \/ WslEof

-----------------------------------------------------------------------------
(* The user and the host                                                   *)

UserFrame ==
    /\ ntOpen # {} /\ ~Gone /\ ntActs < MaxActs /\ ntActs' = ntActs + 1
    /\ UNCHANGED <<ntMode, ntPc, ntOpen, ntReady, termVars, ntCode, stdinVars, streamVars, ctlVars>>

UserTypes == ~ntEof /\ ntKeys' = ntKeys + 1 /\ UNCHANGED <<ntEof, ntSig>> /\ UserFrame
UserEof == ~ntEof /\ ntEof' = TRUE /\ UNCHANGED <<ntKeys, ntSig>> /\ UserFrame
UserSignals(n) == n \notin ntSig /\ ntSig' = ntSig \cup {n} /\ UNCHANGED <<ntKeys, ntEof>> /\ UserFrame

HostFrame == ntOpen # {} /\ ~Gone /\ UNCHANGED <<ntMode, ntPc, ntOpen, ntReady, termVars, ntCode, ntSig, userVars>>

Says(m) == ~ntCtlEnd /\ ntCtl' = Append(ntCtl, m) /\ UNCHANGED ntCtlEnd
\* It responds once; a message of a wrong type or size may also come later.
HostResponds(m) ==
    /\ ntHost = "asked" \/ (ntHost = "running" /\ m = "bad")
    /\ Says(m) /\ ntHost' = IF m \in {"ok", "gui"} THEN "running" ELSE "refused"
    /\ UNCHANGED <<stdinVars, streamVars>> /\ HostFrame

HostExits == ntHost = "running" /\ Says("exit") /\ ntHost' = "exited" /\ UNCHANGED <<stdinVars, streamVars>> /\ HostFrame

\* What the program wrote may follow its exit status.
HostWrites(s) ==
    /\ ntMode = "vm" /\ ntHost \in {"running", "exited"} /\ s \notin ntEnd /\ ntSent[s] < MaxChunks
    /\ ntSent' = [ntSent EXCEPT ![s] = @ + 1] /\ ntOut' = [ntOut EXCEPT ![s] = @ + 1]
    /\ UNCHANGED <<stdinVars, ntDone, ntLost, ntEnd, ctlVars>> /\ HostFrame

HostReads ==
    /\ ntHostIn /\ ntPipe > 0 /\ ntPipe' = ntPipe - 1
    /\ UNCHANGED <<ntShut, ntHostIn, streamVars, ctlVars>> /\ HostFrame

\* The host closes its sockets in any order, and at any time when it fails.
HostCloses(d) ==
    /\ \/ d = "in" /\ ntMode = "vm" /\ ntHostIn /\ ntHostIn' = FALSE /\ UNCHANGED <<ntEnd, ntCtlEnd>>
       \/ d \in Streams \ ntEnd /\ ntMode = "vm" /\ ntEnd' = ntEnd \cup {d} /\ UNCHANGED <<ntHostIn, ntCtlEnd>>
       \/ d = "control" /\ ~ntCtlEnd /\ ntCtlEnd' = TRUE /\ UNCHANGED <<ntHostIn, ntEnd>>
    /\ UNCHANGED <<ntPipe, ntShut, ntSent, ntOut, ntDone, ntLost, ntCtl, ntHost>> /\ HostFrame

NtNext ==
    \/ Interpreter \/ PollFails \/ UserTypes \/ UserEof \/ HostExits \/ HostReads
    \/ \E n \in {"int", "winch"} : UserSignals(n)
    \/ \E m \in {"ok", "gui", "failed", "bad"} : HostResponds(m)
    \/ \E s \in Streams : HostWrites(s)
    \/ \E d \in {"in", "control"} \cup Streams : HostCloses(d)

NtSpec == NtInit /\ [][NtNext]_ntVars
\* The interpreter runs; nothing makes poll fail.
NtFairSpec == NtSpec /\ WF_ntVars(Interpreter)

-----------------------------------------------------------------------------

NtTypeOK ==
    /\ ntMode \in {"vm", "wsl"} /\ ntOpen \subseteq Descriptors /\ ntReady \subseteq Descriptors
    /\ ntPc \in {"console", "connect", "accept", "poll", "write", "close", "ended", "interrupted", "killed"} \cup Descriptors
    /\ ntRaw \in BOOLEAN /\ ntFd \in {"none", "open", "closed", "failed"}
    /\ ntCode \in {"1", "status", "garbage", "thrown"} /\ ntSig \subseteq {"int", "winch"}
    /\ ntKeys <= ntActs /\ ntActs <= MaxActs /\ ntPipe \in 0..StdinRoom
    /\ ntHost \in {"none", "asked", "running", "refused", "exited"}
    /\ \A s \in Streams : ntOut[s] + ntDone[s] <= ntSent[s] /\ ntSent[s] <= MaxChunks

Returned == ntPc = "ended" /\ ntMode = "vm" /\ ntHost \in {"running", "exited"}

(* "go through the relay loop until all data has been flushed" (binfmt.cpp *)
(* line 322): a loop that no signal left has read each stream to its end   *)
(* and written everything the program wrote, or has printed an error.      *)
OutputFlushed ==
    Returned => \A s \in Streams \ ntLost : s \in ntEnd /\ ntDone[s] = ntSent[s]

(* "The exit code of the launched process on success, 1 on failure"        *)
(* (binfmt.cpp line 129): the code is the program's only after it exited,  *)
(* and is not lost, whatever the order of the status, the ends of the      *)
(* streams and the end of the channel.                                     *)
CodeTruthful ==
    /\ ntCode = "status" => ntHost = "exited"
    /\ Returned /\ ntHost = "exited" => ntCode = "status"

(* The terminal has its mode back when CreateNtProcess returns on any      *)
(* path, but for one whose descriptor could not be duplicated.             *)
ConsoleRestored == ntPc \in {"ended", "interrupted"} /\ ntRaw => ntFd = "failed"

(* "Close stdin channel to unblock the relay thread" (binfmt.cpp line      *)
(* 379): the loop does not end before the host was told.                   *)
StdinShut == Returned => ntShut

(* What the interpreter owes the user and the host when it returns:        *)
(* binfmt.cpp, CreateNtProcessUtilityVm.                                   *)
NtSafe == NtTypeOK /\ OutputFlushed /\ CodeTruthful /\ ConsoleRestored /\ StdinShut

\* The host has sent the status and closed everything else.
HostDone == ntHost = "exited" /\ ~ntHostIn /\ ntEnd = Streams /\ (ntMode = "vm" \/ ntCtl # <<>>)

(* Once the program has exited and the host has closed its sockets the     *)
(* interpreter ends, whatever the user does or does not type.              *)
ClientEnds == HostDone ~> Gone

(* "Control channel is closed. This means that the windows process has     *)
(* exited" (binfmt.cpp line 378), as an end without a status too: does not *)
(* hold, because the turn that sees the end skips the rest of the turn and *)
(* the next poll waits for the user.                                       *)
ClosedEnds == (ntMode = "vm" /\ ntOpen # {} /\ ~ntHostIn /\ ntEnd = Streams /\ ntCtlEnd) ~> Gone
=============================================================================
