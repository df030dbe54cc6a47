--------------------------- MODULE BridgeSession ---------------------------
(***************************************************************************)
(* hvbridge.c: the console session server.                                 *)
(*                                                                         *)
(* One process serves sessions one after the other (main).  A session      *)
(* (run_session) forks the user's shell on a PTY and then runs one poll    *)
(* loop over the host's control channel, the PTY, the SIGCHLD self-pipe    *)
(* and the interop sockets.  The actors are the bridge, the shell (child), *)
(* helper processes the bridge forks for interop requests, the host at     *)
(* the other end of the control channel, the kernel's clock, and whoever   *)
(* sends the bridge SIGTERM.  The bridge's program counter has one value   *)
(* per point of the code where the others can get in between.              *)
(*                                                                         *)
(* The control channel is a byte stream.  A message is two units of it,    *)
(* its header and its body, so that a read may end inside a message and    *)
(* may span several.                                                       *)
(*                                                                         *)
(* The window-size part of the loop and the copying of stdin and of the    *)
(* echo channel have no effect on this state and are left out.             *)
(***************************************************************************)
EXTENDS Naturals, Sequences, FiniteSets

CONSTANTS
    MaxSessions,  \* sessions main serves
    MaxMsgs,      \* messages the host sends per session
    CrCap,        \* units that fit in control_reader.buf
    MaxOut,       \* units of unread output the PTY holds
    MaxHelpers,   \* interop CreateProcess requests per session
    MaxRelays     \* local interop connections per session

ASSUME BoundsAssumption ==
    /\ MaxSessions \in Nat
    /\ MaxMsgs \in Nat
    /\ CrCap \in Nat \ {0, 1}
    /\ MaxOut \in Nat
    /\ MaxHelpers \in Nat
    /\ MaxRelays \in Nat

VARIABLES
    pc,                 \* where the bridge is in main / run_session
    sessions,           \* sessions started so far
    started,            \* the session got past the early-exit check
    ready,              \* the revents poll() reported
    host_disconnected, child_reaped, sighup_sent, sigkill_sent, session_done,
    clock,              \* shutdown_deadline: "off", "armed" or "expired"
    g_terminate,        \* set by the SIGTERM / SIGINT handler
    pollErr,            \* poll() failed with something other than EINTR
    child,              \* the shell: "none", "running", "zombie", "reaped"
    sigs,               \* signals the bridge sent the shell
    strayKill,          \* kill() was called with a pid already reaped
    pipe,               \* g_sigchld_pipe: "none", "empty" or "byte"
    listeners,          \* interop listening sockets the process holds open
    iListen,            \* interop_listen_fd >= 0 in this session
    helpers,            \* interop helper processes: how many were forked
    helperExits,        \* ... and how many of them have exited
    relays,             \* local interop connections served
    pty,                \* units of output the shell wrote, not yet read
    hostOpen,           \* the host has its end of the session open
    sent,               \* units the host wrote (history)
    sock,               \* units in the control socket's receive queue
    cr,                 \* units in control_reader.buf
    handled,            \* units of dispatched messages (history)
    toHost,             \* messages written to the control channel (history)
    ctlFailed,          \* a send on the control channel failed (history)
    outFailed           \* a send on stdout failed (history)

loopVars == <<host_disconnected, child_reaped, sighup_sent, sigkill_sent,
              session_done, clock>>
mainVars == <<sessions, started, g_terminate, pollErr>>
procVars == <<child, sigs, strayKill, pipe, helpers, helperExits, pty, outFailed>>
fdVars   == <<listeners, iListen>>
hostVars == <<hostOpen, sent, sock, cr, handled, toHost, ctlFailed>>
vars     == <<pc, ready, loopVars, mainVars, procVars, fdVars, relays, hostVars>>

-----------------------------------------------------------------------------

(* The message types the control-channel switch tells apart.  "info" are   *)
(* NetworkInformation, TimezoneInformation and WindowSizeChanged, which do *)
(* not touch this state; "bad" is a header with MessageSize out of range.  *)
Kinds == {"info", "term", "unknown", "bad"}
Units == Kinds \X {"head", "body"}
Head1(k) == <<k, "head">>
Body(k)  == <<k, "body">>

(* What the bridge writes to the control channel; "fragment" is a relayed  *)
(* message cut short.                                                      *)
Answers == {"exit", "nack", "relay", "fragment"}

(* Messages whose header the stream s holds. *)
Msgs(s) == Cardinality({i \in DOMAIN s : s[i][2] = "head"})

InSession == pc \notin {"accept", "first", "exited"}

PCs == {"accept", "first", "fork", "early", "abort", "poll", "escalate", "drain", "wait",
        "control", "io", "local", "finish", "waitpid", "close", "exited"}

Init ==
    /\ pc = "accept" /\ ready = {}
    /\ sessions = 0 /\ started = FALSE /\ g_terminate = FALSE /\ pollErr = FALSE
    /\ host_disconnected = FALSE /\ child_reaped = FALSE
    /\ sighup_sent = FALSE /\ sigkill_sent = FALSE /\ session_done = FALSE
    /\ clock = "off"
    /\ child = "none" /\ sigs = {} /\ strayKill = FALSE /\ pipe = "none"
    /\ helpers = 0 /\ helperExits = 0 /\ relays = 0 /\ pty = 0
    /\ listeners = 0 /\ iListen = FALSE
    /\ hostOpen = FALSE /\ sent = <<>> /\ sock = <<>> /\ cr = <<>>
    /\ handled = <<>> /\ toHost = <<>> /\ ctlFailed = FALSE /\ outFailed = FALSE

-----------------------------------------------------------------------------
(*                            main: session setup                          *)

(* kill(pid, sig) on the shell's pid; pid names nothing of ours once it    *)
(* has been reaped.                                                        *)
Kill(sig) ==
    /\ sigs' = IF child \in {"running", "zombie"} THEN sigs \cup {sig} ELSE sigs
    /\ strayKill' = (strayKill \/ child = "reaped")

(* A message goes out on the control channel.  A host that has closed it   *)
(* makes the send fail; one that does not read for five seconds too, and   *)
(* then a part of the message may have been written.  No caller looks at   *)
(* the result.                                                             *)
SendHost(m) ==
    \/ hostOpen /\ toHost' = Append(toHost, m) /\ UNCHANGED ctlFailed
    \/ hostOpen /\ toHost' = Append(toHost, "fragment") /\ ctlFailed' = TRUE
    \/ toHost' = toHost /\ ctlFailed' = TRUE

(* What run_session's caller does when it returns. *)
BackToMain == pc' = IF g_terminate THEN "exited" ELSE "accept"

(* The init and the control channel are accepted; receive_initial_message  *)
(* then reads until a whole message has come, or the host closes.          *)
Accept ==
    /\ pc = "accept"
    /\ sessions < MaxSessions
    /\ pc' = "first"
    /\ UNCHANGED <<ready, loopVars, mainVars, procVars, fdVars, relays, hostVars>>

(* accept_with_poll times out, is interrupted or fails, or the initial     *)
(* message cannot be read: main closes what it has and leaves its loop.    *)
AcceptFail ==
    /\ pc \in {"accept", "first"}
    /\ pc' = "exited"
    /\ UNCHANGED <<ready, loopVars, mainVars, procVars, fdVars, relays, hostVars>>

(* The initial message and five more connections arrived; run_session      *)
(* creates the interop listener and the self-pipe, and either may fail.    *)
StartSession(listenOk, pipeOk) ==
    /\ pc = "first"
    /\ pc' = "fork"
    /\ sessions' = sessions + 1
    /\ iListen' = listenOk
    /\ listeners' = IF listenOk THEN listeners + 1 ELSE listeners
    /\ pipe' = IF pipeOk THEN "empty" ELSE "none"
    /\ child' = "none" /\ sigs' = {} /\ strayKill' = FALSE
    /\ helpers' = 0 /\ helperExits' = 0 /\ relays' = 0 /\ pty' = 0
    /\ hostOpen' = TRUE /\ sent' = <<>> /\ sock' = <<>> /\ cr' = <<>>
    /\ handled' = <<>> /\ toHost' = <<>> /\ ctlFailed' = FALSE /\ outFailed' = FALSE
    /\ host_disconnected' = FALSE /\ child_reaped' = FALSE
    /\ sighup_sent' = FALSE /\ sigkill_sent' = FALSE /\ session_done' = FALSE
    /\ clock' = "off" /\ ready' = {} /\ started' = FALSE /\ pollErr' = FALSE
    /\ UNCHANGED g_terminate

Fork ==
    /\ pc = "fork"
    /\ child' = "running"
    /\ pc' = "early"
    /\ UNCHANGED <<ready, loopVars, mainVars, sigs, strayKill, pipe, helpers,
                   helperExits, pty, outFailed, fdVars, relays, hostVars>>

ForkFail ==
    /\ pc = "fork"
    /\ pc' = "abort"
    /\ UNCHANGED <<ready, loopVars, mainVars, procVars, fdVars, relays, hostVars>>

(* The shell was gone before the loop was entered: it is reported. *)
EarlyExit ==
    /\ pc = "early"
    /\ child = "zombie"
    /\ child' = "reaped"
    /\ SendHost("exit")
    /\ pc' = "abort"
    /\ UNCHANGED <<ready, loopVars, mainVars, sigs, strayKill, pipe, helpers,
                   helperExits, pty, outFailed, fdVars, relays, hostOpen, sent, sock,
                   cr, handled>>

(* The way out of both: the PTY (unread) and the self-pipe are closed, the *)
(* interop listener is not.                                                *)
Abort ==
    /\ pc = "abort"
    /\ pipe' = "none"
    /\ iListen' = FALSE
    /\ BackToMain
    /\ UNCHANGED <<ready, loopVars, mainVars, child, sigs, strayKill, helpers,
                   helperExits, pty, outFailed, listeners, relays, hostVars>>

EnterLoop ==
    /\ pc = "early"
    /\ child # "zombie"
    /\ started' = TRUE
    /\ pc' = "poll"
    /\ UNCHANGED <<ready, loopVars, sessions, g_terminate, pollErr, procVars,
                   fdVars, relays, hostVars>>

-----------------------------------------------------------------------------
(*                      run_session: one turn of the loop                  *)

(* Slip: the self-pipe is taken out of the poll set with the host's fds. *)
Ready_NoPipeAfterDisconnect ==
    IF host_disconnected THEN IF pty > 0 THEN {"pty"} ELSE {}
    ELSE (IF sock # <<>> \/ ~hostOpen THEN {"control"} ELSE {})
         \cup (IF pty > 0 THEN {"pty"} ELSE {})
         \cup (IF pipe = "byte" THEN {"sigchld"} ELSE {})

(* What poll() would report now. *)
Ready ==
    (IF ~host_disconnected /\ (sock # <<>> \/ ~hostOpen) THEN {"control"} ELSE {})
    \cup (IF pty > 0 THEN {"pty"} ELSE {})
    \cup (IF pipe = "byte" THEN {"sigchld"} ELSE {})

(* Slip: SIGTERM leaves run_session without killing the shell. *)
PollReturn_SkipsReaping ==
    /\ pc = "poll"
    /\ ready' = Ready
    /\ pc' = IF g_terminate THEN "close" ELSE "escalate"
    /\ UNCHANGED <<loopVars, mainVars, procVars, fdVars, relays, hostVars>>

(* Slip: the terminate flag is not looked at. *)
PollReturn_IgnoresTerminate ==
    /\ pc = "poll"
    /\ ready' = Ready
    /\ pc' = "escalate"
    /\ UNCHANGED <<loopVars, mainVars, procVars, fdVars, relays, hostVars>>

(* poll() returns: with events, on its timeout, or with EINTR (which only  *)
(* matters when the terminate flag is set).                                *)
PollReturn ==
    /\ pc = "poll"
    /\ ready' = Ready
    /\ pc' = IF g_terminate THEN "finish" ELSE "escalate"
    /\ UNCHANGED <<loopVars, mainVars, procVars, fdVars, relays, hostVars>>

(* poll() fails: the shell is killed at once; the blocking waitpid that    *)
(* follows is the one at the end of the function.                          *)
PollFail ==
    /\ pc = "poll"
    /\ pollErr' = TRUE
    /\ pc' = "finish"
    /\ UNCHANGED <<ready, loopVars, sessions, started, g_terminate, procVars,
                   fdVars, relays, hostVars>>

(* Slips: the shell is left waitable; the flag is not set. *)
CollectChild_NoWait ==
    child' = child /\ child_reaped' = TRUE /\ session_done' = TRUE
CollectChild_NoFlag ==
    child' = "reaped" /\ child_reaped' = child_reaped /\ session_done' = TRUE

(* waitpid() returned the shell's pid. *)
CollectChild ==
    child' = "reaped" /\ child_reaped' = TRUE /\ session_done' = TRUE

(* Slip: the deadline is not consulted. *)
EscalationDue_NoDeadline == host_disconnected /\ ~child_reaped /\ ~sigkill_sent

EscalationDue ==
    host_disconnected /\ ~child_reaped /\ ~sigkill_sent /\ clock = "expired"

(* The SIGKILL escalation, with its own waitpid(WNOHANG). *)
Escalate ==
    /\ pc = "escalate"
    /\ pc' = "drain"
    /\ IF EscalationDue
       THEN /\ Kill("KILL")
            /\ sigkill_sent' = TRUE
            /\ IF child = "zombie"
               THEN CollectChild
               ELSE UNCHANGED <<child, child_reaped, session_done>>
       ELSE UNCHANGED <<sigs, strayKill, sigkill_sent, child, child_reaped, session_done>>
    /\ UNCHANGED <<ready, host_disconnected, sighup_sent, clock, mainVars, pipe,
                   helpers, helperExits, pty, outFailed, fdVars, relays, hostVars>>

(* The self-pipe is emptied first ... *)
DrainPipe ==
    /\ pc = "drain"
    /\ pc' = IF "sigchld" \in ready THEN "wait" ELSE "control"
    /\ pipe' = IF "sigchld" \in ready THEN "empty" ELSE pipe
    /\ UNCHANGED <<ready, loopVars, mainVars, child, sigs, strayKill, helpers,
                   helperExits, pty, outFailed, fdVars, relays, hostVars>>

(* Slip: no drain. *)
DrainPty_None == UNCHANGED <<pty, outFailed>>

(* What the shell left in the PTY goes to the host, or nowhere after a     *)
(* disconnect: all of it, unless a send on stdout fails.                   *)
DrainPty ==
    \/ pty' = 0 /\ UNCHANGED outFailed
    \/ /\ ~host_disconnected /\ pty > 0
       /\ pty' \in 0..(pty - 1)
       /\ outFailed' = TRUE

(* Slip: the test is inverted. *)
ReportExit_Inverted ==
    IF host_disconnected THEN SendHost("exit") ELSE UNCHANGED <<toHost, ctlFailed>>

ReportExit == IF host_disconnected THEN UNCHANGED <<toHost, ctlFailed>> ELSE SendHost("exit")

(* ... and the shell is waited for afterwards.  If it is gone, its output  *)
(* and then its exit status go to the host, and the loop is left.          *)
WaitChild ==
    /\ pc = "wait"
    /\ IF child = "zombie"
       THEN CollectChild /\ DrainPty /\ ReportExit /\ pc' = "finish"
       ELSE /\ pc' = "control"
            /\ UNCHANGED <<child, child_reaped, session_done, pty, outFailed, toHost, ctlFailed>>
    /\ UNCHANGED <<ready, host_disconnected, sighup_sent, sigkill_sent, clock,
                   mainVars, sigs, strayKill, pipe, helpers, helperExits, fdVars,
                   relays, hostOpen, sent, sock, cr, handled>>

(* SIGHUP once, and five seconds for the shell to obey. *)
BeginShutdown ==
    /\ host_disconnected' = TRUE
    /\ sighup_sent' = TRUE
    /\ clock' = "armed"
    /\ IF sighup_sent THEN UNCHANGED <<sigs, strayKill>> ELSE Kill("HUP")

NoShutdown == UNCHANGED <<host_disconnected, sighup_sent, clock, sigs, strayKill>>

(* recv() in control_try_read: as much as has arrived and fits. *)
RecvLen == LET room == CrCap - Len(cr)
           IN  IF Len(sock) < room THEN Len(sock) ELSE room
Buffered == cr \o SubSeq(sock, 1, RecvLen)

(* control_try_read's result for a buffer: -1, 0 or 1. *)
TryRead(buf) ==
    IF buf = <<>> THEN "partial"
    ELSE IF buf[1][1] = "bad" THEN "error"
    ELSE IF Len(buf) < 2 THEN "partial" ELSE "message"

(* Slip: what follows the message is thrown away with it. *)
Consume_DropsRest(buf) == <<>>

(* control_consume: the rest of the buffer moves to its front. *)
Consume(buf) == SubSeq(buf, 3, Len(buf))

(* One call of control_try_read per POLLIN, and at most one message        *)
(* dispatched per call, whatever else the buffer holds.                    *)
Readable == ~host_disconnected /\ "control" \in ready
AtEof == Len(cr) < CrCap /\ sock = <<>> /\ ~hostOpen

ControlStage ==
    /\ pc = "control" /\ pc' = "io"
    /\ UNCHANGED <<ready, child_reaped, sigkill_sent, session_done, mainVars, child,
                   pipe, helpers, helperExits, pty, outFailed, fdVars, relays, hostOpen, sent>>

ControlRecv ==
    /\ ControlStage /\ Readable /\ ~AtEof
    /\ sock' = SubSeq(sock, RecvLen + 1, Len(sock))

ControlQuiet ==
    /\ ControlStage /\ ~Readable
    /\ NoShutdown
    /\ UNCHANGED <<sock, cr, handled, toHost, ctlFailed>>

ControlClosed ==
    /\ ControlStage /\ Readable /\ AtEof
    /\ BeginShutdown
    /\ UNCHANGED <<sock, cr, handled, toHost, ctlFailed>>

ControlPartial ==
    /\ ControlRecv /\ TryRead(Buffered) = "partial"
    /\ NoShutdown
    /\ cr' = Buffered
    /\ UNCHANGED <<handled, toHost, ctlFailed>>

ControlBad ==
    /\ ControlRecv /\ TryRead(Buffered) = "error"
    /\ BeginShutdown
    /\ cr' = Buffered
    /\ UNCHANGED <<handled, toHost, ctlFailed>>

ControlDispatch ==
    /\ ControlRecv /\ TryRead(Buffered) = "message"
    /\ cr' = Consume(Buffered)
    /\ handled' = handled \o SubSeq(Buffered, 1, 2)

(* TerminateInstance *)
ControlTerminate ==
    /\ ControlDispatch /\ Buffered[1][1] = "term"
    /\ BeginShutdown
    /\ UNCHANGED <<toHost, ctlFailed>>

(* The other message types; an unknown one is answered with a NACK. *)
ControlMessage ==
    /\ ControlDispatch /\ Buffered[1][1] # "term"
    /\ NoShutdown
    /\ IF Buffered[1][1] = "unknown" THEN SendHost("nack") ELSE UNCHANGED <<toHost, ctlFailed>>

Control == ControlQuiet \/ ControlClosed \/ ControlPartial \/ ControlBad
           \/ ControlTerminate \/ ControlMessage

(* PTY -> stdout, where a failing send loses what was read (or discarded   *)
(* after a disconnect), and an interop-channel message that may fork a     *)
(* helper nobody waits for.                                                *)
Io ==
    /\ pc = "io"
    /\ pc' = "local"
    /\ IF "pty" \in ready /\ pty > 0
       THEN /\ \E n \in 1..pty : pty' = pty - n
            /\ \/ UNCHANGED outFailed
               \/ ~host_disconnected /\ outFailed' = TRUE
       ELSE UNCHANGED <<pty, outFailed>>
    /\ \/ UNCHANGED helpers
       \/ /\ ~host_disconnected /\ hostOpen /\ helpers < MaxHelpers
          /\ helpers' = helpers + 1
    /\ UNCHANGED <<ready, loopVars, mainVars, child, sigs, strayKill, pipe,
                   helperExits, fdVars, relays, hostVars>>

(* A process of the session connects to the interop socket and its         *)
(* CreateProcessUtilityVm is copied to the control channel with plain      *)
(* send() calls: on a full socket the copy stops part-way.                 *)
LocalInterop ==
    /\ pc = "local"
    /\ pc' = IF session_done THEN "finish" ELSE "poll"
    /\ \/ UNCHANGED <<relays, toHost, ctlFailed>>
       \/ /\ iListen /\ relays < MaxRelays
          /\ relays' = relays + 1
          /\ SendHost("relay")
    /\ UNCHANGED <<ready, loopVars, mainVars, procVars, fdVars, hostOpen, sent,
                   sock, cr, handled>>

-----------------------------------------------------------------------------
(*                          run_session: the way out                       *)

(* Slip: the shell is killed but not waited for. *)
Finish_NoWait ==
    /\ pc = "finish"
    /\ pc' = "close"
    /\ IF child_reaped THEN UNCHANGED <<sigs, strayKill>> ELSE Kill("KILL")
    /\ UNCHANGED <<ready, loopVars, mainVars, child, pipe, helpers, helperExits,
                   pty, outFailed, fdVars, relays, hostVars>>

Finish ==
    /\ pc = "finish"
    /\ IF child_reaped
       THEN pc' = "close" /\ UNCHANGED <<sigs, strayKill>>
       ELSE pc' = "waitpid" /\ Kill("KILL")
    /\ UNCHANGED <<ready, loopVars, mainVars, child, pipe, helpers, helperExits,
                   pty, outFailed, fdVars, relays, hostVars>>

(* The blocking waitpid. *)
WaitPid ==
    /\ pc = "waitpid"
    /\ child \in {"zombie", "reaped"}
    /\ child' = "reaped" /\ child_reaped' = TRUE
    /\ pc' = "close"
    /\ UNCHANGED <<ready, host_disconnected, sighup_sent, sigkill_sent, session_done,
                   clock, mainVars, sigs, strayKill, pipe, helpers, helperExits, pty,
                   outFailed, fdVars, relays, hostVars>>

Close ==
    /\ pc = "close"
    /\ pipe' = "none"
    /\ iListen' = FALSE
    /\ listeners' = IF iListen THEN listeners - 1 ELSE listeners
    /\ BackToMain
    /\ UNCHANGED <<ready, loopVars, mainVars, child, sigs, strayKill, helpers,
                   helperExits, pty, outFailed, relays, hostVars>>

-----------------------------------------------------------------------------
(*                              The environment                            *)

envUnchanged == UNCHANGED <<pc, ready, fdVars, relays>>

(* sigchld_handler: installed while the self-pipe exists. *)
SigChld == pipe' = IF pipe = "none" THEN "none" ELSE "byte"

ChildOutput ==
    /\ child = "running" /\ InSession /\ pty < MaxOut
    /\ pty' = pty + 1
    /\ envUnchanged
    /\ UNCHANGED <<loopVars, mainVars, child, sigs, strayKill, pipe, helpers,
                   helperExits, outFailed, hostVars>>

ChildExit ==
    /\ child = "running"
    /\ child' = "zombie"
    /\ SigChld
    /\ envUnchanged
    /\ UNCHANGED <<loopVars, mainVars, sigs, strayKill, helpers, helperExits, pty,
                   outFailed, hostVars>>

(* What SIGKILL leaves a process to do. *)
ChildKilled == "KILL" \in sigs /\ ChildExit

HelperExit ==
    /\ InSession /\ helperExits < helpers
    /\ helperExits' = helperExits + 1
    /\ SigChld
    /\ envUnchanged
    /\ UNCHANGED <<loopVars, mainVars, child, sigs, strayKill, helpers, pty, outFailed, hostVars>>

(* The host's writes reach the socket in order, a header and then a body. *)
MidMessage == sent # <<>> /\ sent[Len(sent)][2] = "head"

HostSend(k) ==
    /\ InSession /\ hostOpen
    /\ Msgs(sent) < MaxMsgs
    /\ ~MidMessage
    /\ sent' = Append(sent, Head1(k))
    /\ sock' = Append(sock, Head1(k))
    /\ envUnchanged
    /\ UNCHANGED <<loopVars, mainVars, procVars, hostOpen, cr, handled, toHost, ctlFailed>>

HostSendBody ==
    /\ InSession /\ hostOpen
    /\ MidMessage
    /\ sent' = Append(sent, Body(sent[Len(sent)][1]))
    /\ sock' = Append(sock, Body(sent[Len(sent)][1]))
    /\ envUnchanged
    /\ UNCHANGED <<loopVars, mainVars, procVars, hostOpen, cr, handled, toHost, ctlFailed>>

HostClose ==
    /\ InSession /\ hostOpen
    /\ hostOpen' = FALSE
    /\ envUnchanged
    /\ UNCHANGED <<loopVars, mainVars, procVars, sent, sock, cr, handled, toHost, ctlFailed>>

Deadline ==
    /\ clock = "armed"
    /\ clock' = "expired"
    /\ envUnchanged
    /\ UNCHANGED <<host_disconnected, child_reaped, sighup_sent, sigkill_sent,
                   session_done, mainVars, procVars, hostVars>>

(* terminate_handler *)
SigTerm ==
    /\ ~g_terminate /\ pc # "exited"
    /\ g_terminate' = TRUE
    /\ envUnchanged
    /\ UNCHANGED <<loopVars, sessions, started, pollErr, procVars, hostVars>>

-----------------------------------------------------------------------------

Setup == \/ Accept \/ AcceptFail
         \/ \E l, p \in BOOLEAN : StartSession(l, p)
         \/ Fork \/ ForkFail \/ EarlyExit \/ Abort \/ EnterLoop

(* The steps of the loop and of the way out: run_session always has one to *)
(* take, except in the blocking waitpid.                                   *)
Loop == PollReturn \/ Escalate \/ DrainPipe \/ WaitChild \/ Control \/ Io
        \/ LocalInterop \/ Finish \/ WaitPid \/ Close

Env == \/ ChildOutput \/ ChildExit \/ HelperExit
       \/ \E k \in Kinds : HostSend(k)
       \/ HostSendBody \/ HostClose \/ Deadline \/ SigTerm

Next == Setup \/ Loop \/ PollFail \/ Env

(* The calls without a time limit: read_full of the first message, which   *)
(* goes on after a signal, and send() on stdout, which is never made       *)
(* non-blocking.  Both wait for a host that is connected.                  *)
Blocked ==
    \/ pc = "first"
    \/ /\ hostOpen /\ ~host_disconnected /\ pty > 0
       /\ (pc = "io" /\ "pty" \in ready) \/ (pc = "wait" /\ child = "zombie")

(* The bridge is a process the kernel schedules: it keeps taking the steps *)
(* of its loop, poll() returns at the latest on its timeout, accept_with_  *)
(* poll after a minute, send_all on the control channel after five         *)
(* seconds.  Time passes, and SIGKILL ends a process.  Nothing is assumed  *)
(* of the host, of the shell or of the helpers.                            *)
Fairness ==
    /\ WF_vars(~Blocked /\ Setup)
    /\ WF_vars(~Blocked /\ Loop)
    /\ WF_vars(Deadline)
    /\ WF_vars(ChildKilled)

Spec == Init /\ [][Next]_vars
FairSpec == Spec /\ Fairness

-----------------------------------------------------------------------------
(*                          The abstract session server                    *)

Phase == IF pc = "exited" THEN "stopped" ELSE IF pc \in {"accept", "first"} THEN "idle" ELSE "live"
Shell == CASE child = "none" -> "none"
           [] child = "running" -> "alive"
           [] child = "zombie" -> "dead"
           [] child = "reaped" -> "gone"
Reports == Cardinality({i \in DOMAIN toHost : toHost[i] = "exit"})

Service == INSTANCE SessionService
           WITH phase <- Phase, shell <- Shell, reports <- Reports

(* The bridge implements the abstract session server: one shell at a time, *)
(* collected before its session is over, reported at most once and only    *)
(* when it has been collected.                                             *)
ImplementsService == Service!Spec

-----------------------------------------------------------------------------
(*                                Properties                               *)

FlagTypes ==
    /\ pc \in PCs
    /\ started \in BOOLEAN /\ g_terminate \in BOOLEAN /\ pollErr \in BOOLEAN
    /\ host_disconnected \in BOOLEAN /\ child_reaped \in BOOLEAN
    /\ sighup_sent \in BOOLEAN /\ sigkill_sent \in BOOLEAN
    /\ session_done \in BOOLEAN /\ strayKill \in BOOLEAN
    /\ iListen \in BOOLEAN /\ hostOpen \in BOOLEAN

StateTypes ==
    /\ ready \subseteq {"control", "pty", "sigchld"}
    /\ clock \in {"off", "armed", "expired"}
    /\ child \in {"none", "running", "zombie", "reaped"}
    /\ sigs \subseteq {"HUP", "KILL"}
    /\ pipe \in {"none", "empty", "byte"}

FailTypes == ctlFailed \in BOOLEAN /\ outFailed \in BOOLEAN

CountTypes ==
    /\ sessions \in 0..MaxSessions /\ (pc = "first" => sessions < MaxSessions)
    /\ helpers \in 0..MaxHelpers /\ helperExits \in 0..helpers
    /\ relays \in 0..MaxRelays /\ pty \in 0..MaxOut
    /\ listeners \in Nat /\ (iListen => listeners > 0)

StreamTypes ==
    /\ sent \in Seq(Units) /\ sock \in Seq(Units) /\ handled \in Seq(Units)
    /\ cr \in Seq(Units) /\ Len(cr) <= CrCap
    /\ toHost \in Seq(Answers)

(* The values the session's state ranges over; control_reader.buf is never *)
(* overrun, and no listener is closed twice.                               *)
TypeOK == FlagTypes /\ FailTypes /\ StateTypes /\ CountTypes /\ StreamTypes

(* kill() is never called with the shell's pid after waitpid has collected *)
(* it (the kernel may have given the number to another process by then),   *)
(* whichever of the three waitpid calls of the loop collected it.          *)
NoStrayKill == ~strayKill

(* run_session never returns leaving its shell alive or a zombie, on any   *)
(* way out: early exit, fork failure, poll error, SIGTERM, disconnect.     *)
ReapedOnReturn == ~InSession => child \in {"none", "reaped"}

(* The host hears of the shell's end at most once, only once the shell has *)
(* been collected, and it is the last message of the session.              *)
ExitStatusOnce ==
    \A i \in DOMAIN toHost :
        toHost[i] = "exit" => i = Len(toHost) /\ child = "reaped"

(* A shell that ran is reported to the host unless the host left or asked  *)
(* for the end, the bridge was told to terminate, poll() failed, or a send *)
(* on the control channel did, which no caller of send_all looks at.       *)
NoSilentEnd ==
    (~InSession /\ child = "reaped" /\ ~ctlFailed /\ ~host_disconnected
        /\ ~g_terminate /\ ~pollErr)
    => toHost # <<>> /\ toHost[Len(toHost)] = "exit"

(* Once the poll loop was entered, the exit status follows everything the  *)
(* shell wrote: nothing is left in the PTY when it is sent, unless a send  *)
(* on stdout failed, after which the drain is given up and the exit status *)
(* goes out all the same.                                                  *)
OutputBeforeExitStatus ==
    (started /\ ~outFailed /\ toHost # <<>> /\ toHost[Len(toHost)] = "exit") => pty = 0

(* The buffered reader neither loses, repeats nor reorders a byte of the   *)
(* control stream, however reads and messages are cut.                     *)
ControlStreamIntact == handled \o cr \o sock = sent

(* Unless the bridge itself is being stopped, the shell gets SIGKILL only  *)
(* after SIGHUP and after its five seconds.                                *)
HangupBeforeKill ==
    ("KILL" \in sigs /\ ~g_terminate /\ ~pollErr)
    => "HUP" \in sigs /\ clock = "expired"

(* With the self-pipe in place, a session whose shell has exited, whose    *)
(* host has gone away or asked for its end is over eventually: no SIGCHLD  *)
(* is lost between the pipe, the interop helpers' exits and waitpid.  Only *)
(* a host that stays connected and never reads stdout can prevent it.      *)
SessionEnds ==
    (InSession /\ pipe # "none"
        /\ (child = "zombie" \/ host_disconnected \/ ~hostOpen)) ~> (~InSession \/ []Blocked)

(* A SIGTERM ends the bridge wherever it is, except in the two calls that  *)
(* wait for the host for ever.                                             *)
TerminateStops == g_terminate ~> (pc = "exited" \/ []Blocked)

(* A TerminateInstance that has reached the guest ends the session.  (It   *)
(* does not: see the README.)                                              *)
TerminateHonoured ==
    (InSession /\ \E i \in DOMAIN cr : cr[i] = Body("term"))
        ~> (host_disconnected \/ ~InSession)

=============================================================================
