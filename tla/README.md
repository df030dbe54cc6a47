# A TLA+ model of WSL-For-FreeBSD

WSL-For-FreeBSD lets a FreeBSD guest take the part of a WSL distribution: the
Windows host talks to it over Hyper-V sockets in WSL's own message protocol.
The repository holds two families of programs that speak this protocol: the
FreeBSD guest under `src/FreeBSD`, and WSL's own guest side under
`src/src/linux`, which the FreeBSD programs were written after. This directory
models both, checks them with TLC on small instances, and proves what matters
most with TLAPS.

`PROJECT.json` holds the machine-readable side: components, runs, mutants, the
map from definitions to source lines, findings, hazards and theorems.

## 1. The system and its parts

The FreeBSD guest (`src/FreeBSD`):

| part | source | state | operations | talks to |
|---|---|---|---|---|
| session server | `hvbridge.c` | shell pid and its flags (`host_disconnected`, `child_reaped`, `sighup_sent`, `sigkill_sent`, deadline), SIGCHLD self-pipe, `control_reader` | accept, fork the shell, one poll loop, shutdown | host (7 sockets per session), shell (PTY), interop helpers |
| DNS tunnel | `dns_tunneling.h` | `udp_map[64]`, `tcp_conns[32]`, two id counters | poll pass: datagrams, accepts, channel, connections; expiry | guest programs, host (channel) |
| GNS engine | `gns_engine.h` | addresses, routes, filters, port mappings, resolv.conf; relay processes | one handler per request, port scan when idle | host, port tracker, hvinit (resolv.conf) |
| port tracker | `port_tracker.h` | last snapshot of listening ports | scan two kernel tables, merge walk, relay start/stop | kernel, host (GNS channel) |
| init | `hvinit.c` | `g_gns_pid`, `g_plan9`, `g_mounted_fs[16]`, self-pipe, three host sockets | boot, handshake, event loop, TerminateInstance | host, GNS engine, Plan9 server, kernel mounts |
| Plan9 server | `plan9_server.h` | child pid, port, readiness pipe; fid table of the built-in server | start, serve, stop | init, host |
| DrvFs | `drvfs_mount.h` | none of its own | mount volumes | init |
| interop | `interop_server.h`, `wsl_interop.h`, `wsl-interop.c` | interop reader, Unix socket | answer queries, fork helpers, relay requests | host, guest programs |
| terminal | `terminal_notify.h` | window size, font, OSC 11 sniffer | detect and report changes | session server |
| configuration | `config_parser.h`, `wsl_conf_parser.h`, `network_config.h`, `timezone_handler.h`, `binfmt_handler.h` | parsed strings | parse, write files | init |
| tools | `wslpath.c`, `wslinfo.c`, `logger.h`, rc script `wsl_init` | – | convert, print, log, start and stop | user, rc |

The virtual machine of WSL (`src/src/linux`):

| part | source | state | operations | talks to |
|---|---|---|---|---|
| mini init | `init/main.cpp` | children, mounts, disks, VM configuration, signalfd | boot, one handler or child per message, reap, kill all, detach, power off | service |
| memory reclaim | `init/main.cpp` | ring of CPU readings, idle flag | every 30 s: read, reclaim, compact | kernel |
| distribution init | `init/init.cpp`, `config.cpp`, `util.cpp` | boot state, login sessions, SIGCHLD disposition | message loop, interop thread | service, systemd, processes |
| process relay | `init/init.cpp` | pending input, descriptors to poll, child | one poll loop per process | service, the process |
| DrvFs | `init/config.cpp`, `drvfs.cpp` | two mount namespaces | mount, remount the other side | distribution init, users |
| Plan 9 server | `plan9/*.cpp`, `init/plan9.cpp` | fid table, request list, coroutines, epoll state | accept, handlers, flush, stop | clients in Windows |
| Plan 9 scheduler | `plan9/p9scheduler.cpp`, `p9lx.cpp` | queue, two flags, thread pool | schedule, claim, block, unblock | Plan 9 server |
| port reservation | `init/GnsPortTracker.cpp`, `SecCompDispatcher.cpp` | tracked ports with time-outs, promise, queues | three threads | seccomp, host |
| localhost relay | `init/localhost.cpp` | relays told to the host; one buffer per connection | scan, copy | host, servers |
| DNS server | `init/DnsServer.cpp`, `DnsTunneling*.cpp` | requests and connections by identifier | two threads | guest programs, host |
| Windows programs | `init/binfmt.cpp` | descriptors, terminal mode, exit code | connect, relay, wait | interop server, user |

`src/FreeBSD/test` holds mock hosts and a TCP build for Linux.

What is hard about it: on the FreeBSD side every program is a single-threaded
poll loop that shares the world with processes it forks, a host that sends,
closes and restarts when it likes, and the kernel that delivers SIGCHLD and
reuses pids. On the Linux side there are threads and coroutines as well: the
Plan 9 server resumes them on a pool of threads, the port tracker passes
results between three. The interesting behaviours are the orders in which
deaths, signals, timeouts and messages meet. The list of hazards in
`PROJECT.json` names each place; the properties below were chosen for them.

What makes each part correct:

* **session server** – one shell per session, reaped on every way out, not
  signalled after that, reported once and after its output; a grace period
  between SIGHUP and SIGKILL; no byte of the control stream lost; sessions end.
  A send that fails may cost the report or the output, and nothing else.
* **DNS tunnel, DNS server** – an answer reaches the client that asked or
  nobody, at most once; a slot reused in the middle of a pass is not confused
  with its previous owner; slots come back; TCP requests are put together whole.
* **GNS engine and port tracker** – every request is answered once and in order;
  the host's relays follow the snapshots exactly, and agree with the guest's
  ports once these stop changing; requests and scans do not starve each other.
* **init** – no child's death goes unnoticed; stopping a child always returns;
  TerminateInstance leaves neither servers nor mounts behind.
* **Plan 9 server** – fids belong to one request at a time, no reader sleeps
  while data waits, nothing outlives its connection, requests and the stop
  command complete; its scheduler resumes one coroutine at a time, in order.
* **mini init, distribution init** – every request settles whatever fails, every
  exit is told, power-off finds no process and no mounted disk unless killing or
  unmounting failed; logins are answered although two threads fight over SIGCHLD.
* **relays** – bytes keep their order, output is read while input waits, the
  exit status waits for the output, the relay ends with what it relays.

## 2. Modules

```
SessionService            abstract session server
BridgeSession             hvbridge.c; implements SessionService
  BridgeSessionProofs     theorems
  MCBridgeSession         runs bridge_safety, bridge_live, bridge_terminate
DnsTunnel                 dns_tunneling.h
  DnsTunnelProofs         theorems
  MCDnsTunnel             run dns_safety
PortTracker               port_tracker.h
GnsEngine                 gns_engine.h; extends PortTracker (one process, one channel)
  GnsEngineProofs         theorems about both
  MCGnsEngine             run gns
InitLifecycle             hvinit.c with plan9_server.h, drvfs_mount.h, relay fork
  InitLifecycleProofs     theorems
  MCInitLifecycle         runs init, init_port
P9Executor                what the coroutine scheduler promises
P9Scheduler               p9scheduler.cpp, p9lx.cpp; implements P9Executor
  P9SchedulerProofs       theorems
P9Server                  p9handler.cpp, p9file.cpp, p9io.cpp, plan9.cpp; extends P9Executor
  P9ServerProofs          theorem
  MCP9Server              runs p9, p9_flush
Plan9Stub                 the built-in server of plan9_server.h
MiniInit                  main.cpp
MemoryReclaim             main.cpp, the reclaim thread
DistroInit                init.cpp, config.cpp, util.cpp
ProcessRelay              init.cpp, InitCreateProcessUtilityVm
DrvFs                     config.cpp, drvfs.cpp
PortReservation           GnsPortTracker.cpp, SecCompDispatcher.cpp, SocketChannel.h
LocalhostRelay            localhost.cpp
DnsServer                 DnsServer.cpp, DnsTunnelingChannel.cpp, DnsTunnelingManager.cpp
InteropClient             binfmt.cpp
  MCEndings               DnsTunnel + InteropClient: run endings
  MCGuestServices         DrvFs + Plan9Stub + MemoryReclaim + LocalhostRelay + DnsServer: run services
  MCVirtualMachine        P9Scheduler + ProcessRelay + MiniInit + DistroInit + PortReservation: run vm
  GuestServicesProofs     theorems about the five parts of MCGuestServices
  VirtualMachineProofs    theorems about PortReservation, ProcessRelay, MiniInit, InteropClient
```

`MCEndings`, `MCGuestServices` and `MCVirtualMachine` put parts that share no
state in one graph: a variable `part` is chosen at the start and only that
part's actions are taken, with that part's fairness. Nothing is multiplied, and
each part behaves as it does alone. Parts that do share state are composed for
real: `GnsEngine` extends `PortTracker` and has hvinit as the second writer of
resolv.conf; `InitLifecycle` holds hvinit with the processes it starts;
`P9Server` runs on `P9Executor`, which `P9Scheduler` is shown to implement.

A definition `X_Y` before `X`, with a comment that begins "Slip", is a plausible
mistake in `X`; the mutants of `PROJECT.json` put it in the place of `X`, and the
property named there must then fail.

### BridgeSession

`pc` is the place in `main`/`run_session`; its values are the points between
which other actors can step in. `poll()` records what is ready (`PollReturn`),
and the rest of the turn works from that record while the world moves on, as
the code works from `revents`. The order within a turn is the code's: escalation
(`Escalate`), self-pipe (`DrainPipe`, `WaitChild`), control channel (`Control…`),
PTY and interop channel (`Io`), local interop socket (`LocalInterop`).

The control channel is a byte stream. A message is two units, header and body,
so a read can end inside a message or span several; `RecvLen`, `TryRead` and
`Consume` are `control_try_read` and `control_consume` on units. Message kinds
are those the `switch` tells apart as far as this state is concerned; "bad" has
a `MessageSize` out of range. A message longer than the buffer is "bad" too,
which is why `CrCap` is at least 2.

The shell's exit, a helper's exit, host writes, the host's close, the passing
of the deadline and SIGTERM are environment actions that can happen between any
two steps of the bridge. A SIGCHLD is a byte in `pipe` (writes beyond the first
make no difference to a reader that drains it).

A send on the control channel gives up after five seconds, perhaps in the middle
of a message, and no caller looks at the result (`SendHost`, recorded in
`ctlFailed`); a send on stdout that fails loses what was read from the PTY and
ends the drain before the exit status (`DrainPty`, `outFailed`). The first
message is awaited in a state of its own, `pc = "first"`: `read_full` has no time
limit and goes on after a signal.

Left out: window-size tracking, stdin copying and the echo channel, which do not
touch this state.

`SessionService` says what the bridge promises at one remove: sessions one at a
time, a shell collected before its session is over, one report at most and not
before the shell was collected. The refinement mapping is `Phase`, `Shell`,
`Reports` in `BridgeSession`.

### DnsTunnel

The two tables, the two id counters, the sockets' queues and the channel in both
directions. One pass of the loop visits UDP socket, listener, channel and then
the connections that were in `conn_map` when `poll()` was called, in that order
(`Follow`, `NextStage`); `EventForItsConnection` is about what happens to that
record within the pass. Clients, their queries and their disconnection, and the
host with its answers (any id it was ever sent, any number of times, in any
order) are the environment. Ids are counted modulo `IdMod`, 2^32 in the code.
A DNS frame over TCP arrives whole; a send to the channel that fails half-way
sets `torn`, after which the host may understand anything.

### PortTracker and GnsEngine

A port is its rank in the order of `port_entry_cmp`, a sorted array without
duplicates is a set, and the cursors `i` and `j` are the sets of entries still
ahead. The two kernel tables are read in two steps with program activity in
between; a table may be unreadable (`continue` in the code) and any send may
fail. `lost` records for which ports a message was lost: the tracker does not
retry, so nothing can be said of those. `torn` is set when a message was cut short
in the channel, by the tracker or by an answer of the engine: the sockets are
non-blocking, a send that waited five seconds leaves the part it wrote behind, and
what the host makes of the bytes that follow is unknown. A send to a host that
has closed is SIGPIPE, which nothing ignores, and ends the engine (`SigPipe`,
`HostGone`).

`GnsEngine` adds the loop around it. A request is its type and what its text
says as far as a handler branches on it; each handler is an operator from the
request and the guest's configuration `net` to the new configuration and the
answer owed, and a shell command in it may fail and leave its part undone. The
engine reads a request in two parts (it may stop arriving, and after five
seconds the engine ends), runs the handler, and answers; a command that never
returns leaves it in the stage `hung`, since `system()` has no limit. The DNS
handler has resolv.conf open in between, and a write of it that fails leaves it
short without anyone noticing. Meanwhile hvinit writes a temporary file and
renames it over the same name. When the channel is quiet for a second the loop
scans the ports, so `PortTracker`'s scan starts only from the idle loop.

### InitLifecycle

The kernel's process table is part of the state (`kind`, `st`): a pid is free
again after its parent waited for it and can then go to any process. Each system
call that blocks is a step, so children die and pids are reused between any two
of them. `handler` is false until `signal()` was called, and stays false if the
self-pipe cannot be made. Handlers of the event loop that start no process and
mount nothing are one action (`HandleOther`), since they leave this state alone.
`mounted` counts file systems per mount point; `unswept` remembers those that
`fs_unmount_all` cannot be blamed for (table full, unmount failed, virtiofs).
SIGTERM has its default effect on hvinit and is taken in `poll()`; so has SIGPIPE,
when an answer goes to a host that has closed the channel (`SigPipe`).
TerminateInstance is answered before anything is stopped, so hvinit can die there
with servers and mounts in place; `why` tells this end from the others. A mount
point longer than 63 bytes is recorded cut and is then one of those whose unmount
fails.

### P9Executor, P9Scheduler, P9Server

`P9Executor` is a queue of coroutines, the one that is being resumed and those
in blocking code. `P9Scheduler` adds what implements it: `m_Running`,
`m_ThreadEnqueued`, and a pool in which a thread starts, waits, takes the work
item and claims the queue. Its `ExecSpec` is that of `P9Executor`, with the same
variables, and `vm` checks the refinement.

`P9Server` is written on the abstract executor. Each request is a coroutine;
`st[m].pc` is the point where another thread can see what it did. The handlers
look a fid up under `m_FidsLock`, work on the file outside of it, and enter or
erase fids under it again; `objs` holds the file objects fids refer to. The
epoll dispatcher is edge-triggered: `edgeIn` and `edgeOut` are events the kernel
has not delivered, `inOp` and `outOp` operations that wait. The answer is sent
under `m_SocketLock`, which hands itself to the next in line; a full socket
suspends the sender. `Run` waits for permits and, on the way out, for all
requests to leave the list. `ctl` is the stop command. An outcome is "ok", "err"
(nothing was made or unmade, which includes the answers of Twopen that make no
fid: not found, stopped) or "failed": a Tclunk erases the fid first and then sets
the attribute a Txattrcreate began, which may fail.

### MiniInit

One message at a time, one action per step another process can see: the loop
(`Loop`), the steps of the child that carries a request out (`ChildSteps`), the
death of children, and the end (`ErrorExit`). Any call may fail, `MaxFaults`
times; which call it is decides where the handler goes. `ans` is what the
service got for a request, `open` the guest's socket ends: a request is settled
when it is answered, when its socket closed, or when its distribution runs.
SIGCHLD is one bit of a signalfd, as in the kernel; a notice of an exit that
cannot be written is lost (`notified`). The way out has failures of its own: the
killing of the processes is given up by an exception (`KillThrows`, `unkilled`),
a failing umount is only logged, and an exception ends the detaching for all
disks that are left (`PowerOff`); `torn` holds the disks this, or an eject,
left mounted.

### DistroInit, ProcessRelay, InteropClient

`DistroInit` has two threads with one SIGCHLD disposition, `diSig`; a wait with
SIGCHLD ignored returns nothing, a child that ends with the default set becomes
a zombie until it is waited for. A message with a wrong sequence number makes the
interop thread's receive throw, which ends the thread and its server for good
(`InteropThrows`); a message that is short or of a wrong size does not, because
`RecvMessage` (`socketshared.h:91`) treats it as a closed connection. An answer to
a client that has gone throws out of a `scope_exit` and terminates init.
`ProcessRelay` and `InteropClient` are poll loops: `poll()` records what is ready
and the turn serves it in the order of the code. Input and output are counted in
buffers, pipes and sockets have room for so many, and who reads what and when is
the environment's choice. A pipe takes a buffer of input whole or not at all; the
master of a terminal is non-blocking and may take a part, and the rest is dropped
because only a negative count is looked for (`cut`).

### DrvFs, Plan9Stub, MemoryReclaim, LocalhostRelay, DnsServer, PortReservation

`DrvFs` keeps the drive mounts of both mount namespaces, with the side whose
server each one uses, and whether automount is configured; unmounting a drive and
the return to the first namespace may fail, which the code only logs. `Plan9Stub`
has the fid table, the descriptors and the files; its child ends when `accept`
fails and `g_plan9` does not learn of it. `MemoryReclaim` has the ring of CPU
readings with the memory seen in each cycle (the uninitialised `ReclaimIdling` is
either value). `LocalhostRelay` has the scanner's and a worker's state; a socket
table that cannot be read ends the scan, and a failing `accept` the listener.
`DnsServer` has the two request tables, the byte stream of each connection and the
two threads. `PortReservation` has three threads with the queues and the promise
between them, the time-outs of tracked ports, and the mutex of the channel that
two of them use; the host may refuse to take a port back (`prKept`), and the
tracker then forgets the port all the same.

## 3. What the runs check

| run | instance | shows |
|---|---|---|
| `bridge_safety` | 2 sessions, 2 messages each, buffer of 3 units, 1 unit of output, 1 relay in the first session | `NoStrayKill`, `ReapedOnReturn`, `ExitStatusOnce`, `NoSilentEnd`, `OutputBeforeExitStatus`, `ControlStreamIntact`, `HangupBeforeKill`, and `ImplementsService` |
| `bridge_live` | 1 session, 1 message, 1 unit of output, 1 helper | `SessionEnds`, `TerminateStops` |
| `bridge_terminate` | 1 session, 2 messages, buffer of 4 | `TerminateHonoured` **fails** |
| `dns_safety` | 1 UDP and 1 TCP slot, 2 queries, 2 connections, 2 answers | `ReplyToAsker`, `NoRepeatedReply`, `EventForItsConnection` |
| `endings` | 2 UDP slots, 2 queries, 1 answer; 2 acts of the user, 1 chunk of output | `SlotReclaimed`; `NtSafe`, `ClientEnds` |
| `gns` | one of 4 kinds of request and any request after it with 1 port, 1 change, 1 NetworkInformation; or 2 IPv4 ports and 1 IPv6 port, 2 changes and a silent host; 1 failure | `GnsSafe`, `RelayMatchesSnapshot`, `GnsLive` |
| `init` | 2 pids, 1 base mount, 1 volume, table of 2, 2 requests, 1 foreign process, 1 failed unmount | `NoLostDeath`, `CleanStop`, `StopReturns` |
| `init_port` | as `init` | `PortMeansServer` **fails** |
| `p9` | every request alone and 6 groups of requests that meet on a fid, a file or the permits; 2 permits, 1 full socket, 1 hang-up, stop or failed accept | `P9Safe`, `P9Live` |
| `p9_flush` | a tag used twice and flushed | `FlushAfterReal` **fails** |
| `services` | one part per behaviour | `DrvFsSafe`, `OtherSideKept` (DrvFs: 2 drives, all transports, at most 1 unreadable drive and 1 mount that cannot be undone per request); `StubSafe` (2 fids, table of 2, 3 descriptors); `ReclaimSafe` (window of 2, 4 cycles, idle, busy and in between); `LocalhostSafe` (3 sockets, 2 bytes each way, room for 1); `DnsServerSafe` (1 datagram, 2 connections, 2 frames of length 0 or 1) |
| `vm` | one part per behaviour | `SchedSafe`, `ExecSpec`, `QueueServed` (3 coroutines, 3 threads); `InputInOrder`, `RelayLive` (2 buffers in, 1 out, 5 cases of consoles and orphans); `MiniSafe`, `MiniLive` (7 scripts, 2 disks, 2 faults); `DistroServes` (2 processes of 1 user, 1 leader, 2 messages); `FreshBindKept`, `PortsServed` (2 binds of 1 port, 1 ioctl) |

The properties that are conjunctions, part by part:

* `CleanStop` – `NoChildOutlives`: after a TerminateInstance that hvinit survived
  neither server runs; `AllUnmounted`: every mount that was recorded and could be
  undone is. Both except an end by SIGTERM or SIGPIPE.
* `GnsSafe` – `OneAnswerEach`: every request is in the channel, in hand,
  answered once, or known to be unheard, and answers keep the order of requests;
  `ResolvWhole`: resolv.conf is whole unless the engine has it open or a write of
  it failed.
* `GnsLive` – `Converges`: relays agree with ports in the end, unless a message
  about the port was lost or any was cut short; `RequestsAnswered`. Both except an
  engine that hangs in a command.
* `P9Safe` – `FidAccount`: fids made minus fids unmade, by clunks that failed too,
  are the fids there are;
  `OneSender`: one answer at most is past the socket lock; `EndedIsDrained`:
  no request runs when its handler is destroyed; `FlushAfterTaken`: Rflush
  follows the answer of the request it took; `CreatedIsNew`; `ReaderWoken`: no
  wakeup is lost between `recv` and `Register`.
* `P9Live` – requests end unless the client stops reading, and stop completes.
* `SchedSafe` – a queue that is not empty has a thread that owns it or was
  kicked, a kick has a thread that will take it, and no coroutine has two
  continuations. `QueueServed`: what is queued is resumed.
* `MiniSafe` – `CleanPowerOff` (no process, orphans included, unless the killing
  was given up, and no mounted disk but one whose own unmounting failed or that
  was ejected), `DoneWasPrepared`, `ExitTold` (a reaped child was reported, or the
  report could not be written). `MiniLive` – `RequestsSettle`, `ExitNotified`
  (every child that dies is reaped and reported in the end).
* `DistroServes` – `LoginsInOrder`, `LoginsAnswered` (by an answer, or by the end
  of the server), `MessagesHandled`.
* `InputInOrder` – `ReadInOrder`, and `PipesTakeWhole`: only a terminal tears a
  buffer. `RelayLive` – `OutputTaken`, `RelayEnds`. `PortsServed` –
  `CallsAnswered`, `PortsReleased` (but for ports the host refused to take back).
* `DrvFsSafe` – `RemountComplete`: the side has every drive it was told to mount
  and can read; with automount off, every one of them that the other side had. `StubSafe` – `DescriptorsOwned`, `WalkTruthful`. `ReclaimSafe` –
  `ReclaimOnlyIdle` (the last cycle below 0.5 %, the window at most one cycle's
  share above it), `NoThrashing`. `LocalhostSafe` – `HostFollowsScan`,
  `BytesInOrder`. `DnsServerSafe` – `ResponseToAsker`, `FramesWhole`.
* `NtSafe` – `OutputFlushed`, `CodeTruthful`, `ConsoleRestored`, `StdinShut`.

`NtSafe`, `P9Safe` and the other conjunctions named `…Safe` include the type
invariant of their module where TLC's run is the only check of it.

Why the bounds are enough. A buffer of three units is the smallest that holds a
whole message and part of the next, and two messages of two units overflow it:
reads end before, inside and after a message. Two sessions show what one leaves
to the next. One slot for two clients makes every second client a reuse; two
connections and one slot reuse a slot within a pass. In `gns` the walk meets
empty, equal and differing heads and both ends, a change can fall between the
two tables, and any request meets a configuration, a resolv.conf or a channel
that a first one has changed or torn. Two pids are enough for a pid to be reused by a foreign process or by
another child; a mount table of two overflows after a remount. Two permits and
three requests make one wait; the pairs of `p9` are those whose handlers touch
the same entry. Three coroutines allow one owner, one in blocking code and one
queued. Two faults reach the error path of an error path in mini init. Two binds
of one port are what tells a fresh reservation from one used again. A window of
two cycles wraps around within four; two bytes and room for one make every
second write partial.

Deadlock is not checked: the programs end (host gone, SIGTERM, bounds of the
environment used up), and liveness is asked for with properties.

Fairness. The programs are processes and threads the kernel schedules and their
`poll()` returns on its timeout, so the steps of a loop are weakly fair; so are
the passing of a deadline and the death of a process that was sent SIGKILL (in
`InitLifecycle` also SIGTERM: neither the GNS engine nor the Plan9 server
catches it). Nothing is assumed of the shell, the helpers, the user, or the
guest's programs. Some calls of the code wait without a time limit. In
`BridgeSession` and `GnsEngine` they are left to wait, and the properties say so:
`Blocked` is `read_full` of the first message (`hvbridge.c:364`) and the blocking
send on stdout, and no fairness is assumed of a step in it; a command of the GNS
engine may hang (`gns_engine.h:534`). Elsewhere the wait is assumed to end:

* the host answers a port reservation (`PortReservation`: the tracker blocks until
  it does) and acknowledges the exit status (`ProcessRelay`: the relay reads until
  it does);
* a guest program that connected to the relay's interop socket sends its message
  or closes;
* the service reads what the relay of a process writes to it
  (`UtilWriteBuffer` at `init.cpp:1864`, `1924`, `1928`), and the user's stdout
  takes what a Windows program prints (`binfmt.cpp:264`);
* in `DistroInit`, the Plan 9 server answers its stop request (`init.cpp:3094`),
  a `systemctl` that was started ends (`util.cpp:754`), and so does the mount
  process that is waited for (`util.cpp:698`).

`SlotReclaimed` depends on the tunnel being idle for a second now and then, and
`Converges` on the GNS channel being idle: both loops do their periodic work
only on a `poll()` timeout, and a host or client that keeps them busy for ever
would keep them from it. In the models the finite number of queries and messages
provides the idle time, so a host that is never silent is outside what these two
show. `P9Live` excepts a client that does not read.

## 4. What the failing runs found

1. **`bridge_terminate`** – the loop reads once per `POLLIN` and dispatches one
   message (`hvbridge.c:929`). A TerminateInstance that arrives together with an
   earlier message stays in `control_reader.buf`; the socket is not readable any
   more, so nothing happens until the host sends again or closes. The comment at
   `hvbridge.c:971` promises a forced termination.
2. **`init_port`** – `plan9_server.h:222` says 0 is returned on failure; a child
   that dies in `l9p_backend_fs_init` closes the readiness pipe just as a ready
   one does (line 285), and the host is told port 50001.
3. **`p9_flush`** – `p9handler.cpp:1150` says Rflush follows the answer to the
   real request. `HandleFlush` takes the first request with the tag; a request
   leaves the list only when its coroutine is destroyed, some time after its
   answer was sent, so a tag that the client uses again is there twice and the
   flush waits for the wrong one.

### Comments of the code that do not hold

Stated in the modules next to the properties, refuted while they were written,
and not part of any run:

| definition | the comment | what the code does |
|---|---|---|
| `DnsTunnel!FullTableRecycled` | `dns_tunneling.h:216`: a full table recycles its oldest entry | returns NULL (line 229), the query is dropped |
| `InitLifecycle!PidNamesServer` | `plan9_server.h:105`: `child_pid` is -1 if not running | `reap_children` collects the server and leaves the pid, which may be reused |
| `InteropClient!ClosedEnds` | `binfmt.cpp:378`: a closed control channel closes stdin | an end without a status skips the rest of the turn (`continue`), and the next poll waits for the user |
| `PortReservation!EveryBindKept` | letting a bind through also updates the port's time-out | `emplace` leaves an entry that exists as it is |
| `PortReservation!ChannelExclusive` | no other thread uses the channel | dispatcher and tracker do; the second to use it throws, which ends the tracker |
| `DistroInit!SigchldIgnored` | SIGCHLD is ignored, so children need no waiting | one thread saves the default the other has set and puts it back last (`util.cpp:647`) |
| `DistroInit!LoginTruthful` | the list holds sessions that were created | the user is entered before login runs, so a user's second process is told it has a session although the first one failed |
| `DistroInit!DistroEndsWithInit` | the distribution ends when its init exits | one `waitpid` per SIGCHLD: when a session leader dies with it, the exit of the distribution's init may stay unseen |
| `DistroInit!ForceHonoured` | a forced TerminateInstance stops a server that is in use | `StopPlan9Server` assigns `Message.Force` to itself (`init.cpp:3092`): the flag is lost |
| `ProcessRelay!StatusReported`, `OutputDelivered` | the exit status is sent, after all data | the relay also ends when its terminal channel or its input does, and then sends neither |
| `Plan9Stub!FidNamesWalked`, `TempRootRemoved`, `NoForgottenDescriptor` | fids stand for what was walked; the root is removed; old descriptors are closed | fids stay in the table after their connection; the root stays when the start fails; a walk that fails half-way keeps its descriptor |
| `DrvFs!SidesApart`, `NoDoubleMount` | the other namespace is mounted again drive by drive | a user's mount made between the reading and the copy keeps the other side's server; a drive just mounted again may be mounted over |
| `MiniInit!DiskFailureContained` | `main.cpp:3528`: errors of a pmem request do not end mini init | when the child cannot be created the error is reported with `SendResultMessage` (line 3110), which throws if the service has closed the connection: the loop ends, and the virtual machine with it |
| `MemoryReclaim!ReclaimBelowHalfPercent` | `main.cpp:377`: reclaim needs utilization below 0.5 % in the last 30 seconds and the last n minutes | the reading of `ReclaimWindowLength` cycles ago is allowed the share of one cycle more (line 381); `ReclaimOnlyIdle` states what is left |
| `MemoryReclaim!CompactNeedsWork` | compaction needs CPU use since the last check | the reading is stored in a second variable `Stop` that hides the first, so the comparison is always with 0 |

Observed on the way, without a formula: the rc script says hvinit handles SIGTERM
by terminating its children (`wsl_init:90`), but it installs no handler; a
comment in `interop_server.h:568` says the host gets a helper's exit status
through the bridge, which waits only for the shell's pid; a session whose shell
dies before the loop leaks its interop listener and the PTY's content
(`hvbridge.c:703`); in `binfmt.cpp` a terminal whose descriptor could not be
duplicated stays raw, and the other mode reads its reply uninitialised when the
server closes; the offset of a DNS request over TCP is 16 bits wide
(`DnsServer.h:48`) while a request can be two bytes longer than it counts; a port
mapping that the host asks to remove is added once more (`gns_engine.h:1570`); a
TerminateInstance whose host does not wait for the answer may kill hvinit before
it stops anything (`hvinit.c:483`); input that a terminal does not take is dropped
(`init.cpp:1820`); a Twopen that makes a directory leaves its fid at the parent
(`p9handler.cpp:956`); one message with a wrong sequence number ends
the interop server of a distribution (`config.cpp:966`, `util.h:207`); a release
that the host refuses is not tried again (`GnsPortTracker.cpp:219`).

## 5. What is proved

For every value of the constants that satisfies the modules' assumptions.

**BridgeSession** (`BoundsAssumption`: natural numbers, buffer of at least two
units). None of the safety properties is inductive alone. The invariant `IInv` ties
the program counter to the shell (`ChildAt`): none before the fork, and from the
loop on `child_reaped` holds exactly when it was reaped; a shell reaped while the
turn still has steps to do was reaped by the escalation, so the host is gone and
`session_done` is set. `SignalsAt` adds what was sent to it: inside the loop KILL
means the host is gone and the deadline over, and the way out is reached with an
unreaped shell only after SIGTERM or a failed `poll()`. `ExitAt`: no exit status
goes out before the loop is left. From it come `TypeCorrect`, `StrayKillFree`,
`AlwaysReaped`, `GraceGiven`, `ExitReportedOnce` and, with facts on
concatenation and subsequences, `StreamIntact`. `Refinement` shows that initial
states map to initial states of `SessionService` and that every step maps to one
of its steps or to a stutter. Two properties look at how a session ends and need
more. `EndsReported` (`NoSilentEnd`): `EndAt` says that the blocking `waitpid` is
reached only after a termination request or a failed `poll()`, and that past the
loop a reaped shell without such a reason, and without a failed send, has been
reported as the last message. `OutputFirst` (`OutputBeforeExitStatus`): `OutputAt`
says that nothing was started on the ways that skip the loop, so a session that
reports did drain the PTY, unless a send on stdout failed. Both hold whichever
sends fail, and however much of a message was written then.

**DnsTunnel** (`TunnelAssumption`: fewer than `IdMod` queries and connections).
`Routing` gives `ReplyToAsker` and `NoRepeatedReply` (`RepliesOnce`). The invariant
`RouteInv` says that the ids handed out never exceed the datagrams and connections
taken (so the counters do not wrap), that each used entry's id was handed out for
that client, that used TCP entries have distinct ids, that what the host was sent
and answers carries ids handed out, and that an entry in use has not been answered.
`EventsStayWithConnections` needs only that the record of the pass is consumed
in order.

**PortTracker and GnsEngine** (`TrackerAssumption`, `GnsAssumption`: the requests
are ones the engine knows). `HostFollowsWalk` (with `WalkInv`: types, the cursors'
position, and the property itself) and the action property `RelaysNotRedundant`
are about the tracker alone, and say nothing once a message was cut short. `EngineAnswersEach` is about the engine with the
tracker in it and hvinit beside it: `GnsSafe`, and the walk's property again. The
inductive invariant `GnsInv` exists over a number `h`, how many requests the engine
has taken from the channel (`Given(h)`): those up to `h` have their answer or could
not be answered, but for the one in hand; those in the channel follow one by one.
`FilesAt` adds who may write resolv.conf.

**InitLifecycle** (`InitAssumption`: finite disjoint sets of mount points).
`IInv` has three parts. `ProcInv`: `g_gns_pid` and `child_pid` name the only engine
and the only server there can be, and which program counters allow one (`GnsAt`,
`P9At`). `DeathInv`: a death the self-pipe does not announce happened before the
handler was installed. `MountInv`: each mount point has exactly one mount for each
record still to be undone, counted over the part of the record the unmounting has
not reached (`MountAt`), unless it is one of those the sweep cannot know.
`DeathsNoticed` and `TerminateLeavesNothing` follow; the latter is about a
hvinit that was not killed, by SIGTERM or by SIGPIPE at the answer.

**VirtualMachineProofs.**
* `ReservationsKept` (`PrAssumption`: a bind is no ioctl). The tracker compares its
  table with a list of sockets made at an unknown time, so the invariant says what
  a list under way may contain (`ListAt`), what holds of a bind the kernel still
  works on (`BindAt`), of one whose answer is posted and not yet given (`ReplyAt`),
  and which messages are unanswered (`ChannelAt`); all of it about ports no bind of
  which was let through for being tracked already.
* `InputRelayedInOrder`: the order is that of reads and writes; to be added is that
  a reader of stdin can start only before anything was relayed (`ReaderAt`), and
  that a buffer is cut only where stdin is a terminal (`WholeStep`).
* `MiniInitSafe` (`MiniAssumption`: the scripts are sequences of mini init's
  messages). Requests still in the channel have left no trace (`InboxAt`,
  `FreshAt`), where a child is determines what it reported and mounted
  (`ChildAt`), a mount is of a disk that is attached or was ejected under it
  (`MountsAt`), and after the kill nothing is left that could start a process
  (`EndAt`), unless the killing was given up. The failing calls are steps like any
  other: their number is bounded by `MaxFaults`, which is any number.
* `InterpreterSafe` (`NtAssumption`). The loop ends when nothing is polled, so the
  invariant says why each descriptor was dropped (`DroppedAt`), what the control
  channel may hold by what the host has done (`ControlAt`), that a turn serves it
  only for a reason (`ServedAt`), and that bytes written are unread, relayed or
  lost with an error.

**GuestServicesProofs.**
* `DrivesMounted`, `OtherSideUntouched` (`DrAssumption`). Init changes namespace in
  the middle of a request: `DrPlace` ties the namespace it is in and those that are
  registered to its step; `DrProgress` says that while it mounts, each drive is
  still to be done, mounted, or left because this side's server has it, whatever
  could not be unmounted and with automount on or off.
* `LocalhostRelayed` (`LhAssumption`). `ScanInv`: the vector of relays is what the
  host listens for until a message is lost. `WorkInv`: a connection's bytes, spread
  over five places, are one stream, and the shared buffer is empty unless one of
  its two ends is being served.
* `ReclaimedWhenIdle` (`ReclaimAssumption`: a window of at least two, and `Never`
  so far in the past that an unused slot never passes for idle, as the constants of
  the code have it). `RingAt` says of which cycle each slot of the ring is, counted
  back from the index; `EventAt` what the last reclaim left in `ReclaimIdling`. The
  two readings the code compares are thus those of one cycle and of `Window` cycles
  ago, and the use between them is what the property bounds.
* `StubKeepsDescriptors` (`SbAssumption`). Nearly inductive; the work is in the
  lemmas on the first free slot and the first free descriptor.
* `AskersAnswered` (`DsAssumption`). `Continues`, `BufferOf`, `StreamOf`: each
  unread byte of a connection is a known byte of a known request, and the buffer is
  the part of that request read before it, however reads split the stream; ids are
  never given twice (`RequestAt`).

**P9Scheduler** (`SchedAssumption`: finitely many coroutines, at least one
thread). `SchedSafe` is inductive as it stands, because its parts carry each
other: that a queue with work has an owner or a kick needs that only an owner
resumes; that a kick has a thread needs the count of the pool's threads, and the
count needs that the owner is not in blocking code as well. `SchedulerSafe`
proves it; `ImplementsExecutor` maps every step to a step of `P9Executor` or to a
stutter (`UnblockClaims` is where the invariant is needed: nobody owns the queue
when it is claimed).

**P9Server** (`P9Assumption`: at least one permit, tags are numbers, the root is
no file's name; `ScriptAssumption`: the client's requests have the fids their
message has fields for, and a request that makes a file gives it a name: "Linux
path segment" in the comment of `File::ChildPath`). `ServerSafe` proves `P9Safe`,
all its parts by one inductive invariant, `P9Inv`:
* A coroutine has one continuation. `ExecAt` says so of the executor, `RestAt` and
  `ConnAt` of what holds the coroutines that are not with it: the socket, the
  lock's queue, the epoll dispatcher, a semaphore. Who waits to send or registers
  with the dispatcher holds the lock, which is `OneSender`.
* The permits that are missing are with the requests under way (`PermitAt`, with
  one promised to `Run` between the hand-over and its resumption), and those are
  the ones on the list (`ListAt`). When `Run` has all permits back, no request is
  under way: `EndedIsDrained`.
* A request that a Tflush took names it until its end, and the Tflush waits that
  long (`TakenAt`): `FlushAfterTaken`.
* Where a handler is says what it did (`Good`): no outcome before the table of
  fids was touched, a file made only by the handler that says so. With it each
  handler's step changes the count of `FidAccount` on both sides alike.
* `RegisterAt`: while the reader is about to register, an event announces what
  is in the socket. With `ReaderWoken` this is inductive.

The steps of the handlers that only move a request on share one lemma
(`MovesKeeps`, used by `BlockStep` and `AsyncStep`): what it needs of a step is
where the request goes, what it keeps, and whether the fid table changes.

Only model-checked: liveness under fairness (`SessionEnds`, `TerminateStops`,
`SlotReclaimed`, `ClientEnds`, `GnsLive`, `StopReturns`, `P9Live`, `QueueServed`,
`RelayLive`, `MiniLive`, `DistroServes`, `PortsServed`), which is beyond this
prover.

## 6. Not modelled

* Parsers, file generation, logging and the command-line tools of both sides
  (`config_parser.h`, `wsl_conf_parser.h`, `network_config.h`,
  `timezone_handler.h`, `binfmt_handler.h`, `logger.h`, `wslpath`, `wslinfo`):
  sequential code from strings to strings or files.
* `terminal_notify.h` and the window-size tracking of `hvbridge.c`: state that no
  other part reads.
* `src/src/linux/init/GnsEngine.cpp`, `NetworkManager.cpp` and
  `linux/netlinkutil`: the translation of requests into netlink messages. The
  FreeBSD engine of the same protocol is modelled.
* The shared headers (`lxinitshared.h`, `stringshared.h`, `message.h`): layouts
  and conversions.
* lib9p, the Windows service, systemd and the kernel: not in the repository; they
  are the environment of the modules that talk to them.
* `src/FreeBSD/test`: mock hosts and harnesses.
* In the modelled parts: the bytes of hvinit's handshake (messages are whole),
  the TCP reassembly of `dns_tunneling.h`, file contents and attributes in both
  9P servers, users and environments of created processes.

## 7. Plan

Done: the session server with its abstract specification, the DNS tunnel, the
GNS engine with the port tracker, init's life cycle, both 9P servers with the
scheduler and its refinement, mini init, the distribution's init, the relays,
DrvFs, port reservation, the DNS server, the interpreter of Windows programs.

Every safety property a run checks, action properties included, is also proved.
Next: the handshake of hvinit as a byte stream.
