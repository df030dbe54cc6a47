---------------------------- MODULE PortTracker ----------------------------
(***************************************************************************)
(* port_tracker.h, as gns_engine_loop drives it: the guest's listening TCP *)
(* ports are mirrored to the host, which forwards localhost traffic to     *)
(* them.                                                                   *)
(*                                                                         *)
(* A scan reads the kernel's IPv4 and IPv6 tables one after the other and  *)
(* is then compared with the previous snapshot in one walk over both       *)
(* sorted arrays; every difference is one message to the host.  Programs   *)
(* open and close ports at any time, a table may fail to be read, and a    *)
(* message may fail to be sent, or be sent in part.                        *)
(*                                                                         *)
(* A port is its rank in the order of port_entry_cmp, so that the IPv4     *)
(* entries come first; a sorted array without duplicates is a set, and a   *)
(* cursor into it is the set of entries still ahead.  Only ports that      *)
(* port_entry_matches_relay lets through are represented.                  *)
(***************************************************************************)
EXTENDS Naturals

CONSTANTS
    N4, N6,      \* relayable IPv4 and IPv6 endpoints
    MaxChanges,  \* times a program opens or closes a port
    MaxFails     \* tables that cannot be read, and sends that fail

ASSUME TrackerAssumption ==
    N4 \in Nat /\ N6 \in Nat /\ MaxChanges \in Nat /\ MaxFails \in Nat

VARIABLES
    pc,         \* "poll", "scan4", "scan6", "diff" or "exited"
    listening,  \* ports some program listens on
    entries,    \* tracker.entries: the last snapshot
    current,    \* the snapshot being taken
    curLeft,    \* current[i..]
    oldLeft,    \* entries[j..]
    relayed,    \* ports the host forwards, while it follows the stream
    lost,       \* ports of which a message to the host was lost (history)
    torn,       \* the host no longer follows the stream: a message was cut
                \* short in it, or it closed the channel (history)
    changes, fails

vars == <<pc, listening, entries, current, curLeft, oldLeft, relayed, lost, torn, changes,
          fails>>
scanVars == <<entries, current, curLeft, oldLeft>>

V4 == 1..N4
V6 == (N4 + 1)..(N4 + N6)
Ports == 1..(N4 + N6)

Init ==
    /\ pc = "poll" /\ listening \in SUBSET Ports
    /\ entries = {} /\ current = {} /\ curLeft = {} /\ oldLeft = {}
    /\ relayed = {} /\ lost = {} /\ torn = FALSE /\ changes = 0 /\ fails = 0

-----------------------------------------------------------------------------

(* poll() timed out or was interrupted, and a second has passed. *)
StartScan ==
    /\ pc = "poll"
    /\ pc' = "scan4" /\ current' = {}
    /\ UNCHANGED <<listening, entries, curLeft, oldLeft, relayed, lost, torn, changes, fails>>

(* One table: its listening sockets, or nothing when sysctl fails, for     *)
(* example because the table grew after its size was asked for.            *)
ReadTable(table) ==
    \/ current' = current \cup (listening \cap table) /\ UNCHANGED fails
    \/ fails < MaxFails /\ fails' = fails + 1 /\ UNCHANGED current

Scan4 ==
    /\ pc = "scan4"
    /\ ReadTable(V4)
    /\ pc' = "scan6"
    /\ UNCHANGED <<listening, entries, curLeft, oldLeft, relayed, lost, torn, changes>>

Scan6 ==
    /\ pc = "scan6"
    /\ ReadTable(V6)
    /\ curLeft' = current' /\ oldLeft' = entries
    /\ pc' = "diff"
    /\ UNCHANGED <<listening, entries, relayed, lost, torn, changes>>

(* No memory for the snapshot: the old one stays. *)
ScanFail ==
    /\ pc \in {"scan4", "scan6"}
    /\ fails < MaxFails /\ fails' = fails + 1
    /\ pc' = "poll" /\ current' = {}
    /\ UNCHANGED <<listening, entries, curLeft, oldLeft, relayed, lost, torn, changes>>

-----------------------------------------------------------------------------
(*                     port_tracker_poll: the merge walk                   *)

First(p, s) == p \in s /\ \A q \in s : p <= q

(* Slip: equal entries are taken for new ones. *)
Added_EqualToo(p) == First(p, curLeft) /\ \A q \in oldLeft : p <= q

(* cmp < 0, cmp > 0, cmp = 0. *)
Added(p) == First(p, curLeft) /\ \A q \in oldLeft : p < q
Removed(p) == First(p, oldLeft) /\ \A q \in curLeft : p < q
Kept(p) == First(p, curLeft) /\ First(p, oldLeft)

(* port_tracker_send_relay: the host hears of it, or five seconds pass     *)
(* before the message, or the rest of it, can be written, which goes       *)
(* unnoticed but for the missing log line.  What the host makes of the     *)
(* bytes that follow a cut message is not known, and relayed then means    *)
(* nothing.                                                                *)
Relay(p, host) ==
    \/ ~torn /\ relayed' = host /\ UNCHANGED <<lost, torn, fails>>
    \/ torn /\ UNCHANGED <<relayed, lost, torn, fails>>
    \/ /\ fails < MaxFails /\ fails' = fails + 1
       /\ lost' = lost \cup {p} /\ torn' \in {torn, TRUE} /\ UNCHANGED relayed

RelayStart(p) ==
    /\ pc = "diff" /\ Added(p)
    /\ Relay(p, relayed \cup {p})
    /\ curLeft' = curLeft \ {p}
    /\ UNCHANGED <<pc, listening, entries, current, oldLeft, changes>>

(* Slip: the host is not told. *)
RelayStop_Silent(p) ==
    /\ pc = "diff" /\ Removed(p)
    /\ oldLeft' = oldLeft \ {p}
    /\ UNCHANGED <<pc, listening, entries, current, curLeft, relayed, lost, torn, changes, fails>>

RelayStop(p) ==
    /\ pc = "diff" /\ Removed(p)
    /\ Relay(p, relayed \ {p})
    /\ oldLeft' = oldLeft \ {p}
    /\ UNCHANGED <<pc, listening, entries, current, curLeft, changes>>

Keep(p) ==
    /\ pc = "diff" /\ Kept(p)
    /\ curLeft' = curLeft \ {p} /\ oldLeft' = oldLeft \ {p}
    /\ UNCHANGED <<pc, listening, entries, current, relayed, lost, torn, changes, fails>>

(* The new snapshot replaces the old one, whatever became of the messages. *)
Swap ==
    /\ pc = "diff" /\ curLeft = {} /\ oldLeft = {}
    /\ entries' = current /\ current' = {} /\ pc' = "poll"
    /\ UNCHANGED <<listening, curLeft, oldLeft, relayed, lost, torn, changes, fails>>

(* The channel closes: the engine exits. *)
Exit ==
    /\ pc = "poll"
    /\ pc' = "exited"
    /\ UNCHANGED <<listening, scanVars, relayed, lost, torn, changes, fails>>

(* The channel is closed when a message is due: nothing ignores SIGPIPE.   *)
SigPipe ==
    /\ pc = "diff" /\ curLeft \cup oldLeft # {}
    /\ pc' = "exited" /\ torn' = TRUE
    /\ UNCHANGED <<listening, scanVars, relayed, lost, changes, fails>>

(* A program starts or stops listening on p. *)
Change(p) ==
    /\ changes < MaxChanges /\ pc # "exited"
    /\ changes' = changes + 1
    /\ listening' = IF p \in listening THEN listening \ {p} ELSE listening \cup {p}
    /\ UNCHANGED <<pc, scanVars, relayed, lost, torn, fails>>

-----------------------------------------------------------------------------

Walk == \E p \in Ports : RelayStart(p) \/ RelayStop(p) \/ Keep(p)

Track == StartScan \/ Scan4 \/ Scan6 \/ ScanFail \/ Walk \/ Swap

Next == Track \/ Exit \/ SigPipe \/ \E p \in Ports : Change(p)

Spec == Init /\ [][Next]_vars

(* The engine runs, and the host's messages leave it an idle second now    *)
(* and then.                                                               *)
FairSpec == Spec /\ WF_vars(Track)

-----------------------------------------------------------------------------
(*                                Properties                               *)

(* The values the tracker's state ranges over. *)
TypeOK ==
    /\ pc \in {"poll", "scan4", "scan6", "diff", "exited"}
    /\ listening \subseteq Ports /\ entries \subseteq Ports /\ current \subseteq Ports
    /\ curLeft \subseteq Ports /\ oldLeft \subseteq Ports
    /\ relayed \subseteq Ports /\ lost \subseteq Ports /\ torn \in BOOLEAN
    /\ changes \in 0..MaxChanges /\ fails \in 0..MaxFails

(* What the host forwards, as the walk has got so far. *)
Expected == IF pc = "diff" THEN (current \ curLeft) \cup oldLeft ELSE entries

(* While no message was cut short, and apart from ports whose own message  *)
(* was lost, the host forwards exactly the ports of the snapshot, at every *)
(* point of the walk.                                                      *)
RelayMatchesSnapshot == torn \/ relayed \ lost = Expected \ lost

(* The host is never told to start a port it forwards already, nor to stop *)
(* one it does not, unless an earlier message about that port was lost or  *)
(* any was cut short.                                                      *)
NoRedundantRelay ==
    [][~torn => \A p \in Ports \ lost :
        /\ RelayStart(p) => p \notin relayed
        /\ RelayStop(p) => p \in relayed]_vars

(* Once programs leave their ports alone and no more tables fail to be     *)
(* read, the host ends up forwarding exactly the listening ports, but for  *)
(* those whose own message was lost, unless a message was cut short.       *)
Converges == <>[](pc = "exited" \/ torn \/ relayed \ lost = listening \ lost)

=============================================================================
