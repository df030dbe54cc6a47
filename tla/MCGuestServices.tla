-------------------------- MODULE MCGuestServices ---------------------------
(***************************************************************************)
(* Small instances of five services of the guest that share no state: the  *)
(* DrvFs mounts, the built-in 9P server, the memory reclaim thread, the    *)
(* localhost relay (its scanner and its workers) and the DNS server.  A    *)
(* behaviour runs one of them, so that one graph holds all.                *)
(***************************************************************************)
EXTENDS DrvFs, Plan9Stub, MemoryReclaim, LocalhostRelay, DnsServer

VARIABLE part
gsVars == <<part, drVars, sbVars, rcVars, scanVars, workVars, dsVars>>

\* An IPv4 socket, and two IPv6 sockets that differ in the lower half of their address.
ThreeSockets == {[v6 |-> FALSE, high |-> 0, low |-> 1, port |-> 80],
                 [v6 |-> TRUE, high |-> 0, low |-> 1, port |-> 80],
                 [v6 |-> TRUE, high |-> 0, low |-> 2, port |-> 80]}

\* At most one unreadable drive, and at most one mount that umount2 fails for.
DrBound ==
    /\ Cardinality(drUnread') <= 1
    /\ drPc = "parse" /\ drPc' = "mount" => Cardinality(drNs'[drCur] \cap drRead) <= 1

GsInit ==
    /\ part \in {"drvfs", "stub", "reclaim", "scan", "workers", "dns"}
    /\ DrInit /\ SbInit /\ RcInit /\ ScanInit /\ WorkInit /\ DsInit
    /\ part # "drvfs" => drTrans = "hvsocket" /\ drFsTab /\ drAuto
    /\ part # "reclaim" => rcMode = "gradual" /\ order

GsNext ==
    \/ part = "drvfs" /\ DrNext /\ DrBound
         /\ UNCHANGED <<part, sbVars, rcVars, scanVars, workVars, dsVars>>
    \/ part = "stub" /\ SbNext /\ UNCHANGED <<part, drVars, rcVars, scanVars, workVars, dsVars>>
    \/ part = "reclaim" /\ RcNext /\ UNCHANGED <<part, drVars, sbVars, scanVars, workVars, dsVars>>
    \/ part = "scan" /\ ScanNext /\ UNCHANGED <<part, drVars, sbVars, rcVars, workVars, dsVars>>
    \/ part = "workers" /\ WorkNext /\ UNCHANGED <<part, drVars, sbVars, rcVars, scanVars, dsVars>>
    \/ part = "dns" /\ DsNext /\ UNCHANGED <<part, drVars, sbVars, rcVars, scanVars, workVars>>

GsSpec == GsInit /\ [][GsNext]_gsVars
=============================================================================
