--------------------------- MODULE SessionService ---------------------------
(***************************************************************************)
(* What a console session server promises its host: sessions one at a      *)
(* time; in each at most one shell, which is collected after it died and   *)
(* before the session is over; at most one report of its end per session,  *)
(* not before it was collected.                                            *)
(***************************************************************************)
EXTENDS Naturals

VARIABLES
    phase,    \* "idle", "live" (a session is being served) or "stopped"
    shell,    \* "none", "alive", "dead" (not collected) or "gone"
    reports   \* reports of the shell's end in this session

vars == <<phase, shell, reports>>

Init == phase = "idle" /\ shell = "none" /\ reports = 0

Open ==
    /\ phase = "idle"
    /\ phase' = "live" /\ shell' = "none" /\ reports' = 0

Spawn ==
    /\ phase = "live" /\ shell = "none"
    /\ shell' = "alive"
    /\ UNCHANGED <<phase, reports>>

Die ==
    /\ phase = "live" /\ shell = "alive"
    /\ shell' = "dead"
    /\ UNCHANGED <<phase, reports>>

Collect(n) ==
    /\ phase = "live" /\ shell = "dead" /\ reports = 0
    /\ shell' = "gone" /\ reports' = n
    /\ UNCHANGED phase

End ==
    /\ phase = "live" /\ shell \in {"none", "gone"}
    /\ phase' \in {"idle", "stopped"}
    /\ UNCHANGED <<shell, reports>>

Stop ==
    /\ phase = "idle"
    /\ phase' = "stopped"
    /\ UNCHANGED <<shell, reports>>

Next == Open \/ Spawn \/ Die \/ (\E n \in 0..1 : Collect(n)) \/ End \/ Stop

Spec == Init /\ [][Next]_vars
=============================================================================
