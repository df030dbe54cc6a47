-------------------------- MODULE MCBridgeSession --------------------------
(* BridgeSession on small instances. *)
EXTENDS BridgeSession

\* The second session has one message, of two units, and no local interop
\* connection.
Smaller == Len(sent) <= 2 /\ relays = 0

TwoSessions == Init /\ [][Next /\ (sessions' = 2 => Smaller')]_vars
=============================================================================
