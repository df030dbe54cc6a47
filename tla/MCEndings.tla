------------------------------ MODULE MCEndings ------------------------------
(***************************************************************************)
(* Small instances of two parts that wait for a host which may never       *)
(* answer: the slots of the DNS tunnel and the interpreter of a Windows    *)
(* program.  They share no state; a behaviour runs one of them, so that    *)
(* one graph holds both.                                                   *)
(***************************************************************************)
EXTENDS DnsTunnel, InteropClient

VARIABLE part
endVars == <<part, vars, ntVars>>

EndInit ==
    /\ part \in {"dns", "interop"} /\ Init /\ NtInit
    /\ part = "dns" => ntMode = "vm"

EndNext ==
    \/ part = "dns" /\ Next /\ UNCHANGED <<part, ntVars>>
    \/ part = "interop" /\ NtNext /\ UNCHANGED <<part, vars>>

\* The fairness of each specification, while its part runs.
EndSpec ==
    /\ EndInit /\ [][EndNext]_endVars
    /\ WF_vars(part = "dns" /\ pc # "down" /\ Run)
    /\ \A s \in Slot : WF_vars(part = "dns" /\ pc # "down" /\ Age(s))
    /\ WF_ntVars(part = "interop" /\ Interpreter)
=============================================================================
