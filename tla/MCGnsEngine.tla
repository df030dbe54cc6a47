---------------------------- MODULE MCGnsEngine ----------------------------
(* Small instances of the network service: see MCGnsEngine.cfg for the bounds. *)
EXTENDS GnsEngine

(* One request for each way in which the loop treats requests (a handler   *)
(* that answers, one that fails, the other kind of answer and the one that *)
(* writes resolv.conf), and then any request.                              *)
MCRequests ==
    << UNION {Req({"InterfaceConfiguration"}, {"none"}), Req({"IfStateChangeRequest"}, {"down"}),
              Notify({"DNS"}, {"Add"}, {""}), {r \in PortReq({"PortMappingRequest"}, {"remove"}) : r.port = 1}},
       AllRequests >>

(* The product of every request and every set of ports is too large: the   *)
(* environment uses several ports and changes two of them while the host   *)
(* is silent, or one port beside the requests.  Only its steps are kept    *)
(* back; the engine's never leave a part.                                  *)
Silent == sent = 0 /\ writes = 0
OnePort ==
    listening \cup entries \cup current \cup relayed \subseteq {1} /\ changes <= 1
InPart == Silent \/ OnePort

MCSpec == GnsInit /\ [][GnsNext /\ InPart']_gnsVars /\ WF_gnsVars(Engine)

=============================================================================
