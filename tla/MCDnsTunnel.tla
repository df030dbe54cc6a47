---------------------------- MODULE MCDnsTunnel ----------------------------
(* Small instances of the DNS tunnel: see MCDns*.cfg for the bounds. *)
EXTENDS DnsTunnel

=============================================================================
