-------------------------- MODULE MCInitLifecycle --------------------------
(* Small instances of hvinit: see the configurations of this module. *)
EXTENDS InitLifecycle

=============================================================================
