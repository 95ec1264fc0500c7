---------------------------- MODULE MCThreadpool ----------------------------
(***************************************************************************)
(* Small instances of Threadpool: its constants are all sets of model      *)
(* values, given in the configurations, and there is no symmetry because   *)
(* the runs check liveness.                                                *)
(***************************************************************************)
EXTENDS Threadpool
=============================================================================
