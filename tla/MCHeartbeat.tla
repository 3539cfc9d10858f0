----------------------------- MODULE MCHeartbeat -----------------------------
(* Heartbeat, instantiated by the configurations MCHeartbeat*.cfg. *)
EXTENDS Heartbeat
=============================================================================
