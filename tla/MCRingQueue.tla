----------------------------- MODULE MCRingQueue ----------------------------
(* Values of the constants of RingQueue for TLC. *)
EXTENDS RingQueue

=============================================================================
