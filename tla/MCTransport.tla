----------------------------- MODULE MCTransport ----------------------------
(* Values of the constants of Transport for TLC. *)
EXTENDS Transport

(* The server answers, and sends once more. *)
OneAndTwo == [e \in Ends |-> IF e = "client" THEN 1 ELSE 2]

=============================================================================
