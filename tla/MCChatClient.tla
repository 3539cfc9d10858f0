---------------------------- MODULE MCChatClient ----------------------------
(* Values of the constants of ChatClient for TLC. *)
EXTENDS ChatClient

=============================================================================
