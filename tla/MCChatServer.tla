---------------------------- MODULE MCChatServer ----------------------------
(* Values of the constants of ChatServer for TLC. *)
EXTENDS ChatServer, TLC

SymmetricNames == Permutations(Names)

(* Every send may fail, whatever it carries. *)
AllKinds == Kinds

(* Every send may find the peer gone but the reply that welcomes it. *)
NotWelcome == Kinds \ {"welcome"}
=============================================================================
