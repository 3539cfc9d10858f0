--------------------------- MODULE MessageChannel ---------------------------
(***************************************************************************)
(* What one direction of a connection of Pisces.Common promises its users: *)
(* the messages handed to network_socket_send_message come out of          *)
(* network_socket_recv_message whole, once each and in order.  A call that *)
(* fails in the middle of a message while the connection stands breaks the *)
(* channel: nothing is promised of what it delivers afterwards.            *)
(***************************************************************************)
EXTENDS Sequences, Naturals

CONSTANTS
  Messages,
  Garbled     \* what a broken channel delivers

VARIABLES
  sent,       \* the messages of which something has left the sender
  received,   \* the messages delivered
  broken

vars == <<sent, received, broken>>

Init ==
  /\ sent = <<>>
  /\ received = <<>>
  /\ broken = FALSE

Send ==
  /\ \E m \in Messages : sent' = Append(sent, m)
  /\ UNCHANGED <<received, broken>>

Receive ==
  /\ Len(received) < Len(sent)
  /\ received' = Append(received, sent[Len(received) + 1])
  /\ UNCHANGED <<sent, broken>>

Break ==
  /\ broken' = TRUE
  /\ UNCHANGED <<sent, received>>

ReceiveBroken ==
  /\ broken
  /\ \E m \in Messages \cup {Garbled} : received' = Append(received, m)
  /\ UNCHANGED <<sent, broken>>

Next == Send \/ Receive \/ Break \/ ReceiveBroken

Spec == Init /\ [][Next]_vars

=============================================================================
