---------------------------- MODULE MCChatScreen ----------------------------
(* Values of the constants of ChatScreen for TLC: texts at both sides of every
   length that matters. *)
EXTENDS ChatScreen

Event(kind, name, text) == [kind |-> kind, name |-> name, text |-> text]

SomeEvents ==
  {Event("chat", name, text) : name \in {1, 31}, text \in {466, 467, 496, 497}}
    \cup {Event("list", 0, text) : text \in {479, 486, 487}}
    \cup {Event("notice", 31, 0), Event("error", 0, 255), Event("state", 0, 63),
          Event("status", 0, 255)}

Input(kind, text) == [kind |-> kind, text |-> text]

SomeInputs ==
  {Input("talk", text) : text \in {506, 507}}
    \cup {Input("unknown", text) : text \in {212, 213, 257}}
    \cup {Input(kind, 6) : kind \in {"blank", "reply", "help", "clear", "quit"}}
=============================================================================
