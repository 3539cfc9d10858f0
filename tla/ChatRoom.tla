------------------------------ MODULE ChatRoom ------------------------------
(***************************************************************************)
(* What the chat server promises about who is in the room, without slots,  *)
(* sockets, messages or a call stack.  Sessions are numbered in the order  *)
(* they connect; a connected session may become a member under a name that *)
(* no other member has, and keeps that name until it leaves.               *)
(***************************************************************************)
EXTENDS Integers, FiniteSets

CONSTANTS Capacity, Names

VARIABLES
  next,     \* the number of the next session
  present,  \* the sessions that are connected
  member    \* the members: a function from some of them to their names

roomVars == <<next, present, member>>

Held == {member[i] : i \in DOMAIN member}

(* The function f without i, and with n at i. *)
Minus(f, i)   == [j \in DOMAIN f \ {i} |-> f[j]]
Plus(f, i, n) == [j \in DOMAIN f \cup {i} |-> IF j = i THEN n ELSE f[j]]

Init ==
  /\ next = 1
  /\ present = {}
  /\ member = [i \in {} |-> {}]

Connect ==
  /\ Cardinality(present) < Capacity
  /\ present' = present \cup {next}
  /\ next' = next + 1
  /\ UNCHANGED member

Join(i, n) ==
  /\ i \in present \ DOMAIN member
  /\ n \notin Held
  /\ member' = Plus(member, i, n)
  /\ UNCHANGED <<next, present>>

LeaveRoom(i) ==
  /\ present' = present \ {i}
  /\ member' = Minus(member, i)
  /\ UNCHANGED next

Close ==
  /\ present' = {}
  /\ member' = [i \in {} |-> {}]
  /\ UNCHANGED next

Next ==
  \/ Connect
  \/ \E i \in present : LeaveRoom(i) \/ \E n \in Names : Join(i, n)
  \/ Close

Spec == Init /\ [][Next]_roomVars
=============================================================================
