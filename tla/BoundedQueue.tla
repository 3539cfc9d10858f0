---------------------------- MODULE BoundedQueue ----------------------------
(***************************************************************************)
(* What the two queues between the threads of the client promise: first    *)
(* in, first out, at most Capacity items.  A full command queue refuses an *)
(* item and says so; a full event queue forgets its oldest item.           *)
(***************************************************************************)
EXTENDS Integers, Sequences

CONSTANTS Capacity, Items, Empty

VARIABLES overwrites, \* which queue this is
          items,    \* what is queued, the oldest item first
          answer    \* what the last call returned: an item, or a result code

queueVars == <<overwrites, items, answer>>

Init == items = <<>> /\ answer = "none" /\ overwrites \in BOOLEAN

(* There is room. *)
Put(x) ==
  /\ Len(items) < Capacity
  /\ items' = Append(items, x)
  /\ answer' = "ok"

(* There is none. *)
Refuse ==
  /\ ~overwrites /\ Len(items) = Capacity
  /\ answer' = "full"
  /\ UNCHANGED items

Replace(x) ==
  /\ overwrites /\ Len(items) = Capacity
  /\ items' = Append(Tail(items), x)
  /\ answer' = "ok"

Take ==
  /\ items # <<>>
  /\ items' = Tail(items)
  /\ answer' = Head(items)

TakeNothing ==
  /\ items = <<>>
  /\ answer' = Empty
  /\ UNCHANGED items

Next ==
  /\ \/ \E x \in Items : Put(x) \/ Replace(x)
     \/ Refuse \/ Take \/ TakeNothing
  /\ UNCHANGED overwrites

Spec == Init /\ [][Next]_queueVars
=============================================================================
