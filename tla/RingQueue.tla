----------------------------- MODULE RingQueue ------------------------------
(***************************************************************************)
(* The ring buffers of Pisces.Client/client.c: the command queue from the  *)
(* UI thread to the network thread and the event queue back.  Both hold    *)
(* their items in an array, with the index of the oldest item, the index   *)
(* of the next free slot and the number of items; they differ only in what *)
(* a push on a full queue does.  Every call holds the lock of its queue,   *)
(* so a call is one step.                                                  *)
(***************************************************************************)
EXTENDS Integers, Sequences

CONSTANTS
  Capacity,     \* queue->capacity
  Items,        \* what is queued: commands or events
  Blank,        \* a slot that calloc cleared
  Empty         \* the result of a pop that found nothing

ASSUME QueueAssumption ==
  /\ Capacity \in Nat \ {0}          \* the queues refuse other capacities
  /\ Blank \notin Items /\ Empty \notin Items

VARIABLES
  overwrites, \* which queue this is: the event queue if TRUE
  slots,      \* queue->commands or queue->events
  front, rear, size,
  answer      \* what the last call returned

vars == <<overwrites, slots, front, rear, size, answer>>

Indices == 0 .. (Capacity - 1)

(* Mutant: the index runs over the end of the array one too late. *)
AfterLate(i) == (i + 1) % (Capacity + 1)

(* The index after i. *)
After(i) == (i + 1) % Capacity

Init ==                                   \* command_queue_create
  /\ slots = [i \in Indices |-> Blank]
  /\ front = 0 /\ rear = 0 /\ size = 0
  /\ answer = "none"
  /\ overwrites \in BOOLEAN

Store(x) ==
  /\ slots' = [slots EXCEPT ![rear] = x]
  /\ rear' = After(rear)
  /\ answer' = "ok"

(* The queue has room. *)
Push(x) ==
  /\ size < Capacity
  /\ Store(x)
  /\ size' = size + 1
  /\ UNCHANGED front

(* command_queue_push on a full queue. *)
PushRefused ==
  /\ ~overwrites /\ size >= Capacity
  /\ answer' = "full"
  /\ UNCHANGED <<slots, front, rear, size>>

(* Mutant: the oldest event is overwritten, and taken for the newest. *)
PushOverKeeping(x) ==
  /\ overwrites /\ size >= Capacity
  /\ Store(x)
  /\ UNCHANGED <<front, size>>

(* event_queue_push on a full queue: the oldest event makes room. *)
PushOver(x) ==
  /\ overwrites /\ size >= Capacity
  /\ Store(x)
  /\ front' = After(front)
  /\ UNCHANGED size

Pop ==
  /\ size > 0
  /\ answer' = slots[front]
  /\ front' = After(front)
  /\ size' = size - 1
  /\ UNCHANGED <<slots, rear>>

(* A pop with no timeout, or whose time is up. *)
PopNothing ==
  /\ size = 0
  /\ answer' = Empty
  /\ UNCHANGED <<slots, front, rear, size>>

Next ==
  /\ \/ \E x \in Items : Push(x) \/ PushOver(x)
     \/ PushRefused \/ Pop \/ PopNothing
  /\ UNCHANGED overwrites

Spec == Init /\ [][Next]_vars

-----------------------------------------------------------------------------
(* Properties *)

(* The indices stay inside the array and the size between 0 and the
   capacity. *)
TypeOK ==
  /\ slots \in [Indices -> Items \cup {Blank}]
  /\ front \in Indices /\ rear \in Indices
  /\ size \in 0 .. Capacity
  /\ overwrites \in BOOLEAN
  /\ answer \in Items \cup {"none", "ok", "full", Empty}

(* The slot of the item number k, counted from 0. *)
Place(k) == (front + k) % Capacity

(* What is queued, the oldest item first. *)
Contents == [k \in 1 .. size |-> slots[Place(k - 1)]]

(* The three numbers agree, and every slot that counts as queued was written:
   no push ever stores on top of an item that was not given up, and no pop
   returns a slot that was never filled. *)
RingInv ==
  /\ rear = Place(size)
  /\ \A k \in 0 .. (size - 1) : slots[Place(k)] \in Items

Queue == INSTANCE BoundedQueue WITH items <- Contents

(* The ring buffer is a bounded first-in first-out queue: what is popped, and
   what a full queue refuses or forgets, is what the abstract queue says. *)
ImplementsQueue == Queue!Spec

=============================================================================
