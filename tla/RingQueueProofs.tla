-------------------------- MODULE RingQueueProofs ---------------------------
(***************************************************************************)
(* Proofs about the ring buffers: their indices, and that they implement   *)
(* the bounded queue, for every capacity and whatever is queued.           *)
(***************************************************************************)
EXTENDS RingQueue, SequenceTheorems, TLAPS

-----------------------------------------------------------------------------
(* Arithmetic modulo the capacity. *)

LEMMA ModBelow ==
  ASSUME NEW n \in Nat, n > 0, NEW a \in Nat, a < n
  PROVE  a % n = a
OBVIOUS

LEMMA ModOnce ==
  ASSUME NEW n \in Nat, n > 0, NEW a \in Nat, n <= a, a < n + n
  PROVE  a % n = a - n
OBVIOUS

-----------------------------------------------------------------------------
(* Sequences, from their elements. *)

LEMMA SeqOf ==
  ASSUME NEW S, NEW n \in Nat, NEW f \in [1 .. n -> S]
  PROVE  f \in Seq(S) /\ Len(f) = n
OBVIOUS

LEMMA AppendOf ==
  ASSUME NEW S, NEW s \in Seq(S), NEW x \in S,
         NEW g \in [1 .. (Len(s) + 1) -> S],
         \A k \in 1 .. Len(s) : g[k] = s[k],
         g[Len(s) + 1] = x
  PROVE  g = Append(s, x)
<1>1. Len(s) \in Nat
  OBVIOUS
<1>2. g \in Seq(S) /\ Len(g) = Len(s) + 1
  BY <1>1, SeqOf
<1>3. \A k \in 1 .. Len(g) : g[k] = Append(s, x)[k]
  BY <1>1, <1>2, AppendProperties
<1>4. QED
  BY <1>2, <1>3, AppendProperties, SeqEqual

LEMMA TailOf ==
  ASSUME NEW S, NEW s \in Seq(S), s # <<>>,
         NEW g \in [1 .. (Len(s) - 1) -> S],
         \A k \in 1 .. (Len(s) - 1) : g[k] = s[k + 1]
  PROVE  g = Tail(s)
<1>1. Len(s) \in Nat /\ Len(s) > 0
  OBVIOUS
<1>2. g \in Seq(S) /\ Len(g) = Len(s) - 1
  BY <1>1, SeqOf
<1>3. QED
  BY <1>1, <1>2, HeadTailProperties, SeqEqual

-----------------------------------------------------------------------------
(* The arithmetic of the ring: the place after the last item, and the places
   seen from the next front. *)

LEMMA PlaceIs ==
  ASSUME TypeOK, NEW k \in 0 .. Capacity
  PROVE  /\ Place(k) \in Indices
         /\ Place(k) = IF front + k < Capacity THEN front + k
                                              ELSE front + k - Capacity
  BY QueueAssumption, ModBelow, ModOnce DEF TypeOK, Place, Indices

LEMMA AfterIs ==
  ASSUME NEW i \in Indices
  PROVE  /\ After(i) \in Indices
         /\ After(i) = IF i + 1 < Capacity THEN i + 1 ELSE 0
  BY QueueAssumption, ModBelow, ModOnce DEF After, Indices

(* The place after a place, and the places when the front has moved on. *)
LEMMA AfterPlace ==
  ASSUME TypeOK, NEW k \in 0 .. (Capacity - 1)
  PROVE  After(Place(k)) = Place(k + 1)
<1>1. /\ Place(k) \in Indices
      /\ Place(k) = IF front + k < Capacity THEN front + k
                                           ELSE front + k - Capacity
  BY QueueAssumption, PlaceIs
<1>2. Place(k + 1) = IF front + (k + 1) < Capacity
                       THEN front + (k + 1) ELSE front + (k + 1) - Capacity
  BY QueueAssumption, PlaceIs
<1>3. QED
  BY <1>1, <1>2, AfterIs, QueueAssumption DEF TypeOK, Indices

LEMMA FrontMoves ==
  ASSUME TypeOK, front' = After(front), NEW k \in 0 .. (Capacity - 1)
  PROVE  Place(k)' = Place(k + 1)
<1>1. Place(k + 1) = IF front + (k + 1) < Capacity
                       THEN front + (k + 1) ELSE front + (k + 1) - Capacity
  BY QueueAssumption, PlaceIs
<1>2. /\ After(front) \in Indices
      /\ After(front) = IF front + 1 < Capacity THEN front + 1 ELSE 0
  BY AfterIs DEF TypeOK
<1>3. (After(front) + k) % Capacity =
        IF After(front) + k < Capacity THEN After(front) + k
                                       ELSE After(front) + k - Capacity
  BY <1>2, ModBelow, ModOnce, QueueAssumption DEF Indices
<1>4. Place(k)' = (After(front) + k) % Capacity
  BY DEF Place
<1>5. QED
  BY <1>1, <1>2, <1>3, <1>4, QueueAssumption DEF TypeOK, Indices

(* Two places differ unless they are one round apart. *)
LEMMA PlacesDiffer ==
  ASSUME TypeOK, NEW j \in 0 .. Capacity, NEW k \in 0 .. Capacity,
         j < k, k < j + Capacity
  PROVE  Place(j) # Place(k)
<1>1. Place(j) = IF front + j < Capacity THEN front + j
                                         ELSE front + j - Capacity
  BY PlaceIs
<1>2. Place(k) = IF front + k < Capacity THEN front + k
                                         ELSE front + k - Capacity
  BY PlaceIs
<1>3. QED
  BY <1>1, <1>2, QueueAssumption DEF TypeOK, Indices

-----------------------------------------------------------------------------
(* The invariant: the types, and the agreement of front, rear and size.  The
   first needs the second, for a pop must not return a slot that was never
   filled. *)
Inv == TypeOK /\ RingInv

(* Where the items of the queue were is where they are, after each step. *)
LEMMA PushPlaces ==
  ASSUME Inv, NEW x \in Items, Push(x)
  PROVE  /\ \A k \in 0 .. Capacity : Place(k)' = Place(k)
         /\ \A k \in 0 .. (size - 1) : slots'[Place(k)] = slots[Place(k)]
         /\ slots'[Place(size)] = x
<1>1. rear = Place(size) /\ rear \in Indices /\ size \in 0 .. (Capacity - 1)
  BY QueueAssumption DEF Inv, TypeOK, RingInv, Push
<1>2. ASSUME NEW k \in 0 .. (size - 1) PROVE slots'[Place(k)] = slots[Place(k)]
  <2>1. k \in 0 .. Capacity /\ size \in 0 .. Capacity /\ k < size /\ size < k + Capacity
    BY <1>1, QueueAssumption
  <2>2. Place(k) # rear /\ Place(k) \in Indices
    BY <1>1, <2>1, PlacesDiffer, PlaceIs DEF Inv
  <2>3. QED
    BY <2>2 DEF Push, Store, Inv, TypeOK
<1>3. QED
  BY <1>1, <1>2 DEF Push, Store, Place, Inv, TypeOK

LEMMA PushOverPlaces ==
  ASSUME Inv, NEW x \in Items, PushOver(x)
  PROVE  /\ size = Capacity /\ size > 0
         /\ \A k \in 0 .. (size - 1) : Place(k)' = Place(k + 1)
         /\ \A k \in 1 .. (size - 1) : slots'[Place(k)] = slots[Place(k)]
         /\ slots'[Place(size)] = x
<1>1. rear = Place(size) /\ rear \in Indices /\ size = Capacity /\ size > 0
  BY QueueAssumption DEF Inv, TypeOK, RingInv, PushOver
<1>2. ASSUME NEW k \in 1 .. (size - 1) PROVE slots'[Place(k)] = slots[Place(k)]
  <2>1. k \in 0 .. Capacity /\ size \in 0 .. Capacity /\ k < size /\ size < k + Capacity
    BY <1>1, QueueAssumption
  <2>2. Place(k) # rear /\ Place(k) \in Indices
    BY <1>1, <2>1, PlacesDiffer, PlaceIs DEF Inv
  <2>3. QED
    BY <2>2 DEF PushOver, Store, Inv, TypeOK
<1>3. \A k \in 0 .. (size - 1) : Place(k)' = Place(k + 1)
  BY <1>1, FrontMoves DEF Inv, PushOver
<1>4. QED
  BY <1>1, <1>2, <1>3 DEF PushOver, Store, Inv, TypeOK

LEMMA PopPlaces ==
  ASSUME Inv, Pop
  PROVE  /\ size > 0 /\ size \in 0 .. Capacity
         /\ \A k \in 0 .. (size - 1) : Place(k)' = Place(k + 1)
         /\ front = Place(0)
         /\ slots[front] \in Items
<1>1. size > 0 /\ size \in 0 .. Capacity
  BY DEF Inv, TypeOK, Pop
<1>2. \A k \in 0 .. (size - 1) : Place(k)' = Place(k + 1)
  BY <1>1, FrontMoves, QueueAssumption DEF Inv, Pop
<1>3. front = Place(0)
  BY PlaceIs, QueueAssumption DEF Inv, TypeOK, Indices
<1>4. slots[front] \in Items
  BY <1>1, <1>3, QueueAssumption DEF Inv, RingInv
<1>5. QED
  BY <1>1, <1>2, <1>3, <1>4

LEMMA TypeStep == Inv /\ [Next]_vars => TypeOK'
<1> SUFFICES ASSUME Inv, [Next]_vars PROVE TypeOK'
  OBVIOUS
<1> USE QueueAssumption DEF Inv, TypeOK
<1>0. overwrites' = overwrites
  BY DEF Next, vars
<1>1. ASSUME NEW x \in Items, Push(x) PROVE TypeOK'
  BY <1>0, <1>1, AfterIs DEF Push, Store
<1>2. ASSUME NEW x \in Items, PushOver(x) PROVE TypeOK'
  BY <1>0, <1>2, AfterIs DEF PushOver, Store
<1>3. CASE PushRefused
  BY <1>0, <1>3 DEF PushRefused
<1>4. CASE Pop
  BY <1>0, <1>4, AfterIs, PopPlaces DEF Pop
<1>5. CASE PopNothing
  BY <1>0, <1>5 DEF PopNothing
<1>6. CASE UNCHANGED vars
  BY <1>6 DEF vars
<1>7. QED
  BY <1>1, <1>2, <1>3, <1>4, <1>5, <1>6 DEF Next

LEMMA RingStep == Inv /\ [Next]_vars => RingInv'
<1> SUFFICES ASSUME Inv, [Next]_vars PROVE RingInv'
  OBVIOUS
<1> USE QueueAssumption
<1>1. ASSUME NEW x \in Items, Push(x) PROVE RingInv'
  <2>1. size \in 0 .. (Capacity - 1) /\ size' = size + 1
    BY <1>1 DEF Push, Inv, TypeOK
  <2>2. rear' = Place(size)'
    <3>1. rear' = After(Place(size))
      BY <1>1 DEF Push, Store, Inv, RingInv
    <3>2. After(Place(size)) = Place(size + 1)
      BY <2>1, AfterPlace DEF Inv
    <3>3. Place(size)' = Place(size + 1)
      BY <1>1, <2>1 DEF Place, Push
    <3>4. QED
      BY <3>1, <3>2, <3>3
  <2>3. ASSUME NEW k \in 0 .. (size' - 1) PROVE slots'[Place(k)'] \in Items
    <3>1. Place(k)' = Place(k)
      BY <1>1, <2>1, PushPlaces
    <3>2. CASE k \in 0 .. (size - 1)
      BY <1>1, <3>1, <3>2, PushPlaces DEF Inv, RingInv
    <3>3. CASE k = size
      BY <1>1, <3>1, <3>3, PushPlaces
    <3>4. QED
      BY <2>1, <3>2, <3>3
  <2>4. QED
    BY <2>2, <2>3 DEF RingInv, Place
<1>2. ASSUME NEW x \in Items, PushOver(x) PROVE RingInv'
  <2>1. size = Capacity /\ size > 0 /\ size' = size
    BY <1>2, PushOverPlaces DEF PushOver
  <2>2. rear' = Place(size)'
    <3>1. rear = front
      BY <2>1, PlaceIs DEF Inv, RingInv, TypeOK, Indices
    <3>2. rear' = front' /\ front' \in Indices
      BY <1>2, <3>1, AfterIs DEF PushOver, Store, Inv, TypeOK
    <3>3. ASSUME NEW f \in Indices PROVE (f + Capacity) % Capacity = f
      BY ModOnce DEF Indices
    <3>4. QED
      BY <2>1, <3>2, <3>3 DEF Place
  <2>3. ASSUME NEW k \in 0 .. (size' - 1) PROVE slots'[Place(k)'] \in Items
    <3>1. Place(k)' = Place(k + 1)
      BY <1>2, <2>1, PushOverPlaces
    <3>2. CASE k + 1 \in 1 .. (size - 1)
      BY <1>2, <2>1, <3>1, <3>2, PushOverPlaces DEF Inv, RingInv
    <3>3. CASE k + 1 = size
      BY <1>2, <3>1, <3>3, PushOverPlaces
    <3>4. QED
      BY <2>1, <3>2, <3>3
  <2>4. QED
    BY <2>2, <2>3 DEF RingInv, Place
<1>3. CASE Pop
  <2>1. size \in 1 .. Capacity /\ size' = size - 1 /\ rear' = rear /\ slots' = slots
    BY <1>3, PopPlaces DEF Pop
  <2>2. rear' = Place(size)'
    <3>1. \A k \in 0 .. (size - 1) : (front' + k) % Capacity = Place(k + 1)
      BY <1>3, PopPlaces DEF Place
    <3>2. (front' + (size - 1)) % Capacity = Place(size)
      BY <2>1, <3>1
    <3>3. QED
      BY <2>1, <3>2 DEF Place, Inv, RingInv
  <2>3. ASSUME NEW k \in 0 .. (size' - 1) PROVE slots'[Place(k)'] \in Items
    BY <1>3, <2>1, PopPlaces DEF Inv, RingInv
  <2>4. QED
    BY <2>2, <2>3 DEF RingInv, Place
<1>4. CASE PushRefused
  BY <1>4 DEF PushRefused, Inv, RingInv, Place
<1>5. CASE PopNothing
  BY <1>5 DEF PopNothing, Inv, RingInv, Place
<1>6. CASE UNCHANGED vars
  BY <1>6 DEF vars, Inv, RingInv, Place
<1>7. QED
  BY <1>1, <1>2, <1>3, <1>4, <1>5, <1>6 DEF Next

LEMMA InitInv == Init => Inv
  BY QueueAssumption, ModBelow DEF Init, Inv, TypeOK, RingInv, Indices, Place

(* The indices of a ring buffer stay inside its array, and what a call returns
   is an item or a result code, never a slot that was not written. *)
THEOREM TypeCorrect == Spec => []TypeOK
<1>1. Inv /\ [Next]_vars => Inv'
  BY TypeStep, RingStep DEF Inv
<1>2. Inv => TypeOK
  BY DEF Inv
<1>3. QED
  BY <1>1, <1>2, InitInv, PTL DEF Spec

(* front, rear and size of a ring buffer agree after every sequence of calls,
   also when they have gone round the array, and the items lie where they say. *)
THEOREM RingAgrees == Spec => []RingInv
<1>1. Inv /\ [Next]_vars => Inv'
  BY TypeStep, RingStep DEF Inv
<1>2. Inv => RingInv
  BY DEF Inv
<1>3. QED
  BY <1>1, <1>2, InitInv, PTL DEF Spec

-----------------------------------------------------------------------------
(* The refinement of the bounded queue. *)

LEMMA ContentsType ==
  ASSUME TypeOK, RingInv
  PROVE  /\ size \in Nat
         /\ Contents \in [1 .. size -> Items]
         /\ Contents \in Seq(Items)
         /\ Len(Contents) = size
         /\ \A k \in 1 .. size : Contents[k] = slots[Place(k - 1)]
<1>1. size \in Nat
  BY QueueAssumption DEF TypeOK
<1>2. \A k \in 1 .. size : k - 1 \in 0 .. (size - 1)
  BY <1>1
<1>3. Contents \in [1 .. size -> Items]
  BY <1>1, <1>2 DEF Contents, RingInv
<1>4. QED
  BY <1>1, <1>3, SeqOf DEF Contents

(* The same after a step, with the new places. *)
LEMMA ContentsNext ==
  ASSUME Inv'
  PROVE  /\ size' \in Nat
         /\ Contents' \in [1 .. size' -> Items]
         /\ Contents' \in Seq(Items)
         /\ Len(Contents') = size'
         /\ \A k \in 1 .. size' : Contents'[k] = slots'[(front' + (k - 1)) % Capacity]
<1>1. size' \in Nat
  BY QueueAssumption DEF Inv, TypeOK
<1>2. Contents' = [k \in 1 .. size' |-> slots'[(front' + (k - 1)) % Capacity]]
  BY DEF Contents, Place
<1>3. \A k \in 0 .. (size' - 1) : slots'[(front' + k) % Capacity] \in Items
  BY DEF Inv, RingInv, Place
<1>4. \A n \in Nat : \A k \in 1 .. n : k - 1 \in 0 .. (n - 1)
  OBVIOUS
<1>5. Contents' \in [1 .. size' -> Items]
  BY <1>1, <1>2, <1>3, <1>4
<1>6. QED
  BY <1>1, <1>2, <1>5, SeqOf

LEMMA PushPuts ==
  ASSUME Inv, Inv', NEW x \in Items, Push(x)
  PROVE  Queue!Put(x)
<1>1. size \in Nat /\ size' = size + 1 /\ front' = front /\ size < Capacity
  BY QueueAssumption DEF Inv, TypeOK, Push
<1>2. ASSUME NEW k \in 1 .. size PROVE Contents'[k] = Contents[k]
  <2>1. k \in 1 .. size' /\ k - 1 \in 0 .. (size - 1)
    BY <1>1
  <2>2. Contents'[k] = slots'[Place(k - 1)]
    BY <1>1, <2>1, ContentsNext DEF Place
  <2>3. QED
    BY <2>1, <2>2, PushPlaces, ContentsType DEF Inv
<1>3. Contents'[size + 1] = x
  <2>1. Contents'[size + 1] = slots'[(front' + ((size + 1) - 1)) % Capacity]
    BY <1>1, ContentsNext
  <2>2. (size + 1) - 1 = size
    BY <1>1
  <2>3. QED
    BY <1>1, <2>1, <2>2, PushPlaces DEF Place
<1>4. Contents' = Append(Contents, x)
  BY <1>1, <1>2, <1>3, ContentsType, ContentsNext, AppendOf DEF Inv
<1>5. QED
  BY <1>1, <1>4, ContentsType DEF Queue!Put, Push, Store, Inv

LEMMA PushOverReplaces ==
  ASSUME Inv, Inv', NEW x \in Items, PushOver(x)
  PROVE  Queue!Replace(x)
<1>1. /\ size \in Nat /\ size' = size /\ size = Capacity /\ size > 0
      /\ overwrites /\ answer' = "ok"
  BY QueueAssumption, PushOverPlaces DEF Inv, TypeOK, PushOver, Store
<1>2. /\ Contents \in Seq(Items) /\ Len(Contents) = size /\ Contents # <<>>
      /\ Tail(Contents) \in Seq(Items) /\ Len(Tail(Contents)) = size - 1
      /\ \A k \in 1 .. (size - 1) : Tail(Contents)[k] = Contents[k + 1]
  BY <1>1, ContentsType, HeadTailProperties DEF Inv
<1>3. \A k \in 0 .. (size - 1) : (front' + k) % Capacity = Place(k + 1)
  BY PushOverPlaces DEF Place
<1>4. ASSUME NEW k \in 1 .. (size - 1) PROVE Contents'[k] = Tail(Contents)[k]
  <2>1. /\ k \in 1 .. size' /\ k - 1 \in 0 .. (size - 1) /\ k + 1 \in 1 .. size
        /\ (k - 1) + 1 = k /\ (k + 1) - 1 = k
    BY <1>1
  <2>2. Contents'[k] = slots'[Place(k)]
    BY <1>3, <2>1, ContentsNext
  <2>3. Contents[k + 1] = slots[Place(k)]
    BY <2>1, ContentsType DEF Inv
  <2>4. QED
    BY <1>2, <2>2, <2>3, PushOverPlaces
<1>5. Contents'[size] = x
  <2>1. size \in 1 .. size' /\ size - 1 \in 0 .. (size - 1) /\ (size - 1) + 1 = size
    BY <1>1
  <2>2. Contents'[size] = slots'[Place(size)]
    BY <1>3, <2>1, ContentsNext
  <2>3. QED
    BY <2>2, PushOverPlaces
<1>6. Contents' = Append(Tail(Contents), x)
  <2>1. Contents' \in [1 .. (Len(Tail(Contents)) + 1) -> Items]
    BY <1>1, <1>2, ContentsNext
  <2>2. Len(Tail(Contents)) + 1 = size
    BY <1>1, <1>2
  <2>3. QED
    BY <1>2, <1>4, <1>5, <2>1, <2>2, AppendOf
<1>7. QED
  BY <1>1, <1>2, <1>6 DEF Queue!Replace

LEMMA PopTakes ==
  ASSUME Inv, Inv', Pop
  PROVE  Queue!Take
<1>1. size \in Nat /\ size > 0 /\ size' = size - 1 /\ slots' = slots
  BY PopPlaces DEF Pop
<1>2. Contents \in Seq(Items) /\ Len(Contents) = size /\ Contents # <<>>
  BY <1>1, ContentsType DEF Inv
<1>3. \A k \in 0 .. (size - 1) : (front' + k) % Capacity = Place(k + 1)
  BY PopPlaces DEF Place
<1>4. ASSUME NEW k \in 1 .. (size - 1) PROVE Contents'[k] = Contents[k + 1]
  <2>1. /\ k \in 1 .. size' /\ k - 1 \in 0 .. (size - 1) /\ k + 1 \in 1 .. size
        /\ (k - 1) + 1 = k /\ (k + 1) - 1 = k
    BY <1>1
  <2>2. Contents'[k] = slots[Place(k)]
    BY <1>1, <1>3, <2>1, ContentsNext
  <2>3. QED
    BY <2>1, <2>2, ContentsType DEF Inv
<1>5. Contents' = Tail(Contents)
  BY <1>1, <1>2, <1>4, ContentsNext, TailOf
<1>6. answer' = Head(Contents)
  <2>1. 1 \in 1 .. size /\ 1 - 1 = 0
    BY <1>1
  <2>2. Contents[1] = slots[Place(0)]
    BY <2>1, ContentsType DEF Inv
  <2>3. QED
    BY <1>2, <2>2, PopPlaces DEF Pop
<1>7. QED
  BY <1>2, <1>5, <1>6 DEF Queue!Take

(* The two queues of the client are bounded first-in first-out queues, of any
   capacity: the command queue refuses a command when it is full and loses
   none, the event queue gives up exactly its oldest event. *)
THEOREM QueueImplemented == Spec => ImplementsQueue
<1>1. Init => Queue!Init
  BY QueueAssumption DEF Init, Queue!Init, Contents
<1>2. Inv /\ Inv' /\ [Next]_vars => [Queue!Next]_(Queue!queueVars)
  <2> SUFFICES ASSUME Inv, Inv', [Next]_vars
               PROVE  [Queue!Next]_(Queue!queueVars)
    OBVIOUS
  <2>0. overwrites' = overwrites
    BY DEF Next, vars
  <2>1. ASSUME NEW x \in Items, Push(x) PROVE Queue!Next
    BY <2>0, <2>1, PushPuts DEF Queue!Next
  <2>2. ASSUME NEW x \in Items, PushOver(x) PROVE Queue!Next
    BY <2>0, <2>2, PushOverReplaces DEF Queue!Next
  <2>3. CASE Pop
    BY <2>0, <2>3, PopTakes DEF Queue!Next
  <2>4. CASE PushRefused
    <3>1. Len(Contents) = Capacity
      BY <2>4, ContentsType, QueueAssumption DEF Inv, TypeOK, PushRefused
    <3>2. Contents' = Contents
      BY <2>4 DEF PushRefused, Contents, Place
    <3>3. QED
      BY <2>0, <2>4, <3>1, <3>2 DEF Queue!Next, Queue!Refuse, PushRefused
  <2>5. CASE PopNothing
    <3>1. Contents = <<>>
      BY <2>5, ContentsType DEF Inv, PopNothing
    <3>2. Contents' = Contents
      BY <2>5 DEF PopNothing, Contents, Place
    <3>3. QED
      BY <2>0, <2>5, <3>1, <3>2 DEF Queue!Next, Queue!TakeNothing, PopNothing
  <2>6. CASE UNCHANGED vars
    BY <2>6 DEF vars, Queue!queueVars, Contents, Place
  <2>7. QED
    BY <2>1, <2>2, <2>3, <2>4, <2>5, <2>6 DEF Next
<1>3. Inv /\ [Next]_vars => Inv'
  BY TypeStep, RingStep DEF Inv
<1>4. QED
  BY <1>1, <1>2, <1>3, InitInv, PTL DEF Spec, Queue!Spec, ImplementsQueue

=============================================================================
