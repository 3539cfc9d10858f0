------------------------- MODULE ChatServerStackProofs -------------------------
(***************************************************************************)
(* Theorems about the re-entrant removals of ChatServer: what the stack of *)
(* pending calls looks like at any depth, and what follows for the slots,  *)
(* the counters and the crash.                                             *)
(***************************************************************************)
EXTENDS ChatServerProofs

-----------------------------------------------------------------------------
(* The stack q of pending calls, read as the removals it is made of: each is
   represented by its last call, the clear of its slot.  dead is the set of
   slots whose socket has been found down. *)

Frames(q) == {k \in DOMAIN q : q[k].op = "clear"}

(* The removal at k is a second one of a client that is being removed further
   out already. *)
Again(q, k) ==
  k \in Frames(q) /\ \E j \in Frames(q) : k < j /\ q[j].slot = q[k].slot

(* Only active clients are being removed, and all but the innermost of them
   have logged in. *)
FramesActive(q) ==
  \A k \in Frames(q) : /\ active[q[k].slot]
                       /\ k > 1 => auth[q[k].slot]

(* A removal that started inside another one started because of a send that
   found its client gone. *)
InnerDead(q, dead) ==
  \A i, j \in Frames(q) : i < j => q[i].slot \in dead

(* What is pending inside a removal is the notices of departed users: each goes
   to authenticated clients only, and excludes the client whose removal is the
   innermost one around it. *)
NoticesInside(q) ==
  \A i \in DOMAIN q, j \in Frames(q) : i < j =>
    /\ q[i].op \in {"clear", "bcast"}
    /\ q[i].op = "bcast" =>
         /\ q[i].authOnly
         /\ \E o \in Frames(q) : i < o /\ o <= j /\ id[q[o].slot] = q[i].excl

(* Before a second removal of a client could be completed, a broadcast inside
   it has to get past the slot of a client that is dead as well and that is
   being removed further out. *)
Blocks(q, dead, p) ==
  /\ p \in DOMAIN q /\ q[p].op = "bcast"
  /\ \E t \in Recipients(q[p]) \cap dead, j \in Frames(q) :
       p < j /\ q[j].slot = t
  /\ \A k \in DOMAIN q : Again(q, k) => p < k

AgainBlocked(q, dead) ==
  (\E k \in DOMAIN q : Again(q, k)) => \E p \in DOMAIN q : Blocks(q, dead, p)

Nested(q, dead) == FramesActive(q) /\ InnerDead(q, dead) /\ NoticesInside(q)

Dead == {s \in Slots : sock[s] = "down"}

(* A client found dead is being removed. *)
DeadFramed ==
  phase # "crashed" =>
    \A s \in Active : sock[s] = "up" \/ \E k \in Frames(todo) : todo[k].slot = s

StackInv == Nested(todo, Dead) /\ AgainBlocked(todo, Dead) /\ DeadFramed

-----------------------------------------------------------------------------
(* Sequences of calls, element by element. *)

LEMMA StackType ==
  ASSUME NEW q \in Seq(Call)
  PROVE  /\ Len(q) \in Nat /\ DOMAIN q = 1 .. Len(q)
         /\ \A k \in DOMAIN q : q[k] \in Call
         /\ \A k \in Frames(q) : /\ k \in 1 .. Len(q)
                                 /\ q[k].slot \in Slots
                                 /\ q[k] = Clear(q[k].slot)
<1>1. Len(q) \in Nat /\ DOMAIN q = 1 .. Len(q) /\ \A k \in DOMAIN q : q[k] \in Call
  BY LenProperties, ElementOfSeq
<1>2. ASSUME NEW k \in Frames(q)
      PROVE  k \in 1 .. Len(q) /\ q[k].slot \in Slots /\ q[k] = Clear(q[k].slot)
  <2>1. q[k] \in Call /\ q[k].op = "clear" /\ k \in 1 .. Len(q)
    BY <1>1 DEF Frames
  <2>2. QED
    BY <2>1 DEF Call, BcastCall, Clear
<1>3. QED
  BY <1>1, <1>2

LEMMA PopAt ==
  ASSUME NEW q \in Seq(Call), q # <<>>
  PROVE  /\ Tail(q) \in Seq(Call)
         /\ Len(q) >= 1 /\ Len(Tail(q)) = Len(q) - 1
         /\ Head(q) = q[1]
         /\ \A i \in 1 .. (Len(q) - 1) : Tail(q)[i] = q[i + 1]
BY HeadTailProperties, LenProperties

LEMMA PushAt ==
  ASSUME NEW c \in Call, NEW rest \in Seq(Call)
  PROVE  /\ <<c>> \o rest \in Seq(Call)
         /\ Len(<<c>> \o rest) = Len(rest) + 1
         /\ (<<c>> \o rest)[1] = c
         /\ \A i \in 1 .. Len(rest) : (<<c>> \o rest)[i + 1] = rest[i]
<1>1. <<c>> \in Seq(Call) /\ Len(<<c>>) = 1 /\ <<c>>[1] = c /\ Len(rest) \in Nat
  BY LenProperties
<1>2. /\ <<c>> \o rest \in Seq(Call)
      /\ Len(<<c>> \o rest) = 1 + Len(rest)
      /\ \A i \in 1 .. (1 + Len(rest)) :
           (<<c>> \o rest)[i] = IF i <= 1 THEN <<c>>[i] ELSE rest[i - 1]
  BY <1>1, ConcatProperties
<1>3. QED
  BY <1>1, <1>2

LEMMA PushThreeAt ==
  ASSUME NEW a \in Call, NEW b \in Call, NEW c \in Call, NEW rest \in Seq(Call)
  PROVE  /\ <<a, b, c>> \o rest \in Seq(Call)
         /\ Len(<<a, b, c>> \o rest) = Len(rest) + 3
         /\ (<<a, b, c>> \o rest)[1] = a
         /\ (<<a, b, c>> \o rest)[2] = b
         /\ (<<a, b, c>> \o rest)[3] = c
         /\ \A i \in 1 .. Len(rest) : (<<a, b, c>> \o rest)[i + 3] = rest[i]
<1> DEFINE f == <<a, b, c>>
<1>1. f \in Seq(Call) /\ Len(f) = 3 /\ f[1] = a /\ f[2] = b /\ f[3] = c
  BY CallTuples
<1>2. Len(rest) \in Nat
  BY LenProperties
<1>3. /\ f \o rest \in Seq(Call)
      /\ Len(f \o rest) = 3 + Len(rest)
      /\ \A i \in 1 .. (3 + Len(rest)) :
           (f \o rest)[i] = IF i <= 3 THEN f[i] ELSE rest[i - 3]
  <2> HIDE DEF f
  <2>1. /\ f \o rest \in Seq(Call)
        /\ Len(f \o rest) = Len(f) + Len(rest)
        /\ \A i \in 1 .. (Len(f) + Len(rest)) :
             (f \o rest)[i] = IF i <= Len(f) THEN f[i] ELSE rest[i - Len(f)]
    BY <1>1, ConcatProperties
  <2>2. QED
    BY <1>1, <2>1
<1>4. QED
  <2> HIDE DEF f
  <2>1. QED
    BY <1>1, <1>2, <1>3 DEF f

-----------------------------------------------------------------------------
(* Stacks that share their lower part: q is r with n calls on top. *)

Above(q, r, n) ==
  /\ q \in Seq(Call) /\ r \in Seq(Call) /\ n \in Nat
  /\ Len(q) = Len(r) + n
  /\ \A i \in 1 .. Len(r) : q[i + n] = r[i]

LEMMA PopAbove ==
  ASSUME NEW q \in Seq(Call), q # <<>>
  PROVE  Above(q, Tail(q), 1)
<1>1. Len(q) \in Nat
  BY StackType
<1>2. QED
  BY <1>1, PopAt DEF Above

LEMMA AboveFrames ==
  ASSUME NEW q, NEW r, NEW n, Above(q, r, n)
  PROVE  /\ \A k \in Frames(r) : k + n \in Frames(q) /\ q[k + n] = r[k]
         /\ \A k \in Frames(q) : k > n => k - n \in Frames(r) /\ q[k] = r[k - n]
         /\ \A k \in DOMAIN r : Again(r, k) => Again(q, k + n)
         /\ \A k \in DOMAIN q : Again(q, k) /\ k > n => Again(r, k - n)
<1>1. /\ n \in Nat /\ Len(r) \in Nat
      /\ DOMAIN q = 1 .. (Len(r) + n) /\ DOMAIN r = 1 .. Len(r)
      /\ \A i \in 1 .. Len(r) : q[i + n] = r[i]
  BY StackType DEF Above
<1>2. ASSUME NEW k \in Frames(r)
      PROVE  k + n \in Frames(q) /\ q[k + n] = r[k]
  BY <1>1, <1>2 DEF Frames
<1>3. ASSUME NEW k \in Frames(q), k > n
      PROVE  k - n \in Frames(r) /\ q[k] = r[k - n]
  <2>1. k - n \in 1 .. Len(r) /\ (k - n) + n = k
    BY <1>1, <1>3 DEF Frames
  <2>2. QED
    BY <1>1, <1>3, <2>1 DEF Frames
<1>4. ASSUME NEW k \in DOMAIN r, Again(r, k)
      PROVE  Again(q, k + n)
  <2>1. PICK j \in Frames(r) : k < j /\ r[j].slot = r[k].slot
    BY <1>4 DEF Again
  <2>2. k \in Frames(r)
    BY <1>4 DEF Again
  <2>3. k + n < j + n
    BY <1>1, <2>1 DEF Frames
  <2>4. QED
    BY <1>2, <2>1, <2>2, <2>3 DEF Again
<1>5. ASSUME NEW k \in DOMAIN q, Again(q, k), k > n
      PROVE  Again(r, k - n)
  <2>1. PICK j \in Frames(q) : k < j /\ q[j].slot = q[k].slot
    BY <1>5 DEF Again
  <2>2. k \in Frames(q)
    BY <1>5 DEF Again
  <2>3. j > n /\ k - n < j - n
    BY <1>1, <1>5, <2>1 DEF Frames
  <2>4. QED
    BY <1>3, <1>5, <2>1, <2>2, <2>3 DEF Again
<1>6. QED
  BY <1>2, <1>3, <1>4, <1>5

(* What is left of a stack keeps the shape of its removals. *)
LEMMA BelowNested ==
  ASSUME NEW q, NEW r, NEW n, Above(q, r, n), NEW dead, Nested(q, dead)
  PROVE  Nested(r, dead)
<1>1. /\ n \in Nat /\ Len(r) \in Nat
      /\ DOMAIN q = 1 .. (Len(r) + n) /\ DOMAIN r = 1 .. Len(r)
      /\ \A i \in 1 .. Len(r) : q[i + n] = r[i]
  BY StackType DEF Above
<1>2. /\ \A k \in Frames(r) : k \in 1 .. Len(r) /\ k + n \in Frames(q) /\ q[k + n] = r[k]
      /\ \A k \in Frames(q) : k > n => k - n \in Frames(r) /\ q[k] = r[k - n]
  <2>1. \A k \in Frames(r) : k \in 1 .. Len(r)
    BY <1>1 DEF Frames
  <2>2. QED
    BY <2>1, AboveFrames
<1>3. FramesActive(r)
  <2>1. ASSUME NEW k \in Frames(r)
        PROVE  active[r[k].slot] /\ (k > 1 => auth[r[k].slot])
    <3>1. k + n \in Frames(q) /\ q[k + n] = r[k] /\ (k > 1 => k + n > 1)
      BY <1>1, <1>2
    <3>2. QED
      BY <3>1 DEF Nested, FramesActive
  <2>2. QED
    BY <2>1 DEF FramesActive
<1>4. InnerDead(r, dead)
  <2>1. ASSUME NEW i \in Frames(r), NEW j \in Frames(r), i < j
        PROVE  r[i].slot \in dead
    <3>1. /\ i + n \in Frames(q) /\ j + n \in Frames(q) /\ q[i + n] = r[i]
          /\ i + n < j + n
      BY <1>1, <1>2, <2>1
    <3>2. QED
      BY <3>1 DEF Nested, InnerDead
  <2>2. QED
    BY <2>1 DEF InnerDead
<1>5. NoticesInside(r)
  <2>1. ASSUME NEW i \in DOMAIN r, NEW j \in Frames(r), i < j
        PROVE  /\ r[i].op \in {"clear", "bcast"}
               /\ r[i].op = "bcast" =>
                    /\ r[i].authOnly
                    /\ \E o \in Frames(r) : i < o /\ o <= j /\ id[r[o].slot] = r[i].excl
    <3>1. /\ i + n \in DOMAIN q /\ j + n \in Frames(q) /\ q[i + n] = r[i]
          /\ i + n < j + n /\ i \in Nat /\ j \in Nat
      BY <1>1, <1>2, <2>1
    <3>2. /\ r[i].op \in {"clear", "bcast"}
          /\ r[i].op = "bcast" =>
               /\ r[i].authOnly
               /\ \E o \in Frames(q) : i + n < o /\ o <= j + n /\ id[q[o].slot] = r[i].excl
      BY <3>1 DEF Nested, NoticesInside
    <3>3. ASSUME NEW o \in Frames(q), i + n < o, o <= j + n, id[q[o].slot] = r[i].excl
          PROVE  \E p \in Frames(r) : i < p /\ p <= j /\ id[r[p].slot] = r[i].excl
      <4>1. o \in Nat /\ o > n
        BY <1>1, <3>1, <3>3 DEF Frames
      <4>2. o - n \in Frames(r) /\ q[o] = r[o - n] /\ i < o - n /\ o - n <= j
        BY <1>1, <1>2, <3>1, <3>3, <4>1
      <4>3. QED
        BY <3>3, <4>2
    <3>4. QED
      BY <3>2, <3>3
  <2>2. QED
    BY <2>1 DEF NoticesInside
<1>6. QED
  BY <1>3, <1>4, <1>5 DEF Nested

(* Taking a call off the stack keeps second removals blocked when it was not
   the call that blocked them. *)
LEMMA BelowBlocked ==
  ASSUME NEW q, NEW r, Above(q, r, 1), NEW dead,
         AgainBlocked(q, dead), ~Blocks(q, dead, 1)
  PROVE  AgainBlocked(r, dead)
<1>1. /\ Len(r) \in Nat
      /\ DOMAIN q = 1 .. (Len(r) + 1) /\ DOMAIN r = 1 .. Len(r)
      /\ \A i \in 1 .. Len(r) : q[i + 1] = r[i]
  BY StackType DEF Above
<1>2. SUFFICES ASSUME NEW k0 \in DOMAIN r, Again(r, k0)
               PROVE  \E p \in DOMAIN r : Blocks(r, dead, p)
  BY DEF AgainBlocked
<1>3. Again(q, k0 + 1) /\ k0 + 1 \in DOMAIN q
  BY <1>1, <1>2, AboveFrames
<1>4. PICK p \in DOMAIN q : Blocks(q, dead, p)
  BY <1>3 DEF AgainBlocked
<1>5. p - 1 \in DOMAIN r /\ p > 1 /\ q[p] = r[p - 1]
  <2>1. p # 1
    BY <1>4
  <2>2. p - 1 \in 1 .. Len(r) /\ (p - 1) + 1 = p
    BY <1>1, <2>1
  <2>3. QED
    BY <1>1, <2>2
<1>6. PICK t \in Recipients(q[p]) \cap dead, j \in Frames(q) : p < j /\ q[j].slot = t
  BY <1>4 DEF Blocks
<1>7. j - 1 \in Frames(r) /\ p - 1 < j - 1 /\ r[j - 1].slot = t
  <2>1. j > 1 /\ p - 1 < j - 1
    BY <1>1, <1>5, <1>6 DEF Frames
  <2>2. QED
    BY <1>6, <2>1, AboveFrames
<1>8. ASSUME NEW k \in DOMAIN r, Again(r, k)
      PROVE  p - 1 < k
  <2>1. Again(q, k + 1) /\ k + 1 \in DOMAIN q
    BY <1>1, <1>8, AboveFrames
  <2>2. p < k + 1
    BY <1>4, <2>1 DEF Blocks
  <2>3. QED
    BY <1>1, <1>5, <2>2
<1>9. r[p - 1].op = "bcast" /\ t \in Recipients(r[p - 1]) \cap dead
  BY <1>4, <1>5, <1>6 DEF Blocks
<1>10. Blocks(r, dead, p - 1)
  BY <1>5, <1>7, <1>8, <1>9 DEF Blocks
<1>11. QED
  BY <1>5, <1>10

(* One more client may be found dead. *)
LEMMA MoreDead ==
  ASSUME NEW q, NEW dead, NEW more, dead \subseteq more
  PROVE  /\ Nested(q, dead) => Nested(q, more)
         /\ AgainBlocked(q, dead) => AgainBlocked(q, more)
<1>1. Nested(q, dead) => Nested(q, more)
  BY DEF Nested, InnerDead
<1>2. ASSUME NEW p, Blocks(q, dead, p) PROVE Blocks(q, more, p)
  BY <1>2 DEF Blocks
<1>3. QED
  BY <1>1, <1>2 DEF AgainBlocked

-----------------------------------------------------------------------------
(* What server_remove_client puts on the stack. *)

Notice(c, m) == c.op = "bcast" /\ c.authOnly /\ c.excl = id[m] /\ c.next = 1

(* q is r with the removal of an authenticated client, or of another one. *)
RemovesMember(q, r, m) ==
  /\ Above(q, r, 3) /\ Notice(q[1], m) /\ Notice(q[2], m)
  /\ q[3].op = "clear" /\ q[3].slot = m

RemovesGuest(q, r, m) == Above(q, r, 1) /\ q[1].op = "clear" /\ q[1].slot = m

LEMMA RemovalStack ==
  ASSUME TypeOK, UniqueUsernames, NEW m \in Active, NEW r \in Seq(Call)
  PROVE  IF auth[m] THEN RemovesMember(RemoveCalls(m) \o r, r, m)
                    ELSE RemovesGuest(RemoveCalls(m) \o r, r, m)
<1>1. m \in Slots /\ Clear(m) \in Call /\ Clear(m).op = "clear" /\ Clear(m).slot = m
  BY CallTypes DEF Active, Clear, Call
<1>2. CASE auth[m]
  <2>1. m \in Authenticated
    BY <1>2 DEF Authenticated
  <2>2. username[m] # NoName /\ username[m] \in Names /\ id[m] \in Ids
    BY <1>1, <2>1 DEF UniqueUsernames, TypeOK
  <2> DEFINE a == Bcast("system", username[m], id[m], TRUE)
             b == Bcast("left", username[m], id[m], TRUE)
  <2>3. "system" \in Notices /\ "left" \in Notices /\ TRUE \in BOOLEAN
    BY DEF Notices
  <2>4. a \in Call /\ b \in Call
    BY <1>1, <2>2, <2>3, CallTypes
  <2>5. Notice(a, m) /\ Notice(b, m)
    BY DEF Bcast, Notice
  <2>6. RemoveCalls(m) = <<a, b, Clear(m)>>
    BY <1>2, <2>2 DEF RemoveCalls
  <2>7. RemovesMember(<<a, b, Clear(m)>> \o r, r, m)
    <3> HIDE DEF a, b
    <3>1. /\ <<a, b, Clear(m)>> \o r \in Seq(Call)
          /\ Len(<<a, b, Clear(m)>> \o r) = Len(r) + 3
          /\ (<<a, b, Clear(m)>> \o r)[1] = a
          /\ (<<a, b, Clear(m)>> \o r)[2] = b
          /\ (<<a, b, Clear(m)>> \o r)[3] = Clear(m)
          /\ \A i \in 1 .. Len(r) : (<<a, b, Clear(m)>> \o r)[i + 3] = r[i]
      BY <1>1, <2>4, PushThreeAt
    <3>2. Above(<<a, b, Clear(m)>> \o r, r, 3)
      BY <3>1 DEF Above
    <3>3. QED
      BY <1>1, <2>5, <3>1, <3>2 DEF RemovesMember
  <2>8. QED
    BY <1>2, <2>6, <2>7
<1>3. CASE ~auth[m]
  <2>1. RemoveCalls(m) = <<Clear(m)>>
    BY <1>3 DEF RemoveCalls
  <2>2. RemovesGuest(<<Clear(m)>> \o r, r, m)
    BY <1>1, PushAt DEF RemovesGuest, Above
  <2>3. QED
    BY <1>3, <2>1, <2>2
<1>4. QED
  BY <1>2, <1>3

(* A removal that is not inside another one has the shape of a removal. *)
LEMMA OutermostRemoval ==
  ASSUME NEW q, NEW r, NEW m \in Active, NEW dead, Frames(r) = {},
         IF auth[m] THEN RemovesMember(q, r, m) ELSE RemovesGuest(q, r, m)
  PROVE  /\ Nested(q, dead) /\ AgainBlocked(q, dead)
         /\ \E k \in Frames(q) : q[k].slot = m
<1>1. PICK n \in {1, 3} :
        /\ Above(q, r, n) /\ q[n].op = "clear" /\ q[n].slot = m
        /\ n > 1 => auth[m]
        /\ \A i \in 1 .. (n - 1) : Notice(q[i], m)
  <2>1. CASE auth[m]
    BY <2>1 DEF RemovesMember
  <2>2. CASE ~auth[m]
    BY <2>2 DEF RemovesGuest
  <2>3. QED
    BY <2>1, <2>2
<1>2. /\ Len(r) \in Nat /\ DOMAIN q = 1 .. (Len(r) + n)
  BY <1>1, StackType DEF Above
<1>3. Frames(q) = {n}
  <2>1. n \in Frames(q)
    BY <1>1, <1>2 DEF Frames
  <2>2. ASSUME NEW k \in Frames(q)
        PROVE  k = n
    <3>1. ~(k > n)
      BY <1>1, AboveFrames
    <3>2. k \in 1 .. (n - 1) => q[k].op = "bcast"
      BY <1>1 DEF Notice
    <3>3. k \in 1 .. (Len(r) + n) /\ q[k].op = "clear"
      BY <1>2 DEF Frames
    <3>4. QED
      BY <1>1, <3>1, <3>2, <3>3
  <2>3. QED
    BY <2>1, <2>2
<1>4. FramesActive(q)
  BY <1>1, <1>3 DEF FramesActive, Active
<1>5. InnerDead(q, dead)
  BY <1>1, <1>3 DEF InnerDead
<1>6. NoticesInside(q)
  <2>1. ASSUME NEW i \in DOMAIN q, i < n
        PROVE  /\ q[i].op = "bcast" /\ q[i].authOnly
               /\ id[q[n].slot] = q[i].excl
    <3>1. i \in 1 .. (n - 1)
      BY <1>1, <1>2, <2>1
    <3>2. QED
      BY <1>1, <3>1 DEF Notice
  <2>2. QED
    BY <1>1, <1>3, <2>1 DEF NoticesInside
<1>7. AgainBlocked(q, dead)
  BY <1>1, <1>3 DEF AgainBlocked, Again
<1>8. QED
  BY <1>1, <1>3, <1>4, <1>5, <1>6, <1>7 DEF Nested

(* A removal inside others: its client is dead and logged in, and the broadcast
   that found it dead, now on top of r, is about another one. *)
Inside(r, m, dead) ==
  /\ auth[m] /\ m \in dead
  /\ Nested(r, dead) /\ 1 \notin Frames(r)
  /\ \A j \in Frames(r) : \E o \in Frames(r) : o <= j /\ id[r[o].slot] # id[m]
  /\ AgainBlocked(r, dead) \/ \E j \in Frames(r) : r[j].slot = m

LEMMA InnerRemovalFrames ==
  ASSUME NEW q, NEW r, NEW m, RemovesMember(q, r, m)
  PROVE  /\ Len(r) \in Nat /\ DOMAIN q = 1 .. (Len(r) + 3) /\ DOMAIN r = 1 .. Len(r)
         /\ 3 \in Frames(q) /\ \A k \in Frames(q) : k >= 3
         /\ \A k \in Frames(q) : k # 3 => k - 3 \in Frames(r) /\ q[k] = r[k - 3]
         /\ \A k \in Frames(r) : k + 3 \in Frames(q) /\ q[k + 3] = r[k]
<1>1. Above(q, r, 3) /\ q[3].op = "clear" /\ q[1].op = "bcast" /\ q[2].op = "bcast"
  BY DEF RemovesMember, Notice
<1>2. Len(r) \in Nat /\ DOMAIN q = 1 .. (Len(r) + 3) /\ DOMAIN r = 1 .. Len(r)
  BY <1>1, StackType DEF Above
<1>3. 3 \in Frames(q)
  BY <1>1, <1>2 DEF Frames
<1>4. \A k \in Frames(q) : k >= 3
  <2>1. ASSUME NEW k \in Frames(q)
        PROVE  k >= 3
    <3>1. k \in 1 .. (Len(r) + 3) /\ q[k].op = "clear"
      BY <1>2 DEF Frames
    <3>2. k # 1 /\ k # 2
      BY <1>1, <3>1
    <3>3. QED
      BY <3>1, <3>2
  <2>2. QED
    BY <2>1
<1>5. \A k \in Frames(q) : k # 3 => k > 3
  <2>1. \A k \in Frames(q) : k \in Int
    BY <1>2 DEF Frames
  <2>2. QED
    BY <1>4, <2>1
<1>6. QED
  BY <1>1, <1>2, <1>3, <1>4, <1>5, AboveFrames

LEMMA InnerRemovalNested ==
  ASSUME NEW q, NEW r, NEW m \in Active, NEW dead,
         RemovesMember(q, r, m), Inside(r, m, dead)
  PROVE  Nested(q, dead)
<1>1. /\ Len(r) \in Nat /\ DOMAIN q = 1 .. (Len(r) + 3) /\ DOMAIN r = 1 .. Len(r)
      /\ 3 \in Frames(q) /\ \A k \in Frames(q) : k >= 3
      /\ \A k \in Frames(q) : k # 3 => k - 3 \in Frames(r) /\ q[k] = r[k - 3]
      /\ \A k \in Frames(r) : k + 3 \in Frames(q) /\ q[k + 3] = r[k]
  BY InnerRemovalFrames
<1>2. \A k \in Frames(q) : k \in 1 .. (Len(r) + 3)
  BY <1>1 DEF Frames
<1>3. /\ Notice(q[1], m) /\ Notice(q[2], m) /\ q[3].op = "clear" /\ q[3].slot = m
      /\ \A i \in 1 .. Len(r) : q[i + 3] = r[i]
  BY DEF RemovesMember, Above
<1>4. FramesActive(q)
  <2>1. ASSUME NEW k \in Frames(q), k # 3
        PROVE  active[q[k].slot] /\ auth[q[k].slot]
    <3>1. k - 3 \in Frames(r) /\ q[k] = r[k - 3] /\ k - 3 > 1
      <4>1. k - 3 # 1
        BY <1>1, <2>1 DEF Inside
      <4>2. QED
        BY <1>1, <1>2, <2>1, <4>1
    <3>2. QED
      BY <3>1 DEF Inside, Nested, FramesActive
  <2>2. active[m] /\ auth[m]
    BY DEF Active, Inside
  <2>3. QED
    BY <1>3, <2>1, <2>2 DEF FramesActive
<1>5. InnerDead(q, dead)
  <2>1. ASSUME NEW i \in Frames(q), NEW j \in Frames(q), i < j
        PROVE  q[i].slot \in dead
    <3>1. CASE i = 3
      BY <1>3, <3>1 DEF Inside
    <3>2. CASE i # 3
      <4>1. /\ i - 3 \in Frames(r) /\ q[i] = r[i - 3]
            /\ j - 3 \in Frames(r) /\ i - 3 < j - 3
        <5>1. j # 3
          BY <1>1, <1>2, <2>1
        <5>2. QED
          BY <1>1, <1>2, <2>1, <3>2, <5>1
      <4>2. QED
        BY <4>1 DEF Inside, Nested, InnerDead
    <3>3. QED
      BY <3>1, <3>2
  <2>2. QED
    BY <2>1 DEF InnerDead
<1>6. NoticesInside(q)
  <2>1. ASSUME NEW i \in DOMAIN q, NEW j \in Frames(q), i < j
        PROVE  /\ q[i].op \in {"clear", "bcast"}
               /\ q[i].op = "bcast" =>
                    /\ q[i].authOnly
                    /\ \E o \in Frames(q) : i < o /\ o <= j /\ id[q[o].slot] = q[i].excl
    <3>1. CASE i = 3
      BY <1>3, <3>1
    <3>2. CASE i < 3
      <4>1. i = 1 \/ i = 2
        BY <1>1, <3>2
      <4>2. q[i].op = "bcast" /\ q[i].authOnly /\ q[i].excl = id[m]
        BY <1>3, <4>1 DEF Notice
      <4>3. i < 3 /\ 3 <= j /\ id[q[3].slot] = q[i].excl
        BY <1>1, <1>3, <3>2, <4>2
      <4>4. QED
        BY <1>1, <4>2, <4>3
    <3>3. CASE i > 3
      <4>1. /\ i - 3 \in DOMAIN r /\ q[i] = r[i - 3]
            /\ j - 3 \in Frames(r) /\ i - 3 < j - 3
        <5>1. j # 3
          BY <1>1, <1>2, <2>1, <3>3
        <5>2. i - 3 \in 1 .. Len(r) /\ (i - 3) + 3 = i /\ i - 3 < j - 3
          BY <1>1, <1>2, <2>1, <3>3
        <5>3. QED
          BY <1>1, <1>3, <5>1, <5>2
      <4>2. /\ q[i].op \in {"clear", "bcast"}
            /\ q[i].op = "bcast" =>
                 /\ q[i].authOnly
                 /\ \E o \in Frames(r) : i - 3 < o /\ o <= j - 3 /\ id[r[o].slot] = q[i].excl
        BY <4>1 DEF Inside, Nested, NoticesInside
      <4>3. ASSUME NEW o \in Frames(r), i - 3 < o, o <= j - 3, id[r[o].slot] = q[i].excl
            PROVE  \E p \in Frames(q) : i < p /\ p <= j /\ id[q[p].slot] = q[i].excl
        <5>1. o \in Int /\ i \in Int /\ j \in Int
          BY <1>1, <1>2 DEF Frames
        <5>2. i < o + 3 /\ o + 3 <= j
          BY <4>3, <5>1
        <5>3. QED
          BY <1>1, <4>3, <5>2
      <4>4. QED
        BY <4>2, <4>3
    <3>4. QED
      BY <1>1, <3>1, <3>2, <3>3
  <2>2. QED
    BY <2>1 DEF NoticesInside
<1>7. QED
  BY <1>4, <1>5, <1>6 DEF Nested

LEMMA InnerRemovalBlocked ==
  ASSUME NEW q, NEW r, NEW m \in Active, NEW dead, Active \subseteq Slots,
         RemovesMember(q, r, m), Inside(r, m, dead)
  PROVE  AgainBlocked(q, dead)
<1>1. /\ Len(r) \in Nat /\ DOMAIN q = 1 .. (Len(r) + 3) /\ DOMAIN r = 1 .. Len(r)
      /\ 3 \in Frames(q) /\ \A k \in Frames(q) : k >= 3
      /\ \A k \in Frames(q) : k # 3 => k - 3 \in Frames(r) /\ q[k] = r[k - 3]
      /\ \A k \in Frames(r) : k + 3 \in Frames(q) /\ q[k + 3] = r[k]
  BY InnerRemovalFrames
<1>2. /\ Notice(q[2], m) /\ q[3].slot = m /\ Above(q, r, 3)
      /\ \A i \in 1 .. Len(r) : q[i + 3] = r[i]
  BY DEF RemovesMember, Above
<1>3. /\ \A k \in Frames(r) : k \in 1 .. Len(r)
      /\ \A k \in Frames(q) : k \in 1 .. (Len(r) + 3)
      /\ \A k \in DOMAIN q : Again(q, k) => k \in Frames(q)
  BY <1>1 DEF Frames, Again
<1>4. CASE \E j \in Frames(r) : r[j].slot = m
  <2>1. PICK j \in Frames(r) : r[j].slot = m
    BY <1>4
  <2>2. PICK o \in Frames(r) : o <= j /\ id[r[o].slot] # id[m]
    BY <2>1 DEF Inside
  <2> DEFINE t == r[o].slot
  <2>3. o < j
    <3>1. o # j
      BY <2>1, <2>2
    <3>2. QED
      BY <1>3, <2>1, <2>2, <3>1
  <2>4. t \in dead
    BY <2>1, <2>2, <2>3 DEF Inside, Nested, InnerDead
  <2>5. active[t] /\ auth[t] /\ t \in Slots
    <3>1. o > 1
      BY <1>3, <2>2 DEF Inside
    <3>2. t \in Slots
      BY <2>2, StackType DEF RemovesMember, Above
    <3>3. QED
      BY <2>2, <3>1, <3>2 DEF Inside, Nested, FramesActive
  <2>6. t \in Recipients(q[2])
    BY <1>2, <2>2, <2>5 DEF Notice, Recipients, Active, Slots
  <2>7. o + 3 \in Frames(q) /\ q[o + 3].slot = t /\ 2 < o + 3
    BY <1>1, <1>3, <2>2
  <2>8. \A k \in DOMAIN q : Again(q, k) => 2 < k
    BY <1>1, <1>3
  <2>9. 2 \in DOMAIN q /\ q[2].op = "bcast"
    BY <1>1, <1>2 DEF Notice
  <2>10. Blocks(q, dead, 2)
    BY <2>4, <2>6, <2>7, <2>8, <2>9 DEF Blocks
  <2>11. QED
    BY <2>9, <2>10 DEF AgainBlocked
<1>5. CASE \A j \in Frames(r) : r[j].slot # m
  <2>1. SUFFICES ASSUME NEW k0 \in DOMAIN q, Again(q, k0)
                 PROVE  \E p \in DOMAIN q : Blocks(q, dead, p)
    BY DEF AgainBlocked
  <2>2. ASSUME NEW k \in DOMAIN q, Again(q, k)
        PROVE  k > 3 /\ k - 3 \in DOMAIN r /\ Again(r, k - 3)
    <3>1. k \in Frames(q)
      BY <2>2 DEF Again
    <3>2. k # 3
      <4>1. SUFFICES ASSUME k = 3 PROVE FALSE
        OBVIOUS
      <4>2. PICK j \in Frames(q) : k < j /\ q[j].slot = q[k].slot
        BY <2>2 DEF Again
      <4>3. j # 3
        BY <4>1, <4>2
      <4>4. j - 3 \in Frames(r) /\ q[j] = r[j - 3]
        BY <1>1, <4>2, <4>3
      <4>5. r[j - 3].slot = m
        BY <1>2, <4>1, <4>2, <4>4
      <4>6. QED
        BY <1>5, <4>4, <4>5
    <3>3. k > 3 /\ k - 3 \in DOMAIN r
      BY <1>1, <1>3, <3>1, <3>2
    <3>4. QED
      BY <1>2, <2>2, <3>3, AboveFrames
  <2>3. AgainBlocked(r, dead)
    BY <1>5 DEF Inside
  <2>4. PICK p \in DOMAIN r : Blocks(r, dead, p)
    BY <2>1, <2>2, <2>3 DEF AgainBlocked
  <2>5. PICK t \in Recipients(r[p]) \cap dead, j \in Frames(r) : p < j /\ r[j].slot = t
    BY <2>4 DEF Blocks
  <2>6. p + 3 \in DOMAIN q /\ q[p + 3] = r[p]
    BY <1>1, <1>2
  <2>7. j + 3 \in Frames(q) /\ q[j + 3].slot = t /\ p + 3 < j + 3
    BY <1>1, <1>3, <2>5
  <2>8. ASSUME NEW k \in DOMAIN q, Again(q, k)
        PROVE  p + 3 < k
    <3>1. k - 3 \in DOMAIN r /\ Again(r, k - 3)
      BY <2>2, <2>8
    <3>2. p < k - 3
      BY <2>4, <3>1 DEF Blocks
    <3>3. k \in Int /\ p \in Int
      BY <1>1
    <3>4. QED
      BY <3>2, <3>3
  <2>9. Blocks(q, dead, p + 3)
    <3>1. q[p + 3].op = "bcast" /\ t \in Recipients(q[p + 3]) \cap dead
      BY <2>4, <2>5, <2>6 DEF Blocks
    <3>2. QED
      BY <2>6, <2>7, <2>8, <3>1 DEF Blocks
  <2>10. QED
    BY <2>6, <2>9
<1>6. QED
  BY <1>4, <1>5

(* The broadcast on top of q moves on past slot m: the stack it becomes is r. *)
Advances(q, r, m) ==
  /\ q \in Seq(Call) /\ q # <<>> /\ q[1].op = "bcast"
  /\ r = <<[q[1] EXCEPT !.next = m + 1]>> \o Tail(q)

LEMMA AdvanceAt ==
  ASSUME NEW q, NEW r, NEW m \in Slots, Advances(q, r, m)
  PROVE  /\ r \in Seq(Call) /\ Len(r) = Len(q) /\ 1 \in DOMAIN q
         /\ DOMAIN r = DOMAIN q
         /\ \A i \in DOMAIN q : i # 1 => r[i] = q[i]
         /\ r[1].op = "bcast" /\ r[1].excl = q[1].excl
         /\ r[1].authOnly = q[1].authOnly /\ r[1].next = m + 1
         /\ Frames(r) = Frames(q) /\ 1 \notin Frames(r)
         /\ \A k \in Frames(q) : r[k] = q[k]
<1> DEFINE c == [q[1] EXCEPT !.next = m + 1]
<1>1. /\ q \in Seq(Call) /\ q # <<>> /\ Len(q) \in Nat /\ DOMAIN q = 1 .. Len(q)
      /\ Tail(q) \in Seq(Call) /\ Len(q) >= 1 /\ Len(Tail(q)) = Len(q) - 1
      /\ \A i \in 1 .. (Len(q) - 1) : Tail(q)[i] = q[i + 1]
  BY StackType, PopAt DEF Advances
<1>2. q[1] \in Call /\ q[1].op = "bcast"
  BY <1>1, StackType DEF Advances
<1>3. q[1] \in BcastCall(Notices, Names)
        \cup BcastCall(Kinds \ Notices, Names \cup {NoName})
  BY <1>2 DEF Call
<1>4. m + 1 \in 1 .. (MaxSlots + 1)
  BY ConfigAssumption DEF Slots
<1>5. /\ c \in Call /\ c.op = "bcast" /\ c.excl = q[1].excl
      /\ c.authOnly = q[1].authOnly /\ c.next = m + 1
  BY <1>3, <1>4 DEF BcastCall, Call
<1>6. r = <<c>> \o Tail(q)
  BY DEF Advances
<1> HIDE DEF c
<1>7. /\ r \in Seq(Call) /\ Len(r) = Len(Tail(q)) + 1
      /\ r[1] = c
      /\ \A i \in 1 .. Len(Tail(q)) : r[i + 1] = Tail(q)[i]
  BY <1>1, <1>5, <1>6, PushAt
<1>8. Len(r) = Len(q) /\ DOMAIN r = 1 .. Len(q) /\ 1 \in DOMAIN q
  BY <1>1, <1>7, StackType
<1>9. ASSUME NEW i \in DOMAIN q, i # 1
      PROVE  r[i] = q[i]
  <2>1. i - 1 \in 1 .. (Len(q) - 1) /\ (i - 1) + 1 = i
    BY <1>1, <1>9
  <2>2. r[i] = Tail(q)[i - 1] /\ Tail(q)[i - 1] = q[i]
    BY <1>1, <1>7, <2>1
  <2>3. QED
    BY <2>2
<1>10. Frames(r) = Frames(q) /\ 1 \notin Frames(r)
  BY <1>1, <1>2, <1>5, <1>7, <1>8, <1>9 DEF Frames
<1>11. \A k \in Frames(q) : r[k] = q[k]
  BY <1>9, <1>10 DEF Frames
<1>12. QED
  BY <1>1, <1>5, <1>7, <1>8, <1>9, <1>10, <1>11

LEMMA AdvanceNested ==
  ASSUME NEW q, NEW r, NEW m \in Slots, Advances(q, r, m),
         NEW dead, Nested(q, dead)
  PROVE  Nested(r, dead)
<1>1. /\ r \in Seq(Call) /\ 1 \in DOMAIN q /\ DOMAIN r = DOMAIN q
      /\ \A i \in DOMAIN q : i # 1 => r[i] = q[i]
      /\ r[1].op = "bcast" /\ r[1].excl = q[1].excl
      /\ r[1].authOnly = q[1].authOnly
      /\ Frames(r) = Frames(q) /\ 1 \notin Frames(r)
      /\ \A k \in Frames(q) : r[k] = q[k]
  BY AdvanceAt
<1>2. FramesActive(r) /\ InnerDead(r, dead)
  BY <1>1 DEF Nested, FramesActive, InnerDead
<1>3. \A i \in DOMAIN q : /\ r[i].op = q[i].op
                          /\ r[i].op = "bcast" =>
                               r[i].excl = q[i].excl /\ r[i].authOnly = q[i].authOnly
  BY <1>1 DEF Advances
<1>4. NoticesInside(r)
  <2>1. ASSUME NEW i \in DOMAIN r, NEW j \in Frames(r), i < j
        PROVE  /\ r[i].op \in {"clear", "bcast"}
               /\ r[i].op = "bcast" =>
                    /\ r[i].authOnly
                    /\ \E o \in Frames(r) : i < o /\ o <= j /\ id[r[o].slot] = r[i].excl
    <3>1. /\ q[i].op \in {"clear", "bcast"}
          /\ q[i].op = "bcast" =>
               /\ q[i].authOnly
               /\ \E o \in Frames(q) : i < o /\ o <= j /\ id[q[o].slot] = q[i].excl
      BY <1>1, <2>1 DEF Nested, NoticesInside
    <3>2. QED
      BY <1>1, <1>3, <2>1, <3>1
  <2>2. QED
    BY <2>1 DEF NoticesInside
<1>5. QED
  BY <1>2, <1>4 DEF Nested

(* It still blocks what it blocked, unless m is a client it blocked with. *)
LEMMA AdvanceBlocked ==
  ASSUME NEW q, NEW r, NEW m \in Recipients(q[1]), Advances(q, r, m),
         \A t \in Recipients(q[1]) : m <= t,
         NEW dead, AgainBlocked(q, dead),
         m \notin dead \/ \A k \in Frames(q) : q[k].slot # m
  PROVE  AgainBlocked(r, dead)
<1>1. m \in Slots /\ Active \subseteq Slots
  BY DEF Recipients, Active
<1>2. /\ r \in Seq(Call) /\ 1 \in DOMAIN q /\ DOMAIN r = DOMAIN q
      /\ \A i \in DOMAIN q : i # 1 => r[i] = q[i]
      /\ r[1].op = "bcast" /\ r[1].excl = q[1].excl
      /\ r[1].authOnly = q[1].authOnly /\ r[1].next = m + 1
      /\ Frames(r) = Frames(q)
      /\ \A k \in Frames(q) : r[k] = q[k]
  BY <1>1, AdvanceAt
<1>3. \A k : Again(r, k) <=> Again(q, k)
  BY <1>2 DEF Again
<1>4. ASSUME NEW p \in DOMAIN q, Blocks(q, dead, p)
      PROVE  Blocks(r, dead, p)
  <2>1. PICK t \in Recipients(q[p]) \cap dead, j \in Frames(q) : p < j /\ q[j].slot = t
    BY <1>4 DEF Blocks
  <2>2. t \in Recipients(r[p]) /\ r[p].op = "bcast"
    <3>1. CASE p = 1
      <4>1. t # m /\ m <= t /\ t \in Slots
        BY <1>1, <2>1, <3>1 DEF Recipients
      <4>2. t >= m + 1
        BY <1>1, <4>1 DEF Slots
      <4>3. QED
        BY <1>2, <2>1, <3>1, <4>2 DEF Recipients
    <3>2. CASE p # 1
      BY <1>2, <1>4, <2>1, <3>2 DEF Blocks
    <3>3. QED
      BY <3>1, <3>2
  <2>3. j \in Frames(r) /\ r[j].slot = t
    BY <1>2, <2>1
  <2>4. \A k \in DOMAIN r : Again(r, k) => p < k
    BY <1>2, <1>3, <1>4 DEF Blocks
  <2>5. QED
    BY <1>2, <2>1, <2>2, <2>3, <2>4 DEF Blocks
<1>5. QED
  BY <1>2, <1>3, <1>4 DEF AgainBlocked

-----------------------------------------------------------------------------
(* The call stack is too small only for removals that find one another dead. *)

LEMMA FramesFinite ==
  ASSUME NEW r \in Seq(Call)
  PROVE  IsFiniteSet(Frames(r))
<1>1. IsFiniteSet(1 .. Len(r))
  BY StackType, FS_Interval
<1>2. Frames(r) \subseteq 1 .. Len(r)
  BY StackType
<1>3. QED
  BY <1>1, <1>2, FS_Subset

LEMMA FirstFrame == Depth(<<>>) = 0 /\ Frames(<<>>) = {}
<1>1. {k \in DOMAIN <<>> : <<>>[k].op = "clear"} = {}
  BY EmptySeq, LenProperties
<1>2. QED
  BY <1>1, FS_EmptySet DEF Depth, Frames

(* As many removals as slots, none of them of m: one client is removed twice. *)
LEMMA TooManyRemovals ==
  ASSUME NEW r \in Seq(Call), NEW m \in Slots,
         \A k \in Frames(r) : r[k].slot # m,
         Depth(r) >= MaxSlots
  PROVE  \E k \in DOMAIN r : Again(r, k)
<1> DEFINE f == [k \in Frames(r) |-> r[k].slot]
           T == Slots \ {m}
<1>1. /\ IsFiniteSet(Frames(r)) /\ Cardinality(Frames(r)) \in Nat
      /\ Cardinality(Frames(r)) >= MaxSlots
  BY FramesFinite, FS_CardinalityType DEF Depth, Frames
<1>2. IsFiniteSet(Slots) /\ Cardinality(Slots) = MaxSlots
  <2>1. 1 \in Int /\ MaxSlots \in Int /\ MaxSlots >= 1
    BY ConfigAssumption
  <2>2. /\ IsFiniteSet(1 .. MaxSlots)
        /\ Cardinality(1 .. MaxSlots) = IF 1 > MaxSlots THEN 0 ELSE MaxSlots - 1 + 1
    BY <2>1, FS_Interval
  <2>3. QED
    BY <2>1, <2>2 DEF Slots
<1>3. IsFiniteSet(T) /\ Cardinality(T) = MaxSlots - 1
  BY <1>2, FS_RemoveElement
<1>4. Cardinality(Frames(r)) > Cardinality(T)
  BY <1>1, <1>3, ConfigAssumption
<1>5. f \in [Frames(r) -> T]
  BY StackType
<1>6. \E i, j \in Frames(r) : i # j /\ f[i] = f[j]
  <2> HIDE DEF f, T
  <2> QED
    BY <1>1, <1>3, <1>4, <1>5, FS_PigeonHole
<1>7. PICK i \in Frames(r), j \in Frames(r) : i < j /\ r[i].slot = r[j].slot
  <2>1. PICK i \in Frames(r), j \in Frames(r) : i # j /\ f[i] = f[j]
    BY <1>6
  <2>2. i \in Int /\ j \in Int /\ r[i].slot = r[j].slot
    BY <2>1, StackType
  <2>3. i < j \/ j < i
    BY <2>1, <2>2
  <2>4. QED
    BY <2>2, <2>3
<1>8. Again(r, i) /\ i \in DOMAIN r
  BY <1>7 DEF Again, Frames
<1>9. QED
  BY <1>8

LEMMA TwoDead ==
  ASSUME TypeOK, NEW r \in Seq(Call), NEW m \in Active, NEW dead,
         Inside(r, m, dead), Depth(r) >= MaxSlots
  PROVE  \E s, t \in Authenticated : s # t /\ s \in dead /\ t \in dead
<1>1. m \in Authenticated /\ m \in dead /\ m \in Slots
  BY DEF Inside, Authenticated, Active
<1>2. ASSUME NEW k \in Frames(r)
      PROVE  r[k].slot \in Authenticated /\ k \in 1 .. Len(r)
  <2>1. k \in 1 .. Len(r) /\ r[k].slot \in Slots /\ k > 1
    <3>1. k \in 1 .. Len(r) /\ r[k].slot \in Slots /\ k # 1
      BY StackType DEF Inside
    <3>2. QED
      BY <3>1
  <2>2. active[r[k].slot] /\ auth[r[k].slot]
    BY <2>1 DEF Inside, Nested, FramesActive
  <2>3. QED
    BY <2>1, <2>2 DEF Authenticated, Active
<1>3. ASSUME NEW o \in Frames(r), NEW j \in Frames(r), o <= j,
             id[r[o].slot] # id[r[j].slot]
      PROVE  r[o].slot \in dead
  <2>1. o # j
    BY <1>3
  <2>2. o < j
    BY <1>2, <1>3, <2>1
  <2>3. QED
    BY <2>2 DEF Inside, Nested, InnerDead
<1>4. CASE \E j \in Frames(r) : r[j].slot = m
  <2>1. PICK j \in Frames(r) : r[j].slot = m
    BY <1>4
  <2>2. PICK o \in Frames(r) : o <= j /\ id[r[o].slot] # id[m]
    BY <2>1 DEF Inside
  <2>3. r[o].slot \in dead /\ r[o].slot \in Authenticated /\ r[o].slot # m
    BY <1>2, <1>3, <2>1, <2>2
  <2>4. QED
    BY <1>1, <2>3
<1>5. CASE \A j \in Frames(r) : r[j].slot # m
  <2>1. \E k \in DOMAIN r : Again(r, k)
    BY <1>1, <1>5, TooManyRemovals
  <2>2. AgainBlocked(r, dead)
    BY <1>5 DEF Inside
  <2>3. PICK p \in DOMAIN r : Blocks(r, dead, p)
    BY <2>1, <2>2 DEF AgainBlocked
  <2>4. PICK t \in Recipients(r[p]) \cap dead, j \in Frames(r) : p < j /\ r[j].slot = t
    BY <2>3 DEF Blocks
  <2>5. r[p].op = "bcast"
    BY <2>3 DEF Blocks
  <2>6. PICK o \in Frames(r) : o <= j /\ id[r[o].slot] = r[p].excl
    BY <2>4, <2>5 DEF Inside, Nested, NoticesInside
  <2>7. id[t] # r[p].excl
    BY <2>4 DEF Recipients
  <2>8. r[o].slot \in dead /\ r[o].slot # t
    BY <1>3, <2>4, <2>6, <2>7
  <2>9. r[o].slot \in Authenticated /\ t \in Authenticated /\ t \in dead
    BY <1>2, <2>4, <2>6
  <2>10. QED
    BY <2>8, <2>9
<1>6. QED
  BY <1>4, <1>5

-----------------------------------------------------------------------------
(* How the stack and the sockets change, in the steps of the server. *)

(* A stack with no removal on it. *)
LEMMA FlatStack ==
  ASSUME NEW q, NEW dead, Frames(q) = {}
  PROVE  Nested(q, dead) /\ AgainBlocked(q, dead)
BY DEF Nested, FramesActive, InnerDead, NoticesInside, AgainBlocked, Again

(* The shape of the new stack, seen with the slots as they were. *)
LEMMA NewStack ==
  ASSUME UNCHANGED <<id, active, auth>>, phase' # "crashed",
         Nested(todo', Dead'), AgainBlocked(todo', Dead'),
         \A s \in Active : sock'[s] = "up" \/ \E k \in Frames(todo') : todo'[k].slot = s
  PROVE  StackInv'
<1>1. Active' = Active
  BY DEF Active
<1>2. DeadFramed'
  BY <1>1 DEF DeadFramed, Frames
<1>3. Nested(todo, Dead)'
  BY DEF Nested, FramesActive, InnerDead, NoticesInside, Frames
<1>4. AgainBlocked(todo, Dead)'
  BY <1>1 DEF AgainBlocked, Again, Blocks, Recipients, Frames
<1>5. QED
  BY <1>2, <1>3, <1>4 DEF StackInv

(* The server has crashed, and a client may have been found dead. *)
LEMMA CrashedStack ==
  ASSUME UNCHANGED <<id, active, auth, todo>>, phase' = "crashed",
         Nested(todo, Dead'), AgainBlocked(todo, Dead')
  PROVE  StackInv'
<1>1. Active' = Active
  BY DEF Active
<1>2. DeadFramed'
  BY DEF DeadFramed
<1>3. Nested(todo, Dead)'
  BY DEF Nested, FramesActive, InnerDead, NoticesInside, Frames
<1>4. AgainBlocked(todo, Dead)'
  BY <1>1 DEF AgainBlocked, Again, Blocks, Recipients, Frames
<1>5. QED
  BY <1>2, <1>3, <1>4 DEF StackInv

(* Nothing is being removed, and every client is connected. *)
LEMMA CalmStack ==
  ASSUME Frames(todo') = {}, \A s \in Active' : sock'[s] = "up"
  PROVE  StackInv'
<1>1. Frames(todo)' = {}
  BY DEF Frames
<1>2. DeadFramed'
  BY DEF DeadFramed
<1>3. (Nested(todo, Dead) /\ AgainBlocked(todo, Dead))'
  BY <1>1 DEF Nested, FramesActive, InnerDead, NoticesInside, AgainBlocked, Again
<1>4. QED
  BY <1>2, <1>3 DEF StackInv

(* What holds as long as the server has not crashed; afterwards two clients
   have been found dead. *)
StackStep == StackInv' /\ (phase' = "crashed" => CrashNeedsTwoDead')

(* A removal while no other is under way does not find the stack too small. *)
LEMMA OutermostStep ==
  ASSUME TypeOK, UniqueUsernames, NEW m \in Active, NEW r \in Seq(Call),
         Frames(r) = {}, EnterRemove(m, r), phase # "crashed",
         UNCHANGED <<id, active, auth>>,
         \A s \in Active \ {m} : sock'[s] = "up"
  PROVE  StackInv' /\ phase' = phase
<1>1. Depth(r) < MaxDepth
  <2>1. Depth(r) = 0
    BY FS_EmptySet DEF Depth, Frames
  <2>2. QED
    BY <2>1, ConfigAssumption
<1>2. todo' = RemoveCalls(m) \o r /\ phase' = phase
  BY <1>1 DEF EnterRemove
<1>3. /\ Nested(todo', Dead') /\ AgainBlocked(todo', Dead')
      /\ \E k \in Frames(todo') : todo'[k].slot = m
  <2> DEFINE q == RemoveCalls(m) \o r
  <2>1. IF auth[m] THEN RemovesMember(q, r, m) ELSE RemovesGuest(q, r, m)
    BY RemovalStack
  <2>2. \A d : /\ Nested(q, d) /\ AgainBlocked(q, d)
               /\ \E k \in Frames(q) : q[k].slot = m
    <3> HIDE DEF q
    <3> QED
      BY <2>1, OutermostRemoval
  <2>3. QED
    BY <1>2, <2>2
<1>4. QED
  BY <1>2, <1>3, NewStack

LEMMA InnerStep ==
  ASSUME TypeOK, UniqueUsernames, NEW m \in Active, NEW r \in Seq(Call),
         EnterRemove(m, r), phase # "crashed",
         UNCHANGED <<id, active, auth, username>>,
         Nested(todo, Dead'), AgainBlocked(todo, Dead'), Inside(r, m, Dead'),
         \A s \in Active \ {m} :
           sock'[s] = "up" \/ \E k \in Frames(r) : r[k].slot = s
  PROVE  StackStep
<1>1. CASE Depth(r) < MaxDepth
  <2>1. todo' = RemoveCalls(m) \o r /\ phase' = phase
    BY <1>1 DEF EnterRemove
  <2> DEFINE q == RemoveCalls(m) \o r
  <2>2. RemovesMember(q, r, m)
    BY RemovalStack DEF Inside
  <2>3. Active \subseteq Slots
    BY DEF Active
  <2>4. /\ Nested(q, Dead') /\ AgainBlocked(q, Dead')
        /\ 3 \in Frames(q) /\ q[3].slot = m
        /\ \A k \in Frames(r) : k + 3 \in Frames(q) /\ q[k + 3] = r[k]
    <3> HIDE DEF q
    <3>1. q[3].slot = m
      BY <2>2 DEF RemovesMember
    <3>2. QED
      BY <2>2, <2>3, <3>1, InnerRemovalFrames, InnerRemovalNested,
         InnerRemovalBlocked
  <2>5. \A s \in Active : sock'[s] = "up" \/ \E k \in Frames(q) : q[k].slot = s
    <3> HIDE DEF q
    <3>1. ASSUME NEW s \in Active
          PROVE  sock'[s] = "up" \/ \E k \in Frames(q) : q[k].slot = s
      <4>1. CASE s = m
        BY <2>4, <4>1
      <4>2. CASE s # m
        <5>1. sock'[s] = "up" \/ \E k \in Frames(r) : r[k].slot = s
          BY <4>2
        <5>2. QED
          BY <2>4, <5>1
      <4>3. QED
        BY <4>1, <4>2
    <3>2. QED
      BY <3>1
  <2>6. StackInv'
    BY <2>1, <2>4, <2>5, NewStack
  <2>7. QED
    BY <2>1, <2>6 DEF StackStep
<1>2. CASE ~(Depth(r) < MaxDepth)
  <2>1. phase' = "crashed" /\ todo' = todo
    BY <1>2 DEF EnterRemove
  <2>2. Depth(r) >= MaxSlots
    <3>1. Depth(r) \in Nat
      BY FramesFinite, FS_CardinalityType DEF Depth, Frames
    <3>2. QED
      BY <1>2, <3>1, ConfigAssumption
  <2>3. \E s, t \in Authenticated : s # t /\ s \in Dead' /\ t \in Dead'
    BY <2>2, TwoDead
  <2>4. Authenticated' = Authenticated
    BY DEF Authenticated, Active
  <2>5. CrashNeedsTwoDead'
    BY <2>3, <2>4 DEF CrashNeedsTwoDead, Dead
  <2>6. StackInv'
    BY <2>1, CrashedStack
  <2>7. QED
    BY <2>5, <2>6 DEF StackStep
<1>3. QED
  BY <1>1, <1>2

-----------------------------------------------------------------------------
(* The calls on the stack. *)

LEMMA FindSelf ==
  ASSUME TypeOK, IdsInv, NEW s \in Active
  PROVE  FindById(id[s]) = {s}
<1>1. s \in Slots /\ id[s] # 0
  BY DEF Active, IdsInv
<1>2. \A t \in Active : id[t] = id[s] => t = s
  BY DEF IdsInv, UniqueIds
<1>3. s \in FindById(id[s])
  BY <1>1, <1>2 DEF FindById, Slots
<1>4. QED
  BY <1>2, <1>3 DEF FindById

(* A send, an announcement or a leave is never waiting inside a removal. *)
LEMMA NotInside ==
  ASSUME TypeOK, StackInv, todo # <<>>,
         Head(todo).op \in {"send", "announce", "leave"}
  PROVE  /\ Frames(todo) = {} /\ Frames(Tail(todo)) = {}
         /\ Head(todo) = todo[1] /\ 1 \in DOMAIN todo
<1>1. /\ todo \in Seq(Call) /\ Head(todo) = todo[1] /\ Len(todo) >= 1
      /\ Len(todo) \in Nat /\ DOMAIN todo = 1 .. Len(todo)
  BY PopAt, StackType DEF TypeOK
<1>2. 1 \in DOMAIN todo /\ 1 \notin Frames(todo)
  BY <1>1 DEF Frames
<1>3. ASSUME NEW j \in Frames(todo)
      PROVE  FALSE
  <2>1. j \in 1 .. Len(todo) /\ j # 1
    BY <1>1, <1>2, <1>3 DEF Frames
  <2>2. 1 < j
    BY <2>1
  <2>3. todo[1].op \in {"clear", "bcast"}
    BY <1>2, <2>2 DEF StackInv, Nested, NoticesInside
  <2>4. QED
    BY <1>1, <2>3
<1>4. Above(todo, Tail(todo), 1)
  BY <1>1, PopAbove
<1>5. Frames(Tail(todo)) = {}
  BY <1>3, <1>4, AboveFrames
<1>6. QED
  BY <1>1, <1>2, <1>3, <1>5

(* With no removal under way every client is connected. *)
LEMMA AllConnected ==
  ASSUME StackInv, Frames(todo) = {}, phase # "crashed"
  PROVE  \A s \in Active : sock[s] = "up"
BY DEF StackInv, DeadFramed

LEMMA SendStep ==
  ASSUME TypeOK, UniqueUsernames, StackInv, DoSend
  PROVE  StackInv' /\ phase' = phase
<1>1. todo # <<>> /\ Head(todo).op = "send" /\ phase # "crashed"
  BY DEF DoSend, Calling
<1>2. Frames(todo) = {} /\ Frames(Tail(todo)) = {} /\ Tail(todo) \in Seq(Call)
  BY <1>1, NotInside, PopAt DEF TypeOK
<1>3. \A s \in Active : sock[s] = "up"
  BY <1>1, <1>2, AllConnected
<1>4. PICK m \in FindById(id[Head(todo).slot]) :
        SendTo(m, Head(todo).kind, NoName, Tail(todo))
  BY DEF DoSend
<1>5. m \in Active /\ UNCHANGED <<id, active, auth, username>> /\ Active' = Active
  BY DEF FindById, DoSend, Active
<1>6. CASE todo' = Tail(todo) /\ UNCHANGED <<sock, phase>>
  BY <1>2, <1>3, <1>5, <1>6, CalmStack
<1>7. CASE sock' = [sock EXCEPT ![m] = "down"] /\ EnterRemove(m, Tail(todo))
  <2>1. \A s \in Active \ {m} : sock'[s] = "up"
    BY <1>3, <1>7 DEF TypeOK, Active
  <2>2. QED
    BY <1>1, <1>2, <1>5, <1>7, <2>1, OutermostStep
<1>8. QED
  BY <1>4, <1>6, <1>7 DEF SendTo

(* A send of a notice finds its recipient gone: what is on the stack when the
   removal of that client begins. *)
LEMMA InsideNotice ==
  ASSUME NEW q, NEW r, NEW m \in Recipients(q[1]), Advances(q, r, m),
         \A t \in Recipients(q[1]) : m <= t,
         NEW dead, m \in dead, Nested(q, dead), AgainBlocked(q, dead),
         Frames(q) # {}
  PROVE  Inside(r, m, dead)
<1>1. m \in Active /\ m \in Slots /\ id[m] # q[1].excl /\ q \in Seq(Call)
  BY DEF Recipients, Active, Advances
<1>2. /\ Frames(r) = Frames(q) /\ 1 \notin Frames(r) /\ 1 \in DOMAIN q
      /\ \A k \in Frames(q) : r[k] = q[k]
  BY <1>1, AdvanceAt
<1>3. \A k \in Frames(q) : k > 1
  <2>1. \A k \in Frames(q) : k \in 1 .. Len(q) /\ k # 1
    BY <1>1, <1>2, StackType
  <2>2. QED
    BY <2>1
<1>4. \A j \in Frames(q) :
        /\ q[1].authOnly
        /\ \E o \in Frames(q) : o <= j /\ id[q[o].slot] = q[1].excl
  <2>1. q[1].op = "bcast"
    BY DEF Advances
  <2>2. QED
    BY <1>2, <1>3, <2>1 DEF Nested, NoticesInside
<1>5. auth[m]
  BY <1>4 DEF Recipients
<1>6. \A j \in Frames(r) : \E o \in Frames(r) : o <= j /\ id[r[o].slot] # id[m]
  BY <1>1, <1>2, <1>4
<1>7. Nested(r, dead)
  BY <1>1, AdvanceNested
<1>8. AgainBlocked(r, dead) \/ \E j \in Frames(r) : r[j].slot = m
  <2>1. CASE \A k \in Frames(q) : q[k].slot # m
    BY <2>1, AdvanceBlocked
  <2>2. CASE \E k \in Frames(q) : q[k].slot = m
    BY <1>2, <2>2
  <2>3. QED
    BY <2>1, <2>2
<1>9. QED
  BY <1>2, <1>5, <1>6, <1>7, <1>8 DEF Inside

LEMMA BcastStep ==
  ASSUME TypeOK, UniqueUsernames, IdsInv, StackInv, DoBcast
  PROVE  StackStep
<1> DEFINE b == Head(todo)
<1>1. /\ todo # <<>> /\ b.op = "bcast" /\ phase # "crashed" /\ todo \in Seq(Call)
      /\ UNCHANGED <<id, active, auth, username>> /\ Active' = Active
  BY DEF DoBcast, Calling, TypeOK, Active
<1>2. /\ b = todo[1] /\ Tail(todo) \in Seq(Call) /\ Above(todo, Tail(todo), 1)
      /\ 1 \in DOMAIN todo /\ 1 \notin Frames(todo)
      /\ \A k \in Frames(todo) : k > 1
  <2>1. /\ b = todo[1] /\ Tail(todo) \in Seq(Call) /\ Above(todo, Tail(todo), 1)
        /\ Len(todo) >= 1 /\ Len(todo) \in Nat /\ DOMAIN todo = 1 .. Len(todo)
    BY <1>1, PopAt, PopAbove, StackType
  <2>2. 1 \in DOMAIN todo /\ 1 \notin Frames(todo)
    BY <1>1, <2>1 DEF Frames
  <2>3. \A k \in Frames(todo) : k > 1
    BY <2>1, <2>2 DEF Frames
  <2>4. QED
    BY <2>1, <2>2, <2>3
<1>3. CASE /\ Recipients(b) = {} /\ todo' = Tail(todo)
           /\ UNCHANGED <<sock, phase, told>>
  <2>1. ~Blocks(todo, Dead, 1)
    BY <1>2, <1>3 DEF Blocks
  <2>2. Nested(Tail(todo), Dead) /\ AgainBlocked(Tail(todo), Dead)
    BY <1>2, <2>1, BelowNested, BelowBlocked DEF StackInv
  <2>3. Dead' = Dead
    BY <1>3 DEF Dead
  <2>4. \A s \in Active : sock'[s] = "up" \/ \E k \in Frames(Tail(todo)) : Tail(todo)[k].slot = s
    <3>1. ASSUME NEW s \in Active, sock[s] # "up"
          PROVE  \E k \in Frames(Tail(todo)) : Tail(todo)[k].slot = s
      <4>1. PICK k \in Frames(todo) : todo[k].slot = s
        BY <1>1, <3>1 DEF StackInv, DeadFramed
      <4>2. k - 1 \in Frames(Tail(todo)) /\ todo[k] = Tail(todo)[k - 1]
        <5> DEFINE r == Tail(todo)
        <5>1. k > 1 /\ Above(todo, r, 1)
          BY <1>2
        <5> HIDE DEF r
        <5>2. k - 1 \in Frames(r) /\ todo[k] = r[k - 1]
          BY <5>1, AboveFrames
        <5>3. QED
          BY <5>2 DEF r
      <4>3. QED
        BY <4>1, <4>2
    <3>2. QED
      BY <1>3, <3>1
  <2>5. StackInv'
    BY <1>1, <1>3, <2>2, <2>3, <2>4, NewStack
  <2>6. QED
    BY <1>1, <1>3, <2>5 DEF StackStep
<1>4. ASSUME NEW m \in Recipients(b), \A t \in Recipients(b) : m <= t,
             SendTo(m, b.kind, b.who, <<[b EXCEPT !.next = m + 1]>> \o Tail(todo))
      PROVE  StackStep
  <2> DEFINE r == <<[b EXCEPT !.next = m + 1]>> \o Tail(todo)
  <2>1. m \in Active /\ m \in Slots /\ id[m] # todo[1].excl
        /\ m \in Recipients(todo[1]) /\ \A t \in Recipients(todo[1]) : m <= t
    BY <1>2, <1>4 DEF Recipients, Active
  <2>2. Advances(todo, r, m)
    BY <1>1, <1>2 DEF Advances
  <2>3. SendTo(m, b.kind, b.who, r)
    BY <1>4
  <2> HIDE DEF r
  <2>4. /\ r \in Seq(Call) /\ Frames(r) = Frames(todo) /\ 1 \notin Frames(r)
        /\ \A k \in Frames(todo) : r[k] = todo[k]
    BY <2>1, <2>2, AdvanceAt
  <2>5. \A s \in Active : sock[s] = "up" \/ \E k \in Frames(r) : r[k].slot = s
    BY <1>1, <2>4 DEF StackInv, DeadFramed
  <2>6. CASE sock[m] = "up" /\ todo' = r /\ UNCHANGED <<sock, phase>>
    <3>1. m \notin Dead /\ Dead' = Dead
      BY <2>6 DEF Dead
    <3>2. Nested(r, Dead') /\ AgainBlocked(r, Dead')
      BY <2>1, <2>2, <3>1, AdvanceNested, AdvanceBlocked DEF StackInv
    <3>3. StackInv'
      BY <1>1, <2>5, <2>6, <3>2, NewStack
    <3>4. QED
      BY <1>1, <2>6, <3>3 DEF StackStep
  <2>7. CASE sock' = [sock EXCEPT ![m] = "down"] /\ EnterRemove(m, r)
    <3>1. sock'[m] = "down" /\ \A s \in Slots \ {m} : sock'[s] = sock[s]
      BY <2>1, <2>7 DEF TypeOK
    <3>2. Dead \subseteq Dead' /\ m \in Dead'
      BY <2>1, <3>1 DEF Dead
    <3>3. Nested(todo, Dead') /\ AgainBlocked(todo, Dead')
      BY <3>2, MoreDead DEF StackInv
    <3>4. \A s \in Active \ {m} : sock'[s] = "up" \/ \E k \in Frames(r) : r[k].slot = s
      BY <2>5, <3>1 DEF Active
    <3>5. CASE Frames(todo) = {}
      <4>1. \A s \in Active \ {m} : sock'[s] = "up"
        BY <2>4, <3>4, <3>5
      <4>2. StackInv' /\ phase' = phase
        BY <1>1, <2>1, <2>4, <2>7, <3>5, <4>1, OutermostStep
      <4>3. QED
        BY <1>1, <4>2 DEF StackStep
    <3>6. CASE Frames(todo) # {}
      <4>1. Inside(r, m, Dead')
        BY <2>1, <2>2, <3>2, <3>3, <3>6, InsideNotice
      <4>2. QED
        BY <1>1, <2>1, <2>4, <2>7, <3>3, <3>4, <4>1, InnerStep
    <3>7. QED
      BY <3>5, <3>6
  <2>8. QED
    BY <2>3, <2>6, <2>7 DEF SendTo
<1>5. QED
  <2>1. CASE Recipients(b) = {} /\ todo' = Tail(todo) /\ UNCHANGED <<sock, phase, told>>
    BY <1>3, <2>1
  <2>2. CASE \E s \in Recipients(b) :
               /\ \A t \in Recipients(b) : s <= t
               /\ \E t \in FindById(id[s]) :
                    SendTo(t, b.kind, b.who, <<[b EXCEPT !.next = s + 1]>> \o Tail(todo))
    <3>1. PICK s \in Recipients(b) :
               /\ \A t \in Recipients(b) : s <= t
               /\ \E t \in FindById(id[s]) :
                    SendTo(t, b.kind, b.who, <<[b EXCEPT !.next = s + 1]>> \o Tail(todo))
      BY <2>2
    <3>2. FindById(id[s]) = {s}
      BY FindSelf DEF Recipients
    <3>3. SendTo(s, b.kind, b.who, <<[b EXCEPT !.next = s + 1]>> \o Tail(todo))
      BY <3>1, <3>2
    <3>4. QED
      BY <1>4, <3>1, <3>3
  <2>3. QED
    BY <2>1, <2>2 DEF DoBcast

LEMMA AnnounceStep ==
  ASSUME TypeOK, StackInv, DoAnnounce
  PROVE  StackInv' /\ phase' = phase
<1> DEFINE c == Head(todo)
           d == Bcast(c.kind, c.who, id[c.slot], TRUE)
<1>1. /\ todo # <<>> /\ c.op = "announce" /\ phase # "crashed"
      /\ todo' = <<d>> \o Tail(todo)
      /\ UNCHANGED <<slotVars, phase>>
  BY DEF DoAnnounce, Calling
<1>2. Frames(todo) = {} /\ Frames(Tail(todo)) = {} /\ Tail(todo) \in Seq(Call)
      /\ c \in Call
  BY <1>1, NotInside, PopAt, HeadCall DEF TypeOK
<1>3. \A s \in Active : sock[s] = "up"
  BY <1>1, <1>2, AllConnected
<1>4. d \in Call /\ d.op = "bcast"
  <2>1. c.slot \in Slots /\ c.kind \in Notices /\ c.who \in Names
    BY <1>1, <1>2 DEF Call, BcastCall
  <2>2. id[c.slot] \in Ids /\ c.who # NoName
    BY <2>1, ConfigAssumption DEF TypeOK
  <2>3. QED
    BY <2>1, <2>2, CallTypes DEF Bcast
<1>5. Frames(todo') = {}
  <2> HIDE DEF c, d
  <2>1. Above(todo', Tail(todo), 1) /\ todo'[1] = d
    BY <1>1, <1>2, <1>4, PushAt DEF Above
  <2>2. ASSUME NEW k \in Frames(todo') PROVE FALSE
    <3>1. k \in 1 .. Len(todo') /\ k # 1
      BY <1>4, <2>1, StackType DEF Above, Frames
    <3>2. k > 1
      BY <3>1
    <3>3. QED
      BY <1>2, <2>1, <3>2, AboveFrames
  <2>3. QED
    BY <2>2
<1>6. Active' = Active /\ sock' = sock
  BY <1>1 DEF slotVars, Active
<1>7. QED
  BY <1>1, <1>3, <1>5, <1>6, CalmStack

LEMMA LeaveStep ==
  ASSUME TypeOK, UniqueUsernames, StackInv, DoLeave
  PROVE  StackInv' /\ phase' = phase
<1>1. todo # <<>> /\ Head(todo).op = "leave" /\ phase # "crashed"
  BY DEF DoLeave, Calling
<1>2. Frames(todo) = {} /\ Frames(Tail(todo)) = {} /\ Tail(todo) \in Seq(Call)
  BY <1>1, NotInside, PopAt DEF TypeOK
<1>3. \A s \in Active : sock[s] = "up"
  BY <1>1, <1>2, AllConnected
<1>4. UNCHANGED <<id, active, auth, username, sock>> /\ Active' = Active
  BY DEF DoLeave, slotVars, Active
<1>5. CASE todo' = Tail(todo) /\ UNCHANGED phase
  BY <1>2, <1>3, <1>4, <1>5, CalmStack
<1>6. ASSUME NEW m \in FindById(id[Head(todo).slot]), EnterRemove(m, Tail(todo))
      PROVE  StackInv' /\ phase' = phase
  <2>1. m \in Active
    BY <1>6 DEF FindById
  <2>2. QED
    BY <1>1, <1>2, <1>3, <1>4, <1>6, <2>1, OutermostStep
<1>7. QED
  BY <1>5, <1>6 DEF DoLeave

(* The clear of a slot is the only removal of it on the stack. *)
LEMMA ClearOnce ==
  ASSUME TypeOK, StackInv, DoClear
  PROVE  /\ Head(todo).slot \in Active
         /\ Above(todo, Tail(todo), 1) /\ todo[1] = Head(todo)
         /\ Nested(Tail(todo), Dead) /\ AgainBlocked(Tail(todo), Dead)
         /\ \A k \in Frames(Tail(todo)) : Tail(todo)[k].slot # Head(todo).slot
<1>1. todo # <<>> /\ Head(todo).op = "clear" /\ todo \in Seq(Call)
  BY DEF DoClear, Calling, TypeOK
<1>2. /\ todo[1] = Head(todo) /\ Above(todo, Tail(todo), 1)
      /\ DOMAIN todo = 1 .. Len(todo) /\ Len(todo) \in Nat /\ 1 \in Frames(todo)
  <2>1. /\ todo[1] = Head(todo) /\ Above(todo, Tail(todo), 1) /\ Len(todo) >= 1
        /\ DOMAIN todo = 1 .. Len(todo) /\ Len(todo) \in Nat
    BY <1>1, PopAt, PopAbove, StackType
  <2>2. QED
    BY <1>1, <2>1 DEF Frames
<1>3. Head(todo).slot \in Active
  <2>1. active[todo[1].slot] /\ todo[1].slot \in Slots
    BY <1>1, <1>2, StackType DEF StackInv, Nested, FramesActive
  <2>2. QED
    BY <1>2, <2>1 DEF Active
<1>4. ~Again(todo, 1)
  <2>1. SUFFICES ASSUME Again(todo, 1) PROVE FALSE
    OBVIOUS
  <2>2. 1 \in DOMAIN todo
    BY <1>2 DEF Frames
  <2>3. PICK p \in DOMAIN todo : Blocks(todo, Dead, p)
    BY <2>1, <2>2 DEF StackInv, AgainBlocked
  <2>4. p < 1 /\ p \in 1 .. Len(todo)
    BY <1>2, <2>1, <2>2, <2>3 DEF Blocks
  <2>5. QED
    BY <2>4
<1>5. \A k \in Frames(Tail(todo)) : Tail(todo)[k].slot # Head(todo).slot
  <2>1. ASSUME NEW k \in Frames(Tail(todo)), Tail(todo)[k].slot = Head(todo).slot
        PROVE  FALSE
    <3>1. k + 1 \in Frames(todo) /\ todo[k + 1] = Tail(todo)[k]
      <4> DEFINE r == Tail(todo)
      <4>1. k \in Frames(r) /\ Above(todo, r, 1)
        BY <1>2
      <4> HIDE DEF r
      <4>2. k + 1 \in Frames(todo) /\ todo[k + 1] = r[k]
        BY <4>1, AboveFrames
      <4>3. QED
        BY <4>2 DEF r
    <3>2. 1 < k + 1
      <4>1. k \in 1 .. Len(Tail(todo))
        BY <1>1, PopAt, StackType
      <4>2. QED
        BY <4>1
    <3>3. QED
      BY <1>2, <1>4, <2>1, <3>1, <3>2 DEF Again
  <2>2. QED
    BY <2>1
<1>6. ~Blocks(todo, Dead, 1)
  BY <1>1, <1>2 DEF Blocks
<1>7. Nested(Tail(todo), Dead) /\ AgainBlocked(Tail(todo), Dead)
  BY <1>2, <1>6, BelowNested, BelowBlocked DEF StackInv
<1>8. QED
  BY <1>2, <1>3, <1>5, <1>7

LEMMA ClearStep ==
  ASSUME TypeOK, StackInv, DoClear
  PROVE  StackInv' /\ phase' = phase
<1> DEFINE s == Head(todo).slot
           r == Tail(todo)
<1>1. /\ s \in Active /\ Above(todo, r, 1) /\ todo[1].slot = s
      /\ Nested(r, Dead) /\ AgainBlocked(r, Dead)
      /\ \A k \in Frames(r) : r[k].slot # s
  BY ClearOnce
<1>2. /\ todo' = r /\ phase' = phase /\ phase # "crashed"
      /\ \A t \in Slots \ {s} : /\ id'[t] = id[t] /\ active'[t] = active[t]
                                /\ auth'[t] = auth[t] /\ sock'[t] = sock[t]
  BY DEF DoClear, Calling, TypeOK
<1>3. Active' = Active \ {s}
  <2>1. ~active'[s]
    BY <1>1 DEF DoClear, TypeOK, Active
  <2>2. QED
    BY <1>2, <2>1 DEF Active
<1>4. Dead \ {s} \subseteq Dead'
  BY <1>2 DEF Dead
<1>5. /\ r \in Seq(Call) /\ \A k \in Frames(r) : r[k].slot \in Slots \ {s}
  BY <1>1, StackType DEF Above
<1> HIDE DEF s, r
<1>6. Nested(todo, Dead)'
  <2>1. FramesActive(todo)'
    BY <1>1, <1>2, <1>5 DEF Nested, FramesActive, Frames
  <2>2. InnerDead(todo, Dead)'
    BY <1>1, <1>2, <1>4, <1>5 DEF Nested, InnerDead, Frames
  <2>3. NoticesInside(todo)'
    BY <1>1, <1>2, <1>5 DEF Nested, NoticesInside, Frames
  <2>4. QED
    BY <2>1, <2>2, <2>3 DEF Nested
<1>7. AgainBlocked(todo, Dead)'
  <2>1. ASSUME NEW p \in DOMAIN r, Blocks(r, Dead, p)
        PROVE  Blocks(todo, Dead, p)'
    <3>1. PICK t \in Recipients(r[p]) \cap Dead, j \in Frames(r) : p < j /\ r[j].slot = t
      BY <2>1 DEF Blocks
    <3>2. t \in Slots \ {s}
      BY <1>5, <3>1
    <3>3. t \in Recipients(todo[p])' /\ t \in Dead'
      BY <1>2, <1>3, <1>4, <3>1, <3>2 DEF Recipients
    <3>4. j \in Frames(todo)' /\ todo'[j].slot = t
      BY <1>2, <3>1 DEF Frames
    <3>5. (\A k \in DOMAIN todo : Again(todo, k) => p < k)'
      BY <1>2, <2>1 DEF Blocks, Again, Frames
    <3>6. (p \in DOMAIN todo /\ todo[p].op = "bcast")'
      BY <1>2, <2>1 DEF Blocks
    <3>7. QED
      BY <3>1, <3>3, <3>4, <3>5, <3>6 DEF Blocks
  <2>2. (\E k \in DOMAIN todo : Again(todo, k))' => \E k \in DOMAIN r : Again(r, k)
    BY <1>2 DEF Again, Frames
  <2>3. QED
    BY <1>1, <1>2, <2>1, <2>2 DEF AgainBlocked
<1>8. DeadFramed'
  <2>1. ASSUME NEW t \in Active', sock'[t] # "up"
        PROVE  \E k \in Frames(r) : r[k].slot = t
    <3>1. t \in Active /\ t # s /\ t \in Slots
      BY <1>3, <2>1 DEF Active
    <3>2. sock[t] # "up"
      BY <1>2, <2>1, <3>1
    <3>3. PICK k \in Frames(todo) : todo[k].slot = t
      BY <1>2, <3>1, <3>2 DEF StackInv, DeadFramed
    <3>4. k > 1
      <4>1. k # 1
        BY <1>1, <3>1, <3>3
      <4>2. k \in 1 .. Len(todo)
        BY <3>3, StackType DEF TypeOK
      <4>3. QED
        BY <4>1, <4>2
    <3>5. QED
      BY <1>1, <3>3, <3>4, AboveFrames
  <2>2. QED
    BY <1>2, <2>1 DEF DeadFramed, Frames
<1>9. QED
  BY <1>2, <1>6, <1>7, <1>8 DEF StackInv

-----------------------------------------------------------------------------
(* The main loop, the handlers and the maintenance: none of them runs while a
   call is pending, so every client is connected before them. *)

LEMMA CallsStep ==
  ASSUME TypeOK, UniqueUsernames, IdsInv, StackInv, Calls
  PROVE  StackStep
<1>1. phase # "crashed"
  BY DEF Calls, DoSend, DoBcast, DoAnnounce, DoLeave, DoClear, Calling
<1>2. CASE DoBcast
  BY <1>2, BcastStep
<1>3. CASE DoSend \/ DoAnnounce \/ DoLeave \/ DoClear
  <2>1. StackInv' /\ phase' = phase
    BY <1>3, SendStep, AnnounceStep, LeaveStep, ClearStep
  <2>2. QED
    BY <1>1, <2>1 DEF StackStep
<1>4. QED
  BY <1>2, <1>3 DEF Calls

LEMMA IdleConnected ==
  ASSUME StackInv, todo = <<>>, phase # "crashed"
  PROVE  \A s \in Active : sock[s] = "up"
BY FirstFrame, AllConnected

LEMMA MainLoopStep ==
  ASSUME TypeOK, IdsInv, StackInv, MainLoop
  PROVE  StackInv' /\ phase' # "crashed"
<1>1. todo = <<>> /\ phase # "crashed"
  BY DEF MainLoop, Start, LoopExit, Select, SelectFails, NewConnection,
         UseAfterFree, DataDone, Stop, StopCloses, Destroy, At
<1>2. \A s \in Active : sock[s] = "up"
  BY <1>1, IdleConnected
<1>3. CASE Start \/ LoopExit \/ Select \/ SelectFails \/ DataDone
  <2>1. /\ UNCHANGED <<slotVars, todo>> /\ phase' # "crashed"
    BY <1>3 DEF Start, LoopExit, Select, SelectFails, DataDone, GoTo
  <2>2. Active' = Active /\ sock' = sock /\ todo' = <<>>
    BY <1>1, <2>1 DEF slotVars, Active
  <2>3. QED
    BY <1>2, <2>1, <2>2, FirstFrame, CalmStack
<1>4. CASE NewConnection
  <2>1. todo' = <<>> /\ phase' = phase
    BY <1>1, <1>4 DEF NewConnection
  <2>2. \A t \in Active' : sock'[t] = "up"
    <3>1. CASE UNCHANGED slotVars
      BY <1>2, <3>1 DEF slotVars, Active
    <3>2. ASSUME NEW s \in Slots,
                 active' = [active EXCEPT ![s] = TRUE],
                 sock' = [sock EXCEPT ![s] = IF nextId = 0 THEN "freed" ELSE "up"]
          PROVE  \A t \in Active' : sock'[t] = "up"
      <4>1. nextId # 0
        BY DEF IdsInv
      <4>2. QED
        BY <1>2, <3>2, <4>1 DEF TypeOK, Active
    <3>3. QED
      BY <1>4, <3>1, <3>2 DEF NewConnection
  <2>3. QED
    BY <1>1, <2>1, <2>2, FirstFrame, CalmStack
<1>5. CASE UseAfterFree
  BY <1>2, <1>5 DEF UseAfterFree
<1>6. CASE Stop
  <2> DEFINE d == Bcast("bye", NoName, 0, FALSE)
  <2>1. todo' = <<d>> /\ d.op = "bcast" /\ phase' # "crashed"
        /\ Active' = Active /\ sock' = sock
    BY <1>6 DEF Stop, Bcast, GoTo, slotVars, Active
  <2>2. Frames(<<d>>) = {}
    <3> HIDE DEF d
    <3>1. DOMAIN <<d>> = {1} /\ <<d>>[1] = d
      OBVIOUS
    <3>2. QED
      BY <2>1, <3>1 DEF Frames
  <2>3. QED
    BY <1>2, <2>1, <2>2, CalmStack
<1>7. CASE StopCloses \/ Destroy
  <2>1. /\ active' = [s \in Slots |-> FALSE] /\ phase' = "done" /\ todo' = <<>>
    BY <1>1, <1>7 DEF StopCloses, Destroy, CloseAll, GoTo
  <2>2. Active' = {}
    BY <2>1 DEF Active
  <2>3. QED
    BY <2>1, <2>2, FirstFrame, CalmStack
<1>8. QED
  BY <1>3, <1>4, <1>5, <1>6, <1>7 DEF MainLoop

LEMMA HandlersStep ==
  ASSUME TypeOK, UniqueUsernames, StackInv, Handlers
  PROVE  StackInv' /\ phase' # "crashed"
<1>1. PICK s \in Slots :
        \/ NothingReceived(s) \/ PeerGone(s)
        \/ \E n \in Names \cup {NoName} :
             ConnectRefused(s, n) \/ ConnectRequest(s, n)
        \/ ChatSend(s) \/ UserListRequest(s) \/ DisconnectRequest(s)
        \/ UnknownMessage(s) \/ QuietMessage(s) \/ NameUnterminated(s)
  BY DEF Handlers
<1>2. todo = <<>> /\ phase = "data"
  BY <1>1 DEF NothingReceived, PeerGone, NameUnterminated, ConnectRefused,
     ConnectRequest, ChatSend, UserListRequest, DisconnectRequest, UnknownMessage, QuietMessage, Handles,
     NextReadable, NextUp, At
<1>3. \A t \in Active : sock[t] = "up"
  BY <1>2, IdleConnected
<1>4. CASE NothingReceived(s)
  <2>1. UNCHANGED <<slotVars, phase, todo>>
    BY <1>4 DEF NothingReceived
  <2>2. Active' = Active /\ sock' = sock /\ todo' = <<>>
    BY <1>2, <2>1 DEF slotVars, Active
  <2>3. QED
    BY <1>2, <1>3, <2>1, <2>2, FirstFrame, CalmStack
<1>5. CASE PeerGone(s)
  <2>1. /\ s \in Active /\ EnterRemove(s, <<>>) /\ UNCHANGED <<id, active, auth>>
        /\ \A t \in Active \ {s} : sock'[t] = "up"
    BY <1>3, <1>5 DEF PeerGone, Active, TypeOK
  <2>2. StackInv' /\ phase' = phase
    BY <1>2, <2>1, FirstFrame, EmptySeq, OutermostStep
  <2>3. QED
    BY <1>2, <2>2
<1>6. ASSUME NEW calls, Handles(s, calls), Frames(calls) = {}
      PROVE  StackInv' /\ phase' # "crashed"
  <2>1. Active' = Active /\ sock' = sock /\ todo' = calls /\ phase' = phase
    BY <1>6 DEF Handles, Active
  <2>2. QED
    BY <1>2, <1>3, <1>6, <2>1, CalmStack
<1>7. /\ Frames(<<>>) = {}
      /\ \A k : Frames(<<Send(s, k)>>) = {}
      /\ Frames(<<Send(s, "bye"), Leave(s)>>) = {}
      /\ \A n : Frames(<<Bcast("chat", n, 0, TRUE)>>) = {}
      /\ \A n : Frames(<<Send(s, "welcome"), Announce(s, "system", n),
                        Announce(s, "joined", n)>>) = {}
  BY FirstFrame DEF Frames, Send, Leave, Bcast, Announce
<1>8. CASE NameUnterminated(s)
  <2>1. UNCHANGED <<slotVars, todo>> /\ phase' = "aborted"
    BY <1>8 DEF NameUnterminated, GoTo
  <2>2. Active' = Active /\ sock' = sock /\ todo' = <<>>
    BY <1>2, <2>1 DEF slotVars, Active
  <2>3. QED
    BY <1>2, <1>3, <2>1, <2>2, FirstFrame, CalmStack
<1>9. QED
  BY <1>1, <1>4, <1>5, <1>6, <1>7, <1>8
     DEF ConnectRefused, ConnectRequest, ChatSend, UserListRequest,
         DisconnectRequest, UnknownMessage, QuietMessage

LEMMA MaintenanceStep ==
  ASSUME TypeOK, UniqueUsernames, StackInv, Maintenance
  PROVE  StackInv' /\ phase' # "crashed"
<1>1. todo = <<>> /\ phase # "crashed"
  BY DEF Maintenance, CleanupRemove, HeartbeatSend, CleanupDone, UpdateFdSets, At
<1>2. \A t \in Active : sock[t] = "up"
  BY <1>1, IdleConnected
<1>3. UNCHANGED slotVars /\ Active' = Active /\ sock' = sock
  <2>1. UNCHANGED slotVars
    BY DEF Maintenance, CleanupRemove, HeartbeatSend, CleanupDone, UpdateFdSets
  <2>2. QED
    BY <2>1 DEF slotVars, Active
<1>4. ASSUME NEW s \in Slots, CleanupRemove(s)
      PROVE  StackInv' /\ phase' # "crashed"
  <2>1. s \in Active /\ EnterRemove(s, <<>>)
    BY <1>4 DEF CleanupRemove, Active
  <2>2. UNCHANGED <<id, active, auth>> /\ \A t \in Active \ {s} : sock'[t] = "up"
    BY <1>2, <1>3 DEF slotVars
  <2>3. StackInv' /\ phase' = phase
    BY <1>1, <2>1, <2>2, FirstFrame, EmptySeq, OutermostStep
  <2>4. QED
    BY <1>1, <2>3
<1>5. ASSUME NEW s \in Slots, HeartbeatSend(s)
      PROVE  StackInv' /\ phase' # "crashed"
  <2>1. todo' = <<Send(s, "heartbeat")>> /\ phase' = phase
    BY <1>5 DEF HeartbeatSend
  <2>2. Frames(<<Send(s, "heartbeat")>>) = {}
    BY DEF Frames, Send
  <2>3. QED
    BY <1>1, <1>2, <1>3, <2>1, <2>2, CalmStack
<1>6. CASE CleanupDone \/ UpdateFdSets
  <2>1. todo' = <<>> /\ phase' # "crashed"
    BY <1>1, <1>6 DEF CleanupDone, UpdateFdSets, GoTo
  <2>2. QED
    BY <1>2, <1>3, <2>1, FirstFrame, CalmStack
<1>7. QED
  BY <1>4, <1>5, <1>6 DEF Maintenance

-----------------------------------------------------------------------------
(* The theorems about nested removals. *)

ReentryInv == IdsInv /\ UniqueUsernames /\ StackInv /\ CrashNeedsTwoDead

LEMMA ReentryStep ==
  ASSUME TypeOK, ReentryInv, LastId \in 1 .. (IdMod - 1), [Next]_vars
  PROVE  ReentryInv'
<1>1. IdsInv' /\ UniqueUsernames'
  BY StepIdentity, IdsStep, UniqueStep DEF ReentryInv
<1>2. CASE Server
  <2>1. CASE MainLoop \/ Handlers \/ Maintenance
    <3>1. StackInv' /\ phase' # "crashed"
      BY <2>1, MainLoopStep, HandlersStep, MaintenanceStep DEF ReentryInv
    <3>2. QED
      BY <1>1, <3>1 DEF ReentryInv, CrashNeedsTwoDead
  <2>2. StackStep => StackInv' /\ CrashNeedsTwoDead'
    BY DEF StackStep, CrashNeedsTwoDead
  <2>3. CASE Calls
    BY <1>1, <2>2, <2>3, CallsStep DEF ReentryInv
  <2>4. QED
    BY <1>2, <2>1, <2>3 DEF Server
<1>3. CASE Sigint \/ UNCHANGED vars
  <2>1. UNCHANGED <<id, active, auth, sock, phase, todo>>
    BY <1>3 DEF Sigint, vars, slotVars
  <2>2. Active' = Active /\ Authenticated' = Authenticated /\ Dead' = Dead
    BY <2>1 DEF Active, Authenticated, Dead
  <2>3. CrashNeedsTwoDead'
    BY <2>1, <2>2 DEF ReentryInv, CrashNeedsTwoDead
  <2>4. StackInv'
    <3>1. Nested(todo, Dead)'
      BY <2>1, <2>2 DEF ReentryInv, StackInv, Nested, FramesActive, InnerDead,
                        NoticesInside, Frames
    <3>2. AgainBlocked(todo, Dead)'
      BY <2>1, <2>2 DEF ReentryInv, StackInv, AgainBlocked, Again, Blocks,
                        Recipients, Frames
    <3>3. DeadFramed'
      BY <2>1, <2>2 DEF ReentryInv, StackInv, DeadFramed, Frames
    <3>4. QED
      BY <3>1, <3>2, <3>3 DEF StackInv
  <2>5. QED
    BY <1>1, <2>3, <2>4 DEF ReentryInv
<1>4. QED
  BY <1>2, <1>3 DEF Next, Ended

LEMMA ReentryInit == ASSUME Init, LastId \in 1 .. (IdMod - 1) PROVE ReentryInv
<1>1. Active = {} /\ Authenticated = {} /\ nextId = 1 /\ todo = <<>> /\ phase = "boot"
  BY DEF Init, Active, Authenticated
<1>2. Frames(todo) = {}
  BY <1>1, FirstFrame
<1>3. StackInv
  BY <1>1, <1>2, FlatStack DEF StackInv, DeadFramed
<1>4. QED
  BY <1>1, <1>3 DEF ReentryInv, IdsInv, UniqueIds, UniqueUsernames, CrashNeedsTwoDead

(* As long as the environment opens fewer connections than next_client_id can
   count, the stack of pending calls keeps the shape of nested removals. *)
THEOREM ReentryInvariant ==
  ASSUME LastId \in 1 .. (IdMod - 1)
  PROVE  Spec => []ReentryInv
<1>1. Init => ReentryInv
  BY ReentryInit
<1>2. TypeOK /\ ReentryInv /\ [Next]_vars => ReentryInv'
  BY ReentryStep
<1>3. QED
  BY <1>1, <1>2, TypeCorrect, PTL DEF Spec

(* server_remove_client re-entered without bound takes two authenticated
   clients that are both found disconnected: with any number of slots and any
   stack, the removal of one failed peer never overflows it. *)
THEOREM CrashTakesTwo ==
  ASSUME LastId \in 1 .. (IdMod - 1)
  PROVE  Spec => []CrashNeedsTwoDead
<1>1. ReentryInv => CrashNeedsTwoDead
  BY DEF ReentryInv
<1>2. QED
  BY <1>1, ReentryInvariant, PTL

(* Between the calls of the main loop no client is left whose connection was
   found dead: every removal that a failed send asked for has been made. *)
THEOREM RestIsAlive ==
  ASSUME LastId \in 1 .. (IdMod - 1)
  PROVE  Spec => []NoDeadAtRest
<1>1. ReentryInv => NoDeadAtRest
  BY IdleConnected DEF ReentryInv, NoDeadAtRest
<1>2. QED
  BY <1>1, ReentryInvariant, PTL

(* Which steps touch the slots and the counters. *)
LEMMA QuietStep ==
  ASSUME [Next]_vars
  PROVE  \/ DoClear \/ NewConnection
         \/ phase' = "done" /\ todo' = <<>>
         \/ /\ UNCHANGED <<active, clientCount, curConn>>
            /\ phase \in {"done", "crashed"} => phase' \in {"done", "crashed"}
<1> USE DEF slotVars, stats, At, GoTo
<1>1. CASE Calls
  BY <1>1 DEF Calls, DoSend, DoBcast, DoAnnounce, DoLeave, SendTo, EnterRemove,
              Calling
<1>2. CASE MainLoop
  BY <1>2 DEF MainLoop, Start, LoopExit, Select, SelectFails, UseAfterFree,
              DataDone, Stop, StopCloses, Destroy, CloseAll
<1>3. CASE Handlers
  <2>1. phase = "data" /\ UNCHANGED <<active, clientCount, curConn>>
    BY <1>3 DEF Handlers, NothingReceived, PeerGone, NameUnterminated, ConnectRefused,
                ConnectRequest, ChatSend, UserListRequest, DisconnectRequest,
                UnknownMessage, QuietMessage, Handles, NextReadable, NextUp
  <2>2. QED
    BY <2>1
<1>4. CASE Maintenance
  BY <1>4 DEF Maintenance, CleanupRemove, HeartbeatSend, CleanupDone, UpdateFdSets
<1>5. CASE Sigint \/ Ended \/ UNCHANGED vars
  BY <1>5 DEF Sigint, Ended, vars
<1>6. QED
  BY <1>1, <1>2, <1>3, <1>4, <1>5 DEF Next, Server

(* No client slot is cleared twice for one client, and client_count is not
   decremented twice: a removal of a client that is being removed already never
   comes to its end. *)
THEOREM ClearedOnce ==
  ASSUME LastId \in 1 .. (IdMod - 1)
  PROVE  Spec => NoDoubleClear
<1> DEFINE A == \A s \in Slots : active[s] /\ ~active'[s] =>
                  \A k \in DOMAIN todo' : todo'[k] # Clear(s)
<1>1. TypeOK /\ ReentryInv /\ [Next]_vars => [A]_vars
  <2> SUFFICES ASSUME TypeOK, ReentryInv, [Next]_vars PROVE A
    OBVIOUS
  <2>1. CASE DoClear
    <3>1. /\ todo' = Tail(todo) /\ active' = [active EXCEPT ![Head(todo).slot] = FALSE]
          /\ \A k \in Frames(Tail(todo)) : Tail(todo)[k].slot # Head(todo).slot
      BY <2>1, ClearOnce DEF DoClear, ReentryInv
    <3>2. \A s \in Slots : active[s] /\ ~active'[s] => s = Head(todo).slot
      BY <3>1 DEF TypeOK
    <3>3. \A k \in DOMAIN todo' : todo'[k] # Clear(Head(todo).slot)
      BY <3>1 DEF Frames, Clear
    <3>4. QED
      BY <3>2, <3>3
  <2>2. CASE NewConnection
    BY <2>2 DEF NewConnection, slotVars, TypeOK
  <2>3. CASE todo' = <<>>
    <3>1. DOMAIN <<>> = {}
      OBVIOUS
    <3>2. QED
      BY <2>3, <3>1
  <2>4. CASE UNCHANGED active
    BY <2>4
  <2>5. QED
    BY <2>1, <2>2, <2>3, <2>4, QuietStep
<1>2. QED
  BY <1>1, TypeCorrect, ReentryInvariant, PTL DEF Spec, NoDoubleClear

LEMMA CountsStep ==
  ASSUME TypeOK, ReentryInv, CountsAgree, [Next]_vars
  PROVE  CountsAgree'
<1>1. IsFiniteSet(Active) /\ Cardinality(Active) \in Nat
  <2>1. IsFiniteSet(Slots)
    BY ConfigAssumption, FS_Interval DEF Slots
  <2>2. QED
    BY <2>1, FS_Subset, FS_CardinalityType DEF Active
<1>2. CASE DoClear
  <2> DEFINE s == Head(todo).slot
  <2>1. s \in Active
    BY <1>2, ClearOnce DEF ReentryInv
  <2>2. Active' = Active \ {s}
    <3>1. active' = [active EXCEPT ![s] = FALSE]
      BY <1>2 DEF DoClear
    <3>2. QED
      BY <3>1 DEF Active, TypeOK
  <2>3. Cardinality(Active \ {s}) = Cardinality(Active) - 1
    BY <1>1, <2>1, FS_RemoveElement
  <2>4. /\ clientCount' = clientCount - 1
        /\ curConn' = Cardinality(Active \ {s}) /\ phase' = phase
    BY <1>2 DEF DoClear, CountDown
  <2>5. QED
    BY <2>2, <2>3, <2>4 DEF CountsAgree
<1>3. CASE NewConnection
  <2>1. phase' = phase /\ phase = "data"
    BY <1>3 DEF NewConnection, At
  <2>2. CASE UNCHANGED <<slotVars, nextId, stats>>
    BY <2>1, <2>2 DEF CountsAgree, slotVars, stats, Active
  <2>3. ASSUME NEW s \in Slots \ Active, active' = [active EXCEPT ![s] = TRUE],
               clientCount' = clientCount + 1,
               curConn' = IF nextId = 0 THEN curConn ELSE Cardinality(Active) + 1
        PROVE  CountsAgree'
    <3>1. Active' = Active \cup {s}
      BY <2>3 DEF Active, TypeOK
    <3>2. Cardinality(Active \cup {s}) = Cardinality(Active) + 1
      BY <1>1, <2>3, FS_AddElement
    <3>3. nextId # 0
      BY DEF ReentryInv, IdsInv
    <3>4. QED
      BY <2>1, <2>3, <3>1, <3>2, <3>3 DEF CountsAgree
  <2>4. QED
    BY <1>3, <2>2, <2>3 DEF NewConnection
<1>4. CASE phase' = "done"
  BY <1>4 DEF CountsAgree
<1>5. CASE /\ UNCHANGED <<active, clientCount, curConn>>
           /\ phase \in {"done", "crashed"} => phase' \in {"done", "crashed"}
  BY <1>5 DEF CountsAgree, Active
<1>6. QED
  BY <1>2, <1>3, <1>4, <1>5, QuietStep

(* client_count and the current connections of the statistics count the active
   slots at every moment, however removals are nested in one another. *)
THEOREM CountsExact ==
  ASSUME LastId \in 1 .. (IdMod - 1)
  PROVE  Spec => []CountsAgree
<1>1. Init => CountsAgree
  <2>1. Init => Active = {} /\ clientCount = 0 /\ curConn = 0
    BY DEF Init, Active
  <2>2. QED
    BY <2>1, FS_EmptySet DEF CountsAgree
<1>2. TypeOK /\ ReentryInv /\ CountsAgree /\ [Next]_vars => CountsAgree'
  BY CountsStep
<1>3. QED
  BY <1>1, <1>2, TypeCorrect, ReentryInvariant, PTL DEF Spec

-----------------------------------------------------------------------------
(* Ids stay unique even when next_client_id wraps. *)

(* Until a connection gets the id 0, the counter is ahead of every id in use,
   or has just come round to 0.  A connection with the id 0 has its socket
   freed, and the server does not get past it. *)
WrapInv ==
  /\ UniqueIds
  /\ \/ nextId # 0 /\ \A s \in Active : id[s] # 0 /\ id[s] < nextId
     \/ nextId = 0 /\ \A s \in Active : id[s] # 0
     \/ /\ phase = "data" /\ todo = <<>> /\ Listen \notin working
        /\ \E s \in Active : sock[s] = "freed"
     \/ phase = "crashed"

(* A server that is about to read a freed socket can only crash. *)
LEMMA StuckStep ==
  ASSUME [Next]_vars,
         \/ /\ phase = "data" /\ todo = <<>> /\ Listen \notin working
            /\ \E s \in Active : sock[s] = "freed"
         \/ phase = "crashed"
  PROVE  /\ UNCHANGED <<id, active>>
         /\ \/ phase' = "crashed"
            \/ UNCHANGED <<phase, todo, working, sock>>
<1>1. ~Calls
  BY DEF Calls, DoSend, DoBcast, DoAnnounce, DoLeave, DoClear, Calling
<1>2. CASE MainLoop
  BY <1>2 DEF MainLoop, Start, LoopExit, Select, SelectFails, NewConnection,
              UseAfterFree, DataDone, Stop, StopCloses, Destroy, At, GoTo, slotVars
<1>3. ~Handlers
  BY DEF Handlers, NothingReceived, PeerGone, NameUnterminated, ConnectRefused, ConnectRequest,
         ChatSend, UserListRequest, DisconnectRequest, UnknownMessage,
         QuietMessage, Handles, NextReadable, NextUp, At
<1>4. ~Maintenance
  BY DEF Maintenance, CleanupRemove, HeartbeatSend, CleanupDone, UpdateFdSets, At
<1>5. CASE Sigint \/ Ended \/ UNCHANGED vars
  BY <1>5 DEF Sigint, Ended, vars, slotVars, fdSets
<1>6. QED
  BY <1>1, <1>2, <1>3, <1>4, <1>5 DEF Next, Server

LEMMA WrapStep ==
  ASSUME TypeOK, WrapInv, [Next]_vars
  PROVE  WrapInv'
<1> USE DEF UniqueIds, Active
<1>1. CASE \/ /\ phase = "data" /\ todo = <<>> /\ Listen \notin working
              /\ \E s \in Active : sock[s] = "freed"
           \/ phase = "crashed"
  <2>1. UNCHANGED <<id, active>> /\ (phase' = "crashed" \/ UNCHANGED <<phase, todo, working, sock>>)
    BY <1>1, StuckStep
  <2>2. UniqueIds'
    BY <2>1 DEF WrapInv
  <2>3. QED
    BY <1>1, <2>1, <2>2 DEF WrapInv
<1>2. ASSUME \/ /\ nextId # 0
                /\ \A s \in Active : id[s] # 0 /\ id[s] < nextId
             \/ /\ nextId = 0
                /\ \A s \in Active : id[s] # 0
      PROVE  WrapInv'
  <2>1. CASE NewConnection /\ ~UNCHANGED identity
    <3>1. PICK s \in Slots \ Active :
            /\ id' = [id EXCEPT ![s] = nextId]
            /\ active' = [active EXCEPT ![s] = TRUE]
            /\ sock' = [sock EXCEPT ![s] = IF nextId = 0 THEN "freed" ELSE "up"]
            /\ nextId' = NextId
            /\ phase' = phase /\ phase = "data" /\ todo' = <<>>
            /\ working' = working \ {Listen}
      BY <2>1 DEF NewConnection, identity, slotVars, At
    <3>2. \A t \in Active' : t = s \/ (t \in Active /\ id'[t] = id[t] /\ t # s)
      BY <3>1 DEF TypeOK
    <3>3. id'[s] = nextId /\ s \in Active' /\ sock'[s] = IF nextId = 0 THEN "freed" ELSE "up"
      BY <3>1 DEF TypeOK
    <3>4. \A t \in Active : id[t] \in Nat /\ id[t] # nextId /\ id[t] < IdMod
      BY <1>2, ConfigAssumption DEF TypeOK, Ids
    <3>5. UniqueIds'
      BY <3>2, <3>3, <3>4 DEF WrapInv
    <3>6. CASE nextId = 0
      BY <3>1, <3>3, <3>5, <3>6 DEF WrapInv
    <3>7. CASE nextId # 0
      <4>1. nextId \in Nat /\ nextId < IdMod /\ IdMod \in Nat
        BY ConfigAssumption DEF TypeOK, Ids
      <4>2. \A t \in Active' : id'[t] # 0 /\ id'[t] <= nextId
        <5>1. \A t \in Active : id[t] # 0 /\ id[t] <= nextId
          BY <1>2, <3>4, <3>7, <4>1
        <5>2. QED
          BY <3>2, <3>3, <3>7, <4>1, <5>1
      <4>3. CASE nextId = IdMod - 1
        BY <3>1, <3>5, <4>2, <4>3 DEF WrapInv, NextId
      <4>4. CASE nextId # IdMod - 1
        <5>1. nextId' = nextId + 1 /\ nextId' # 0
          BY <3>1, <4>1, <4>4 DEF NextId
        <5>2. \A t \in Active' : id'[t] \in Nat
          BY <3>2, <3>3, <3>4, <4>1
        <5>3. \A t \in Active' : id'[t] # 0 /\ id'[t] < nextId'
          BY <4>1, <4>2, <5>1, <5>2
        <5>4. QED
          BY <3>5, <5>1, <5>3 DEF WrapInv
      <4>5. QED
        BY <4>3, <4>4
    <3>8. QED
      BY <3>6, <3>7
  <2>2. CASE ~NewConnection \/ UNCHANGED identity
    <3>1. /\ nextId' = nextId
          /\ \A t \in Active' : t \in Active /\ id'[t] = id[t]
      <4>1. CASE UNCHANGED identity
        BY <4>1 DEF identity
      <4>2. CASE ~NewConnection
        <5>1. UNCHANGED nextId
          BY <4>2 DEF Next, Server, Calls, DoSend, DoBcast, DoAnnounce, DoLeave,
             DoClear, MainLoop, Start, LoopExit, Select, SelectFails, UseAfterFree,
             DataDone, Stop, StopCloses, Destroy, Handlers, NothingReceived, PeerGone,
             NameUnterminated, ConnectRefused, ConnectRequest, ChatSend, UserListRequest,
             DisconnectRequest, UnknownMessage, QuietMessage, Handles, Maintenance,
             CleanupRemove, HeartbeatSend, CleanupDone, UpdateFdSets, Sigint, Ended, vars
        <5>2. IdentityStep
          BY StepIdentity
        <5>3. CASE UNCHANGED identity
          BY <4>1, <5>3
        <5>4. ASSUME NEW s \in Slots, ClearSlot(s)
              PROVE  \A t \in Active' : t \in Active /\ id'[t] = id[t]
          BY <5>4 DEF ClearSlot, TypeOK
        <5>5. ASSUME NEW s \in Slots, ConnectSlot(s)
              PROVE  FALSE
          <6>1. nextId' # nextId
            BY <5>5, ConfigAssumption DEF ConnectSlot, TypeOK, Ids
          <6>2. QED
            BY <5>1, <6>1
        <5>6. ASSUME NEW s \in Slots, NEW n \in Names, JoinSlot(s, n)
              PROVE  \A t \in Active' : t \in Active /\ id'[t] = id[t]
          BY <5>6 DEF JoinSlot
        <5>7. CASE CloseSlots
          BY <5>1, <5>7 DEF CloseSlots
        <5>8. QED
          BY <5>1, <5>2, <5>3, <5>4, <5>5, <5>6, <5>7 DEF IdentityStep
      <4>3. QED
        BY <2>2, <4>1, <4>2
    <3>2. UniqueIds'
      BY <3>1 DEF WrapInv
    <3>3. QED
      BY <1>2, <3>1, <3>2 DEF WrapInv
  <2>3. QED
    BY <2>1, <2>2
<1>3. QED
  BY <1>1, <1>2 DEF WrapInv

(* No two active clients have the same id, for any width of next_client_id and
   any number of connections: the server never gets past the id 0. *)
THEOREM IdsUnique == Spec => []UniqueIds
<1>1. Init => WrapInv
  <2>1. Init => Active = {} /\ nextId = 1
    BY DEF Init, Active
  <2>2. QED
    BY <2>1 DEF WrapInv, UniqueIds
<1>2. TypeOK /\ WrapInv /\ [Next]_vars => WrapInv'
  BY WrapStep
<1>3. WrapInv => UniqueIds
  BY DEF WrapInv
<1>4. QED
  BY <1>1, <1>2, <1>3, TypeCorrect, PTL DEF Spec
=============================================================================
