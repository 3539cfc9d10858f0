------------------------ MODULE ChatServerRosterProofs -------------------------
(***************************************************************************)
(* Proof that the join and leave notices of ChatServer add up to the list  *)
(* of who is online, however the removals they cause are nested.           *)
(***************************************************************************)
EXTENDS ChatServerStackProofs

-----------------------------------------------------------------------------
(* Two clients found dead, one removed inside the other's removal, end the
   server: each notice of the one finds the other, again and again.  What the
   others have been told does not matter any more then. *)

DeadFrames(q, dead) == {k \in Frames(q) : q[k].slot \in dead}

Doomed(q, dead) == \E i, j \in DeadFrames(q, dead) : i < j

(* A broadcast that will find a dead client before the inner ones of the
   removals of dead clients can end. *)
Stops(q, dead, p) ==
  /\ p \in DOMAIN q /\ q[p].op = "bcast"
  /\ \E t \in Recipients(q[p]) \cap dead, j \in Frames(q) :
       p < j /\ q[j].slot = t
  /\ \A i, j \in DeadFrames(q, dead) : i < j => p < i

Sealed(q, dead) == Doomed(q, dead) => \E p \in DOMAIN q : Stops(q, dead, p)

(* The clients whose removal has begun, and the members who stay. *)
Leaving(q) == {q[k].slot : k \in Frames(q)}
Staying(q) == Authenticated \ Leaving(q)

(* A pending announcement of a new member, and the id of the client that a
   notice is about. *)
IsJoin(c) == c.op = "announce" \/ (c.op = "bcast" /\ c.kind = "joined")
About(c) == IF c.op = "announce" THEN id[c.slot] ELSE c.excl

(* A send is made before anything else, and only the welcome, never the goodbye
   to a client, with a join to be announced. *)
Shape(q) ==
  /\ \A k \in DOMAIN q : q[k].op = "send" =>
       /\ k = 1 /\ active[q[k].slot]
       /\ q[k].kind = "users" => auth[q[k].slot]
       /\ q[k].kind # "welcome" => \A i \in DOMAIN q : ~IsJoin(q[i])
  /\ \A k \in DOMAIN q : q[k].op = "leave" => \A i \in DOMAIN q : ~IsJoin(q[i])
  /\ \A k \in DOMAIN q : q[k].op = "bcast" => q[k].kind # "users"
  /\ \A k \in DOMAIN q : q[k].op = "announce" => q[k].kind \in {"system", "joined"}

(* A departure is announced inside the removal. *)
LeftsInside(q) ==
  \A k \in DOMAIN q : q[k].op = "bcast" /\ q[k].kind = "left" =>
    \E o \in Frames(q) : k < o /\ username[q[o].slot] = q[k].who

(* A client whose join is still to be announced stays: it hears no notice
   itself but those of removals, and these removed dead clients. *)
JoinersStay(q, dead, syn) ==
  \A k \in DOMAIN q : IsJoin(q[k]) =>
    /\ \E a \in Staying(q) \ syn :
         /\ username[a] = q[k].who /\ id[a] = About(q[k])
         /\ \A i \in DOMAIN q : i < k /\ q[i].op \in {"bcast", "announce"} =>
              About(q[i]) = id[a] \/ \E o \in Frames(q) : i < o
    /\ \A i \in Frames(q) : q[i].slot \in dead

(* The peer of slot s is still to be told that user n came or went. *)
Pending(q, s, n) ==
  \E k \in DOMAIN q :
    /\ q[k].op \in {"announce", "bcast"} /\ q[k].who = n
    /\ q[k].kind \in {"joined", "left"}
    /\ q[k].op = "bcast" => s \in Recipients(q[k])

(* Whoever has the list, and stays, has every user right whose coming or going
   it is not still to be told. *)
Told(q, syn, ros) ==
  \A s \in syn \ Leaving(q), n \in Names \cup {NoName} :
    Pending(q, s, n) \/ (n \in ros[s] <=> \E t \in Staying(q) : username[t] = n)

RosterAt(q, dead, syn, ros) ==
  /\ syn \subseteq Authenticated
  /\ Sealed(q, dead) /\ Shape(q)
  /\ ~Doomed(q, dead) =>
       LeftsInside(q) /\ JoinersStay(q, dead, syn) /\ Told(q, syn, ros)

RosterInv == phase # "crashed" => RosterAt(todo, Dead, synced, roster)

-----------------------------------------------------------------------------
(* Removals of dead clients inside one another. *)

LEMMA AboveDoomed ==
  ASSUME NEW q, NEW r, NEW n, Above(q, r, n), NEW dead, Doomed(r, dead)
  PROVE  Doomed(q, dead)
<1>1. PICK i \in DeadFrames(r, dead), j \in DeadFrames(r, dead) : i < j
  BY DEF Doomed
<1>2. i \in Int /\ j \in Int /\ n \in Int
  BY StackType DEF DeadFrames, Above
<1>3. /\ i + n \in Frames(q) /\ q[i + n] = r[i]
      /\ j + n \in Frames(q) /\ q[j + n] = r[j]
  BY AboveFrames DEF DeadFrames
<1>4. i + n \in DeadFrames(q, dead) /\ j + n \in DeadFrames(q, dead) /\ i + n < j + n
  BY <1>1, <1>2, <1>3 DEF DeadFrames
<1>5. QED
  BY <1>4 DEF Doomed

(* What is left of a stack when its first call, which was no removal, is done. *)
LEMMA PopSealed ==
  ASSUME NEW q, NEW r, Above(q, r, 1), 1 \notin Frames(q), NEW dead,
         Sealed(q, dead), ~Stops(q, dead, 1)
  PROVE  Sealed(r, dead) /\ (Doomed(q, dead) => Doomed(r, dead))
<1>1. /\ Len(r) \in Nat
      /\ DOMAIN q = 1 .. (Len(r) + 1) /\ DOMAIN r = 1 .. Len(r)
      /\ \A i \in 1 .. Len(r) : q[i + 1] = r[i]
  BY StackType DEF Above
<1>2. ASSUME NEW k \in Frames(q)
      PROVE  k - 1 \in Frames(r) /\ q[k] = r[k - 1] /\ k \in Int
  <2>1. k \in 1 .. (Len(r) + 1) /\ k # 1
    BY <1>1 DEF Frames
  <2>2. k > 1
    BY <2>1
  <2>3. QED
    BY <2>1, <2>2, AboveFrames
<1>3. Doomed(q, dead) => Doomed(r, dead)
  <2>1. SUFFICES ASSUME NEW i \in DeadFrames(q, dead), NEW j \in DeadFrames(q, dead), i < j
                 PROVE  Doomed(r, dead)
    BY DEF Doomed
  <2>2. i - 1 \in DeadFrames(r, dead) /\ j - 1 \in DeadFrames(r, dead) /\ i - 1 < j - 1
    BY <1>2, <2>1 DEF DeadFrames
  <2>3. QED
    BY <2>2 DEF Doomed
<1>4. Sealed(r, dead)
  <2>1. SUFFICES ASSUME Doomed(r, dead) PROVE \E p \in DOMAIN r : Stops(r, dead, p)
    BY DEF Sealed
  <2>2. PICK p \in DOMAIN q : Stops(q, dead, p)
    BY <2>1, AboveDoomed DEF Sealed
  <2>3. p - 1 \in DOMAIN r /\ p > 1 /\ q[p] = r[p - 1] /\ p \in Int
    <3>1. p # 1
      BY <2>2
    <3>2. p - 1 \in 1 .. Len(r) /\ (p - 1) + 1 = p
      BY <1>1, <3>1
    <3>3. QED
      BY <1>1, <3>2
  <2>4. PICK t \in Recipients(q[p]) \cap dead, j \in Frames(q) : p < j /\ q[j].slot = t
    BY <2>2 DEF Stops
  <2>5. j - 1 \in Frames(r) /\ r[j - 1].slot = t /\ p - 1 < j - 1
    BY <1>2, <2>3, <2>4
  <2>6. ASSUME NEW i \in DeadFrames(r, dead), NEW k \in DeadFrames(r, dead), i < k
        PROVE  p - 1 < i
    <3>1. i \in Int /\ k \in Int
      BY StackType DEF DeadFrames, Above
    <3>2. i + 1 \in DeadFrames(q, dead) /\ k + 1 \in DeadFrames(q, dead)
      BY AboveFrames DEF DeadFrames
    <3>3. p < i + 1
      BY <2>2, <2>6, <3>1, <3>2 DEF Stops
    <3>4. QED
      BY <2>3, <3>1, <3>3
  <2>7. Stops(r, dead, p - 1)
    BY <2>2, <2>3, <2>4, <2>5, <2>6 DEF Stops
  <2>8. QED
    BY <2>3, <2>7
<1>5. QED
  BY <1>3, <1>4

(* A broadcast that moves on past a client that is not dead. *)
LEMMA AdvanceSealed ==
  ASSUME NEW q, NEW r, NEW m \in Recipients(q[1]), Advances(q, r, m),
         \A t \in Recipients(q[1]) : m <= t,
         NEW dead, m \notin dead, Sealed(q, dead)
  PROVE  Sealed(r, dead) /\ (Doomed(q, dead) <=> Doomed(r, dead))
<1>1. m \in Slots /\ Active \subseteq Slots
  BY DEF Recipients, Active
<1>2. /\ DOMAIN r = DOMAIN q
      /\ \A i \in DOMAIN q : i # 1 => r[i] = q[i]
      /\ r[1].op = "bcast" /\ r[1].excl = q[1].excl
      /\ r[1].authOnly = q[1].authOnly /\ r[1].next = m + 1
      /\ Frames(r) = Frames(q)
      /\ \A k \in Frames(q) : r[k] = q[k]
  BY <1>1, AdvanceAt
<1>3. DeadFrames(r, dead) = DeadFrames(q, dead)
  BY <1>2 DEF DeadFrames
<1>4. ASSUME NEW p \in DOMAIN q, Stops(q, dead, p)
      PROVE  Stops(r, dead, p)
  <2>1. PICK t \in Recipients(q[p]) \cap dead, j \in Frames(q) : p < j /\ q[j].slot = t
    BY <1>4 DEF Stops
  <2>2. t \in Recipients(r[p]) /\ r[p].op = "bcast"
    <3>1. CASE p = 1
      <4>1. t # m /\ m <= t /\ t \in Slots
        BY <1>1, <2>1, <3>1 DEF Recipients
      <4>2. t >= m + 1
        BY <1>1, <4>1 DEF Slots
      <4>3. QED
        BY <1>2, <2>1, <3>1, <4>2 DEF Recipients
    <3>2. CASE p # 1
      BY <1>2, <1>4, <2>1, <3>2 DEF Stops
    <3>3. QED
      BY <3>1, <3>2
  <2>3. j \in Frames(r) /\ r[j].slot = t
    BY <1>2, <2>1
  <2>4. QED
    BY <1>2, <1>3, <1>4, <2>1, <2>2, <2>3 DEF Stops
<1>5. QED
  BY <1>2, <1>3, <1>4 DEF Sealed, Doomed

(* A removal inside others: if it leaves two dead clients on the stack, its own
   notices find the other one. *)
LEMMA InnerSealed ==
  ASSUME IdsInv, NEW q, NEW r, NEW m \in Active, NEW dead,
         RemovesMember(q, r, m), Inside(r, m, dead)
  PROVE  Sealed(q, dead)
<1>1. /\ Len(r) \in Nat /\ DOMAIN q = 1 .. (Len(r) + 3) /\ DOMAIN r = 1 .. Len(r)
      /\ 3 \in Frames(q) /\ \A k \in Frames(q) : k >= 3
      /\ \A k \in Frames(q) : k # 3 => k - 3 \in Frames(r) /\ q[k] = r[k - 3]
      /\ \A k \in Frames(r) : k + 3 \in Frames(q) /\ q[k + 3] = r[k]
  BY InnerRemovalFrames
<1>2. /\ Notice(q[2], m) /\ q[3].slot = m /\ r \in Seq(Call)
  BY DEF RemovesMember, Above
<1>3. /\ \A k \in Frames(q) : k \in Int /\ 2 < k
      /\ \A k \in Frames(r) : k \in Int /\ k > 1 /\ r[k].slot \in Slots
  <2>1. \A k \in Frames(q) : k \in Int /\ k >= 3
    BY <1>1 DEF Frames
  <2>2. \A k \in Frames(r) : k \in 1 .. Len(r) /\ k # 1 /\ r[k].slot \in Slots
    BY <1>2, StackType DEF Inside
  <2>3. QED
    BY <2>1, <2>2
<1>4. SUFFICES ASSUME Doomed(q, dead) PROVE \E p \in DOMAIN q : Stops(q, dead, p)
  BY DEF Sealed
<1>5. PICK o \in Frames(r) : r[o].slot \in dead /\ r[o].slot # m
  <2>1. PICK i \in DeadFrames(q, dead), j \in DeadFrames(q, dead) : i < j
    BY <1>4 DEF Doomed
  <2>2. j - 3 \in Frames(r) /\ r[j - 3].slot \in dead
    <3>1. j # 3 /\ j \in Frames(q) /\ q[j].slot \in dead
      BY <1>1, <1>3, <2>1 DEF DeadFrames
    <3>2. QED
      BY <1>1, <3>1
  <2>3. CASE r[j - 3].slot # m
    BY <2>2, <2>3
  <2>4. CASE r[j - 3].slot = m
    <3>1. PICK o \in Frames(r) : o <= j - 3 /\ id[r[o].slot] # id[m]
      BY <2>2 DEF Inside
    <3>2. o < j - 3
      <4>1. o # j - 3
        BY <2>4, <3>1
      <4>2. QED
        BY <1>3, <2>2, <3>1, <4>1
    <3>3. r[o].slot \in dead /\ r[o].slot # m
      BY <2>2, <3>1, <3>2 DEF Inside, Nested, InnerDead
    <3>4. QED
      BY <3>3
  <2>5. QED
    BY <2>3, <2>4
<1> DEFINE t == r[o].slot
<1>6. active[t] /\ auth[t] /\ t \in Slots
  BY <1>3, <1>5 DEF Inside, Nested, FramesActive
<1>7. t \in Recipients(q[2])
  <2>1. id[t] # id[m]
    BY <1>5, <1>6 DEF IdsInv, UniqueIds, Active
  <2>2. QED
    BY <1>2, <1>6, <2>1 DEF Notice, Recipients, Active, Slots
<1>8. o + 3 \in Frames(q) /\ q[o + 3].slot = t /\ 2 < o + 3
  BY <1>1, <1>3, <1>5
<1>9. 2 \in DOMAIN q /\ q[2].op = "bcast"
  BY <1>1, <1>2 DEF Notice
<1>10. \A i, j \in DeadFrames(q, dead) : i < j => 2 < i
  BY <1>3 DEF DeadFrames
<1>11. Stops(q, dead, 2)
  BY <1>5, <1>7, <1>8, <1>9, <1>10 DEF Stops
<1>12. QED
  BY <1>9, <1>11

-----------------------------------------------------------------------------
(* The stack after its first call was made. *)

LEMMA PopShift ==
  ASSUME NEW q, NEW r, Above(q, r, 1)
  PROVE  /\ \A k \in DOMAIN q : k # 1 => k - 1 \in DOMAIN r /\ q[k] = r[k - 1] /\ k > 1
         /\ \A k \in DOMAIN r : k + 1 \in DOMAIN q /\ r[k] = q[k + 1] /\ k + 1 > 1
         /\ DOMAIN q \subseteq Int /\ DOMAIN r \subseteq Int /\ 1 \in DOMAIN q
         /\ \A k \in Frames(q) : k # 1 => k - 1 \in Frames(r)
         /\ \A k \in Frames(r) : k + 1 \in Frames(q)
<1>1. /\ Len(r) \in Nat
      /\ DOMAIN q = 1 .. (Len(r) + 1) /\ DOMAIN r = 1 .. Len(r)
      /\ \A i \in 1 .. Len(r) : q[i + 1] = r[i]
  BY StackType DEF Above
<1>2. ASSUME NEW k \in DOMAIN q, k # 1
      PROVE  k - 1 \in DOMAIN r /\ q[k] = r[k - 1] /\ k > 1
  <2>1. k - 1 \in 1 .. Len(r) /\ (k - 1) + 1 = k
    BY <1>1, <1>2
  <2>2. QED
    BY <1>1, <2>1
<1>3. ASSUME NEW k \in DOMAIN r
      PROVE  k + 1 \in DOMAIN q /\ r[k] = q[k + 1] /\ k + 1 > 1
  BY <1>1
<1>4. DOMAIN q \subseteq Int /\ DOMAIN r \subseteq Int /\ 1 \in DOMAIN q
  BY <1>1
<1>5. QED
  BY <1>2, <1>3, <1>4 DEF Frames

LEMMA PopShape ==
  ASSUME NEW q, NEW r, Above(q, r, 1), Shape(q)
  PROVE  Shape(r) /\ \A k \in DOMAIN r : r[k].op # "send"
<1>1. ASSUME NEW k \in DOMAIN r, r[k].op = "send" PROVE FALSE
  <2>1. k + 1 \in DOMAIN q /\ q[k + 1].op = "send" /\ k + 1 > 1
    BY <1>1, PopShift
  <2>2. k + 1 = 1
    BY <2>1 DEF Shape
  <2>3. QED
    BY <2>1, <2>2
<1>2. \A i \in DOMAIN r : IsJoin(r[i]) => \E k \in DOMAIN q : IsJoin(q[k])
  BY PopShift
<1>3. \A k \in DOMAIN r : r[k].op = "leave" => \A i \in DOMAIN r : ~IsJoin(r[i])
  BY <1>2, PopShift DEF Shape
<1>4. \A k \in DOMAIN r : r[k].op = "bcast" => r[k].kind # "users"
  BY PopShift DEF Shape
<1>5. \A k \in DOMAIN r : r[k].op = "announce" => r[k].kind \in {"system", "joined"}
  BY PopShift DEF Shape
<1>6. QED
  BY <1>1, <1>3, <1>4, <1>5 DEF Shape

LEMMA PopLeaving ==
  ASSUME NEW q, NEW r, Above(q, r, 1), 1 \notin Frames(q)
  PROVE  Leaving(r) = Leaving(q) /\ Staying(r) = Staying(q)
<1>1. Leaving(r) \subseteq Leaving(q)
  <2>1. ASSUME NEW k \in Frames(r) PROVE r[k].slot \in Leaving(q)
    BY PopShift DEF Leaving, Frames
  <2>2. QED
    BY <2>1 DEF Leaving
<1>2. Leaving(q) \subseteq Leaving(r)
  <2>1. ASSUME NEW k \in Frames(q) PROVE q[k].slot \in Leaving(r)
    <3>1. k # 1 /\ k \in DOMAIN q
      BY DEF Frames
    <3>2. k - 1 \in Frames(r) /\ q[k] = r[k - 1]
      BY <3>1, PopShift
    <3>3. QED
      BY <3>2 DEF Leaving
  <2>2. QED
    BY <2>1 DEF Leaving
<1>3. QED
  BY <1>1, <1>2 DEF Staying

LEMMA PopLefts ==
  ASSUME NEW q, NEW r, Above(q, r, 1), LeftsInside(q)
  PROVE  LeftsInside(r)
<1>1. SUFFICES ASSUME NEW k \in DOMAIN r, r[k].op = "bcast", r[k].kind = "left"
               PROVE  \E o \in Frames(r) : k < o /\ username[r[o].slot] = r[k].who
  BY DEF LeftsInside
<1>2. k + 1 \in DOMAIN q /\ r[k] = q[k + 1] /\ k + 1 > 1 /\ k \in Int
  BY PopShift
<1>3. PICK o \in Frames(q) : k + 1 < o /\ username[q[o].slot] = q[k + 1].who
  BY <1>1, <1>2 DEF LeftsInside
<1>4. o \in Int /\ o # 1 /\ o \in DOMAIN q
  BY <1>2, <1>3, PopShift DEF Frames
<1>5. o - 1 \in Frames(r) /\ q[o] = r[o - 1] /\ k < o - 1
  BY <1>2, <1>3, <1>4, PopShift
<1>6. QED
  BY <1>2, <1>3, <1>5

LEMMA PopJoiners ==
  ASSUME NEW q, NEW r, Above(q, r, 1), 1 \notin Frames(q), NEW dead, NEW syn,
         JoinersStay(q, dead, syn)
  PROVE  JoinersStay(r, dead, syn)
<1>1. SUFFICES ASSUME NEW k \in DOMAIN r, IsJoin(r[k])
               PROVE  /\ \E a \in Staying(r) \ syn :
                           /\ username[a] = r[k].who /\ id[a] = About(r[k])
                           /\ \A i \in DOMAIN r : i < k /\ r[i].op \in {"bcast", "announce"} =>
                                About(r[i]) = id[a] \/ \E o \in Frames(r) : i < o
                      /\ \A i \in Frames(r) : r[i].slot \in dead
  BY DEF JoinersStay
<1>2. k + 1 \in DOMAIN q /\ r[k] = q[k + 1] /\ k \in Int
  BY PopShift
<1>3. PICK a \in Staying(q) \ syn :
        /\ username[a] = r[k].who /\ id[a] = About(r[k])
        /\ \A i \in DOMAIN q : i < k + 1 /\ q[i].op \in {"bcast", "announce"} =>
             About(q[i]) = id[a] \/ \E o \in Frames(q) : i < o
  BY <1>1, <1>2 DEF JoinersStay
<1>4. a \in Staying(r) \ syn
  BY PopLeaving
<1>5. ASSUME NEW i \in DOMAIN r, i < k, r[i].op \in {"bcast", "announce"},
             About(r[i]) # id[a]
      PROVE  \E o \in Frames(r) : i < o
  <2>1. i + 1 \in DOMAIN q /\ r[i] = q[i + 1] /\ i \in Int /\ i + 1 < k + 1
    BY <1>2, <1>5, PopShift
  <2>2. PICK o \in Frames(q) : i + 1 < o
    BY <1>3, <1>5, <2>1
  <2>3. o # 1 /\ o \in Int
    BY <2>2, PopShift DEF Frames
  <2>4. o - 1 \in Frames(r) /\ i < o - 1
    BY <2>1, <2>2, <2>3, PopShift
  <2>5. QED
    BY <2>4
<1>6. \A i \in Frames(r) : r[i].slot \in dead
  <2>1. ASSUME NEW i \in Frames(r) PROVE r[i].slot \in dead
    <3>1. i + 1 \in Frames(q) /\ r[i] = q[i + 1]
      BY PopShift DEF Frames
    <3>2. QED
      BY <1>1, <1>2, <3>1 DEF JoinersStay
  <2>2. QED
    BY <2>1
<1>7. QED
  BY <1>3, <1>4, <1>5, <1>6

LEMMA PopPending ==
  ASSUME NEW q, NEW r, Above(q, r, 1), NEW s, NEW n
  PROVE  /\ Pending(r, s, n) => Pending(q, s, n)
         /\ Pending(q, s, n) =>
              \/ Pending(r, s, n)
              \/ /\ q[1].op \in {"announce", "bcast"} /\ q[1].who = n
                 /\ q[1].kind \in {"joined", "left"}
                 /\ q[1].op = "bcast" => s \in Recipients(q[1])
<1>1. /\ \A k \in DOMAIN q : k # 1 => k - 1 \in DOMAIN r /\ q[k] = r[k - 1]
      /\ \A k \in DOMAIN r : k + 1 \in DOMAIN q /\ r[k] = q[k + 1]
  BY PopShift
<1>2. QED
  BY <1>1 DEF Pending

(* A call that was made and told nobody anything. *)
LEMMA PopRoster ==
  ASSUME NEW q, NEW r, Above(q, r, 1), NEW dead, NEW syn, NEW ros,
         RosterAt(q, dead, syn, ros),
         q[1].op \in {"send", "leave"} \/ (q[1].op = "bcast" /\ Recipients(q[1]) = {})
  PROVE  RosterAt(r, dead, syn, ros)
<1>1. 1 \notin Frames(q) /\ ~Stops(q, dead, 1) /\ q[1].op # "announce"
  BY DEF Frames, Stops
<1>2. Sealed(r, dead) /\ (Doomed(q, dead) => Doomed(r, dead)) /\ Shape(r)
  BY <1>1, PopSealed, PopShape DEF RosterAt
<1>3. ASSUME ~Doomed(q, dead)
      PROVE  LeftsInside(r) /\ JoinersStay(r, dead, syn) /\ Told(r, syn, ros)
  <2>1. LeftsInside(q) /\ JoinersStay(q, dead, syn) /\ Told(q, syn, ros)
    BY <1>3 DEF RosterAt
  <2>2. \A s, n : Pending(q, s, n) => Pending(r, s, n)
    <3>1. ASSUME NEW s, NEW n, Pending(q, s, n) PROVE Pending(r, s, n)
      BY <1>1, <3>1, PopPending
    <3>2. QED
      BY <3>1
  <2>3. Told(r, syn, ros)
    BY <1>1, <2>1, <2>2, PopLeaving DEF Told
  <2>4. QED
    BY <1>1, <2>1, <2>3, PopLefts, PopJoiners
<1>4. QED
  BY <1>2, <1>3 DEF RosterAt

-----------------------------------------------------------------------------
(* An announcement becomes a broadcast. *)

LEMMA AnnounceRoster ==
  ASSUME TypeOK, IdsInv, NEW q \in Seq(Call), NEW r \in Seq(Call),
         DOMAIN r = DOMAIN q, 1 \in DOMAIN q, \A i \in DOMAIN q : i # 1 => r[i] = q[i],
         q[1].op = "announce",
         r[1] = Bcast(q[1].kind, q[1].who, id[q[1].slot], TRUE),
         Frames(q) = {}, NEW dead, NEW syn, NEW ros, RosterAt(q, dead, syn, ros)
  PROVE  RosterAt(r, dead, syn, ros)
<1>1. /\ r[1].op = "bcast" /\ r[1].kind = q[1].kind /\ r[1].who = q[1].who
      /\ r[1].excl = id[q[1].slot] /\ r[1].authOnly /\ r[1].next = 1
  BY DEF Bcast
<1>2. Frames(r) = {} /\ ~Doomed(r, dead) /\ ~Doomed(q, dead)
  <2>1. Frames(r) \subseteq Frames(q)
    BY <1>1 DEF Frames
  <2>2. QED
    BY <2>1 DEF Doomed, DeadFrames
<1>3. /\ LeftsInside(q) /\ JoinersStay(q, dead, syn) /\ Told(q, syn, ros)
      /\ Shape(q) /\ syn \subseteq Authenticated
  BY <1>2 DEF RosterAt
<1>4. Leaving(r) = {} /\ Leaving(q) = {} /\ Staying(r) = Staying(q)
  BY <1>2 DEF Leaving, Staying
<1>5. q[1].kind \in {"system", "joined"}
  BY <1>3 DEF Shape
<1>6. \A i \in DOMAIN q : /\ About(r[i]) = About(q[i])
                          /\ IsJoin(r[i]) => IsJoin(q[i]) /\ r[i].who = q[i].who
                          /\ r[i].op \in {"bcast", "announce"} =>
                               q[i].op \in {"bcast", "announce"}
  BY <1>1 DEF About, IsJoin
<1>7. Shape(r)
  <2>1. ASSUME NEW k \in DOMAIN r, r[k].op = "send" \/ r[k].op = "leave"
        PROVE  \/ r[k].op = "send" /\ k = 1
               \/ r[k].op = "leave" /\ q[k].op = "leave"
    BY <1>1, <1>3, <2>1 DEF Shape
  <2>2. \A k \in DOMAIN r : r[k].op # "send"
    BY <1>1, <2>1
  <2>3. \A k \in DOMAIN r : r[k].op = "leave" => \A i \in DOMAIN r : ~IsJoin(r[i])
    BY <1>3, <1>6, <2>1 DEF Shape
  <2>4. \A k \in DOMAIN r : r[k].op = "bcast" => r[k].kind # "users"
    <3>1. r[1].kind # "users"
      BY <1>1, <1>5
    <3>2. \A k \in DOMAIN q : q[k].op = "bcast" => q[k].kind # "users"
      BY <1>3 DEF Shape
    <3>3. QED
      BY <3>1, <3>2
  <2>5. \A k \in DOMAIN r : r[k].op = "announce" => r[k].kind \in {"system", "joined"}
    BY <1>1, <1>3 DEF Shape
  <2>6. QED
    BY <2>2, <2>3, <2>4, <2>5 DEF Shape
<1>8. LeftsInside(r)
  <2>1. ASSUME NEW k \in DOMAIN r, r[k].op = "bcast", r[k].kind = "left" PROVE FALSE
    <3>1. k # 1
      BY <1>1, <1>5, <2>1
    <3>2. \E o \in Frames(q) : TRUE
      BY <1>3, <2>1, <3>1 DEF LeftsInside
    <3>3. QED
      BY <3>2
  <2>2. QED
    BY <2>1 DEF LeftsInside
<1>9. JoinersStay(r, dead, syn)
  <2>1. SUFFICES ASSUME NEW k \in DOMAIN r, IsJoin(r[k])
                 PROVE  \E a \in Staying(r) \ syn :
                           /\ username[a] = r[k].who /\ id[a] = About(r[k])
                           /\ \A i \in DOMAIN r : i < k /\ r[i].op \in {"bcast", "announce"} =>
                                About(r[i]) = id[a] \/ \E o \in Frames(r) : i < o
    BY <1>2 DEF JoinersStay
  <2>2. IsJoin(q[k]) /\ r[k].who = q[k].who /\ About(r[k]) = About(q[k])
    BY <1>6, <2>1
  <2>3. PICK a \in Staying(q) \ syn :
           /\ username[a] = q[k].who /\ id[a] = About(q[k])
           /\ \A i \in DOMAIN q : i < k /\ q[i].op \in {"bcast", "announce"} =>
                About(q[i]) = id[a] \/ \E o \in Frames(q) : i < o
    BY <1>3, <2>2 DEF JoinersStay
  <2>4. \A i \in DOMAIN r : i < k /\ r[i].op \in {"bcast", "announce"} =>
                About(r[i]) = id[a]
    BY <1>6, <2>3
  <2>5. QED
    BY <1>4, <2>2, <2>3, <2>4
<1>10. Told(r, syn, ros)
  <2>1. ASSUME NEW s \in syn, NEW n, Pending(q, s, n)
        PROVE  Pending(r, s, n)
    <3>1. PICK k \in DOMAIN q :
            /\ q[k].op \in {"announce", "bcast"} /\ q[k].who = n
            /\ q[k].kind \in {"joined", "left"}
            /\ q[k].op = "bcast" => s \in Recipients(q[k])
      BY <2>1 DEF Pending
    <3>2. CASE k # 1
      BY <3>1, <3>2 DEF Pending
    <3>3. CASE k = 1
      <4>1. PICK a \in Staying(q) \ syn : id[a] = id[q[1].slot]
        BY <1>3 DEF JoinersStay, IsJoin, About
      <4>2. s \in Active /\ a \in Active /\ s # a /\ auth[s] /\ s \in Slots
        BY <1>3, <4>1 DEF Staying, Authenticated, Active
      <4>3. id[s] # id[a]
        BY <4>2 DEF IdsInv, UniqueIds
      <4>4. id[s] # r[1].excl
        BY <1>1, <4>1, <4>3
      <4>5. s \in Recipients(r[1])
        <5>1. s >= 1
          BY <4>2 DEF Slots
        <5>2. QED
          BY <1>1, <4>2, <4>4, <5>1 DEF Recipients
      <4>6. QED
        BY <1>1, <3>1, <3>3, <4>5 DEF Pending
    <3>4. QED
      BY <3>2, <3>3
  <2>2. QED
    BY <1>3, <1>4, <2>1 DEF Told
<1>11. QED
  BY <1>2, <1>3, <1>7, <1>8, <1>9, <1>10 DEF RosterAt, Sealed

-----------------------------------------------------------------------------
(* A broadcast moves on past the client of slot m. *)

LEMMA AdvanceSays ==
  ASSUME NEW q, NEW r, NEW m \in Slots, Advances(q, r, m)
  PROVE  r[1].kind = q[1].kind /\ r[1].who = q[1].who
<1> DEFINE c == [q[1] EXCEPT !.next = m + 1]
<1>1. q \in Seq(Call) /\ q # <<>> /\ q[1] \in Call /\ q[1].op = "bcast"
      /\ Tail(q) \in Seq(Call)
  <2>1. q \in Seq(Call) /\ q # <<>> /\ q[1].op = "bcast" /\ 1 \in DOMAIN q
    BY AdvanceAt DEF Advances
  <2>2. QED
    BY <2>1, StackType, PopAt
<1>2. q[1] \in BcastCall(Notices, Names)
        \cup BcastCall(Kinds \ Notices, Names \cup {NoName})
  BY <1>1 DEF Call
<1>3. m + 1 \in 1 .. (MaxSlots + 1)
  BY ConfigAssumption DEF Slots
<1>4. c \in Call /\ c.kind = q[1].kind /\ c.who = q[1].who
  BY <1>2, <1>3 DEF BcastCall, Call
<1>5. r = <<c>> \o Tail(q)
  BY DEF Advances
<1> HIDE DEF c
<1>6. r[1] = c
  BY <1>1, <1>4, <1>5, PushAt
<1>7. QED
  BY <1>4, <1>6

LEMMA AdvanceParts ==
  ASSUME NEW q, NEW r, NEW m \in Recipients(q[1]), Advances(q, r, m),
         \A t \in Recipients(q[1]) : m <= t
  PROVE  /\ Leaving(r) = Leaving(q) /\ Staying(r) = Staying(q)
         /\ Shape(q) => Shape(r)
         /\ LeftsInside(q) => LeftsInside(r)
         /\ \A dead, syn : JoinersStay(q, dead, syn) => JoinersStay(r, dead, syn)
         /\ \A s, n : s # m /\ Pending(q, s, n) => Pending(r, s, n)
         /\ \A s, n : Pending(q, s, n) =>
              \/ Pending(r, s, n)
              \/ q[1].who = n /\ q[1].kind \in {"joined", "left"}
<1>1. m \in Slots /\ Active \subseteq Slots
  BY DEF Recipients, Active
<1>2. /\ DOMAIN r = DOMAIN q /\ 1 \in DOMAIN q
      /\ \A i \in DOMAIN q : i # 1 => r[i] = q[i]
      /\ q[1].op = "bcast" /\ r[1].op = "bcast" /\ r[1].excl = q[1].excl
      /\ r[1].authOnly = q[1].authOnly /\ r[1].next = m + 1
      /\ r[1].kind = q[1].kind /\ r[1].who = q[1].who
      /\ Frames(r) = Frames(q)
      /\ \A k \in Frames(q) : r[k] = q[k]
  <2>1. q[1].op = "bcast"
    BY DEF Advances
  <2>2. r[1].kind = q[1].kind /\ r[1].who = q[1].who
    BY <1>1, AdvanceSays
  <2>3. QED
    BY <1>1, <2>1, <2>2, AdvanceAt
<1>3. Leaving(r) = Leaving(q) /\ Staying(r) = Staying(q)
  BY <1>2 DEF Leaving, Staying
<1>4. \A i \in DOMAIN q : /\ r[i].op = q[i].op
                          /\ IsJoin(r[i]) <=> IsJoin(q[i])
                          /\ About(r[i]) = About(q[i])
                          /\ r[i].op \in {"bcast", "announce"} =>
                               r[i].who = q[i].who /\ r[i].kind = q[i].kind
  BY <1>2 DEF IsJoin, About
<1>5. Shape(q) => Shape(r)
  <2>1. \A k \in DOMAIN r : r[k].op = "send" => k # 1 /\ r[k] = q[k]
    BY <1>2
  <2>2. QED
    BY <1>2, <1>4, <2>1 DEF Shape
<1>6. LeftsInside(q) => LeftsInside(r)
  <2>1. SUFFICES ASSUME LeftsInside(q), NEW k \in DOMAIN r,
                        r[k].op = "bcast", r[k].kind = "left"
                 PROVE  \E o \in Frames(r) : k < o /\ username[r[o].slot] = r[k].who
    BY DEF LeftsInside
  <2>2. PICK o \in Frames(q) : k < o /\ username[q[o].slot] = q[k].who
    BY <1>2, <1>4, <2>1 DEF LeftsInside
  <2>3. QED
    BY <1>2, <1>4, <2>1, <2>2
<1>7. ASSUME NEW dead, NEW syn, JoinersStay(q, dead, syn)
      PROVE  JoinersStay(r, dead, syn)
  <2>1. ASSUME NEW k \in DOMAIN r, IsJoin(r[k])
        PROVE  /\ \E a \in Staying(r) \ syn :
                   /\ username[a] = r[k].who /\ id[a] = About(r[k])
                   /\ \A i \in DOMAIN r : i < k /\ r[i].op \in {"bcast", "announce"} =>
                        About(r[i]) = id[a] \/ \E o \in Frames(r) : i < o
               /\ \A i \in Frames(r) : r[i].slot \in dead
    <3>1. IsJoin(q[k]) /\ r[k].who = q[k].who
      BY <1>2, <1>4, <2>1 DEF IsJoin
    <3>2. PICK a \in Staying(q) \ syn :
             /\ username[a] = q[k].who /\ id[a] = About(q[k])
             /\ \A i \in DOMAIN q : i < k /\ q[i].op \in {"bcast", "announce"} =>
                  About(q[i]) = id[a] \/ \E o \in Frames(q) : i < o
      BY <1>2, <1>7, <2>1, <3>1 DEF JoinersStay
    <3>3. \A i \in DOMAIN r : i < k /\ r[i].op \in {"bcast", "announce"} =>
                        About(r[i]) = id[a] \/ \E o \in Frames(r) : i < o
      BY <1>2, <1>4, <3>2
    <3>4. \A i \in Frames(r) : r[i].slot \in dead
      BY <1>2, <1>7, <2>1, <3>1 DEF JoinersStay
    <3>5. QED
      BY <1>2, <1>3, <1>4, <2>1, <3>1, <3>2, <3>3, <3>4
  <2>2. QED
    BY <2>1 DEF JoinersStay
<1>8. ASSUME NEW s, NEW n, Pending(q, s, n)
      PROVE  /\ s # m => Pending(r, s, n)
             /\ Pending(r, s, n) \/ (q[1].who = n /\ q[1].kind \in {"joined", "left"})
  <2>1. PICK k \in DOMAIN q :
          /\ q[k].op \in {"announce", "bcast"} /\ q[k].who = n
          /\ q[k].kind \in {"joined", "left"}
          /\ q[k].op = "bcast" => s \in Recipients(q[k])
    BY <1>8 DEF Pending
  <2>2. CASE k # 1
    <3>1. Pending(r, s, n)
      BY <1>2, <2>1, <2>2 DEF Pending
    <3>2. QED
      BY <3>1
  <2>3. CASE k = 1
    <3>1. ASSUME s # m PROVE Pending(r, s, n)
      <4>1. s \in Recipients(q[1]) /\ s \in Slots /\ m <= s
        BY <1>1, <1>2, <2>1, <2>3 DEF Recipients
      <4>2. s >= m + 1
        BY <1>1, <3>1, <4>1 DEF Slots
      <4>3. s \in Recipients(r[1])
        BY <1>2, <4>1, <4>2 DEF Recipients
      <4>4. QED
        BY <1>2, <2>1, <2>3, <4>3 DEF Pending
    <3>2. QED
      BY <2>1, <2>3, <3>1
  <2>4. QED
    BY <2>2, <2>3
<1>9. QED
  BY <1>3, <1>5, <1>6, <1>7, <1>8

(* What Hear makes of the lists. *)
Heard(syn, ros, m, k, n) ==
  CASE k = "joined" /\ m \in syn -> [ros EXCEPT ![m] = @ \cup {n}]
    [] k = "left" /\ m \in syn -> [ros EXCEPT ![m] = @ \ {n}]
    [] OTHER -> ros

(* A broadcast that was received. *)
LEMMA HearRoster ==
  ASSUME UniqueUsernames, NEW q, NEW r, NEW m \in Recipients(q[1]),
         Advances(q, r, m), \A t \in Recipients(q[1]) : m <= t,
         NEW dead, m \notin dead, FramesActive(q), NEW syn,
         NEW ros \in [Slots -> SUBSET (Names \cup {NoName})],
         RosterAt(q, dead, syn, ros)
  PROVE  RosterAt(r, dead, syn, Heard(syn, ros, m, q[1].kind, q[1].who))
<1> DEFINE now == Heard(syn, ros, m, q[1].kind, q[1].who)
<1>1. m \in Slots /\ Active \subseteq Slots
  BY DEF Recipients, Active
<1>2. /\ Leaving(r) = Leaving(q) /\ Staying(r) = Staying(q)
      /\ Shape(q) => Shape(r)
      /\ LeftsInside(q) => LeftsInside(r)
      /\ JoinersStay(q, dead, syn) => JoinersStay(r, dead, syn)
  BY AdvanceParts
<1>3. Sealed(r, dead) /\ (Doomed(q, dead) <=> Doomed(r, dead))
  BY AdvanceSealed DEF RosterAt
<1>4. q[1].op = "bcast" /\ 1 \in DOMAIN q /\ q \in Seq(Call)
  BY <1>1, AdvanceAt DEF Advances
<1>5. ASSUME ~Doomed(q, dead), NEW s \in syn \ Leaving(q),
             NEW n \in Names \cup {NoName}, ~Pending(r, s, n)
      PROVE  n \in now[s] <=> \E t \in Staying(q) : username[t] = n
  <2>1. LeftsInside(q) /\ JoinersStay(q, dead, syn) /\ Told(q, syn, ros)
        /\ syn \subseteq Authenticated
    BY <1>5 DEF RosterAt
  <2>2. Pending(q, s, n) \/ (n \in ros[s] <=> \E t \in Staying(q) : username[t] = n)
    BY <1>5, <2>1 DEF Told
  <2>3. /\ Pending(q, s, n) =>
             s = m /\ q[1].who = n /\ q[1].kind \in {"joined", "left"}
    BY <1>5, AdvanceParts
  <2>4. s \in Slots
    BY <1>5, <2>1 DEF Authenticated, Active
  <2>5. /\ \A x \in Slots \ {m} : now[x] = ros[x]
        /\ m \in syn /\ q[1].kind = "joined" =>
             \A x : x \in now[m] <=> x \in ros[m] \/ x = q[1].who
        /\ m \in syn /\ q[1].kind = "left" =>
             \A x : x \in now[m] <=> x \in ros[m] /\ x # q[1].who
        /\ q[1].kind \notin {"joined", "left"} => now = ros
    <3> DEFINE k == q[1].kind
               w == q[1].who
    <3> HIDE DEF k, w
    <3>1. \A x \in Slots \ {m} : Heard(syn, ros, m, k, w)[x] = ros[x]
      BY <1>1 DEF Heard
    <3>2. m \in syn /\ k = "joined" =>
            \A x : x \in Heard(syn, ros, m, k, w)[m] <=> x \in ros[m] \/ x = w
      BY <1>1 DEF Heard
    <3>3. m \in syn /\ k = "left" =>
            \A x : x \in Heard(syn, ros, m, k, w)[m] <=> x \in ros[m] /\ x # w
      BY <1>1 DEF Heard
    <3>4. k \notin {"joined", "left"} => Heard(syn, ros, m, k, w) = ros
      BY <1>1 DEF Heard
    <3>5. QED
      BY <3>1, <3>2, <3>3, <3>4 DEF k, w
  <2> HIDE DEF now
  <2>6. CASE s # m
    BY <2>2, <2>3, <2>4, <2>5, <2>6
  <2>7. CASE s = m /\ q[1].kind \in {"joined", "left"} /\ q[1].who = n
    <3>1. CASE q[1].kind = "joined"
      <4>1. \E a \in Staying(q) : username[a] = n
        BY <1>4, <2>1, <2>7, <3>1 DEF JoinersStay, IsJoin
      <4>2. QED
        BY <1>5, <2>5, <2>7, <3>1, <4>1
    <3>2. CASE q[1].kind = "left"
      <4>1. PICK o \in Frames(q) : 1 < o /\ username[q[o].slot] = n
        BY <1>4, <2>1, <2>7, <3>2 DEF LeftsInside
      <4>2. q[o].slot \in Authenticated /\ q[o].slot \in Leaving(q)
        <5>1. q[o].slot \in Slots
          BY <1>4, StackType
        <5>2. active[q[o].slot] /\ auth[q[o].slot]
          BY <4>1 DEF FramesActive
        <5>3. QED
          BY <5>1, <5>2 DEF Authenticated, Active, Leaving
      <4>3. ~\E t \in Staying(q) : username[t] = n
        BY <4>1, <4>2 DEF UniqueUsernames, Staying
      <4>4. QED
        BY <1>5, <2>5, <2>7, <3>2, <4>3
    <3>3. QED
      BY <2>7, <3>1, <3>2
  <2>8. CASE s = m /\ ~(q[1].kind \in {"joined", "left"} /\ q[1].who = n)
    <3>1. n \in now[s] <=> n \in ros[s]
      BY <1>5, <2>5, <2>8
    <3>2. QED
      BY <2>2, <2>3, <2>8, <3>1
  <2>9. QED
    BY <2>6, <2>7, <2>8
<1>6. ~Doomed(r, dead) => Told(r, syn, now)
  BY <1>2, <1>3, <1>5 DEF Told
<1>7. QED
  BY <1>2, <1>3, <1>6 DEF RosterAt

-----------------------------------------------------------------------------
(* A removal begins: client m is removed while the calls r are pending. *)

Says(q, m) ==
  /\ q[1].kind = "system"
  /\ q[2].kind = "left" /\ q[2].who = username[m]

LEMMA MoreRemovals ==
  ASSUME NEW q, NEW r, NEW n, Above(q, r, n), NEW m, NEW d,
         d \in Frames(q), q[d].slot = m, \A k \in Frames(q) : k # d => k > n
  PROVE  /\ Leaving(q) = Leaving(r) \cup {m}
         /\ Staying(q) = Staying(r) \ {m}
<1>1. Leaving(q) \subseteq Leaving(r) \cup {m}
  <2>1. ASSUME NEW k \in Frames(q) PROVE q[k].slot \in Leaving(r) \cup {m}
    <3>1. k = d \/ (k - n \in Frames(r) /\ q[k] = r[k - n])
      BY AboveFrames
    <3>2. QED
      BY <3>1 DEF Leaving
  <2>2. QED
    BY <2>1 DEF Leaving
<1>2. Leaving(r) \cup {m} \subseteq Leaving(q)
  <2>1. ASSUME NEW k \in Frames(r) PROVE r[k].slot \in Leaving(q)
    BY AboveFrames DEF Leaving
  <2>2. QED
    BY <2>1 DEF Leaving
<1>3. QED
  BY <1>1, <1>2 DEF Staying

(* Client m, whose removal begins, is not one whose join is still to be
   announced, unless two dead clients keep the server from going on. *)
LEMMA NoJoinerFailed ==
  ASSUME NEW q, NEW r, NEW n, Above(q, r, n), NEW m, NEW d,
         d \in Frames(q), q[d].slot = m, d \in Int, d <= n, NEW dead, m \in dead,
         r[1].op = "bcast", id[m] # r[1].excl, ~Doomed(q, dead), NEW syn,
         JoinersStay(r, dead, syn),
         NEW k \in DOMAIN r, IsJoin(r[k]), NEW a \in Staying(r) \ syn,
         id[a] = About(r[k]),
         \A i \in DOMAIN r : i < k /\ r[i].op \in {"bcast", "announce"} =>
           About(r[i]) = id[a] \/ \E o \in Frames(r) : i < o
  PROVE  a # m
<1>1. SUFFICES ASSUME a = m PROVE FALSE
  OBVIOUS
<1>2. /\ DOMAIN r = 1 .. Len(r) /\ Len(r) \in Nat /\ n \in Nat
  BY StackType DEF Above
<1>3. About(r[1]) # id[a]
  BY <1>1 DEF About
<1>4. k # 1
  BY <1>3
<1>5. 1 < k /\ 1 \in DOMAIN r
  BY <1>2, <1>4
<1>6. PICK o \in Frames(r) : 1 < o
  BY <1>3, <1>5
<1>7. r[o].slot \in dead
  BY <1>6 DEF JoinersStay
<1>8. o + n \in DeadFrames(q, dead) /\ d \in DeadFrames(q, dead) /\ d < o + n
  <2>1. o + n \in Frames(q) /\ q[o + n] = r[o]
    BY AboveFrames
  <2>2. o \in Int
    BY <1>2 DEF Frames
  <2>3. d < o + n
    BY <1>2, <1>6, <2>2
  <2>4. QED
    BY <1>7, <2>1, <2>3 DEF DeadFrames
<1>9. QED
  BY <1>8 DEF Doomed

LEMMA ShiftLefts ==
  ASSUME NEW q, NEW r, NEW n, Above(q, r, n), LeftsInside(r),
         \A k \in DOMAIN q : k <= n /\ q[k].op = "bcast" /\ q[k].kind = "left" =>
           \E o \in Frames(q) : k < o /\ username[q[o].slot] = q[k].who
  PROVE  LeftsInside(q)
<1>1. SUFFICES ASSUME NEW k \in DOMAIN q, q[k].op = "bcast", q[k].kind = "left"
               PROVE  \E o \in Frames(q) : k < o /\ username[q[o].slot] = q[k].who
  BY DEF LeftsInside
<1>2. /\ DOMAIN r = 1 .. Len(r) /\ Len(r) \in Nat /\ n \in Nat
      /\ DOMAIN q = 1 .. (Len(r) + n)
      /\ \A i \in 1 .. Len(r) : q[i + n] = r[i]
  BY StackType DEF Above
<1>3. CASE k <= n
  BY <1>1, <1>3
<1>4. CASE k > n
  <2>1. k - n \in DOMAIN r /\ q[k] = r[k - n] /\ k \in Int
    <3>1. k - n \in 1 .. Len(r) /\ (k - n) + n = k
      BY <1>2, <1>4
    <3>2. QED
      BY <1>2, <3>1
  <2>2. PICK o \in Frames(r) : k - n < o /\ username[r[o].slot] = r[k - n].who
    BY <1>1, <2>1 DEF LeftsInside
  <2>3. o + n \in Frames(q) /\ q[o + n] = r[o] /\ o \in Int
    BY <1>2, AboveFrames DEF Frames
  <2>4. k < o + n
    BY <1>2, <2>1, <2>2, <2>3
  <2>5. QED
    BY <2>1, <2>2, <2>3, <2>4
<1>5. QED
  BY <1>2, <1>3, <1>4

(* The calls on top of r hold no join and are inside the removal of m. *)
LEMMA ShiftJoiners ==
  ASSUME NEW q, NEW r, NEW n, Above(q, r, n), NEW m, NEW d,
         d \in Frames(q), q[d].slot = m, d = n, \A k \in Frames(q) : k # d => k > n,
         \A k \in DOMAIN q : k <= n => ~IsJoin(q[k]),
         q[d].op = "clear", NEW dead, NEW syn, JoinersStay(r, dead, syn),
         ~Doomed(q, dead),
         \/ \A k \in DOMAIN r : ~IsJoin(r[k])
         \/ m \in dead /\ r[1].op = "bcast" /\ id[m] # r[1].excl
  PROVE  JoinersStay(q, dead, syn)
<1>1. /\ DOMAIN r = 1 .. Len(r) /\ Len(r) \in Nat /\ n \in Nat
      /\ DOMAIN q = 1 .. (Len(r) + n)
      /\ \A i \in 1 .. Len(r) : q[i + n] = r[i]
  BY StackType DEF Above
<1>2. SUFFICES ASSUME NEW k \in DOMAIN q, IsJoin(q[k])
               PROVE  /\ \E a \in Staying(q) \ syn :
                           /\ username[a] = q[k].who /\ id[a] = About(q[k])
                           /\ \A i \in DOMAIN q : i < k /\ q[i].op \in {"bcast", "announce"} =>
                                About(q[i]) = id[a] \/ \E o \in Frames(q) : i < o
                      /\ \A i \in Frames(q) : q[i].slot \in dead
  BY DEF JoinersStay
<1>3. k - n \in DOMAIN r /\ q[k] = r[k - n] /\ k \in Int
  <2>1. k > n
    BY <1>1, <1>2
  <2>2. k - n \in 1 .. Len(r) /\ (k - n) + n = k
    BY <1>1, <2>1
  <2>3. QED
    BY <1>1, <2>2
<1>4. m \in dead /\ r[1].op = "bcast" /\ id[m] # r[1].excl
  BY <1>2, <1>3
<1>5. PICK a \in Staying(r) \ syn :
        /\ username[a] = r[k - n].who /\ id[a] = About(r[k - n])
        /\ \A i \in DOMAIN r : i < k - n /\ r[i].op \in {"bcast", "announce"} =>
             About(r[i]) = id[a] \/ \E o \in Frames(r) : i < o
  BY <1>2, <1>3 DEF JoinersStay
<1>6. a # m
  <2>1. d \in Int /\ d <= n
    BY <1>1
  <2>2. QED
    BY <1>2, <1>3, <1>4, <1>5, <2>1, NoJoinerFailed
<1>7. a \in Staying(q) \ syn
  BY <1>5, <1>6, MoreRemovals
<1>8. ASSUME NEW i \in DOMAIN q, i < k, q[i].op \in {"bcast", "announce"},
             About(q[i]) # id[a]
      PROVE  \E o \in Frames(q) : i < o
  <2>1. i \in Int
    BY <1>1
  <2>2. CASE i <= n
    <3>1. i < d
      <4>1. i # d
        BY <1>8
      <4>2. QED
        BY <1>1, <2>1, <2>2, <4>1
    <3>2. QED
      BY <3>1
  <2>3. CASE i > n
    <3>1. i - n \in DOMAIN r /\ q[i] = r[i - n] /\ i - n < k - n
      <4>1. i - n \in 1 .. Len(r) /\ (i - n) + n = i /\ i - n < k - n
        BY <1>1, <1>3, <1>8, <2>1, <2>3
      <4>2. QED
        BY <1>1, <4>1
    <3>2. PICK o \in Frames(r) : i - n < o
      BY <1>5, <1>8, <3>1
    <3>3. o + n \in Frames(q) /\ o \in Int
      BY <1>1, AboveFrames DEF Frames
    <3>4. i < o + n
      BY <1>1, <2>1, <3>2, <3>3
    <3>5. QED
      BY <3>3, <3>4
  <2>4. QED
    BY <1>1, <2>1, <2>2, <2>3
<1>9. \A i \in Frames(q) : q[i].slot \in dead
  <2>1. \A i \in Frames(r) : r[i].slot \in dead
    BY <1>2, <1>3 DEF JoinersStay
  <2>2. ASSUME NEW i \in Frames(q) PROVE q[i].slot \in dead
    <3>1. CASE i = d
      BY <1>4, <3>1
    <3>2. CASE i # d
      BY <2>1, <3>2, AboveFrames
    <3>3. QED
      BY <3>1, <3>2
  <2>3. QED
    BY <2>2
<1>10. QED
  BY <1>3, <1>5, <1>7, <1>8, <1>9

LEMMA ShiftTold ==
  ASSUME IdsInv, NEW q, NEW r, NEW n, Above(q, r, n), NEW m \in Active, NEW d,
         d \in Frames(q), q[d].slot = m, \A k \in Frames(q) : k # d => k > n,
         NEW syn, syn \subseteq Authenticated, NEW ros, Told(r, syn \ {m}, ros),
         auth[m] => \E k \in DOMAIN q :
           Notice(q[k], m) /\ q[k].kind = "left" /\ q[k].who = username[m]
  PROVE  Told(q, syn, ros)
<1>1. /\ Leaving(q) = Leaving(r) \cup {m}
      /\ Staying(q) = Staying(r) \ {m}
  BY MoreRemovals
<1>2. \A i \in DOMAIN r : i + n \in DOMAIN q /\ q[i + n] = r[i]
  <2>1. /\ DOMAIN r = 1 .. Len(r) /\ Len(r) \in Nat /\ n \in Nat
        /\ DOMAIN q = 1 .. (Len(r) + n)
        /\ \A i \in 1 .. Len(r) : q[i + n] = r[i]
    BY StackType DEF Above
  <2>2. QED
    BY <2>1
<1>3. SUFFICES ASSUME NEW s \in syn \ Leaving(q), NEW u \in Names \cup {NoName},
                      ~Pending(q, s, u)
               PROVE  u \in ros[s] <=> \E t \in Staying(q) : username[t] = u
  BY DEF Told
<1>4. s \in (syn \ {m}) \ Leaving(r)
  BY <1>1
<1>5. ~Pending(r, s, u)
  BY <1>2, <1>3 DEF Pending
<1>6. u \in ros[s] <=> \E t \in Staying(r) : username[t] = u
  BY <1>4, <1>5 DEF Told
<1>7. auth[m] => username[m] # u
  <2>1. SUFFICES ASSUME auth[m], username[m] = u PROVE FALSE
    OBVIOUS
  <2>2. PICK k \in DOMAIN q :
          Notice(q[k], m) /\ q[k].kind = "left" /\ q[k].who = username[m]
    BY <2>1
  <2>3. s \in Active /\ auth[s] /\ s # m /\ s \in Slots
    BY <1>1, <1>4 DEF Authenticated, Active
  <2>4. id[s] # id[m]
    BY <2>3 DEF IdsInv, UniqueIds
  <2>5. s \in Recipients(q[k])
    BY <2>2, <2>3, <2>4 DEF Notice, Recipients, Slots
  <2>6. Pending(q, s, u)
    BY <2>1, <2>2, <2>5 DEF Pending, Notice
  <2>7. QED
    BY <1>3, <2>6
<1>8. \A t \in Staying(r) : username[t] = u => t # m
  BY <1>7 DEF Staying, Authenticated
<1>9. QED
  BY <1>1, <1>6, <1>8

LEMMA ShiftShape ==
  ASSUME NEW q, NEW r, NEW n, Above(q, r, n), Shape(r),
         \A k \in DOMAIN r : r[k].op # "send",
         \A k \in DOMAIN q : k <= n =>
           /\ q[k].op \in {"bcast", "clear"} /\ ~IsJoin(q[k])
           /\ q[k].op = "bcast" => q[k].kind # "users"
  PROVE  Shape(q)
<1>1. /\ DOMAIN r = 1 .. Len(r) /\ Len(r) \in Nat /\ n \in Nat
      /\ DOMAIN q = 1 .. (Len(r) + n)
      /\ \A i \in 1 .. Len(r) : q[i + n] = r[i]
  BY StackType DEF Above
<1>2. ASSUME NEW k \in DOMAIN q
      PROVE  k <= n \/ (k - n \in DOMAIN r /\ q[k] = r[k - n])
  <2>1. CASE k > n
    <3>1. k - n \in 1 .. Len(r) /\ (k - n) + n = k
      BY <1>1, <2>1
    <3>2. QED
      BY <1>1, <3>1
  <2>2. QED
    BY <1>1, <2>1
<1>3. \A k \in DOMAIN q : q[k].op # "send"
  BY <1>2
<1>4. \A k \in DOMAIN q : IsJoin(q[k]) => \E i \in DOMAIN r : IsJoin(r[i])
  BY <1>2
<1>5. \A k \in DOMAIN q : q[k].op = "leave" => \E i \in DOMAIN r : r[i].op = "leave"
  BY <1>2
<1>6. \A k \in DOMAIN q : q[k].op = "leave" => \A i \in DOMAIN q : ~IsJoin(q[i])
  BY <1>4, <1>5 DEF Shape
<1>7. \A k \in DOMAIN q : q[k].op = "bcast" => q[k].kind # "users"
  BY <1>2 DEF Shape
<1>8. \A k \in DOMAIN q : q[k].op = "announce" => q[k].kind \in {"system", "joined"}
  BY <1>2 DEF Shape
<1>9. QED
  BY <1>3, <1>6, <1>7, <1>8 DEF Shape

Removes(q, r, m) ==
  IF auth[m] THEN RemovesMember(q, r, m) /\ Says(q, m) ELSE RemovesGuest(q, r, m)

(* What the two ways to remove a client have in common. *)
LEMMA RemovalTop ==
  ASSUME NEW q, NEW r, NEW m, Removes(q, r, m)
  PROVE  \E n \in {1, 3} :
           /\ Above(q, r, n) /\ n \in Frames(q) /\ q[n].slot = m /\ q[n].op = "clear"
           /\ \A k \in Frames(q) : k # n => k > n
           /\ \A k \in DOMAIN q : k <= n =>
                /\ q[k].op \in {"bcast", "clear"} /\ ~IsJoin(q[k])
                /\ q[k].op = "bcast" => k < n /\ q[k].kind # "users"
                /\ q[k].op = "bcast" /\ q[k].kind = "left" => q[k].who = username[m]
           /\ auth[m] => \E k \in DOMAIN q :
                Notice(q[k], m) /\ q[k].kind = "left" /\ q[k].who = username[m]
<1>1. CASE auth[m]
  <2>1. /\ RemovesMember(q, r, m) /\ Says(q, m)
    BY <1>1 DEF Removes
  <2>2. /\ Above(q, r, 3) /\ Len(r) \in Nat /\ DOMAIN q = 1 .. (Len(r) + 3)
        /\ 3 \in Frames(q) /\ \A k \in Frames(q) : k >= 3
        /\ q[3].op = "clear" /\ q[3].slot = m
        /\ Notice(q[1], m) /\ Notice(q[2], m)
    BY <2>1, InnerRemovalFrames DEF RemovesMember
  <2>3. \A k \in Frames(q) : k # 3 => k > 3
    BY <2>2 DEF Frames
  <2>4. \A k \in DOMAIN q : k <= 3 => k = 1 \/ k = 2 \/ k = 3
    BY <2>2
  <2>5. /\ q[1].op = "bcast" /\ q[1].kind = "system"
        /\ q[2].op = "bcast" /\ q[2].kind = "left" /\ q[2].who = username[m]
    BY <2>1, <2>2 DEF Notice, Says
  <2>6. \A k \in DOMAIN q : k <= 3 =>
          /\ q[k].op \in {"bcast", "clear"} /\ ~IsJoin(q[k])
          /\ q[k].op = "bcast" => k < 3 /\ q[k].kind # "users"
          /\ q[k].op = "bcast" /\ q[k].kind = "left" => q[k].who = username[m]
    <3>1. ASSUME NEW k \in DOMAIN q, k <= 3
          PROVE  /\ q[k].op \in {"bcast", "clear"} /\ ~IsJoin(q[k])
                 /\ q[k].op = "bcast" => k < 3 /\ q[k].kind # "users"
                 /\ q[k].op = "bcast" /\ q[k].kind = "left" => q[k].who = username[m]
      <4>1. CASE k = 1
        BY <2>5, <4>1 DEF IsJoin
      <4>2. CASE k = 2
        BY <2>5, <4>2 DEF IsJoin
      <4>3. CASE k = 3
        BY <2>2, <4>3 DEF IsJoin
      <4>4. QED
        BY <2>4, <3>1, <4>1, <4>2, <4>3
    <3>2. QED
      BY <3>1
  <2>7. 2 \in DOMAIN q
    BY <2>2
  <2>8. QED
    BY <2>2, <2>3, <2>5, <2>6, <2>7
<1>2. CASE ~auth[m]
  <2>1. Above(q, r, 1) /\ q[1].op = "clear" /\ q[1].slot = m
    BY <1>2 DEF Removes, RemovesGuest
  <2>2. Len(r) \in Nat /\ DOMAIN q = 1 .. (Len(r) + 1)
    BY <2>1, StackType DEF Above
  <2>3. 1 \in Frames(q) /\ \A k \in DOMAIN q : k <= 1 => k = 1
    BY <2>1, <2>2 DEF Frames
  <2>4. \A k \in Frames(q) : k # 1 => k > 1
    BY <2>2 DEF Frames
  <2>5. \A k \in DOMAIN q : k <= 1 =>
          /\ q[k].op \in {"bcast", "clear"} /\ ~IsJoin(q[k])
          /\ q[k].op = "bcast" => k < 1 /\ q[k].kind # "users"
          /\ q[k].op = "bcast" /\ q[k].kind = "left" => q[k].who = username[m]
    BY <2>1, <2>3 DEF IsJoin
  <2>6. QED
    BY <1>2, <2>1, <2>3, <2>4, <2>5
<1>3. QED
  BY <1>1, <1>2

LEMMA EnterRoster ==
  ASSUME IdsInv, NEW q, NEW r, NEW m \in Active, Removes(q, r, m),
         NEW dead, Sealed(q, dead), NEW syn, NEW ros, syn \subseteq Authenticated,
         Shape(r), \A k \in DOMAIN r : r[k].op # "send",
         \/ \A k \in DOMAIN r : ~IsJoin(r[k])
         \/ m \in dead /\ r[1].op = "bcast" /\ id[m] # r[1].excl,
         ~Doomed(q, dead) =>
           LeftsInside(r) /\ JoinersStay(r, dead, syn) /\ Told(r, syn \ {m}, ros)
  PROVE  RosterAt(q, dead, syn, ros)
<1>1. PICK n \in {1, 3} :
           /\ Above(q, r, n) /\ n \in Frames(q) /\ q[n].slot = m /\ q[n].op = "clear"
           /\ \A k \in Frames(q) : k # n => k > n
           /\ \A k \in DOMAIN q : k <= n =>
                /\ q[k].op \in {"bcast", "clear"} /\ ~IsJoin(q[k])
                /\ q[k].op = "bcast" => k < n /\ q[k].kind # "users"
                /\ q[k].op = "bcast" /\ q[k].kind = "left" => q[k].who = username[m]
           /\ auth[m] => \E k \in DOMAIN q :
                Notice(q[k], m) /\ q[k].kind = "left" /\ q[k].who = username[m]
  BY RemovalTop
<1>2. Shape(q)
  BY <1>1, ShiftShape
<1>3. ASSUME ~Doomed(q, dead)
      PROVE  LeftsInside(q) /\ JoinersStay(q, dead, syn) /\ Told(q, syn, ros)
  <2>1. LeftsInside(r) /\ JoinersStay(r, dead, syn) /\ Told(r, syn \ {m}, ros)
    BY <1>3
  <2>2. \A k \in DOMAIN q : k <= n /\ q[k].op = "bcast" /\ q[k].kind = "left" =>
           \E o \in Frames(q) : k < o /\ username[q[o].slot] = q[k].who
    BY <1>1
  <2>3. LeftsInside(q)
    BY <1>1, <2>1, <2>2, ShiftLefts
  <2>4. \A k \in DOMAIN q : k <= n => ~IsJoin(q[k])
    BY <1>1
  <2>5. JoinersStay(q, dead, syn)
    BY <1>1, <1>3, <2>1, <2>4, ShiftJoiners
  <2>6. Told(q, syn, ros)
    BY <1>1, <2>1, ShiftTold
  <2>7. QED
    BY <2>3, <2>5, <2>6
<1>4. QED
  BY <1>2, <1>3 DEF RosterAt

(* The first removal cannot be one of two. *)
LEMMA FirstSealed ==
  ASSUME NEW q, NEW r, NEW m, Removes(q, r, m), Frames(r) = {}, NEW dead
  PROVE  Sealed(q, dead)
<1>1. PICK n \in {1, 3} :
           /\ Above(q, r, n) /\ n \in Frames(q)
           /\ \A k \in Frames(q) : k # n => k > n
  BY RemovalTop
<1>2. \A k \in Frames(q) : k = n
  BY <1>1, AboveFrames
<1>3. ~Doomed(q, dead)
  BY <1>2 DEF Doomed, DeadFrames
<1>4. QED
  BY <1>3 DEF Sealed

(* RemoveCalls is such a removal. *)
LEMMA RemovalSays ==
  ASSUME TypeOK, UniqueUsernames, NEW m \in Active, NEW r \in Seq(Call)
  PROVE  Removes(RemoveCalls(m) \o r, r, m)
<1>1. CASE ~auth[m]
  BY <1>1, RemovalStack DEF Removes
<1>2. CASE auth[m]
  <2> DEFINE a == Bcast("system", username[m], id[m], TRUE)
             b == Bcast("left", username[m], id[m], TRUE)
             q == <<a, b, Clear(m)>> \o r
  <2>1. m \in Slots /\ username[m] \in Names /\ username[m] # NoName /\ id[m] \in Ids
    BY <1>2 DEF UniqueUsernames, Authenticated, Active, TypeOK
  <2>2. RemoveCalls(m) \o r = q
    BY <1>2, <2>1 DEF RemoveCalls
  <2>3. a \in Call /\ b \in Call /\ Clear(m) \in Call
    BY <2>1, CallTypes DEF Notices
  <2>4. /\ a.kind = "system" /\ b.kind = "left" /\ b.who = username[m]
    BY DEF Bcast
  <2>5. q[1] = a /\ q[2] = b
    <3> HIDE DEF a, b
    <3>1. QED
      BY <2>3, PushThreeAt
  <2>6. Says(q, m)
    BY <2>4, <2>5 DEF Says
  <2>7. RemovesMember(RemoveCalls(m) \o r, r, m)
    BY <1>2, RemovalStack
  <2>8. QED
    BY <1>2, <2>2, <2>6, <2>7 DEF Removes
<1>3. QED
  BY <1>1, <1>2

-----------------------------------------------------------------------------
(* The calls on the stack. *)

LEMMA NewRoster ==
  ASSUME UNCHANGED <<id, active, auth, username>>,
         phase' # "crashed" => RosterAt(todo', Dead', synced', roster')
  PROVE  RosterInv'
<1>1. SUFFICES ASSUME phase' # "crashed" PROVE RosterAt(todo, Dead, synced, roster)'
  BY DEF RosterInv
<1>2. /\ Sealed(todo', Dead') /\ Shape(todo') /\ synced' \subseteq Authenticated
      /\ ~Doomed(todo', Dead') =>
           /\ LeftsInside(todo') /\ JoinersStay(todo', Dead', synced')
           /\ Told(todo', synced', roster')
  BY <1>1 DEF RosterAt
<1>3. Active' = Active /\ Authenticated' = Authenticated
  BY DEF Active, Authenticated
<1>4. (synced \subseteq Authenticated)'
  BY <1>2, <1>3
<1>5. Sealed(todo, Dead)' /\ (Doomed(todo, Dead)' <=> Doomed(todo', Dead'))
  <2>1. DeadFrames(todo, Dead)' = DeadFrames(todo', Dead')
    BY DEF DeadFrames, Frames
  <2>2. \A p : Stops(todo', Dead', p) => Stops(todo, Dead, p)'
    BY <1>3, <2>1 DEF Stops, Recipients, Frames
  <2>3. Doomed(todo, Dead)' <=> Doomed(todo', Dead')
    BY <2>1 DEF Doomed
  <2>4. QED
    BY <1>2, <2>2, <2>3 DEF Sealed
<1>6. Shape(todo)'
  BY <1>2 DEF Shape, IsJoin
<1>7. LeftsInside(todo') => LeftsInside(todo)'
  BY DEF LeftsInside, Frames
<1>8. JoinersStay(todo', Dead', synced') => JoinersStay(todo, Dead, synced)'
  BY <1>3 DEF JoinersStay, IsJoin, About, Staying, Leaving, Frames
<1>9. Told(todo', synced', roster') => Told(todo, synced, roster)'
  <2>1. /\ Leaving(todo)' = Leaving(todo')
        /\ Staying(todo)' = Staying(todo')
    BY <1>3 DEF Staying, Leaving, Frames
  <2>2. \A s, n : Pending(todo', s, n) => Pending(todo, s, n)'
    BY <1>3 DEF Pending, Recipients
  <2>3. QED
    BY <2>1, <2>2 DEF Told
<1>10. QED
  BY <1>2, <1>4, <1>5, <1>6, <1>7, <1>8, <1>9 DEF RosterAt

(* Entering server_remove_client. *)
LEMMA EnterStep ==
  ASSUME TypeOK, IdsInv, UniqueUsernames, NEW m \in Active, NEW r \in Seq(Call),
         EnterRemove(m, r), UNCHANGED <<id, active, auth, username, told>>,
         Frames(r) = {} \/ Inside(r, m, Dead'),
         synced \subseteq Authenticated,
         Shape(r), \A k \in DOMAIN r : r[k].op # "send",
         \/ \A k \in DOMAIN r : ~IsJoin(r[k])
         \/ m \in Dead' /\ r[1].op = "bcast" /\ id[m] # r[1].excl,
         ~Doomed(r, Dead') =>
           /\ LeftsInside(r) /\ JoinersStay(r, Dead', synced)
           /\ Told(r, synced \ {m}, roster)
  PROVE  RosterInv'
<1>1. synced' = synced /\ roster' = roster
  BY DEF told
<1>2. CASE phase' = "crashed"
  BY <1>2, NewRoster
<1>3. CASE phase' # "crashed"
  <2> DEFINE q == RemoveCalls(m) \o r
  <2>1. todo' = q
    BY <1>3 DEF EnterRemove
  <2>2. Removes(q, r, m)
    BY RemovalSays
  <2> HIDE DEF q
  <2>3. Sealed(q, Dead')
    <3>1. CASE Frames(r) = {}
      BY <2>2, <3>1, FirstSealed
    <3>2. CASE Inside(r, m, Dead')
      <4>1. RemovesMember(q, r, m)
        BY <2>2, <3>2 DEF Removes, Inside
      <4>2. QED
        BY <3>2, <4>1, InnerSealed
    <3>3. QED
      BY <3>1, <3>2
  <2>4. ~Doomed(q, Dead') => ~Doomed(r, Dead')
    <3>1. PICK n \in {1, 3} : Above(q, r, n)
      BY <2>2, RemovalTop
    <3>2. QED
      BY <3>1, AboveDoomed
  <2>5. RosterAt(q, Dead', synced, roster)
    BY <2>2, <2>3, <2>4, EnterRoster
  <2>6. QED
    BY <1>1, <2>1, <2>5, NewRoster
<1>4. QED
  BY <1>2, <1>3

(* Fewer need to be right when one more is leaving. *)
LEMMA ToldLess ==
  ASSUME NEW q, NEW syn, NEW ros, NEW m, Told(q, syn, ros)
  PROVE  Told(q, syn \ {m}, ros)
BY DEF Told

(* The list of users was received. *)
LEMMA SyncRoster ==
  ASSUME NEW q, NEW r, Above(q, r, 1), Frames(q) = {}, q[1].op = "send",
         q[1].kind = "users", NEW t \in Slots, t = q[1].slot, NEW dead, NEW syn,
         NEW ros \in [Slots -> SUBSET (Names \cup {NoName})],
         RosterAt(q, dead, syn, ros)
  PROVE  RosterAt(r, dead, syn \cup {t}, [ros EXCEPT ![t] = Online])
<1>1. RosterAt(r, dead, syn, ros)
  BY PopRoster
<1>2. 1 \in DOMAIN q
  BY PopShift
<1>3. active[t] /\ auth[t] /\ \A k \in DOMAIN q : ~IsJoin(q[k])
  BY <1>2 DEF RosterAt, Shape
<1>4. t \in Authenticated
  BY <1>3 DEF Authenticated, Active
<1>5. \A k \in DOMAIN r : ~IsJoin(r[k])
  BY <1>3, PopShift
<1>6. Frames(r) = {} /\ Leaving(r) = {} /\ Staying(r) = Authenticated
  <2>1. Frames(r) = {}
    BY PopShift
  <2>2. QED
    BY <2>1 DEF Leaving, Staying
<1>7. ~Doomed(r, dead)
  BY <1>6 DEF Doomed, DeadFrames
<1>8. JoinersStay(r, dead, syn \cup {t})
  BY <1>5 DEF JoinersStay
<1>9. Told(r, syn \cup {t}, [ros EXCEPT ![t] = Online])
  <2>1. Told(r, syn, ros)
    BY <1>1, <1>7 DEF RosterAt
  <2>2. syn \subseteq Slots
    BY <1>1 DEF RosterAt, Authenticated, Active
  <2> DEFINE now == [ros EXCEPT ![t] = Online]
  <2>3. \A s \in syn \ {t} : now[s] = ros[s]
    BY <2>2
  <2>4. now[t] = Online
    OBVIOUS
  <2> HIDE DEF now
  <2>5. \A n : n \in now[t] <=> \E x \in Staying(r) : username[x] = n
    BY <1>6, <2>4 DEF Online
  <2>6. Told(r, syn \cup {t}, now)
    BY <2>1, <2>3, <2>5 DEF Told
  <2>7. QED
    BY <2>6 DEF now
<1>10. syn \cup {t} \subseteq Authenticated
  BY <1>1, <1>4 DEF RosterAt
<1>11. QED
  BY <1>1, <1>7, <1>8, <1>9, <1>10 DEF RosterAt

LEMMA SendRoster ==
  ASSUME TypeOK, IdsInv, UniqueUsernames, StackInv, RosterInv,
         "welcome" \notin LostKinds, DoSend
  PROVE  RosterInv'
<1> DEFINE r == Tail(todo)
<1>1. todo # <<>> /\ Head(todo).op = "send" /\ phase # "crashed" /\ todo \in Seq(Call)
  BY DEF DoSend, Calling, TypeOK
<1>2. /\ Frames(todo) = {} /\ Frames(r) = {} /\ r \in Seq(Call)
      /\ Head(todo) = todo[1] /\ 1 \in DOMAIN todo /\ Above(todo, r, 1)
      /\ todo[1] \in Call
  BY <1>1, NotInside, PopAt, PopAbove, HeadCall
<1>3. RosterAt(todo, Dead, synced, roster)
  BY <1>1 DEF RosterInv
<1>4. /\ active[todo[1].slot] /\ todo[1].slot \in Slots
      /\ todo[1].kind \in Kinds \ Notices
  <2>1. active[todo[1].slot]
    BY <1>1, <1>2, <1>3 DEF RosterAt, Shape
  <2>2. todo[1].slot \in Slots /\ todo[1].kind \in Kinds \ Notices
    BY <1>1, <1>2 DEF Call, BcastCall
  <2>3. QED
    BY <2>1, <2>2
<1> DEFINE m == todo[1].slot
           k == todo[1].kind
<1>5. m \in Active /\ sock[m] = "up" /\ FindById(id[m]) = {m}
  <2>1. m \in Active
    BY <1>4 DEF Active
  <2>2. QED
    BY <1>1, <1>2, <2>1, AllConnected, FindSelf
<1>6. SendTo(m, k, NoName, r)
  BY <1>2, <1>5 DEF DoSend
<1>7. UNCHANGED <<id, active, auth, username>>
  BY DEF DoSend
<1> HIDE DEF r
<1>8. RosterAt(r, Dead, synced, roster) /\ \A i \in DOMAIN r : r[i].op # "send"
  <2>1. todo[1].op = "send"
    BY <1>1, <1>2
  <2>2. QED
    BY <1>2, <1>3, <2>1, PopRoster, PopShape DEF RosterAt
<1>9. CASE todo' = r /\ Hear(m, k, NoName) /\ UNCHANGED <<sock, phase>>
  <2>1. Dead' = Dead
    BY <1>9 DEF Dead
  <2>2. CASE k = "users"
    <3>1. synced' = synced \cup {m} /\ roster' = [roster EXCEPT ![m] = Online]
      BY <1>9, <2>2 DEF Hear
    <3>2. todo[1].op = "send"
      BY <1>1, <1>2
    <3>3. RosterAt(r, Dead, synced \cup {m}, [roster EXCEPT ![m] = Online])
      BY <1>2, <1>3, <1>4, <2>2, <3>2, SyncRoster DEF TypeOK
    <3>4. QED
      BY <1>7, <1>9, <2>1, <3>1, <3>3, NewRoster
  <2>3. CASE k # "users"
    <3>1. k # "joined" /\ k # "left"
      BY <1>4 DEF Notices
    <3>2. synced' = synced /\ roster' = roster
      BY <1>9, <2>3, <3>1 DEF Hear
    <3>3. QED
      BY <1>7, <1>8, <1>9, <2>1, <3>2, NewRoster
  <2>4. QED
    BY <2>2, <2>3
<1>10. CASE todo' = r /\ UNCHANGED <<sock, phase, told>>
  <2>1. Dead' = Dead /\ synced' = synced /\ roster' = roster
    BY <1>10 DEF Dead, told
  <2>2. QED
    BY <1>7, <1>8, <1>10, <2>1, NewRoster
<1>11. CASE k \in LostKinds /\ EnterRemove(m, r) /\ UNCHANGED told
  <2>1. \A i \in DOMAIN todo : ~IsJoin(todo[i])
    BY <1>1, <1>2, <1>3, <1>11 DEF RosterAt, Shape
  <2>2. \A i \in DOMAIN r : ~IsJoin(r[i])
    BY <1>2, <2>1, PopShift
  <2>3. ~Doomed(r, Dead)
    BY <1>2 DEF Doomed, DeadFrames
  <2>4. LeftsInside(r) /\ Told(r, synced, roster) /\ Shape(r) /\ synced \subseteq Authenticated
    BY <1>8, <2>3 DEF RosterAt
  <2>5. JoinersStay(r, Dead', synced)
    BY <2>2 DEF JoinersStay
  <2>6. Told(r, synced \ {m}, roster)
    BY <2>4, ToldLess
  <2>7. UNCHANGED <<id, active, auth, username, told>>
    BY <1>7, <1>11
  <2>8. QED
    BY <1>2, <1>5, <1>8, <1>11, <2>2, <2>4, <2>5, <2>6, <2>7, EnterStep
<1>12. QED
  BY <1>5, <1>6, <1>9, <1>10, <1>11 DEF SendTo

LEMMA LeaveRoster ==
  ASSUME TypeOK, IdsInv, UniqueUsernames, StackInv, RosterInv, DoLeave
  PROVE  RosterInv'
<1> DEFINE r == Tail(todo)
<1>1. todo # <<>> /\ Head(todo).op = "leave" /\ phase # "crashed" /\ todo \in Seq(Call)
  BY DEF DoLeave, Calling, TypeOK
<1>2. /\ Frames(todo) = {} /\ Frames(r) = {} /\ r \in Seq(Call)
      /\ Head(todo) = todo[1] /\ 1 \in DOMAIN todo /\ Above(todo, r, 1)
  BY <1>1, NotInside, PopAt, PopAbove
<1>3. RosterAt(todo, Dead, synced, roster)
  BY <1>1 DEF RosterInv
<1>4. UNCHANGED <<id, active, auth, username, told>> /\ Dead' = Dead
      /\ synced' = synced /\ roster' = roster
  BY DEF DoLeave, slotVars, told, Dead
<1>5. \/ todo' = r /\ phase' = phase
      \/ \E m \in FindById(id[Head(todo).slot]) : EnterRemove(m, r)
  BY DEF DoLeave
<1> HIDE DEF r
<1>6. RosterAt(r, Dead, synced, roster) /\ \A i \in DOMAIN r : r[i].op # "send"
  <2>1. todo[1].op = "leave"
    BY <1>1, <1>2
  <2>2. QED
    BY <1>2, <1>3, <2>1, PopRoster, PopShape DEF RosterAt
<1>7. CASE todo' = r /\ phase' = phase
  BY <1>4, <1>6, <1>7, NewRoster
<1>8. ASSUME NEW m \in FindById(id[Head(todo).slot]), EnterRemove(m, r)
      PROVE  RosterInv'
  <2>1. \A i \in DOMAIN todo : ~IsJoin(todo[i])
    BY <1>1, <1>2, <1>3 DEF RosterAt, Shape
  <2>2. \A i \in DOMAIN r : ~IsJoin(r[i])
    BY <1>2, <2>1, PopShift
  <2>3. ~Doomed(r, Dead)
    BY <1>2 DEF Doomed, DeadFrames
  <2>4. LeftsInside(r) /\ Told(r, synced, roster) /\ Shape(r) /\ synced \subseteq Authenticated
    BY <1>6, <2>3 DEF RosterAt
  <2>5. JoinersStay(r, Dead', synced)
    BY <2>2 DEF JoinersStay
  <2>6. Told(r, synced \ {m}, roster) /\ m \in Active
    BY <1>8, <2>4, ToldLess DEF FindById
  <2>7. QED
    BY <1>2, <1>4, <1>6, <1>8, <2>2, <2>4, <2>5, <2>6, EnterStep
<1>9. QED
  BY <1>5, <1>7, <1>8

LEMMA AnnounceStepRoster ==
  ASSUME TypeOK, IdsInv, StackInv, RosterInv, DoAnnounce
  PROVE  RosterInv'
<1> DEFINE c == Head(todo)
           d == Bcast(c.kind, c.who, id[c.slot], TRUE)
           r == Tail(todo)
<1>1. /\ todo # <<>> /\ c.op = "announce" /\ phase # "crashed" /\ todo \in Seq(Call)
      /\ todo' = <<d>> \o r
      /\ UNCHANGED <<slotVars, phase, told>>
  BY DEF DoAnnounce, Calling, TypeOK
<1>2. /\ Frames(todo) = {} /\ r \in Seq(Call) /\ c = todo[1] /\ c \in Call
      /\ Above(todo, r, 1)
  BY <1>1, NotInside, PopAt, PopAbove, HeadCall
<1>3. d \in Call
  <2>1. c.slot \in Slots /\ c.kind \in Notices /\ c.who \in Names
    BY <1>1, <1>2 DEF Call, BcastCall
  <2>2. id[c.slot] \in Ids /\ c.who # NoName
    BY <2>1, ConfigAssumption DEF TypeOK
  <2>3. QED
    BY <2>1, <2>2, CallTypes
<1>4. d = Bcast(todo[1].kind, todo[1].who, id[todo[1].slot], TRUE) /\ todo[1].op = "announce"
  BY <1>1, <1>2
<1> HIDE DEF c, d, r
<1>5. todo' \in Seq(Call) /\ todo'[1] = d /\ Above(todo', r, 1)
  BY <1>1, <1>2, <1>3, PushAt DEF Above
<1>6. DOMAIN todo' = DOMAIN todo /\ 1 \in DOMAIN todo
      /\ \A i \in DOMAIN todo : i # 1 => todo'[i] = todo[i]
  <2>1. DOMAIN todo' = DOMAIN todo
    BY <1>2, <1>5, StackType DEF Above
  <2>2. \A i \in DOMAIN todo : i # 1 => todo'[i] = todo[i]
    BY <1>2, <1>5, <2>1, PopShift
  <2>3. QED
    BY <1>2, <2>1, <2>2, PopShift
<1>7. UNCHANGED <<id, active, auth, username>> /\ Dead' = Dead
      /\ synced' = synced /\ roster' = roster
  BY <1>1 DEF slotVars, told, Dead
<1>8. RosterAt(todo, Dead, synced, roster)
  BY <1>1 DEF RosterInv
<1>9. RosterAt(todo', Dead, synced, roster)
  <2> DEFINE q == todo'
  <2>1. /\ q \in Seq(Call) /\ DOMAIN q = DOMAIN todo
        /\ \A i \in DOMAIN todo : i # 1 => q[i] = todo[i]
        /\ q[1] = Bcast(todo[1].kind, todo[1].who, id[todo[1].slot], TRUE)
    BY <1>4, <1>5, <1>6
  <2> HIDE DEF q
  <2>2. RosterAt(q, Dead, synced, roster)
    BY <1>1, <1>2, <1>4, <1>6, <1>8, <2>1, AnnounceRoster
  <2>3. QED
    BY <2>2 DEF q
<1>10. QED
  BY <1>7, <1>9, NewRoster

LEMMA JoinersMoreDead ==
  ASSUME NEW q, NEW dead, NEW more, dead \subseteq more, NEW syn,
         JoinersStay(q, dead, syn)
  PROVE  JoinersStay(q, more, syn)
BY DEF JoinersStay

LEMMA DoomedMoreDead ==
  ASSUME NEW q, NEW r, Frames(r) = Frames(q), \A k \in Frames(q) : r[k] = q[k],
         NEW dead, NEW more, dead \subseteq more, Doomed(q, dead)
  PROVE  Doomed(r, more)
BY DEF Doomed, DeadFrames

(* The recipient of a broadcast is found dead. *)
LEMMA LostRoster ==
  ASSUME TypeOK, IdsInv, UniqueUsernames, StackInv,
         RosterAt(todo, Dead, synced, roster),
         NEW m \in Recipients(todo[1]), \A t \in Recipients(todo[1]) : m <= t,
         NEW r, Advances(todo, r, m), EnterRemove(m, r),
         sock' = [sock EXCEPT ![m] = "down"],
         UNCHANGED <<id, active, auth, username, told>>
  PROVE  RosterInv'
<1>1. m \in Active /\ m \in Slots /\ id[m] # todo[1].excl
  BY DEF Recipients, Active
<1>2. /\ r \in Seq(Call) /\ DOMAIN r = DOMAIN todo
      /\ \A i \in DOMAIN todo : i # 1 => r[i] = todo[i]
      /\ r[1].op = "bcast" /\ r[1].excl = todo[1].excl
      /\ Frames(r) = Frames(todo) /\ \A k \in Frames(todo) : r[k] = todo[k]
  BY <1>1, AdvanceAt
<1>3. Dead \subseteq Dead' /\ m \in Dead'
  BY <1>1 DEF Dead, TypeOK
<1>4. Frames(r) = {} \/ Inside(r, m, Dead')
  <2>1. Nested(todo, Dead') /\ AgainBlocked(todo, Dead')
    BY <1>3, MoreDead DEF StackInv
  <2>2. QED
    BY <1>2, <1>3, <2>1, InsideNotice
<1>5. /\ Shape(todo) /\ synced \subseteq Authenticated
      /\ Shape(r)
  BY AdvanceParts DEF RosterAt
<1>6. \A k \in DOMAIN r : r[k].op # "send"
  <2>1. ASSUME NEW k \in DOMAIN r PROVE r[k].op # "send"
    <3>1. CASE k = 1
      BY <1>2, <3>1
    <3>2. CASE k # 1
      BY <1>2, <1>5, <3>2 DEF Shape
    <3>3. QED
      BY <3>1, <3>2
  <2>2. QED
    BY <2>1
<1>7. ASSUME ~Doomed(r, Dead')
      PROVE  /\ LeftsInside(r) /\ JoinersStay(r, Dead', synced)
             /\ Told(r, synced \ {m}, roster)
  <2>1. ~Doomed(todo, Dead)
    BY <1>2, <1>3, <1>7, DoomedMoreDead
  <2>2. /\ LeftsInside(todo) /\ JoinersStay(todo, Dead, synced)
        /\ Told(todo, synced, roster)
    BY <2>1 DEF RosterAt
  <2>3. LeftsInside(r) /\ JoinersStay(r, Dead, synced)
    BY <2>2, AdvanceParts
  <2>4. JoinersStay(r, Dead', synced)
    BY <1>3, <2>3, JoinersMoreDead
  <2>5. /\ Leaving(r) = Leaving(todo) /\ Staying(r) = Staying(todo)
        /\ \A s, n : s # m /\ Pending(todo, s, n) => Pending(r, s, n)
    BY AdvanceParts
  <2>6. Told(r, synced \ {m}, roster)
    BY <2>2, <2>5 DEF Told
  <2>7. QED
    BY <2>3, <2>4, <2>6
<1>8. m \in Dead' /\ r[1].op = "bcast" /\ id[m] # r[1].excl
  BY <1>1, <1>2, <1>3
<1>9. QED
  BY <1>1, <1>2, <1>4, <1>5, <1>6, <1>7, <1>8, EnterStep

LEMMA BcastRoster ==
  ASSUME TypeOK, IdsInv, UniqueUsernames, StackInv, RosterInv,
         ErrorKinds \cap {"joined", "left"} = {}, DoBcast
  PROVE  RosterInv'
<1> DEFINE b == Head(todo)
<1>1. /\ todo # <<>> /\ b.op = "bcast" /\ phase # "crashed" /\ todo \in Seq(Call)
      /\ UNCHANGED <<id, active, auth, username>>
  BY DEF DoBcast, Calling, TypeOK
<1>2. /\ b = todo[1] /\ Above(todo, Tail(todo), 1) /\ 1 \in DOMAIN todo
  BY <1>1, PopAt, PopAbove, PopShift
<1>3. RosterAt(todo, Dead, synced, roster)
  BY <1>1 DEF RosterInv
<1>4. CASE /\ Recipients(b) = {} /\ todo' = Tail(todo)
           /\ UNCHANGED <<sock, phase, told>>
  <2> DEFINE r == Tail(todo)
  <2>1. Above(todo, r, 1) /\ todo' = r
    BY <1>2, <1>4
  <2> HIDE DEF r
  <2>2. RosterAt(r, Dead, synced, roster)
    BY <1>1, <1>2, <1>3, <1>4, <2>1, PopRoster
  <2>3. Dead' = Dead /\ synced' = synced /\ roster' = roster
    BY <1>4 DEF Dead, told
  <2>4. QED
    BY <1>1, <2>1, <2>2, <2>3, NewRoster
<1>5. ASSUME NEW m \in Recipients(b), \A t \in Recipients(b) : m <= t,
             SendTo(m, b.kind, b.who, <<[b EXCEPT !.next = m + 1]>> \o Tail(todo))
      PROVE  RosterInv'
  <2> DEFINE r == <<[b EXCEPT !.next = m + 1]>> \o Tail(todo)
             k == todo[1].kind
             w == todo[1].who
  <2>1. m \in Recipients(todo[1]) /\ \A t \in Recipients(todo[1]) : m <= t
    BY <1>2, <1>5
  <2>2. Advances(todo, r, m)
    BY <1>1, <1>2 DEF Advances
  <2>3. SendTo(m, k, w, r)
    BY <1>2, <1>5
  <2> HIDE DEF r
  <2>4. k # "users"
    BY <1>1, <1>2, <1>3 DEF RosterAt, Shape
  <2>5. sock[m] = "up" => RosterAt(r, Dead, synced, Heard(synced, roster, m, k, w))
    <3>1. sock[m] = "up" => m \notin Dead
      BY DEF Dead
    <3>2. FramesActive(todo)
      BY DEF StackInv, Nested
    <3>3. roster \in [Slots -> SUBSET (Names \cup {NoName})]
      BY DEF TypeOK
    <3>4. QED
      BY <1>3, <2>1, <2>2, <3>1, <3>2, <3>3, HearRoster
  <2>6. CASE sock[m] = "up" /\ todo' = r /\ Hear(m, k, w) /\ UNCHANGED <<sock, phase>>
    <3> HIDE DEF k, w
    <3>1. synced' = synced /\ roster' = Heard(synced, roster, m, k, w)
      BY <2>4, <2>6 DEF Hear, Heard
    <3>2. Dead' = Dead
      BY <2>6 DEF Dead
    <3>3. QED
      BY <1>1, <2>5, <2>6, <3>1, <3>2, NewRoster
  <2>7. CASE sock[m] = "up" /\ k \in ErrorKinds /\ todo' = r /\ UNCHANGED <<sock, phase, told>>
    <3> HIDE DEF k, w
    <3>1. Heard(synced, roster, m, k, w) = roster
      BY <2>7 DEF Heard
    <3>2. Dead' = Dead /\ synced' = synced /\ roster' = roster
      BY <2>7 DEF Dead, told
    <3>3. QED
      BY <1>1, <2>5, <2>7, <3>1, <3>2, NewRoster
  <2>8. CASE sock' = [sock EXCEPT ![m] = "down"] /\ EnterRemove(m, r) /\ UNCHANGED told
    BY <1>1, <1>3, <2>1, <2>2, <2>8, LostRoster
  <2>9. QED
    BY <2>3, <2>6, <2>7, <2>8 DEF SendTo
<1>6. QED
  <2>1. CASE \E s \in Recipients(b) :
               /\ \A t \in Recipients(b) : s <= t
               /\ \E t \in FindById(id[s]) :
                    SendTo(t, b.kind, b.who, <<[b EXCEPT !.next = s + 1]>> \o Tail(todo))
    <3>1. PICK s \in Recipients(b) :
               /\ \A t \in Recipients(b) : s <= t
               /\ \E t \in FindById(id[s]) :
                    SendTo(t, b.kind, b.who, <<[b EXCEPT !.next = s + 1]>> \o Tail(todo))
      BY <2>1
    <3>2. FindById(id[s]) = {s}
      BY FindSelf DEF Recipients
    <3>3. SendTo(s, b.kind, b.who, <<[b EXCEPT !.next = s + 1]>> \o Tail(todo))
      BY <3>1, <3>2
    <3>4. QED
      BY <1>5, <3>1, <3>3
  <2>2. QED
    BY <1>4, <2>1 DEF DoBcast

(* A memset is reached only if no two dead clients are being removed. *)
LEMMA ClearNotDoomed ==
  ASSUME TypeOK, StackInv, Sealed(todo, Dead), 1 \in Frames(todo)
  PROVE  ~Doomed(todo, Dead)
<1>1. SUFFICES ASSUME Doomed(todo, Dead) PROVE FALSE
  OBVIOUS
<1>2. PICK p \in DOMAIN todo : Stops(todo, Dead, p)
  BY <1>1 DEF Sealed
<1>3. PICK i \in DeadFrames(todo, Dead), j \in DeadFrames(todo, Dead) : i < j
  BY <1>1 DEF Doomed
<1>4. /\ DOMAIN todo = 1 .. Len(todo) /\ Len(todo) \in Nat
  BY StackType DEF TypeOK
<1>5. p # 1 /\ p > 1
  <2>1. p # 1
    BY <1>2 DEF Stops, Frames
  <2>2. QED
    BY <1>4, <2>1
<1>6. p < i
  BY <1>2, <1>3 DEF Stops
<1>7. i \in Frames(todo) /\ 1 < i /\ i \in Int
  BY <1>3, <1>4, <1>5, <1>6 DEF DeadFrames, Frames
<1>8. todo[1].slot \in Dead
  BY <1>7 DEF StackInv, Nested, InnerDead
<1>9. 1 \in DeadFrames(todo, Dead)
  BY <1>8 DEF DeadFrames
<1>10. p < 1
  BY <1>2, <1>3, <1>7, <1>9 DEF Stops
<1>11. QED
  BY <1>4, <1>5, <1>10

LEMMA ClearRoster ==
  ASSUME TypeOK, IdsInv, StackInv, RosterInv, DoClear
  PROVE  RosterInv'
<1> DEFINE s == Head(todo).slot
           r == Tail(todo)
           Then(c) == IF c.op = "announce" THEN id'[c.slot] ELSE c.excl
<1>1. /\ s \in Active /\ s \in Slots /\ Above(todo, r, 1) /\ todo[1] = Head(todo)
      /\ \A k \in Frames(r) : r[k].slot # s
  BY ClearOnce DEF Active
<1>2. /\ todo' = r /\ phase' = phase /\ phase # "crashed"
      /\ todo[1].op = "clear" /\ todo[1].slot = s
  BY <1>1 DEF DoClear, Calling
<1>3. \A t \in Slots \ {s} : /\ id'[t] = id[t] /\ active'[t] = active[t]
                             /\ auth'[t] = auth[t] /\ sock'[t] = sock[t]
                             /\ username'[t] = username[t] /\ roster'[t] = roster[t]
  BY DEF DoClear, TypeOK
<1>4. /\ ~active'[s] /\ sock'[s] = "none" /\ synced' = synced \ {s}
  BY <1>1 DEF DoClear, TypeOK
<1>5. /\ Active' = Active \ {s} /\ Authenticated' = Authenticated \ {s}
      /\ Dead' = Dead \ {s} /\ Active \subseteq Slots
  BY <1>3, <1>4 DEF Active, Authenticated, Dead
<1> HIDE DEF s, r
<1>6. /\ 1 \in Frames(todo) /\ 1 \in DOMAIN todo
  BY <1>1, <1>2, PopShift DEF Frames
<1>7. /\ \A k \in DOMAIN todo : k # 1 => k - 1 \in DOMAIN r /\ todo[k] = r[k - 1] /\ k > 1
      /\ \A k \in DOMAIN r : k + 1 \in DOMAIN todo /\ r[k] = todo[k + 1] /\ k + 1 > 1
      /\ DOMAIN todo \subseteq Int /\ DOMAIN r \subseteq Int
      /\ \A k \in Frames(todo) : k # 1 => k - 1 \in Frames(r)
      /\ \A k \in Frames(r) : k + 1 \in Frames(todo)
  BY <1>1, PopShift
<1>8. /\ synced \subseteq Authenticated /\ Sealed(todo, Dead) /\ Shape(todo)
      /\ ~Doomed(todo, Dead)
      /\ LeftsInside(todo) /\ JoinersStay(todo, Dead, synced)
      /\ Told(todo, synced, roster)
  <2>1. RosterAt(todo, Dead, synced, roster)
    BY <1>2 DEF RosterInv
  <2>2. ~Doomed(todo, Dead)
    BY <1>6, <2>1, ClearNotDoomed DEF RosterAt
  <2>3. QED
    BY <2>1, <2>2 DEF RosterAt
<1>9. /\ Leaving(r) = Leaving(todo) \ {s}
      /\ (Staying(todo))' = Staying(todo)
  <2>1. Leaving(todo) \subseteq Leaving(r) \cup {s}
    <3>1. ASSUME NEW k \in Frames(todo) PROVE todo[k].slot \in Leaving(r) \cup {s}
      <4>1. CASE k = 1
        BY <1>2, <4>1
      <4>2. CASE k # 1
        BY <1>7, <4>2 DEF Leaving, Frames
      <4>3. QED
        BY <4>1, <4>2
    <3>2. QED
      BY <3>1 DEF Leaving
  <2>2. Leaving(r) \subseteq Leaving(todo) \ {s}
    <3>1. ASSUME NEW k \in Frames(r) PROVE r[k].slot \in Leaving(todo) \ {s}
      BY <1>1, <1>7 DEF Leaving, Frames
    <3>2. QED
      BY <3>1 DEF Leaving
  <2>3. s \in Leaving(todo)
    BY <1>2, <1>6 DEF Leaving
  <2>4. Leaving(todo)' = Leaving(r)
    BY <1>2 DEF Leaving, Frames
  <2>5. QED
    BY <1>5, <2>1, <2>2, <2>3, <2>4 DEF Staying
<1>10. Shape(todo)'
  <2>1. Shape(r) /\ \A k \in DOMAIN r : r[k].op # "send"
    BY <1>1, <1>8, PopShape
  <2>2. QED
    BY <1>2, <2>1 DEF Shape, IsJoin
<1>11. Sealed(todo, Dead)'
  <2>1. ~Doomed(r, Dead)
    BY <1>1, <1>8, AboveDoomed
  <2>2. DeadFrames(todo, Dead)' \subseteq DeadFrames(r, Dead)
    BY <1>2, <1>5 DEF DeadFrames, Frames
  <2>3. ~Doomed(todo, Dead)'
    BY <2>1, <2>2 DEF Doomed
  <2>4. QED
    BY <2>3 DEF Sealed
<1>12. LeftsInside(todo)'
  <2>1. LeftsInside(r)
    BY <1>1, <1>8, PopLefts
  <2>2. \A o \in Frames(r) : username'[r[o].slot] = username[r[o].slot]
    <3>1. \A o \in Frames(r) : r[o].slot \in Slots \ {s}
      BY <1>1, StackType DEF Above
    <3>2. QED
      BY <1>3, <3>1
  <2>3. QED
    BY <1>2, <2>1, <2>2 DEF LeftsInside, Frames
<1>13. \A a \in Staying(todo) : /\ a # s /\ a \in Slots /\ a \in Active
                                /\ id'[a] = id[a] /\ username'[a] = username[a]
  <2>1. \A a \in Staying(todo) : a # s /\ a \in Active
    BY <1>2, <1>6 DEF Staying, Leaving, Authenticated
  <2>2. QED
    BY <1>3, <1>5, <2>1
<1>14. ASSUME NEW k \in DOMAIN r, r[k].op \in {"bcast", "announce"},
              NEW a \in Staying(todo), About(r[k]) = id[a]
       PROVE  Then(r[k]) = id[a]
  <2>1. CASE r[k].op = "announce"
    <3>1. r[k].slot \in Slots /\ id[r[k].slot] = id[a]
      <4>1. r[k] \in Call
        BY <1>1, StackType DEF Above
      <4>2. QED
        BY <1>14, <2>1, <4>1 DEF About, Call, BcastCall
    <3>2. r[k].slot # s
      <4>1. id[a] # id[s]
        BY <1>1, <1>13 DEF IdsInv, UniqueIds
      <4>2. QED
        BY <3>1, <4>1
    <3>3. QED
      BY <1>3, <2>1, <3>1, <3>2 DEF About
  <2>2. CASE r[k].op = "bcast"
    BY <1>14, <2>2 DEF About
  <2>3. QED
    BY <1>14, <2>1, <2>2
<1>15. JoinersStay(todo, Dead, synced)'
  <2>1. ASSUME NEW k \in DOMAIN r, IsJoin(r[k])
        PROVE  /\ \E a \in Staying(todo) \ synced' :
                    /\ username'[a] = r[k].who /\ id'[a] = Then(r[k])
                    /\ \A i \in DOMAIN r : i < k /\ r[i].op \in {"bcast", "announce"} =>
                         Then(r[i]) = id'[a] \/ \E o \in Frames(r) : i < o
               /\ \A i \in Frames(r) : r[i].slot \in Dead'
    <3>1. k + 1 \in DOMAIN todo /\ r[k] = todo[k + 1] /\ k \in Int
      BY <1>7
    <3>2. PICK a \in Staying(todo) \ synced :
            /\ username[a] = todo[k + 1].who /\ id[a] = About(todo[k + 1])
            /\ \A i \in DOMAIN todo : i < k + 1 /\ todo[i].op \in {"bcast", "announce"} =>
                 About(todo[i]) = id[a] \/ \E o \in Frames(todo) : i < o
      BY <1>8, <2>1, <3>1 DEF JoinersStay
    <3>3. a \in Staying(todo) \ synced' /\ username'[a] = r[k].who
      BY <1>4, <1>13, <3>1, <3>2
    <3>4. id'[a] = Then(r[k])
      <4>1. r[k].op \in {"bcast", "announce"}
        BY <2>1 DEF IsJoin
      <4>2. QED
        BY <1>13, <1>14, <3>1, <3>2, <4>1
    <3>5. ASSUME NEW i \in DOMAIN r, i < k, r[i].op \in {"bcast", "announce"},
                 Then(r[i]) # id'[a]
          PROVE  \E o \in Frames(r) : i < o
      <4>1. i + 1 \in DOMAIN todo /\ r[i] = todo[i + 1] /\ i \in Int /\ i + 1 < k + 1
        BY <1>7, <3>1, <3>5
      <4>2. About(r[i]) # id[a]
        BY <1>13, <1>14, <3>2, <3>5
      <4>3. PICK o \in Frames(todo) : i + 1 < o
        BY <3>2, <3>5, <4>1, <4>2
      <4>4. o # 1 /\ o \in Int
        BY <1>7, <4>1, <4>3 DEF Frames
      <4>5. o - 1 \in Frames(r) /\ i < o - 1
        BY <1>7, <4>1, <4>3, <4>4
      <4>6. QED
        BY <4>5
    <3>6. ASSUME NEW i \in Frames(r) PROVE r[i].slot \in Dead'
      <4>1. i + 1 \in Frames(todo) /\ r[i] = todo[i + 1]
        BY <1>7 DEF Frames
      <4>2. r[i].slot \in Dead
        BY <1>8, <2>1, <3>1, <4>1 DEF JoinersStay
      <4>3. QED
        BY <1>1, <1>5, <4>2
    <3>7. QED
      BY <3>3, <3>4, <3>5, <3>6
  <2>2. \A k \in DOMAIN todo' : IsJoin(todo[k])' => IsJoin(r[k]) /\ k \in DOMAIN r
    BY <1>2 DEF IsJoin
  <2>3. /\ Frames(todo)' = Frames(r) /\ \A i : About(todo[i])' = Then(r[i])
    BY <1>2 DEF Frames, About
  <2>4. QED
    BY <1>2, <1>9, <2>1, <2>2, <2>3 DEF JoinersStay
<1>16. Told(todo, synced, roster)'
  <2>1. SUFFICES ASSUME NEW x \in synced' \ Leaving(r), NEW n \in Names \cup {NoName},
                        ~Pending(todo, x, n)'
                 PROVE  n \in roster'[x] <=> \E t \in Staying(todo) : username'[t] = n
    <3>1. Leaving(todo)' = Leaving(r)
      BY <1>2 DEF Leaving, Frames
    <3>2. QED
      BY <1>9, <3>1 DEF Told
  <2>2. x \in synced \ Leaving(todo) /\ x \in Slots /\ x # s /\ x \in Active
    BY <1>4, <1>5, <1>8, <1>9 DEF Authenticated
  <2>3. ~Pending(todo, x, n)
    <3>1. SUFFICES ASSUME Pending(todo, x, n) PROVE Pending(todo, x, n)'
      BY <2>1
    <3>2. PICK k \in DOMAIN todo :
            /\ todo[k].op \in {"announce", "bcast"} /\ todo[k].who = n
            /\ todo[k].kind \in {"joined", "left"}
            /\ todo[k].op = "bcast" => x \in Recipients(todo[k])
      BY <3>1 DEF Pending
    <3>3. k # 1
      BY <1>2, <3>2
    <3>4. k - 1 \in DOMAIN r /\ todo[k] = r[k - 1]
      BY <1>7, <3>3
    <3>5. todo[k].op = "bcast" => 
            /\ x \in Active' /\ x >= todo[k].next /\ id'[x] # todo[k].excl
            /\ todo[k].authOnly => auth'[x]
      BY <1>3, <1>5, <2>2, <3>2, <3>4 DEF Recipients
    <3>6. QED
      BY <1>2, <3>2, <3>4, <3>5 DEF Pending, Recipients
  <2>4. n \in roster[x] <=> \E t \in Staying(todo) : username[t] = n
    BY <1>8, <2>2, <2>3 DEF Told
  <2>5. QED
    BY <1>3, <1>13, <2>2, <2>4
<1>17. (synced \subseteq Authenticated)'
  BY <1>4, <1>5, <1>8
<1>18. QED
  BY <1>10, <1>11, <1>12, <1>15, <1>16, <1>17 DEF RosterInv, RosterAt

-----------------------------------------------------------------------------
(* The main loop, the handlers and the maintenance: they start with no call
   pending, when the lists are right. *)

Exact(syn, ros) ==
  /\ syn \subseteq Authenticated
  /\ \A s \in syn, n \in Names \cup {NoName} :
       n \in ros[s] <=> \E t \in Authenticated : username[t] = n

(* Calls that tell nobody that a user came or went. *)
Calm(q) ==
  /\ Frames(q) = {} /\ Shape(q)
  /\ \A k \in DOMAIN q : /\ ~IsJoin(q[k])
                         /\ q[k].op = "bcast" => q[k].kind # "left"

LEMMA CalmCalls ==
  ASSUME NEW q, Calm(q), NEW dead, NEW syn, NEW ros, Exact(syn, ros)
  PROVE  RosterAt(q, dead, syn, ros)
<1>1. Frames(q) = {} /\ Shape(q)
  BY DEF Calm
<1>2. Leaving(q) = {} /\ Staying(q) = Authenticated
  BY <1>1 DEF Leaving, Staying
<1>3. Sealed(q, dead)
  BY <1>1 DEF Sealed, Doomed, DeadFrames
<1>4. LeftsInside(q) /\ JoinersStay(q, dead, syn)
  BY DEF LeftsInside, JoinersStay, Calm
<1>5. Told(q, syn, ros)
  <2>1. \A s, n : ~Pending(q, s, n)
    BY DEF Pending, Calm, IsJoin
  <2>2. QED
    BY <1>2, <2>1 DEF Told, Exact
<1>6. QED
  BY <1>1, <1>3, <1>4, <1>5 DEF RosterAt, Exact

LEMMA NoCalls ==
  /\ Calm(<<>>)
  /\ \A dead, syn, ros : RosterAt(<<>>, dead, syn, ros) => Exact(syn, ros)
<1>1. Frames(<<>>) = {} /\ DOMAIN <<>> = {}
  BY DEF Frames
<1>2. Calm(<<>>)
  BY <1>1 DEF Calm, Shape
<1>3. ASSUME NEW dead, NEW syn, NEW ros, RosterAt(<<>>, dead, syn, ros)
      PROVE  Exact(syn, ros)
  <2>1. ~Doomed(<<>>, dead)
    BY <1>1 DEF Doomed, DeadFrames
  <2>2. Leaving(<<>>) = {} /\ Staying(<<>>) = Authenticated
    BY <1>1 DEF Leaving, Staying
  <2>3. \A s, n : ~Pending(<<>>, s, n)
    BY <1>1 DEF Pending
  <2>4. syn \subseteq Authenticated /\ Told(<<>>, syn, ros)
    BY <1>3, <2>1 DEF RosterAt
  <2>5. QED
    BY <2>2, <2>3, <2>4 DEF Told, Exact
<1>4. QED
  BY <1>2, <1>3

LEMMA CalmStacks ==
  /\ \A s, k : active[s] /\ (k = "users" => auth[s]) => Calm(<<Send(s, k)>>)
  /\ \A s : active[s] => Calm(<<Send(s, "bye"), Leave(s)>>)
  /\ \A n, x, g : Calm(<<Bcast("chat", n, x, g)>>)
  /\ \A n, x, g : Calm(<<Bcast("bye", n, x, g)>>)
<1>1. ASSUME NEW s, NEW k, active[s], k = "users" => auth[s]
      PROVE  Calm(<<Send(s, k)>>)
  <2> DEFINE c == Send(s, k)
  <2>1. c.op = "send" /\ c.slot = s /\ c.kind = k
    BY DEF Send
  <2> HIDE DEF c
  <2>2. DOMAIN <<c>> = {1} /\ <<c>>[1] = c
    OBVIOUS
  <2>3. ~IsJoin(c)
    BY <2>1 DEF IsJoin
  <2>4. Calm(<<c>>)
    BY <1>1, <2>1, <2>2, <2>3 DEF Calm, Frames, Shape
  <2>5. QED
    BY <2>4 DEF c
<1>2. ASSUME NEW s, active[s]
      PROVE  Calm(<<Send(s, "bye"), Leave(s)>>)
  <2> DEFINE c == Send(s, "bye")
             d == Leave(s)
  <2>1. c.op = "send" /\ c.slot = s /\ c.kind = "bye" /\ d.op = "leave"
    BY DEF Send, Leave
  <2> HIDE DEF c, d
  <2>2. DOMAIN <<c, d>> = {1, 2} /\ <<c, d>>[1] = c /\ <<c, d>>[2] = d
    OBVIOUS
  <2>3. ~IsJoin(c) /\ ~IsJoin(d)
    BY <2>1 DEF IsJoin
  <2>4. Calm(<<c, d>>)
    BY <1>2, <2>1, <2>2, <2>3 DEF Calm, Frames, Shape
  <2>5. QED
    BY <2>4 DEF c, d
<1>3. ASSUME NEW k \in {"chat", "bye"}, NEW n, NEW x, NEW g
      PROVE  Calm(<<Bcast(k, n, x, g)>>)
  <2> DEFINE c == Bcast(k, n, x, g)
  <2>1. c.op = "bcast" /\ c.kind = k
    BY DEF Bcast
  <2> HIDE DEF c
  <2>2. DOMAIN <<c>> = {1} /\ <<c>>[1] = c
    OBVIOUS
  <2>3. ~IsJoin(c)
    BY <2>1 DEF IsJoin
  <2>4. Calm(<<c>>)
    BY <2>1, <2>2, <2>3 DEF Calm, Frames, Shape
  <2>5. QED
    BY <2>4 DEF c
<1>4. QED
  BY <1>1, <1>2, <1>3

(* A step that changes nothing the lists depend on and makes calm calls. *)
LEMMA CalmRoster ==
  ASSUME RosterInv, todo = <<>>, phase # "crashed", Calm(todo'),
         UNCHANGED <<id, active, auth, username, told>>
  PROVE  RosterInv'
<1>1. Exact(synced, roster)
  BY NoCalls DEF RosterInv
<1>2. RosterAt(todo', Dead', synced, roster)
  <2> DEFINE q == todo'
  <2>1. Calm(q)
    OBVIOUS
  <2> HIDE DEF q
  <2>2. RosterAt(q, Dead', synced, roster)
    BY <1>1, <2>1, CalmCalls
  <2>3. QED
    BY <2>2 DEF q
<1>3. synced' = synced /\ roster' = roster
  BY DEF told
<1>4. QED
  BY <1>2, <1>3, NewRoster

(* The main loop removes a client. *)
LEMMA RestRemoval ==
  ASSUME TypeOK, IdsInv, UniqueUsernames, RosterInv, todo = <<>>, phase # "crashed",
         NEW m \in Active, EnterRemove(m, <<>>),
         UNCHANGED <<id, active, auth, username, told>>
  PROVE  RosterInv'
<1>1. RosterAt(<<>>, Dead, synced, roster)
  BY DEF RosterInv
<1>2. /\ Frames(<<>>) = {} /\ DOMAIN <<>> = {} /\ <<>> \in Seq(Call)
  BY DEF Frames
<1>3. ~Doomed(<<>>, Dead)
  BY <1>2 DEF Doomed, DeadFrames
<1>4. /\ Shape(<<>>) /\ synced \subseteq Authenticated /\ LeftsInside(<<>>)
      /\ Told(<<>>, synced, roster)
  BY <1>1, <1>3 DEF RosterAt
<1>5. JoinersStay(<<>>, Dead', synced)
  BY <1>2 DEF JoinersStay
<1>6. Told(<<>>, synced \ {m}, roster)
  BY <1>4, ToldLess
<1>7. QED
  BY <1>2, <1>4, <1>5, <1>6, EnterStep

(* No call is pending after the step, and the lists are right. *)
LEMMA RestRoster ==
  ASSUME todo' = <<>>, Exact(synced, roster)'
  PROVE  RosterInv'
<1>1. Frames(todo)' = {} /\ DOMAIN todo' = {}
  BY DEF Frames
<1>2. (Sealed(todo, Dead) /\ Shape(todo) /\ LeftsInside(todo)
        /\ JoinersStay(todo, Dead, synced))'
  BY <1>1 DEF Sealed, Doomed, DeadFrames, Shape, LeftsInside, JoinersStay
<1>3. Told(todo, synced, roster)'
  <2>1. (Leaving(todo) = {} /\ Staying(todo) = Authenticated)'
    BY <1>1 DEF Leaving, Staying
  <2>2. QED
    BY <2>1 DEF Told, Exact
<1>4. (synced \subseteq Authenticated)'
  BY DEF Exact
<1>5. QED
  BY <1>2, <1>3, <1>4 DEF RosterInv, RosterAt

LEMMA MainLoopRoster ==
  ASSUME TypeOK, RosterInv, MainLoop
  PROVE  RosterInv'
<1>1. todo = <<>> /\ phase # "crashed"
  BY DEF MainLoop, Start, LoopExit, Select, SelectFails, NewConnection,
         UseAfterFree, DataDone, Stop, StopCloses, Destroy, At
<1>2. Exact(synced, roster)
  BY <1>1, NoCalls DEF RosterInv
<1>3. CASE Start \/ LoopExit \/ Select \/ SelectFails \/ DataDone \/ UseAfterFree
  <2>1. UNCHANGED <<slotVars, told, todo>>
    BY <1>3 DEF Start, LoopExit, Select, SelectFails, DataDone, UseAfterFree
  <2>2. UNCHANGED <<id, active, auth, username, told>> /\ todo' = <<>>
    BY <1>1, <2>1 DEF slotVars
  <2>3. QED
    BY <1>1, <2>2, NoCalls, CalmRoster
<1>4. CASE NewConnection
  <2>1. todo' = <<>> /\ UNCHANGED told
    BY <1>1, <1>4 DEF NewConnection
  <2>2. CASE UNCHANGED slotVars
    <3>1. UNCHANGED <<id, active, auth, username, told>>
      BY <2>1, <2>2 DEF slotVars
    <3>2. QED
      BY <1>1, <2>1, <3>1, NoCalls, CalmRoster
  <2>3. ASSUME NEW s \in Slots \ Active,
               active' = [active EXCEPT ![s] = TRUE],
               auth' = [auth EXCEPT ![s] = FALSE],
               username' = [username EXCEPT ![s] = NoName]
        PROVE  RosterInv'
    <3>1. \A t \in Slots \ {s} : /\ active'[t] = active[t] /\ auth'[t] = auth[t]
                                 /\ username'[t] = username[t]
      BY <2>3 DEF TypeOK
    <3>2. ~auth'[s] /\ ~active[s]
      BY <2>3 DEF TypeOK, Active
    <3>3. Authenticated' = Authenticated
      BY <3>1, <3>2 DEF Authenticated, Active
    <3>4. \A t \in Authenticated : username'[t] = username[t]
      BY <3>1, <3>2 DEF Authenticated, Active
    <3>5. Exact(synced, roster)'
      BY <1>2, <2>1, <3>3, <3>4 DEF Exact, told
    <3>6. QED
      BY <2>1, <3>5, RestRoster
  <2>4. QED
    BY <1>4, <2>2, <2>3 DEF NewConnection
<1>5. CASE Stop
  <2>1. Calm(todo') /\ UNCHANGED slotVars /\ UNCHANGED told
    BY <1>5, CalmStacks DEF Stop
  <2>2. UNCHANGED <<id, active, auth, username, told>>
    BY <2>1 DEF slotVars
  <2>3. QED
    BY <1>1, <2>1, <2>2, CalmRoster
<1>6. CASE StopCloses \/ Destroy
  <2>1. todo' = <<>> /\ synced' = {}
    BY <1>1, <1>6 DEF StopCloses, Destroy, CloseAll
  <2>2. Exact(synced, roster)'
    BY <2>1 DEF Exact
  <2>3. QED
    BY <2>1, <2>2, RestRoster
<1>7. QED
  BY <1>3, <1>4, <1>5, <1>6 DEF MainLoop

LEMMA MaintenanceRoster ==
  ASSUME TypeOK, IdsInv, UniqueUsernames, RosterInv, Maintenance
  PROVE  RosterInv'
<1>1. todo = <<>> /\ phase # "crashed"
  BY DEF Maintenance, CleanupRemove, HeartbeatSend, CleanupDone, UpdateFdSets, At
<1>2. UNCHANGED <<id, active, auth, username, told>>
  BY DEF Maintenance, CleanupRemove, HeartbeatSend, CleanupDone, UpdateFdSets, slotVars
<1>3. ASSUME NEW s \in Slots, CleanupRemove(s)
      PROVE  RosterInv'
  <2>1. s \in Active /\ EnterRemove(s, <<>>)
    BY <1>3 DEF CleanupRemove, Active
  <2>2. QED
    BY <1>1, <1>2, <2>1, RestRemoval
<1>4. ASSUME NEW s \in Slots, HeartbeatSend(s)
      PROVE  RosterInv'
  <2>1. Calm(todo')
    BY <1>4, CalmStacks DEF HeartbeatSend, Authenticated, Active
  <2>2. QED
    BY <1>1, <1>2, <2>1, CalmRoster
<1>5. CASE CleanupDone \/ UpdateFdSets
  <2>1. todo' = <<>>
    BY <1>1, <1>5 DEF CleanupDone, UpdateFdSets
  <2>2. QED
    BY <1>1, <1>2, <2>1, NoCalls, CalmRoster
<1>6. QED
  BY <1>3, <1>4, <1>5 DEF Maintenance

(* A new member: the welcome and the two announcements are still to be made. *)
LEMMA JoinRoster ==
  ASSUME TypeOK, RosterInv, NEW s \in Slots, NEW n \in Names \cup {NoName},
         ConnectRequest(s, n)
  PROVE  RosterInv'
<1> DEFINE a == Send(s, "welcome")
           b == Announce(s, "system", n)
           c == Announce(s, "joined", n)
<1>1. /\ todo = <<>> /\ phase # "crashed" /\ active[s] /\ ~auth[s]
      /\ n # NoName /\ n \notin Online /\ todo' = <<a, b, c>>
      /\ UNCHANGED <<id, active, sock, told>>
  BY DEF ConnectRequest, Handles, NextReadable, NextUp, At, Acceptable, Taken
<1>2. /\ auth'[s] /\ username'[s] = n
      /\ \A t \in Slots \ {s} : auth'[t] = auth[t] /\ username'[t] = username[t]
  BY DEF ConnectRequest, TypeOK
<1>3. Exact(synced, roster) /\ synced' = synced /\ roster' = roster
  BY <1>1, NoCalls DEF RosterInv, told
<1>4. /\ Authenticated' = Authenticated \cup {s} /\ s \notin Authenticated
      /\ Authenticated \subseteq Slots
  BY <1>1, <1>2 DEF Authenticated, Active
<1>5. /\ a.op = "send" /\ a.slot = s /\ a.kind = "welcome"
      /\ b.op = "announce" /\ b.slot = s /\ b.kind = "system" /\ b.who = n
      /\ c.op = "announce" /\ c.slot = s /\ c.kind = "joined" /\ c.who = n
  BY DEF Send, Announce
<1> HIDE DEF a, b, c
<1>6. DOMAIN todo' = {1, 2, 3} /\ todo'[1] = a /\ todo'[2] = b /\ todo'[3] = c
  BY <1>1
<1>7. Frames(todo)' = {}
  BY <1>5, <1>6 DEF Frames
<1>8. (Leaving(todo) = {} /\ Staying(todo) = Authenticated)'
  BY <1>7 DEF Leaving, Staying
<1>9. (Sealed(todo, Dead) /\ LeftsInside(todo))'
  BY <1>5, <1>6, <1>7 DEF Sealed, Doomed, DeadFrames, LeftsInside
<1>10. Shape(todo)'
  BY <1>1, <1>5, <1>6 DEF Shape, IsJoin
<1>11. JoinersStay(todo, Dead, synced)'
  <2>1. s \in Authenticated' \ synced'
    BY <1>3, <1>4 DEF Exact
  <2>2. \A k \in DOMAIN todo' : todo'[k].op \in {"bcast", "announce"} =>
          todo'[k].op = "announce" /\ todo'[k].slot = s /\ todo'[k].who = n
    BY <1>5, <1>6
  <2>3. (\A k \in DOMAIN todo : IsJoin(todo[k]) =>
           todo[k].op \in {"bcast", "announce"})'
    BY DEF IsJoin
  <2>4. (\A k \in DOMAIN todo : todo[k].op \in {"bcast", "announce"} =>
           About(todo[k]) = id[s] /\ todo[k].who = n)'
    BY <2>2 DEF About
  <2>5. QED
    BY <1>2, <1>7, <1>8, <2>1, <2>3, <2>4 DEF JoinersStay
<1>12. Told(todo, synced, roster)'
  <2>1. SUFFICES ASSUME NEW x \in synced, NEW u \in Names \cup {NoName},
                        ~Pending(todo, x, u)'
                 PROVE  u \in roster[x] <=> \E t \in Authenticated' : username'[t] = u
    BY <1>3, <1>8 DEF Told
  <2>2. u # n
    <3>1. u = n => Pending(todo, x, u)'
      BY <1>5, <1>6 DEF Pending
    <3>2. QED
      BY <2>1, <3>1
  <2>3. u \in roster[x] <=> \E t \in Authenticated : username[t] = u
    BY <1>3, <2>1 DEF Exact
  <2>4. \A t \in Authenticated : username'[t] = username[t]
    BY <1>2, <1>4
  <2>5. QED
    BY <1>2, <1>4, <2>2, <2>3, <2>4
<1>13. (synced \subseteq Authenticated)'
  BY <1>3, <1>4 DEF Exact
<1>14. QED
  BY <1>9, <1>10, <1>11, <1>12, <1>13 DEF RosterInv, RosterAt

LEMMA HandlersRoster ==
  ASSUME TypeOK, IdsInv, UniqueUsernames, RosterInv, Handlers
  PROVE  RosterInv'
<1>1. PICK s \in Slots :
        \/ NothingReceived(s) \/ PeerGone(s)
        \/ \E n \in Names \cup {NoName} :
             ConnectRefused(s, n) \/ ConnectRequest(s, n)
        \/ ChatSend(s) \/ UserListRequest(s) \/ DisconnectRequest(s)
        \/ UnknownMessage(s) \/ QuietMessage(s) \/ NameUnterminated(s)
  BY DEF Handlers
<1>2. todo = <<>> /\ phase # "crashed"
  BY <1>1 DEF NothingReceived, PeerGone, NameUnterminated, ConnectRefused,
     ConnectRequest, ChatSend, UserListRequest, DisconnectRequest, UnknownMessage, QuietMessage, Handles,
     NextReadable, NextUp, At
<1>3. CASE NothingReceived(s)
  <2>1. UNCHANGED <<id, active, auth, username, told>> /\ todo' = <<>>
    BY <1>2, <1>3 DEF NothingReceived, slotVars
  <2>2. QED
    BY <1>2, <2>1, NoCalls, CalmRoster
<1>4. CASE PeerGone(s)
  <2>1. /\ s \in Active /\ EnterRemove(s, <<>>)
        /\ UNCHANGED <<id, active, auth, username, told>>
    BY <1>4 DEF PeerGone, Active
  <2>2. QED
    BY <1>2, <2>1, RestRemoval
<1>5. ASSUME NEW calls, Handles(s, calls), UNCHANGED <<auth, username>>,
             active[s] => Calm(calls)
      PROVE  RosterInv'
  <2>1. /\ active[s] /\ todo' = calls
        /\ UNCHANGED <<id, active, auth, username, told>>
    BY <1>5 DEF Handles
  <2>2. QED
    BY <1>2, <1>5, <2>1, CalmRoster
<1>6. CASE \/ \E n \in Names \cup {NoName} : ConnectRefused(s, n)
           \/ ChatSend(s) \/ UserListRequest(s) \/ DisconnectRequest(s)
           \/ UnknownMessage(s) \/ QuietMessage(s)
  <2>1. active[s] => Calm(<<Send(s, "error")>>)
    BY CalmStacks
  <2>2. CASE \E n \in Names \cup {NoName} : ConnectRefused(s, n)
    BY <1>5, <2>1, <2>2 DEF ConnectRefused
  <2>3. CASE ChatSend(s)
    <3>1. active[s] => Calm(IF auth[s] THEN <<Bcast("chat", username[s], 0, TRUE)>>
                                       ELSE <<Send(s, "error")>>)
      BY <2>1, CalmStacks
    <3>2. QED
      BY <1>5, <2>3, <3>1 DEF ChatSend
  <2>4. CASE UserListRequest(s)
    <3>1. active[s] => Calm(<<Send(s, IF auth[s] THEN "users" ELSE "error")>>)
      <4>1. CASE auth[s]
        <5>1. active[s] => Calm(<<Send(s, "users")>>)
          BY <4>1, CalmStacks
        <5>2. QED
          BY <4>1, <5>1
      <4>2. CASE ~auth[s]
        BY <2>1, <4>2
      <4>3. QED
        BY <4>1, <4>2
    <3>2. QED
      BY <1>5, <2>4, <3>1 DEF UserListRequest
  <2>5. CASE DisconnectRequest(s)
    <3>1. active[s] => Calm(<<Send(s, "bye"), Leave(s)>>)
      BY CalmStacks
    <3>2. QED
      BY <1>5, <2>5, <3>1 DEF DisconnectRequest
  <2>6. CASE UnknownMessage(s)
    BY <1>5, <2>1, <2>6 DEF UnknownMessage
  <2>7. CASE QuietMessage(s)
    BY <1>5, <2>7, NoCalls DEF QuietMessage
  <2>8. QED
    BY <1>6, <2>2, <2>3, <2>4, <2>5, <2>6, <2>7
<1>7. CASE NameUnterminated(s)
  <2>1. UNCHANGED <<id, active, auth, username, told>> /\ todo' = <<>>
    BY <1>2, <1>7 DEF NameUnterminated, slotVars
  <2>2. QED
    BY <1>2, <2>1, NoCalls, CalmRoster
<1>8. QED
  BY <1>1, <1>3, <1>4, <1>6, <1>7, JoinRoster

-----------------------------------------------------------------------------
(* The theorem. *)

LEMMA RosterStep ==
  ASSUME TypeOK, ReentryInv, RosterInv, "welcome" \notin LostKinds,
         ErrorKinds \cap {"joined", "left"} = {}, [Next]_vars
  PROVE  RosterInv'
<1>1. IdsInv /\ UniqueUsernames /\ StackInv
  BY DEF ReentryInv
<1>2. CASE Calls
  BY <1>1, <1>2, SendRoster, BcastRoster, AnnounceStepRoster, LeaveRoster,
     ClearRoster DEF Calls
<1>3. CASE MainLoop
  BY <1>3, MainLoopRoster
<1>4. CASE Handlers
  BY <1>1, <1>4, HandlersRoster
<1>5. CASE Maintenance
  BY <1>1, <1>5, MaintenanceRoster
<1>6. CASE Sigint \/ Ended \/ UNCHANGED vars
  <2>1. /\ UNCHANGED <<id, active, auth, username, todo, synced, roster>>
        /\ Dead' = Dead /\ phase' = phase
    BY <1>6 DEF Sigint, Ended, vars, slotVars, told, Dead
  <2>2. phase' # "crashed" => RosterAt(todo', Dead', synced', roster')
    BY <2>1 DEF RosterInv
  <2>3. QED
    BY <2>1, <2>2, NewRoster
<1>7. QED
  BY <1>2, <1>3, <1>4, <1>5, <1>6 DEF Next, Server

LEMMA RosterInit == ASSUME Init PROVE RosterInv
<1>1. todo = <<>> /\ synced = {}
  BY DEF Init
<1>2. Exact(synced, roster)
  BY <1>1 DEF Exact
<1>3. RosterAt(<<>>, Dead, synced, roster)
  BY <1>2, NoCalls, CalmCalls
<1>4. QED
  BY <1>1, <1>3 DEF RosterInv

(* Whoever asked for the list of users and applied the join and leave notices it
   was sent knows exactly who is online whenever the server waits for work, for
   any number of slots and users: if no send of the welcome finds its peer gone
   (the announcements made after it would be those of a client already removed),
   and no join or leave notice fails on a connection that stands. *)
THEOREM RosterIsExact ==
  ASSUME LastId \in 1 .. (IdMod - 1), "welcome" \notin LostKinds,
         ErrorKinds \cap {"joined", "left"} = {}
  PROVE  Spec => []RosterExact
<1>1. Init => RosterInv /\ SelectInv
  BY RosterInit DEF Init, SelectInv, SelectSetsValid, Active
<1>2. TypeOK /\ ReentryInv /\ RosterInv /\ [Next]_vars => RosterInv'
  BY RosterStep
<1>3. TypeOK /\ SelectInv /\ [Next]_vars => SelectInv'
  BY SelectInvStep
<1>4. TypeOK /\ SelectInv /\ RosterInv => RosterExact
  <2>1. SUFFICES ASSUME TypeOK, SelectInv, RosterInv, phase = "select", NEW s \in synced
                 PROVE  roster[s] = Online
    BY DEF RosterExact
  <2>2. todo = <<>> /\ phase # "crashed"
    BY <2>1 DEF SelectInv
  <2>3. Exact(synced, roster)
    BY <2>1, <2>2, NoCalls DEF RosterInv
  <2>4. roster[s] \subseteq Names \cup {NoName} /\ Online \subseteq Names \cup {NoName}
    BY <2>1 DEF TypeOK, Online, Authenticated, Active
  <2>5. \A n \in Names \cup {NoName} : n \in roster[s] <=> n \in Online
    BY <2>3 DEF Exact, Online
  <2>6. QED
    BY <2>4, <2>5
<1>5. QED
  BY <1>1, <1>2, <1>3, <1>4, TypeCorrect, ReentryInvariant, PTL DEF Spec
=============================================================================
