-------------------------- MODULE TransportProofs ---------------------------
(***************************************************************************)
(* Proofs about a connection, for every size of header, payload and        *)
(* buffers, every number of messages, and every way in which send() and    *)
(* recv() cut them.                                                        *)
(***************************************************************************)
EXTENDS Transport, SequenceTheorems, TLAPS

(* What a unit is, and the units of a message. *)
Unit == Messages \X (Nat \ {0})
Total(m) == Header + Size(m)

(* Every unit of a sequence stands among all the units of its message, in
   their order. *)
Whole(f) ==
  \A q \in 1 .. Len(f) :
    /\ f[q][2] \in 1 .. Total(f[q][1])
    /\ \A j \in 1 .. Total(f[q][1]) :
         /\ q - f[q][2] + j \in 1 .. Len(f)
         /\ f[q - f[q][2] + j] = <<f[q][1], j>>

(* After a message comes the next one. *)
InOrder(f) ==
  \A q \in 1 .. Len(f) :
    q < Len(f) /\ f[q][2] = Total(f[q][1]) =>
      f[q + 1][2] = 1 /\ f[q + 1][1][1] = f[q][1][1] + 1

(* The messages r + 1 to n, whole and in order. *)
Stream(f, r, n) ==
  /\ Whole(f) /\ InOrder(f)
  /\ f = <<>> => r = n
  /\ f # <<>> =>
       /\ f[1][2] = 1 /\ f[1][1][1] = r + 1
       /\ f[Len(f)][2] = Total(f[Len(f)][1]) /\ f[Len(f)][1][1] = n

-----------------------------------------------------------------------------
(* The invariant.  A direction is named by the end that sends. *)

Types ==
  /\ sstate \in [Ends -> {"NONE", "CLOSED", "CONNECTING", "CONNECTED",
                          "DISCONNECTING", "ERROR"}]
  /\ open \in [Ends -> BOOLEAN]
  /\ link \in {"none", "up", "reset"}
  /\ wire \in [Ends -> Seq(Unit)]
  /\ call \in [Ends -> {"idle", "send", "header", "payload"}]
  /\ out \in [Ends -> Seq(Unit)] /\ acc \in [Ends -> Seq(Unit)]
  /\ want \in [Ends -> Header .. Header + MaxPayload]
  /\ user \in [Ends -> {"reads", "ignores", "halted"}]
  /\ sent \in [Ends -> Seq(Messages)]
  /\ received \in [Ends -> Seq(Messages \cup {Garbled})]
  /\ broken \in [Ends -> BOOLEAN]

Bounds == \A e \in Ends : Len(wire[e]) <= Buffer /\ Len(acc[e]) <= want[e]

(* What the call of a thread says about the rest of its end. *)
Calls ==
  \A e \in Ends :
    /\ call[e] # "idle" => open[e] /\ sstate[e] = "CONNECTED"
    /\ call[e] = "send" <=> out[e] # <<>>
    /\ call[e] \in {"idle", "send"} => acc[e] = <<>>
    /\ call[e] = "header" => want[e] = Header
    /\ call[e] = "payload" => Len(acc[e]) >= Header

(* What the state of the connection says about its two ends. *)
Linked ==
  /\ link = "none" =>
       /\ sstate["server"] = "NONE" /\ sstate["client"] # "CONNECTED"
       /\ \A e \in Ends : wire[e] = <<>> /\ sent[e] = <<>> /\ received[e] = <<>>
  /\ sstate["server"] = "NONE" => ~open["server"]
  /\ sstate["client"] # "NONE"
  /\ open["client"] /\ sstate["client"] \in {"CLOSED", "CONNECTING"} => link = "none"

(* What send_all still has to send is the end of one message. *)
Sending(e) ==
  out[e] # <<>> =>
    LET m == out[e][1][1]
        a == out[e][1][2]
    IN /\ a <= Total(m) /\ Len(out[e]) = Total(m) - a + 1
       /\ \A j \in 1 .. Len(out[e]) : out[e][j] = <<m, a + j - 1>>
       /\ a = 1 => m[1] = Len(sent[e]) + 1
       /\ a > 1 => m[1] = Len(sent[e]) /\ m[1] > 0 /\ sent[e][m[1]] = m

(* What was received is what was sent. *)
Received(e) ==
  ~broken[e] =>
    /\ Len(received[Peer(e)]) <= Len(sent[e])
    /\ \A k \in 1 .. Len(received[Peer(e)]) : received[Peer(e)][k] = sent[e][k]

(* What recv_all has gathered is the beginning of the next message, and the
   size that is expected is that of the message. *)
Gathered(e) ==
  LET p == Peer(e)
      m == sent[e][Len(received[p]) + 1]
  IN ~broken[e] /\ acc[p] # <<>> =>
       /\ Len(received[p]) < Len(sent[e])
       /\ \A j \in 1 .. Len(acc[p]) : acc[p][j] = <<m, j>>
       /\ Len(acc[p]) <= Total(m)
       /\ call[p] = "payload" => want[p] = Total(m)

(* What is on the way from end to end. *)
Flow(e) == (acc[Peer(e)] \o wire[e]) \o out[e]

Number(e) ==
  IF out[e] # <<>> /\ out[e][1][2] = 1 THEN Len(sent[e]) + 1 ELSE Len(sent[e])

Flowing(e) ==
  link = "up" /\ ~broken[e] /\ sstate[Peer(e)] \in {"CONNECTED", "NONE"}

(* A sequence of units of messages that were sent. *)
Named(f, s) ==
  \A q \in 1 .. Len(f) : f[q][1][1] \in 1 .. Len(s) /\ f[q][1] = s[f[q][1][1]]

Flows(e) ==
  Flowing(e) =>
    /\ Stream(Flow(e), Len(received[Peer(e)]), Number(e))
    /\ Named(acc[Peer(e)] \o wire[e], sent[e])

(* An end that was found is the end of everything. *)
Ended(e) ==
  LET p == Peer(e)
  IN open[p] /\ sstate[p] = "DISCONNECTING" /\ link = "up" /\ ~broken[e] =>
       received[p] = sent[e] /\ ~open[e] /\ sstate[e] # "NONE"

Direction(e) == Sending(e) /\ Received(e) /\ Gathered(e) /\ Flows(e) /\ Ended(e)

EndsInv == Types /\ Bounds /\ Calls /\ Linked
ConnectionInv == EndsInv /\ \A e \in Ends : Direction(e)

-----------------------------------------------------------------------------
(* Sequences of units *)

LEMMA MessageType ==
  ASSUME NEW m \in Messages
  PROVE  m[1] \in Nat \ {0} /\ Size(m) \in 0 .. MaxPayload /\ Total(m) \in Nat \ {0}
         /\ Total(m) \in Header .. Header + MaxPayload
  BY TransportAssumption DEF Messages, Size, Total, Ends

LEMMA UnitType ==
  ASSUME NEW u \in Unit
  PROVE  u[1] \in Messages /\ u[2] \in Nat \ {0} /\ u = <<u[1], u[2]>>
  BY DEF Unit

LEMMA UnitsType ==
  ASSUME NEW m \in Messages
  PROVE  /\ Units(m) \in Seq(Unit) /\ Len(Units(m)) = Total(m)
         /\ Units(m) # <<>>
         /\ \A j \in 1 .. Total(m) : Units(m)[j] = <<m, j>>
<1>1. Total(m) \in Nat \ {0}
  BY MessageType
<1>2. \A j \in 1 .. Total(m) : <<m, j>> \in Unit
  BY <1>1 DEF Unit
<1>3. Units(m) = [j \in 1 .. Total(m) |-> <<m, j>>]
  BY DEF Units, Total
<1>4. Units(m) \in [1 .. Total(m) -> Unit]
  BY <1>2, <1>3
<1>5. Units(m) \in Seq(Unit) /\ Len(Units(m)) = Total(m)
  BY <1>1, <1>4
<1>6. QED
  BY <1>1, <1>3, <1>5

LEMMA UnitConcat ==
  ASSUME NEW f \in Seq(Unit), NEW h \in Seq(Unit)
  PROVE  /\ f \o h \in Seq(Unit) /\ Len(f \o h) = Len(f) + Len(h)
         /\ Len(f) \in Nat /\ Len(h) \in Nat
         /\ \A q \in 1 .. Len(f) : (f \o h)[q] = f[q]
         /\ \A q \in Len(f) + 1 .. Len(f) + Len(h) : (f \o h)[q] = h[q - Len(f)]
         /\ \A q \in 1 .. Len(h) : (f \o h)[Len(f) + q] = h[q]
<1>1. /\ f \o h \in Seq(Unit) /\ Len(f \o h) = Len(f) + Len(h)
      /\ \A q \in 1 .. Len(f) + Len(h) :
           (f \o h)[q] = IF q <= Len(f) THEN f[q] ELSE h[q - Len(f)]
  BY ConcatProperties
<1>2. Len(f) \in Nat /\ Len(h) \in Nat
  OBVIOUS
<1>3. \A q \in Len(f) + 1 .. Len(f) + Len(h) : (f \o h)[q] = h[q - Len(f)]
  BY <1>1, <1>2
<1>4. ASSUME NEW q \in 1 .. Len(h)
      PROVE  (f \o h)[Len(f) + q] = h[q]
  <2>1. Len(f) + q \in Len(f) + 1 .. Len(f) + Len(h) /\ (Len(f) + q) - Len(f) = q
    BY <1>2
  <2>2. QED
    BY <2>1, <1>3
<1>5. QED
  BY <1>1, <1>2, <1>3, <1>4

(* A message may follow a stream. *)
LEMMA StreamAppend ==
  ASSUME NEW f \in Seq(Unit), NEW r \in Nat, NEW n \in Nat, Stream(f, r, n),
         NEW m \in Messages, m[1] = n + 1
  PROVE  Stream(f \o Units(m), r, n + 1)
<1> DEFINE g == f \o Units(m)
           l == Len(f)
           t == Total(m)
<1>1. t \in Nat \ {0} /\ l \in Nat
  BY MessageType
<1>2. Units(m) \in Seq(Unit) /\ Len(Units(m)) = t
      /\ \A j \in 1 .. t : Units(m)[j] = <<m, j>>
  BY UnitsType
<1>3. g \in Seq(Unit) /\ Len(g) = l + t /\ \A q \in 1 .. l : g[q] = f[q]
  <2>1. ASSUME NEW h \in Seq(Unit)
        PROVE  f \o h \in Seq(Unit) /\ Len(f \o h) = l + Len(h)
               /\ \A q \in 1 .. l : (f \o h)[q] = f[q]
    BY UnitConcat
  <2>2. QED
    BY <1>2, <2>1
<1>4. \A q \in l + 1 .. l + t : g[q] = <<m, q - l>>
  <2> TAKE q \in l + 1 .. l + t
  <2>1. q - l \in 1 .. t
    BY <1>1
  <2>2. g[q] = Units(m)[q - l]
    BY <1>2, UnitConcat
  <2>3. QED
    BY <2>1, <2>2, <1>2
<1> HIDE DEF g, t
<1>5. \A q \in 1 .. l : f[q] \in Unit
  OBVIOUS
<1>6. Whole(g)
  <2> SUFFICES ASSUME NEW q \in 1 .. l + t
               PROVE  /\ g[q][2] \in 1 .. Total(g[q][1])
                      /\ \A j \in 1 .. Total(g[q][1]) :
                           /\ q - g[q][2] + j \in 1 .. l + t
                           /\ g[q - g[q][2] + j] = <<g[q][1], j>>
    BY <1>3 DEF Whole
  <2>1. CASE q <= l
    <3>1. q \in 1 .. l /\ g[q] = f[q]
      BY <2>1, <1>1, <1>3
    <3>2. /\ f[q][2] \in 1 .. Total(f[q][1])
          /\ \A j \in 1 .. Total(f[q][1]) :
               /\ q - f[q][2] + j \in 1 .. l
               /\ f[q - f[q][2] + j] = <<f[q][1], j>>
      BY <3>1 DEF Stream, Whole
    <3>3. ASSUME NEW j \in 1 .. Total(f[q][1])
          PROVE  /\ q - f[q][2] + j \in 1 .. l + t
                 /\ g[q - f[q][2] + j] = <<f[q][1], j>>
      <4>1. q - f[q][2] + j \in 1 .. l /\ f[q - f[q][2] + j] = <<f[q][1], j>>
        BY <3>2
      <4>2. q - f[q][2] + j \in 1 .. l + t
        BY <4>1, <1>1
      <4>3. QED
        BY <4>1, <4>2, <1>3
    <3>4. QED
      BY <3>1, <3>2, <3>3
  <2>2. CASE q > l
    <3>1. q \in l + 1 .. l + t /\ g[q] = <<m, q - l>>
      BY <2>2, <1>1, <1>4
    <3>2. g[q][1] = m /\ g[q][2] = q - l
      BY <3>1
    <3>3. g[q][2] \in 1 .. t
      BY <3>1, <3>2, <1>1
    <3>4. \A j \in 1 .. t : q - g[q][2] + j = l + j /\ l + j \in l + 1 .. l + t
      BY <3>1, <3>2, <1>1
    <3>5. \A j \in 1 .. t : g[l + j] = <<m, j>>
      <4> TAKE j \in 1 .. t
      <4>1. l + j \in l + 1 .. l + t /\ (l + j) - l = j
        BY <1>1
      <4>2. QED
        BY <4>1, <1>4
    <3>6. \A j \in 1 .. t : /\ q - g[q][2] + j \in 1 .. l + t
                           /\ g[q - g[q][2] + j] = <<m, j>>
      <4> TAKE j \in 1 .. t
      <4>1. q - g[q][2] + j = l + j /\ l + j \in 1 .. l + t
        BY <3>4, <1>1
      <4>2. QED
        BY <4>1, <3>5
    <3>7. QED
      BY <3>2, <3>3, <3>6 DEF t
  <2>3. QED
    BY <2>1, <2>2, <1>1
<1>7. InOrder(g)
  <2> SUFFICES ASSUME NEW q \in 1 .. l + t, q < l + t,
                      g[q][2] = Total(g[q][1])
               PROVE  g[q + 1][2] = 1 /\ g[q + 1][1][1] = g[q][1][1] + 1
    BY <1>3 DEF InOrder
  <2>1. CASE q < l
    <3>1. q \in 1 .. l /\ q + 1 \in 1 .. l /\ g[q] = f[q] /\ g[q + 1] = f[q + 1]
      BY <2>1, <1>1, <1>3
    <3>2. QED
      BY <3>1, <2>1 DEF Stream, InOrder
  <2>2. CASE q = l
    <3>1. f # <<>> /\ l \in 1 .. l /\ g[l] = f[l] /\ g[l + 1] = <<m, 1>>
      BY <2>2, <1>1, <1>3, <1>4
    <3>2. f[l][1][1] = n
      BY <3>1 DEF Stream
    <3>3. QED
      BY <3>1, <3>2, <2>2
  <2>3. CASE q > l
    <3>1. g[q] = <<m, q - l>>
      BY <2>3, <1>1, <1>4
    <3>2. q - l = t
      BY <3>1 DEF t
    <3>3. QED
      BY <3>2, <1>1
  <2>4. QED
    BY <2>1, <2>2, <2>3, <1>1
<1>8. g # <<>>
  BY <1>1, <1>3
<1>9. g[1][2] = 1 /\ g[1][1][1] = r + 1
  <2>1. CASE f = <<>>
    <3>1. l = 0 /\ r = n
      BY <2>1 DEF Stream
    <3>2. g[1] = <<m, 1>>
      BY <3>1, <1>1, <1>4
    <3>3. QED
      BY <3>1, <3>2
  <2>2. CASE f # <<>>
    <3>1. 1 \in 1 .. l /\ g[1] = f[1]
      BY <2>2, <1>1, <1>3
    <3>2. QED
      BY <2>2, <3>1 DEF Stream
  <2>3. QED
    BY <2>1, <2>2
<1>10. g[Len(g)][2] = Total(g[Len(g)][1]) /\ g[Len(g)][1][1] = n + 1
  <2>1. l + t \in l + 1 .. l + t
    BY <1>1
  <2>2. g[Len(g)] = <<m, t>>
    BY <1>1, <1>3, <1>4, <2>1
  <2>3. QED
    BY <2>2 DEF t
<1>11. Stream(g, r, n + 1)
  BY <1>6, <1>7, <1>8, <1>9, <1>10 DEF Stream
<1>12. QED
  BY <1>11 DEF g

(* A stream begins with the next message. *)
LEMMA StreamFirst ==
  ASSUME NEW f \in Seq(Unit), NEW r \in Nat, NEW n \in Nat, Stream(f, r, n),
         f # <<>>
  PROVE  LET m == f[1][1]
         IN /\ m \in Messages /\ m[1] = r + 1
            /\ Total(m) <= Len(f)
            /\ \A j \in 1 .. Total(m) : f[j] = <<m, j>>
<1> DEFINE m == f[1][1]
<1>1. 1 \in 1 .. Len(f) /\ f[1] \in Unit /\ Len(f) \in Nat
  OBVIOUS
<1>2. m \in Messages /\ m[1] = r + 1 /\ f[1][2] = 1
  BY <1>1, UnitType DEF Stream
<1>3. \A j \in 1 .. Total(m) : 1 - 1 + j \in 1 .. Len(f) /\ f[1 - 1 + j] = <<m, j>>
  BY <1>1, <1>2 DEF Stream, Whole
<1>4. Total(m) \in Nat \ {0}
  BY <1>2, MessageType
<1> HIDE DEF m
<1>5. \A j \in 1 .. Total(m) : j \in 1 .. Len(f) /\ f[j] = <<m, j>>
  <2> TAKE j \in 1 .. Total(m)
  <2>1. 1 - 1 + j = j
    BY <1>4
  <2>2. QED
    BY <2>1, <1>3
<1>6. Total(m) <= Len(f)
  BY <1>4, <1>5
<1>7. QED
  BY <1>2, <1>5, <1>6 DEF m

(* What follows the first message of a stream is a stream. *)
LEMMA StreamDrop ==
  ASSUME NEW f \in Seq(Unit), NEW r \in Nat, NEW n \in Nat, Stream(f, r, n),
         f # <<>>,
         NEW g \in Seq(Unit), Len(g) = Len(f) - Total(f[1][1]),
         \A q \in 1 .. Len(g) : g[q] = f[q + Total(f[1][1])]
  PROVE  Stream(g, r + 1, n)
<1> DEFINE m == f[1][1]
           t == Total(m)
           l == Len(g)
<1>1. /\ m \in Messages /\ m[1] = r + 1 /\ t <= Len(f)
      /\ \A j \in 1 .. t : f[j] = <<m, j>>
  BY StreamFirst
<1>2. t \in Nat \ {0} /\ l \in Nat /\ Len(f) = l + t /\ Len(f) \in Nat
  BY <1>1, MessageType
<1>3. \A q \in 1 .. l : g[q] = f[q + t] /\ g[q] \in Unit
  OBVIOUS
<1> HIDE DEF m, t, l
<1>10. ASSUME NEW q \in 1 .. l PROVE q + t \in 1 .. Len(f)
  <2>1. q \in Nat /\ q >= 1 /\ q <= l
    BY <1>2
  <2>2. q + t \in Nat /\ q + t >= 1 /\ q + t <= l + t
    BY <2>1, <1>2
  <2>3. QED
    BY <2>2, <1>2
<1>4. Whole(g)
  <2> SUFFICES ASSUME NEW q \in 1 .. l
               PROVE  /\ g[q][2] \in 1 .. Total(g[q][1])
                      /\ \A j \in 1 .. Total(g[q][1]) :
                           /\ q - g[q][2] + j \in 1 .. l
                           /\ g[q - g[q][2] + j] = <<g[q][1], j>>
    BY DEF Whole, l
  <2> DEFINE u == g[q]
  <2>1. u = f[q + t] /\ q + t \in 1 .. Len(f) /\ u[1] \in Messages
    BY <1>3, <1>10, UnitType
  <2>2. /\ u[2] \in 1 .. Total(u[1])
        /\ \A j \in 1 .. Total(u[1]) :
             /\ (q + t) - u[2] + j \in 1 .. Len(f)
             /\ f[(q + t) - u[2] + j] = <<u[1], j>>
    <3>1. \A i \in 1 .. Len(f) :
            /\ f[i][2] \in 1 .. Total(f[i][1])
            /\ \A j \in 1 .. Total(f[i][1]) :
                 /\ i - f[i][2] + j \in 1 .. Len(f)
                 /\ f[i - f[i][2] + j] = <<f[i][1], j>>
      BY DEF Stream, Whole
    <3> HIDE DEF u
    <3>2. QED
      BY <2>1, <3>1
  <2>3. Total(u[1]) \in Nat \ {0} /\ u[2] \in Int
    BY <2>1, <2>2, MessageType
  <2> HIDE DEF u
  <2>4. ASSUME NEW j \in 1 .. Total(u[1])
        PROVE  q - u[2] + j \in 1 .. l /\ g[q - u[2] + j] = <<u[1], j>>
    <3> DEFINE k == (q + t) - u[2] + j
    <3>0. j \in Int /\ q \in Int /\ t \in Int /\ u[2] \in Int
      BY <1>2, <2>3
    <3>1. k \in 1 .. Len(f) /\ f[k] = <<u[1], j>>
      BY <2>2
    <3>2. k > t
      <4> SUFFICES ASSUME k \in 1 .. t PROVE FALSE
        BY <3>1, <1>2
      <4>1. f[k] = <<m, k>>
        BY <1>1
      <4>2. u[1] = m /\ k = j
        BY <4>1, <3>1
      <4>3. (q + t) - u[2] = 0
        BY <4>2, <3>0
      <4>4. u[2] \in 1 .. t
        BY <4>2, <2>2 DEF t
      <4>5. QED
        BY <4>3, <4>4, <3>0
    <3>3. k <= l + t
      BY <2>2, <1>2
    <3>4. q - u[2] + j \in 1 .. l /\ (q - u[2] + j) + t = k
      <4> HIDE DEF k
      <4>1. k \in Int /\ l \in Int /\ k = (q + t) - u[2] + j
        BY <3>1, <1>2 DEF k
      <4>2. (q - u[2] + j) + t = k
        BY <4>1, <3>0
      <4>3. q - u[2] + j = k - t
        BY <4>1, <3>0
      <4>4. k - t \in 1 .. l
        BY <4>1, <3>0, <3>2, <3>3
      <4>5. QED
        BY <4>2, <4>3, <4>4
    <3>5. QED
      BY <3>1, <3>4, <1>3
  <2>5. QED
    BY <2>2, <2>4 DEF u
<1>5. InOrder(g)
  <2> SUFFICES ASSUME NEW q \in 1 .. l, q < l, g[q][2] = Total(g[q][1])
               PROVE  g[q + 1][2] = 1 /\ g[q + 1][1][1] = g[q][1][1] + 1
    BY DEF InOrder, l
  <2>1. /\ q + t \in 1 .. Len(f) /\ q + t < Len(f) /\ g[q] = f[q + t]
        /\ g[q + 1] = f[(q + t) + 1]
    <3>1. q + 1 \in 1 .. l /\ (q + 1) + t = (q + t) + 1 /\ q + t < Len(f)
      BY <1>2
    <3>2. QED
      BY <3>1, <1>3, <1>10
  <2>2. QED
    BY <2>1 DEF Stream, InOrder
<1>6. f[t] = <<m, t>> /\ t \in 1 .. Len(f)
  BY <1>1, <1>2
<1>7. CASE g = <<>>
  <2>1. Len(f) = t
    BY <1>7, <1>2 DEF l
  <2>2. f[Len(f)][1][1] = n
    BY DEF Stream
  <2>3. r + 1 = n
    BY <2>1, <2>2, <1>6, <1>1
  <2>4. QED
    BY <2>3, <1>4, <1>5, <1>7 DEF Stream
<1>8. CASE g # <<>>
  <2>1. 1 \in 1 .. l /\ l \in 1 .. l
    BY <1>8, <1>2 DEF l
  <2>2. g[1] = f[t + 1] /\ g[l] = f[Len(f)] /\ t < Len(f)
    <3>1. g[1] = f[1 + t] /\ g[l] = f[l + t]
      BY <2>1, <1>3
    <3>2. 1 + t = t + 1 /\ l >= 1
      BY <2>1, <1>2
    <3>3. l + t = Len(f) /\ t < l + t
      BY <3>2, <1>2
    <3>4. QED
      BY <3>1, <3>2, <3>3
  <2>3. f[t][2] = Total(f[t][1])
    BY <1>6 DEF t
  <2>4. f[t + 1][2] = 1 /\ f[t + 1][1][1] = r + 1 + 1
    <3>1. f[t + 1][2] = 1 /\ f[t + 1][1][1] = f[t][1][1] + 1
      BY <2>2, <2>3, <1>6 DEF Stream, InOrder
    <3>2. f[t][1][1] = r + 1
      BY <1>6, <1>1
    <3>3. QED
      BY <3>1, <3>2
  <2>5. QED
    BY <2>2, <2>4, <1>4, <1>5, <1>8 DEF Stream, l
<1>9. QED
  BY <1>7, <1>8

(* The place after one that is not the last, counted from anywhere. *)
LEMMA PlaceBeyond ==
  ASSUME NEW i \in Int, NEW t \in Nat, NEW k \in Nat, i \in 1 .. t, i # t
  PROVE  i + 1 \in 1 .. t /\ k - i + (i + 1) = k + 1
  OBVIOUS

(* A stream without its last message is a stream. *)
LEMMA StreamCut ==
  ASSUME NEW g \in Seq(Unit), NEW r \in Nat, NEW n \in Nat, Stream(g, r, n + 1),
         NEW m \in Messages, m[1] = n + 1,
         NEW f \in Seq(Unit), Len(g) = Len(f) + Total(m),
         \A q \in 1 .. Len(f) : g[q] = f[q],
         \A j \in 1 .. Total(m) : g[Len(f) + j] = <<m, j>>
  PROVE  Stream(f, r, n)
<1> DEFINE l == Len(f)
           t == Total(m)
<1>1. t \in Nat \ {0} /\ l \in Nat /\ Len(g) = l + t /\ g # <<>>
  BY MessageType
<1>2. /\ \A q \in 1 .. l : g[q] = f[q] /\ f[q] \in Unit /\ q \in 1 .. Len(g)
      /\ \A j \in 1 .. t : g[l + j] = <<m, j>>
  BY <1>1
<1> HIDE DEF l, t
<1>3. Whole(f)
  <2> SUFFICES ASSUME NEW q \in 1 .. l
               PROVE  /\ f[q][2] \in 1 .. Total(f[q][1])
                      /\ \A j \in 1 .. Total(f[q][1]) :
                           /\ q - f[q][2] + j \in 1 .. l
                           /\ f[q - f[q][2] + j] = <<f[q][1], j>>
    BY DEF Whole, l
  <2> DEFINE u == f[q]
  <2>1. u = g[q] /\ q \in 1 .. Len(g) /\ u[1] \in Messages
    BY <1>2, UnitType
  <2>2. /\ u[2] \in 1 .. Total(u[1])
        /\ \A j \in 1 .. Total(u[1]) :
             q - u[2] + j \in 1 .. Len(g) /\ g[q - u[2] + j] = <<u[1], j>>
    BY <2>1 DEF Stream, Whole
  <2>3. Total(u[1]) \in Nat \ {0}
    BY <2>1, MessageType
  <2> HIDE DEF u
  <2>4. ASSUME NEW j \in 1 .. Total(u[1])
        PROVE  q - u[2] + j \in 1 .. l /\ f[q - u[2] + j] = <<u[1], j>>
    <3> DEFINE k == q - u[2] + j
    <3>1. k \in 1 .. Len(g) /\ g[k] = <<u[1], j>>
      BY <2>2
    <3>2. k <= l
      <4> SUFFICES ASSUME k > l PROVE FALSE
        BY <3>1, <1>1
      <4>1. k - l \in 1 .. t /\ l + (k - l) = k
        BY <3>1, <1>1
      <4>2. g[k] = <<m, k - l>>
        BY <4>1, <1>2
      <4>3. k - l = j
        BY <4>2, <3>1
      <4>4. QED
        BY <4>3, <1>1, <2>2, <2>3
    <3>3. QED
      BY <3>1, <3>2, <1>1, <1>2
  <2>5. QED
    BY <2>2, <2>4 DEF u
<1>4. InOrder(f)
  <2> SUFFICES ASSUME NEW q \in 1 .. l, q < l, f[q][2] = Total(f[q][1])
               PROVE  f[q + 1][2] = 1 /\ f[q + 1][1][1] = f[q][1][1] + 1
    BY DEF InOrder, l
  <2>1. q \in 1 .. Len(g) /\ q < Len(g) /\ g[q] = f[q] /\ g[q + 1] = f[q + 1]
    BY <1>1, <1>2
  <2>2. QED
    BY <2>1 DEF Stream, InOrder
<1>5. g[l + 1] = <<m, 1>>
  BY <1>1, <1>2
<1>6. CASE f = <<>>
  <2>1. l = 0
    BY <1>6 DEF l
  <2>2. g[1][1][1] = r + 1 /\ g[1] = <<m, 1>>
    BY <2>1, <1>1, <1>5 DEF Stream
  <2>3. r = n
    BY <2>2
  <2>4. QED
    BY <2>3, <1>3, <1>4, <1>6 DEF Stream
<1>7. CASE f # <<>>
  <2>1. l \in 1 .. l /\ 1 \in 1 .. l
    BY <1>7, <1>1 DEF l
  <2>2. g[l] = f[l] /\ g[1] = f[1] /\ l \in 1 .. Len(g) /\ l < Len(g)
    BY <2>1, <1>1, <1>2
  <2> DEFINE u == f[l]
  <2>3. u[1] \in Messages /\ u[2] \in 1 .. Total(u[1]) /\ Total(u[1]) \in Nat
    BY <2>1, <2>2, <1>2, UnitType, MessageType DEF Stream, Whole
  <2>4. u[2] = Total(u[1])
    <3> SUFFICES ASSUME u[2] # Total(u[1]) PROVE FALSE
      OBVIOUS
    <3>1. u[2] + 1 \in 1 .. Total(u[1]) /\ l - u[2] + (u[2] + 1) = l + 1
      <4>1. l \in Nat
        BY <1>1
      <4>2. QED
        BY <4>1, <2>3, PlaceBeyond
    <3>2. \A j \in 1 .. Total(u[1]) : g[l - u[2] + j] = <<u[1], j>>
      <4>1. \A j \in 1 .. Total(g[l][1]) : g[l - g[l][2] + j] = <<g[l][1], j>>
        BY <2>2 DEF Stream, Whole
      <4>2. QED
        BY <4>1, <2>2
    <3>3. u[2] + 1 = 1
      <4>1. g[l - u[2] + (u[2] + 1)] = <<u[1], u[2] + 1>>
        BY <3>1, <3>2
      <4>2. QED
        BY <4>1, <3>1, <1>5
    <3>4. QED
      BY <3>3, <2>3
  <2>5. g[l + 1][1][1] = u[1][1] + 1
    BY <2>2, <2>4 DEF Stream, InOrder
  <2>6. u[1][1] = n
    <3>1. u[1][1] + 1 = n + 1
      BY <2>5, <1>5
    <3>2. u[1][1] \in Nat
      BY <2>3, MessageType
    <3>3. QED
      BY <3>1, <3>2
  <2>7. f[1][2] = 1 /\ f[1][1][1] = r + 1
    BY <2>2, <1>1 DEF Stream
  <2>8. QED
    BY <2>4, <2>6, <2>7, <1>3, <1>4, <1>7 DEF Stream, l
<1>8. QED
  BY <1>6, <1>7

LEMMA UnitAssociative ==
  ASSUME NEW f \in Seq(Unit), NEW g \in Seq(Unit), NEW h \in Seq(Unit)
  PROVE  (f \o g) \o h = f \o (g \o h)
  BY ConcatAssociative

(* A sequence of units can be cut anywhere. *)
LEMMA UnitCut ==
  ASSUME NEW f \in Seq(Unit), NEW n \in 1 .. Len(f)
  PROVE  LET a == SubSeq(f, 1, n)
             b == SubSeq(f, n + 1, Len(f))
         IN /\ a \in Seq(Unit) /\ Len(a) = n /\ a # <<>>
            /\ b \in Seq(Unit) /\ Len(b) = Len(f) - n
            /\ a \o b = f
            /\ \A q \in 1 .. n : a[q] = f[q]
            /\ \A q \in 1 .. Len(f) - n : b[q] = f[n + q]
<1> DEFINE a == SubSeq(f, 1, n)
           b == SubSeq(f, n + 1, Len(f))
<1>1. Len(f) \in Nat /\ \A i \in 1 .. Len(f) : f[i] \in Unit
  OBVIOUS
<1>2. /\ a \in Seq(Unit) /\ Len(a) = n
      /\ \A q \in 1 .. n : a[q] = f[q]
  <2>1. \A i \in 1 .. n : f[i] \in Unit
    BY <1>1
  <2>2. /\ SubSeq(f, 1, n) \in Seq(Unit)
        /\ Len(SubSeq(f, 1, n)) = IF 1 <= n THEN n - 1 + 1 ELSE 0
        /\ \A i \in 1 .. n - 1 + 1 : SubSeq(f, 1, n)[i] = f[1 + i - 1]
    BY <2>1, SubSeqProperties, <1>1
  <2>3. QED
    BY <2>2, <1>1
<1>3. /\ b \in Seq(Unit) /\ Len(b) = Len(f) - n
      /\ \A q \in 1 .. Len(f) - n : b[q] = f[n + q]
  <2>1. \A i \in n + 1 .. Len(f) : f[i] \in Unit
    BY <1>1
  <2>2. n + 1 \in Int /\ Len(f) \in Int
    BY <1>1
  <2>3. /\ SubSeq(f, n + 1, Len(f)) \in Seq(Unit)
        /\ Len(SubSeq(f, n + 1, Len(f)))
             = IF n + 1 <= Len(f) THEN Len(f) - (n + 1) + 1 ELSE 0
        /\ \A i \in 1 .. Len(f) - (n + 1) + 1 :
             SubSeq(f, n + 1, Len(f))[i] = f[n + 1 + i - 1]
    BY <2>1, <2>2, SubSeqProperties
  <2>4. QED
    BY <2>3, <1>1
<1>4. a \o b = f
  <2>1. /\ 1 \in 1 .. Len(f) + 1 /\ n \in 1 - 1 .. Len(f)
        /\ Len(f) \in n .. Len(f)
    BY <1>1
  <2>2. a \o b = SubSeq(f, 1, Len(f))
    BY <2>1, ConcatAdjacentSubSeq
  <2>3. QED
    BY <2>2, SubSeqFull
<1>5. a # <<>>
  BY <1>1, <1>2
<1>6. QED
  BY <1>2, <1>3, <1>4, <1>5

LEMMA Min2Type ==
  ASSUME NEW a \in Int, NEW b \in Int, NEW n \in 1 .. Min2(a, b)
  PROVE  n \in 1 .. a /\ n \in 1 .. b
  BY DEF Min2

LEMMA PeerType ==
  ASSUME NEW e \in Ends
  PROVE  /\ Peer(e) \in Ends /\ Peer(Peer(e)) = e /\ Peer(e) # e
         /\ \A d \in Ends : d = e \/ d = Peer(e)
  BY DEF Peer, Ends

LEMMA MessageInType ==
  ASSUME NEW f \in Seq(Unit), f # <<>>
  PROVE  MessageIn(f) \in Messages \cup {Garbled}
<1>1. f[1] \in Unit
  OBVIOUS
<1>2. f[1][1] \in Messages
  BY <1>1, UnitType
<1>3. QED
  BY <1>2 DEF MessageIn

LEMMA SizesInType ==
  ASSUME NEW f \in Seq(Unit), f # <<>>
  PROVE  SizesIn(f) \subseteq 0 .. MaxPayload
<1>1. f[1] \in Unit
  OBVIOUS
<1>2. Size(f[1][1]) \in 0 .. MaxPayload
  BY <1>1, UnitType, MessageType
<1>3. QED
  BY <1>2 DEF SizesIn

-----------------------------------------------------------------------------
(* The ends *)

LEMMA EndsInit == Init => EndsInv
<1> SUFFICES ASSUME Init PROVE EndsInv
  OBVIOUS
<1> USE TransportAssumption DEF Init
<1>1. /\ wire \in [Ends -> Seq(Unit)] /\ out \in [Ends -> Seq(Unit)]
      /\ acc \in [Ends -> Seq(Unit)] /\ sent \in [Ends -> Seq(Messages)]
      /\ received \in [Ends -> Seq(Messages \cup {Garbled})]
  OBVIOUS
<1>2. Types
  BY <1>1 DEF Types
<1>3. Bounds
  BY DEF Bounds
<1>4. Calls
  BY DEF Calls
<1>5. Linked
  BY DEF Linked, Ends
<1>6. QED
  BY <1>2, <1>3, <1>4, <1>5 DEF EndsInv

(* A call ends, and nothing but the state of its socket changes. *)
LEMMA ReturnKeeps ==
  ASSUME NEW e \in Ends, EndsInv, Return(e),
         sstate' = [sstate EXCEPT ![e] = "DISCONNECTING"] \/ UNCHANGED sstate,
         call[e] # "idle",
         UNCHANGED <<open, kernel, want, sent>>,
         received' \in [Ends -> Seq(Messages \cup {Garbled})],
         link = "none" => UNCHANGED received,
         broken' \in [Ends -> BOOLEAN], UNCHANGED user
  PROVE  EndsInv'
<1> USE TransportAssumption DEF Return, EndsInv, kernel
<1>1. Types'
  <2>1. <<>> \in Seq(Unit)
    OBVIOUS
  <2>2. out' \in [Ends -> Seq(Unit)] /\ acc' \in [Ends -> Seq(Unit)]
    BY <2>1 DEF Types
  <2>3. /\ sstate' \in [Ends -> {"NONE", "CLOSED", "CONNECTING", "CONNECTED",
                                "DISCONNECTING", "ERROR"}]
        /\ call' \in [Ends -> {"idle", "send", "header", "payload"}]
    BY DEF Types
  <2>4. QED
    BY <2>2, <2>3 DEF Types
<1>2. Bounds'
  BY DEF Types, Bounds
<1>3. Calls'
  BY DEF Types, Calls
<1>4. Linked'
  BY DEF Types, Linked, Calls, Ends
<1>5. QED
  BY <1>1, <1>2, <1>3, <1>4

(* What the programs do without a call. *)
Stops == StopReading \/ \E d \in Ends : Halt(d)

LEMMA EndsLink ==
  ASSUME EndsInv, Connect \/ ConnectCheck \/ Accept \/ Reset \/ Stops
  PROVE  EndsInv'
<1> USE DEF EndsInv, socket, kernel, history
<1>1. CASE Connect
  BY <1>1 DEF Connect, Types, Bounds, Calls, Linked, Ends
<1>2. CASE ConnectCheck
  BY <1>2 DEF ConnectCheck, Types, Bounds, Calls, Linked, Ends
<1>3. CASE Accept
  BY <1>3 DEF Accept, Types, Bounds, Calls, Linked, Ends
<1>4. CASE Reset
  <2>1. wire' = [d \in Ends |-> <<>>]
    BY <1>4 DEF Reset
  <2>2. Types'
    BY <1>4, <2>1 DEF Reset, Types
  <2>3. Bounds'
    BY <1>4, <2>1, TransportAssumption DEF Reset, Types, Bounds
  <2>4. Calls' /\ Linked'
    BY <1>4, <2>1 DEF Reset, Calls, Linked
  <2>5. QED
    BY <2>2, <2>3, <2>4
<1>5. CASE Stops
  <2>1. user' \in [Ends -> {"reads", "ignores", "halted"}]
    <3>1. PICK d \in Ends, u \in {"ignores", "halted"} :
            user' = [user EXCEPT ![d] = u]
      BY <1>5 DEF Stops, StopReading, Halt, Ends
    <3>2. QED
      BY <3>1 DEF Types
  <2>2. UNCHANGED <<sstate, open, link, wire, call, out, acc, want, sent, received,
                   broken>>
    BY <1>5 DEF Stops, StopReading, Halt
  <2>3. QED
    BY <2>1, <2>2 DEF Types, Bounds, Calls, Linked
<1>6. QED
  BY <1>1, <1>2, <1>3, <1>4, <1>5

LEMMA EndsSend ==
  ASSUME EndsInv, NEW e \in Ends, BeginSend(e) \/ SendSome(e)
  PROVE  EndsInv'
<1> USE DEF EndsInv, socket, kernel, history
<1>1. CASE BeginSend(e)
  <2> DEFINE m(s) == <<Len(sent[e]) + 1, s>>
  <2>1. PICK s \in 0 .. MaxPayload : out' = [out EXCEPT ![e] = Units(m(s))]
    BY <1>1 DEF BeginSend
  <2>2. m(s) \in Messages
    <3>1. Len(sent[e]) \in Nat /\ MaxMessages[e] \in Nat
      BY TransportAssumption DEF Types
    <3>2. Len(sent[e]) + 1 \in 1 .. MaxMessages[e]
      BY <1>1, <3>1 DEF BeginSend
    <3>3. QED
      BY <3>2 DEF Messages
  <2>3. Units(m(s)) \in Seq(Unit) /\ Units(m(s)) # <<>>
    BY <2>2, UnitsType
  <2>4. out' \in [Ends -> Seq(Unit)]
    BY <2>1, <2>3 DEF Types
  <2>5. Types' /\ Bounds'
    BY <1>1, <2>4 DEF BeginSend, Types, Bounds
  <2>6. Calls'
    BY <1>1, <2>1, <2>3 DEF BeginSend, Idle, Types, Calls
  <2>7. Linked'
    BY <1>1 DEF BeginSend, Linked
  <2>8. QED
    BY <2>5, <2>6, <2>7
<1>2. CASE SendSome(e)
  <2>1. PICK n \in 1 .. Min2(Len(out[e]), Room(e)) :
          /\ wire' = [wire EXCEPT ![e] = @ \o SubSeq(out[e], 1, n)]
          /\ out' = [out EXCEPT ![e] = Rest(out[e], n)]
    BY <1>2 DEF SendSome
  <2>2. out[e] \in Seq(Unit) /\ wire[e] \in Seq(Unit)
        /\ Len(out[e]) \in Nat /\ Len(wire[e]) \in Nat /\ Buffer \in Nat
    BY TransportAssumption DEF Types
  <2>3. n \in 1 .. Len(out[e]) /\ Len(wire[e]) + n <= Buffer
    <3>1. n \in 1 .. Len(out[e]) /\ n \in 1 .. Room(e)
      BY <2>2, Min2Type DEF Room
    <3>2. QED
      BY <2>2, <3>1 DEF Room
  <2> DEFINE a == SubSeq(out[e], 1, n)
  <2>4. a \in Seq(Unit) /\ Len(a) = n /\ Rest(out[e], n) \in Seq(Unit)
    BY <2>2, <2>3, UnitCut DEF Rest
  <2>5. wire[e] \o a \in Seq(Unit) /\ Len(wire[e] \o a) <= Buffer
    BY <2>2, <2>3, <2>4, UnitConcat
  <2> HIDE DEF a
  <2>6. wire' \in [Ends -> Seq(Unit)] /\ out' \in [Ends -> Seq(Unit)]
    BY <2>1, <2>4, <2>5 DEF Types, a
  <2>7. Head(out[e])[1] \in Messages
    <3>1. out[e] # <<>>
      BY <2>2, <2>3
    <3>2. Head(out[e]) \in Unit
      BY <2>2, <3>1
    <3>3. QED
      BY <3>2, UnitType
  <2>8. sent' \in [Ends -> Seq(Messages)]
    BY <1>2, <2>7 DEF SendSome, Types
  <2>9. Types'
    <3>1. call' \in [Ends -> {"idle", "send", "header", "payload"}]
      BY <1>2 DEF SendSome, Types
    <3>2. QED
      BY <1>2, <2>6, <2>8, <3>1 DEF SendSome, Types
  <2>10. Bounds'
    BY <1>2, <2>1, <2>5 DEF SendSome, Types, Bounds, a
  <2>11. Calls'
    BY <1>2, <2>6 DEF SendSome, In, Types, Calls
  <2>12. Linked'
    BY <1>2 DEF SendSome, Linked
  <2>13. QED
    BY <2>9, <2>10, <2>11, <2>12
<1>3. QED
  BY <1>1, <1>2

LEMMA EndsReceive ==
  ASSUME EndsInv, NEW e \in Ends,
         BeginRecv(e) \/ RecvSome(e) \/ HeaderValid(e)
  PROVE  EndsInv'
<1> USE DEF EndsInv, socket, kernel, history
<1>0. Header \in Nat \ {0} /\ MaxPayload \in Nat /\ Peer(e) \in Ends
  BY TransportAssumption, PeerType
<1>1. CASE BeginRecv(e)
  <2>1. want' = [want EXCEPT ![e] = Header] /\ Header \in Header .. Header + MaxPayload
    BY <1>0, <1>1 DEF BeginRecv
  <2>2. Types'
    BY <1>1, <2>1 DEF BeginRecv, Types
  <2>3. acc[e] = <<>> /\ out[e] = <<>>
    BY <1>1 DEF BeginRecv, Idle, Calls
  <2>4. Bounds'
    BY <1>0, <1>1, <2>1, <2>3 DEF BeginRecv, Types, Bounds
  <2>5. Calls'
    BY <1>1, <2>1, <2>3 DEF BeginRecv, Idle, Types, Calls
  <2>6. Linked'
    BY <1>1 DEF BeginRecv, Linked
  <2>7. QED
    BY <2>2, <2>4, <2>5, <2>6
<1>2. CASE RecvSome(e)
  <2> DEFINE p == Peer(e)
  <2>1. PICK n \in 1 .. Min2(want[e] - Len(acc[e]), Len(wire[p])) :
          /\ acc' = [acc EXCEPT ![e] = @ \o SubSeq(wire[p], 1, n)]
          /\ wire' = [wire EXCEPT ![p] = SubSeq(@, n + 1, Len(@))]
    BY <1>2 DEF RecvSome
  <2>2. /\ acc[e] \in Seq(Unit) /\ wire[p] \in Seq(Unit)
        /\ Len(acc[e]) \in Nat /\ Len(wire[p]) \in Nat /\ want[e] \in Nat
        /\ Buffer \in Nat
    BY <1>0, TransportAssumption DEF Types
  <2>3. n \in 1 .. Len(wire[p]) /\ Len(acc[e]) + n <= want[e] /\ n \in Nat
    <3>1. n \in 1 .. want[e] - Len(acc[e]) /\ n \in 1 .. Len(wire[p])
      BY <2>2, Min2Type
    <3>2. QED
      BY <2>2, <3>1
  <2> DEFINE a == SubSeq(wire[p], 1, n)
             b == SubSeq(wire[p], n + 1, Len(wire[p]))
  <2>4. /\ a \in Seq(Unit) /\ Len(a) = n
        /\ b \in Seq(Unit) /\ Len(b) = Len(wire[p]) - n
    BY <2>2, <2>3, UnitCut
  <2>5. acc[e] \o a \in Seq(Unit) /\ Len(acc[e] \o a) = Len(acc[e]) + n
    BY <2>2, <2>4, UnitConcat
  <2>6. acc' = [acc EXCEPT ![e] = acc[e] \o a] /\ wire' = [wire EXCEPT ![p] = b]
    BY <2>1
  <2> HIDE DEF a, b
  <2>7. acc' \in [Ends -> Seq(Unit)] /\ wire' \in [Ends -> Seq(Unit)]
    BY <1>0, <2>4, <2>5, <2>6 DEF Types
  <2>8. Types'
    BY <1>2, <2>7 DEF RecvSome, Types
  <2>9. Bounds'
    <3>1. Len(b) <= Buffer
      BY <1>0, <2>2, <2>3, <2>4 DEF Bounds
    <3>2. Len(acc[e] \o a) <= want[e]
      BY <2>3, <2>5
    <3>3. QED
      BY <1>0, <1>2, <2>6, <3>1, <3>2 DEF RecvSome, Types, Bounds
  <2>10. Calls'
    <3>1. call[e] = "payload" => Len(acc[e] \o a) >= Header
      BY <1>0, <2>2, <2>3, <2>5 DEF Calls
    <3>2. QED
      BY <1>2, <2>6, <3>1 DEF RecvSome, Receiving, In, Types, Calls
  <2>11. Linked'
    BY <1>2 DEF RecvSome, Linked
  <2>12. QED
    BY <2>8, <2>9, <2>10, <2>11
<1>3. CASE HeaderValid(e)
  <2>1. PICK s \in SizesIn(acc[e]) : want' = [want EXCEPT ![e] = Header + s]
    BY <1>3 DEF HeaderValid
  <2>2. acc[e] \in Seq(Unit) /\ Len(acc[e]) = Header /\ acc[e] # <<>>
    BY <1>0, <1>3 DEF HeaderValid, Types
  <2>3. s \in 0 .. MaxPayload
    BY <2>2, SizesInType
  <2>4. Header + s \in Header .. Header + MaxPayload /\ Header <= Header + s
    BY <1>0, <2>3
  <2>5. Types'
    BY <1>3, <2>1, <2>4 DEF HeaderValid, Types
  <2>6. Bounds'
    BY <1>3, <2>1, <2>2, <2>4 DEF HeaderValid, Types, Bounds
  <2>7. Calls'
    BY <1>0, <1>3, <2>1, <2>2 DEF HeaderValid, In, Types, Calls
  <2>8. Linked'
    BY <1>3 DEF HeaderValid, Linked
  <2>9. QED
    BY <2>5, <2>6, <2>7, <2>8
<1>4. QED
  BY <1>1, <1>2, <1>3

LEMMA EndsReturn ==
  ASSUME EndsInv, NEW e \in Ends,
         \/ FindReset(e) \/ SendError(e) \/ HeaderInvalid(e) \/ Deliver(e)
         \/ FindEnd(e) \/ RecvError(e)
  PROVE  EndsInv'
<1> USE DEF socket, kernel, history, EndsInv
<1>0. Peer(e) \in Ends
  BY PeerType
<1>1. CASE FindReset(e)
  BY <1>1, ReturnKeeps DEF FindReset, Types
<1>2. CASE SendError(e)
  <2>1. broken' \in [Ends -> BOOLEAN]
    BY <1>2 DEF SendError, Types
  <2>2. QED
    BY <1>2, <2>1, ReturnKeeps DEF SendError, In, Types
<1>3. CASE HeaderInvalid(e)
  BY <1>3, ReturnKeeps DEF HeaderInvalid, In, Types
<1>4. CASE Deliver(e)
  <2>1. acc[e] \in Seq(Unit) /\ acc[e] # <<>>
    BY <1>4, TransportAssumption DEF Deliver, In, Types, Calls
  <2>2. MessageIn(acc[e]) \in Messages \cup {Garbled}
    BY <2>1, MessageInType
  <2>3. received' \in [Ends -> Seq(Messages \cup {Garbled})]
    BY <1>4, <2>2 DEF Deliver, Types
  <2>4. link # "none"
    BY <1>4 DEF Deliver, In, Calls, Linked, Ends
  <2>5. QED
    BY <1>4, <2>3, <2>4, ReturnKeeps DEF Deliver, In, Types
<1>5. CASE FindEnd(e)
  BY <1>5, ReturnKeeps DEF FindEnd, Receiving, In, Types
<1>6. CASE RecvError(e)
  <2>1. broken' \in [Ends -> BOOLEAN]
    BY <1>0, <1>6 DEF RecvError, Types
  <2>2. QED
    BY <1>6, <2>1, ReturnKeeps DEF RecvError, Receiving, In, Types
<1>7. QED
  BY <1>1, <1>2, <1>3, <1>4, <1>5, <1>6

LEMMA EndsClose ==
  ASSUME EndsInv, NEW e \in Ends, Close(e)
  PROVE  EndsInv'
<1> USE DEF EndsInv, kernel, history
<1>1. wire' = wire \/ wire' = [d \in Ends |-> <<>>]
  BY DEF Close
<1>2. Types'
  <2>1. wire' \in [Ends -> Seq(Unit)]
    <3>1. <<>> \in Seq(Unit)
      OBVIOUS
    <3>2. QED
      BY <1>1, <3>1 DEF Types
  <2>2. QED
    BY <2>1 DEF Close, Types
<1>3. Bounds'
  BY <1>1, TransportAssumption DEF Close, Types, Bounds
<1>4. Calls'
  BY DEF Close, Types, Calls
<1>5. Linked'
  BY DEF Close, Types, Linked, Ends
<1>6. QED
  BY <1>2, <1>3, <1>4, <1>5

LEMMA EndsStep == EndsInv /\ [Next]_vars => EndsInv'
<1> SUFFICES ASSUME EndsInv, [Next]_vars PROVE EndsInv'
  OBVIOUS
<1>1. CASE UNCHANGED vars
  BY <1>1 DEF vars, socket, kernel, history, EndsInv, Types, Bounds, Calls, Linked
<1>2. QED
  BY <1>1, EndsLink, EndsSend, EndsReceive, EndsReturn, EndsClose
     DEF Next, Works, Fails, Stops, Over

-----------------------------------------------------------------------------
(* The directions *)

LEMMA NamedExtend ==
  ASSUME NEW f \in Seq(Unit), NEW a \in Seq(Unit), NEW m \in Messages,
         NEW s \in Seq(Messages), NEW z \in Seq(Messages), Named(f, s),
         Len(s) <= Len(z), \A k \in 1 .. Len(s) : z[k] = s[k],
         m[1] \in 1 .. Len(z), z[m[1]] = m, \A q \in 1 .. Len(a) : a[q][1] = m
  PROVE  Named(f \o a, z)
<1> DEFINE g == f \o a
<1>1. /\ g \in Seq(Unit) /\ Len(g) = Len(f) + Len(a)
      /\ \A q \in 1 .. Len(f) : g[q] = f[q]
      /\ \A q \in Len(f) + 1 .. Len(f) + Len(a) : g[q] = a[q - Len(f)]
  BY UnitConcat
<1>2. Len(f) \in Nat /\ Len(a) \in Nat /\ Len(s) \in Nat /\ Len(z) \in Nat
  OBVIOUS
<1> HIDE DEF g
<1>3. SUFFICES ASSUME NEW q \in 1 .. Len(f) + Len(a)
               PROVE  g[q][1][1] \in 1 .. Len(z) /\ g[q][1] = z[g[q][1][1]]
  BY <1>1 DEF Named, g
<1>4. CASE q <= Len(f)
  <2>1. q \in 1 .. Len(f) /\ g[q] = f[q]
    BY <1>1, <1>2, <1>4
  <2>2. f[q][1][1] \in 1 .. Len(s) /\ f[q][1] = s[f[q][1][1]]
    BY <2>1 DEF Named
  <2>3. f[q][1][1] \in 1 .. Len(z)
    BY <2>2, <1>2
  <2>4. QED
    BY <2>1, <2>2, <2>3
<1>5. CASE q > Len(f)
  <2>1. q \in Len(f) + 1 .. Len(f) + Len(a) /\ q - Len(f) \in 1 .. Len(a)
    BY <1>2, <1>5
  <2>2. g[q][1] = m
    BY <2>1, <1>1
  <2>3. QED
    BY <2>2
<1>6. QED
  BY <1>2, <1>4, <1>5

LEMMA NamedDrop ==
  ASSUME NEW f \in Seq(Unit), NEW a \in Seq(Unit), NEW s, Named(a \o f, s)
  PROVE  Named(f, s)
<1>1. SUFFICES ASSUME NEW q \in 1 .. Len(f)
               PROVE  f[q][1][1] \in 1 .. Len(s) /\ f[q][1] = s[f[q][1][1]]
  BY DEF Named
<1>2. Len(a) \in Nat /\ Len(f) \in Nat /\ Len(a \o f) = Len(a) + Len(f)
      /\ (a \o f)[Len(a) + q] = f[q]
  BY UnitConcat
<1>3. Len(a) + q \in 1 .. Len(a \o f)
  BY <1>2
<1>4. QED
  BY <1>2, <1>3 DEF Named

(* The types of what a direction is made of. *)
LEMMA DirectionTypes ==
  ASSUME Types, NEW e \in Ends
  PROVE  /\ Peer(e) \in Ends
         /\ acc[Peer(e)] \in Seq(Unit) /\ wire[e] \in Seq(Unit) /\ out[e] \in Seq(Unit)
         /\ acc[Peer(e)] \o wire[e] \in Seq(Unit) /\ Flow(e) \in Seq(Unit)
         /\ sent[e] \in Seq(Messages) /\ Len(sent[e]) \in Nat
         /\ received[Peer(e)] \in Seq(Messages \cup {Garbled})
         /\ Len(received[Peer(e)]) \in Nat
         /\ Number(e) \in Nat
         /\ broken[e] \in BOOLEAN
<1>1. /\ Peer(e) \in Ends
      /\ acc[Peer(e)] \in Seq(Unit) /\ wire[e] \in Seq(Unit) /\ out[e] \in Seq(Unit)
      /\ sent[e] \in Seq(Messages) /\ Len(sent[e]) \in Nat
      /\ received[Peer(e)] \in Seq(Messages \cup {Garbled})
      /\ Len(received[Peer(e)]) \in Nat /\ broken[e] \in BOOLEAN
  BY PeerType DEF Types
<1>2. acc[Peer(e)] \o wire[e] \in Seq(Unit)
  BY <1>1, UnitConcat
<1>3. Flow(e) \in Seq(Unit)
  BY <1>1, <1>2, UnitConcat DEF Flow
<1>4. Number(e) \in Nat
  BY <1>1 DEF Number
<1>5. QED
  BY <1>1, <1>2, <1>3, <1>4

(* A step that does not touch a direction. *)
LEMMA DirectionFrame ==
  ASSUME NEW e \in Ends, Direction(e), Ended(e)',
         sent'[e] = sent[e], received'[Peer(e)] = received[Peer(e)],
         broken'[e] = broken[e], out'[e] = out[e], acc'[Peer(e)] = acc[Peer(e)],
         acc[Peer(e)] # <<>> =>
           call'[Peer(e)] = call[Peer(e)] /\ want'[Peer(e)] = want[Peer(e)],
         Flowing(e)' => Flowing(e) /\ wire'[e] = wire[e]
  PROVE  Direction(e)'
<1>1. Sending(e)'
  BY DEF Direction, Sending
<1>2. Received(e)'
  BY DEF Direction, Received
<1>3. Gathered(e)'
  BY DEF Direction, Gathered
<1>4. Flows(e)'
  BY DEF Direction, Flows, Flow, Number
<1>5. QED
  BY <1>1, <1>2, <1>3, <1>4 DEF Direction

LEMMA DirectionInit == Init => \A e \in Ends : Direction(e)
<1> SUFFICES ASSUME Init, NEW e \in Ends PROVE Direction(e)
  OBVIOUS
<1>1. Peer(e) \in Ends
  BY PeerType
<1>2. link = "none" /\ out[e] = <<>> /\ acc[Peer(e)] = <<>> /\ sent[e] = <<>>
      /\ received[Peer(e)] = <<>>
  BY <1>1 DEF Init
<1>3. QED
  BY <1>2 DEF Direction, Sending, Received, Gathered, Flows, Flowing, Ended

(* Nothing is on its way. *)
LEMMA EmptyStream == Stream(<<>>, 0, 0) /\ \A s : Named(<<>>, s)
<1>1. Len(<<>>) = 0
  OBVIOUS
<1>2. QED
  BY <1>1 DEF Stream, Whole, InOrder, Named

LEMMA DirectionLink ==
  ASSUME EndsInv, NEW e \in Ends, Direction(e),
         Connect \/ ConnectCheck \/ Accept \/ Reset \/ Stops
  PROVE  Direction(e)'
<1> USE DEF socket, kernel, history
<1>0. Peer(e) \in Ends /\ Peer(e) # e
  BY PeerType
<1>1. CASE Connect
  <2>1. link = "none" /\ UNCHANGED link
    BY <1>1 DEF Connect, EndsInv, Linked
  <2>2. QED
    BY <1>1, <2>1, DirectionFrame DEF Connect, Ended, Flowing
<1>2. CASE ConnectCheck
  <2>1. link = "none"
    BY <1>2 DEF ConnectCheck, EndsInv, Linked
  <2>2. sstate["server"] = "NONE" /\ sstate["client"] # "CONNECTED"
    BY <2>1 DEF EndsInv, Linked
  <2>3. \A d \in Ends : /\ call[d] = "idle" /\ out[d] = <<>> /\ acc[d] = <<>>
                        /\ wire[d] = <<>> /\ sent[d] = <<>> /\ received[d] = <<>>
    BY <2>1, <2>2 DEF EndsInv, Calls, Linked, Types, Ends
  <2>4. /\ sent'[e] = <<>> /\ received'[Peer(e)] = <<>> /\ out'[e] = <<>>
        /\ acc'[Peer(e)] = <<>> /\ wire'[e] = <<>>
    BY <1>0, <1>2, <2>3 DEF ConnectCheck
  <2>5. (acc[Peer(e)] \o wire[e])' = <<>> /\ Flow(e)' = <<>>
    BY <2>4 DEF Flow
  <2>6. Flows(e)'
    BY <2>4, <2>5, EmptyStream DEF Flows, Number
  <2>7. Ended(e)'
    BY <1>2, <2>1, <2>2, <1>0 DEF ConnectCheck, Ended, EndsInv, Linked, Types, Ends
  <2>8. QED
    BY <2>4, <2>6, <2>7 DEF Direction, Sending, Received, Gathered
<1>3. CASE Accept
  <2>1. sstate["server"] = "NONE" /\ ~open["server"] /\ UNCHANGED link
    BY <1>3 DEF Accept, EndsInv, Linked
  <2>2. Ended(e)'
    BY <1>0, <1>3, <2>1 DEF Accept, Direction, Ended, EndsInv, Types, Ends
  <2>3. Flowing(e)' => Flowing(e)
    BY <1>0, <1>3, <2>1 DEF Accept, Flowing, EndsInv, Types, Ends
  <2>4. QED
    BY <1>3, <2>2, <2>3, DirectionFrame DEF Accept
<1>4. CASE Reset
  BY <1>4, DirectionFrame DEF Reset, Ended, Flowing
<1>5. CASE Stops
  BY <1>5, DirectionFrame DEF Stops, StopReading, Halt, Direction, Ended, Flowing
<1>6. QED
  BY <1>1, <1>2, <1>3, <1>4, <1>5

LEMMA DirectionClose ==
  ASSUME EndsInv, NEW e \in Ends, Direction(e), NEW d \in Ends, Close(d)
  PROVE  Direction(e)'
<1>1. Peer(e) \in Ends /\ Peer(e) # e /\ (d = e \/ d = Peer(e))
  BY PeerType
<1>2. link' = "up" => link = "up" /\ UNCHANGED wire
  BY DEF Close, kernel
<1>3. Ended(e)'
  BY <1>1, <1>2 DEF Close, history, Direction, Ended, EndsInv, Types
<1>4. Flowing(e)' => Flowing(e)
  BY <1>1, <1>2 DEF Close, history, Flowing, EndsInv, Types
<1>5. QED
  BY <1>2, <1>3, <1>4, DirectionFrame DEF Close, history, Flowing

(* The calls of an end as a sender, seen from the other direction, and its
   calls as a receiver, seen from its own. *)
LEMMA DirectionOther ==
  ASSUME EndsInv, NEW e \in Ends, Direction(e),
         \/ BeginSend(Peer(e)) \/ SendSome(Peer(e)) \/ SendError(Peer(e))
         \/ BeginRecv(e) \/ RecvSome(e) \/ HeaderValid(e) \/ HeaderInvalid(e)
         \/ Deliver(e) \/ FindEnd(e) \/ RecvError(e) \/ FindReset(e)
         \/ FindReset(Peer(e)) \/ BeginRecv(Peer(e))
  PROVE  Direction(e)'
<1> USE DEF socket, kernel, history, EndsInv
<1>0. Peer(e) \in Ends /\ Peer(e) # e /\ Peer(Peer(e)) = e
  BY PeerType
<1>1. CASE BeginSend(Peer(e))
  <2>1. acc[Peer(e)] = <<>>
    BY <1>0, <1>1 DEF BeginSend, Idle, Calls
  <2>2. QED
    BY <1>0, <1>1, <2>1, DirectionFrame
       DEF BeginSend, Types, Direction, Ended, Flowing
<1>2. CASE SendSome(Peer(e))
  <2>1. acc[Peer(e)] = <<>>
    BY <1>0, <1>2 DEF SendSome, In, Calls
  <2>2. /\ sent'[e] = sent[e] /\ out'[e] = out[e] /\ wire'[e] = wire[e]
        /\ UNCHANGED <<sstate, open, link, acc, want, received, broken>>
    BY <1>0, <1>2 DEF SendSome, Types
  <2>3. Ended(e)' /\ (Flowing(e)' => Flowing(e))
    BY <2>2 DEF Direction, Ended, Flowing
  <2>4. QED
    BY <2>1, <2>2, <2>3, DirectionFrame
<1>3. CASE SendError(Peer(e))
  <2>1. acc[Peer(e)] = <<>>
    BY <1>0, <1>3 DEF SendError, In, Calls
  <2>2. /\ acc'[Peer(e)] = acc[Peer(e)] /\ out'[e] = out[e] /\ broken'[e] = broken[e]
        /\ UNCHANGED <<sstate, open, link, wire, sent, received>>
    BY <1>0, <1>3, <2>1 DEF SendError, Return, Types
  <2>3. Ended(e)' /\ (Flowing(e)' => Flowing(e))
    BY <2>2 DEF Direction, Ended, Flowing
  <2>4. QED
    BY <2>1, <2>2, <2>3, DirectionFrame
<1>4. CASE BeginRecv(e)
  <2>1. /\ call'[Peer(e)] = call[Peer(e)] /\ want'[Peer(e)] = want[Peer(e)]
        /\ UNCHANGED <<sstate, open, link, wire, out, acc, sent, received, broken>>
    BY <1>0, <1>4 DEF BeginRecv, Types
  <2>2. Ended(e)' /\ (Flowing(e)' => Flowing(e))
    BY <2>1 DEF Direction, Ended, Flowing
  <2>3. QED
    BY <2>1, <2>2, DirectionFrame
<1>5. CASE RecvSome(e)
  <2>1. /\ acc'[Peer(e)] = acc[Peer(e)] /\ wire'[e] = wire[e]
        /\ UNCHANGED <<sstate, open, link, call, out, want, sent, received, broken>>
    BY <1>0, <1>5 DEF RecvSome, Types
  <2>2. Ended(e)' /\ (Flowing(e)' => Flowing(e))
    BY <2>1 DEF Direction, Ended, Flowing
  <2>3. QED
    BY <2>1, <2>2, DirectionFrame
<1>6. CASE HeaderValid(e)
  <2>1. /\ call'[Peer(e)] = call[Peer(e)] /\ want'[Peer(e)] = want[Peer(e)]
        /\ UNCHANGED <<sstate, open, link, wire, out, acc, sent, received, broken>>
    BY <1>0, <1>6 DEF HeaderValid, Types
  <2>2. Ended(e)' /\ (Flowing(e)' => Flowing(e))
    BY <2>1 DEF Direction, Ended, Flowing
  <2>3. QED
    BY <2>1, <2>2, DirectionFrame
<1>7. CASE HeaderInvalid(e) \/ Deliver(e) \/ FindEnd(e) \/ RecvError(e)
  <2>1. In(e, "header") \/ In(e, "payload")
    BY <1>7 DEF HeaderInvalid, Deliver, FindEnd, RecvError, Receiving
  <2>2. out[e] = <<>>
    BY <2>1 DEF In, Calls
  <2>3. Return(e) /\ UNCHANGED <<open, link, wire, want, sent>>
    BY <1>7 DEF HeaderInvalid, Deliver, FindEnd, RecvError
  <2>4. /\ call'[Peer(e)] = call[Peer(e)] /\ out'[e] = out[e]
        /\ acc'[Peer(e)] = acc[Peer(e)]
    BY <1>0, <2>2, <2>3 DEF Return, Types
  <2>5. /\ sstate'[Peer(e)] = sstate[Peer(e)] /\ broken'[e] = broken[e]
        /\ received'[Peer(e)] = received[Peer(e)]
        /\ sstate[e] # "NONE" => sstate'[e] # "NONE"
    BY <1>0, <1>7 DEF HeaderInvalid, Deliver, FindEnd, RecvError, Types
  <2>6. Ended(e)' /\ (Flowing(e)' => Flowing(e))
    BY <2>3, <2>5 DEF Direction, Ended, Flowing
  <2>7. QED
    BY <2>3, <2>4, <2>5, <2>6, DirectionFrame
<1>8. CASE FindReset(e) \/ FindReset(Peer(e))
  <2>1. link' = "reset" /\ UNCHANGED <<sent, received, broken>>
    BY <1>8 DEF FindReset
  <2>2. Ended(e)' /\ ~Flowing(e)'
    BY <2>1 DEF Ended, Flowing
  <2>3. out'[e] = out[e] \/ out'[e] = <<>>
    BY <1>0, <1>8 DEF FindReset, Return, Types
  <2>4. \/ acc'[Peer(e)] = <<>>
        \/ /\ acc'[Peer(e)] = acc[Peer(e)] /\ call'[Peer(e)] = call[Peer(e)]
           /\ want'[Peer(e)] = want[Peer(e)]
    BY <1>0, <1>8 DEF FindReset, Return, Types
  <2>5. Sending(e)'
    BY <2>1, <2>3 DEF Direction, Sending
  <2>6. Received(e)' /\ Gathered(e)'
    BY <2>1, <2>4 DEF Direction, Received, Gathered
  <2>7. QED
    BY <2>2, <2>5, <2>6 DEF Direction, Flows
<1>9. CASE BeginRecv(Peer(e))
  <2>1. acc[Peer(e)] = <<>>
    BY <1>0, <1>9 DEF BeginRecv, Idle, Calls
  <2>2. UNCHANGED <<sstate, open, link, wire, out, acc, sent, received, broken>>
    BY <1>9 DEF BeginRecv
  <2>3. Ended(e)' /\ (Flowing(e)' => Flowing(e))
    BY <2>2 DEF Direction, Ended, Flowing
  <2>4. QED
    BY <2>1, <2>2, <2>3, DirectionFrame
<1>10. QED
  BY <1>1, <1>2, <1>3, <1>4, <1>5, <1>6, <1>7, <1>8, <1>9

(* A message is cut into units, and nothing of it has left. *)
LEMMA DirectionBeginSend ==
  ASSUME EndsInv, NEW e \in Ends, Direction(e), BeginSend(e)
  PROVE  Direction(e)'
<1> USE DEF socket, kernel, history, EndsInv
<1> DEFINE p == Peer(e)
           w == acc[p] \o wire[e]
           h == Len(sent[e])
<1>0. p \in Ends /\ p # e /\ w \in Seq(Unit) /\ Flow(e) \in Seq(Unit)
      /\ h \in Nat /\ Len(received[p]) \in Nat
  BY PeerType, DirectionTypes
<1>1. PICK s \in 0 .. MaxPayload : out' = [out EXCEPT ![e] = Units(<<h + 1, s>>)]
  BY DEF BeginSend
<1> DEFINE m == <<h + 1, s>>
<1>2. m \in Messages /\ m[1] = h + 1
  <2>1. h + 1 \in 1 .. MaxMessages[e]
    BY <1>0, TransportAssumption DEF BeginSend
  <2>2. QED
    BY <2>1 DEF Messages
<1>3. /\ out'[e] = Units(m) /\ Units(m) \in Seq(Unit) /\ Len(Units(m)) = Total(m)
      /\ Units(m) # <<>> /\ \A j \in 1 .. Total(m) : Units(m)[j] = <<m, j>>
      /\ Total(m) \in Nat \ {0}
  BY <1>1, <1>2, UnitsType, MessageType DEF Types
<1>4. out[e] = <<>>
  BY DEF BeginSend, Idle, Calls
<1>5. UNCHANGED <<sstate, open, link, wire, acc, want, sent, received, broken>>
      /\ call'[p] = call[p]
  BY <1>0 DEF BeginSend, Types
<1> HIDE DEF m
<1>6. out'[e][1] = <<m, 1>> /\ \A j \in 1 .. Len(out'[e]) : out'[e][j] = <<m, 1 + j - 1>>
  BY <1>3
<1>7. Sending(e)'
  BY <1>2, <1>3, <1>5, <1>6 DEF Sending
<1>8. Received(e)' /\ Gathered(e)' /\ Ended(e)'
  BY <1>5 DEF Direction, Received, Gathered, Ended, BeginSend, Idle
<1>9. Flows(e)'
  <2> SUFFICES ASSUME Flowing(e)
               PROVE  /\ Stream(Flow(e)', Len(received[p]), Number(e)')
                      /\ Named(w, sent[e])
    BY <1>5 DEF Flows, Flowing
  <2>1. Stream(Flow(e), Len(received[p]), h) /\ Named(w, sent[e])
    BY <1>4 DEF Direction, Flows, Number
  <2>2. Flow(e) = w
    BY <1>0, <1>4, ConcatEmptySeq DEF Flow
  <2>3. Flow(e)' = w \o Units(m)
    BY <1>3, <1>5 DEF Flow
  <2>4. Number(e)' = h + 1
    BY <1>3, <1>5, <1>6 DEF Number
  <2>5. Stream(w \o Units(m), Len(received[p]), h + 1)
    BY <1>0, <1>2, <2>1, <2>2, StreamAppend
  <2>6. QED
    BY <2>1, <2>3, <2>4, <2>5
<1>10. QED
  BY <1>7, <1>8, <1>9 DEF Direction

(* Units go from the data of send_all to the kernel.  The message counts as
   sent with its first unit. *)
LEMMA DirectionSendSome ==
  ASSUME EndsInv, NEW e \in Ends, Direction(e), SendSome(e)
  PROVE  Direction(e)'
<1> USE DEF socket, kernel, history, EndsInv
<1> DEFINE p == Peer(e)
           f == acc[p]
           w == wire[e]
           x == out[e]
           m == x[1][1]
           i == x[1][2]
           h == Len(sent[e])
<1>0. /\ p \in Ends /\ p # e
      /\ f \in Seq(Unit) /\ w \in Seq(Unit) /\ x \in Seq(Unit) /\ f \o w \in Seq(Unit)
      /\ Flow(e) \in Seq(Unit)
      /\ sent[e] \in Seq(Messages) /\ h \in Nat
      /\ Len(received[p]) \in Nat /\ broken[e] \in BOOLEAN
      /\ Len(w) \in Nat /\ Len(x) \in Nat /\ Buffer \in Nat
  BY PeerType, DirectionTypes, TransportAssumption
<1>1. x # <<>> /\ open[e]
  BY DEF SendSome, In, Calls
<1>2. x[1] \in Unit /\ Head(x) = x[1]
  BY <1>0, <1>1
<1>3. m \in Messages /\ i \in Nat \ {0}
  BY <1>2, UnitType
<1>4. /\ i <= Total(m) /\ Len(x) = Total(m) - i + 1
      /\ \A j \in 1 .. Len(x) : x[j] = <<m, i + j - 1>>
      /\ i = 1 => m[1] = h + 1
      /\ i > 1 => m[1] = h /\ m[1] > 0 /\ sent[e][m[1]] = m
  BY <1>1 DEF Direction, Sending
<1>5. PICK n \in 1 .. Min2(Len(x), Room(e)) :
        /\ wire' = [wire EXCEPT ![e] = @ \o SubSeq(x, 1, n)]
        /\ out' = [out EXCEPT ![e] = Rest(x, n)]
  BY DEF SendSome
<1>6. n \in 1 .. Len(x)
  BY <1>0, Min2Type DEF Room
<1> DEFINE a == SubSeq(x, 1, n)
           b == SubSeq(x, n + 1, Len(x))
<1>7. /\ a \in Seq(Unit) /\ Len(a) = n
      /\ b \in Seq(Unit) /\ Len(b) = Len(x) - n
      /\ a \o b = x
      /\ \A q \in 1 .. n : a[q] = x[q]
      /\ \A q \in 1 .. Len(x) - n : b[q] = x[n + q]
  BY <1>0, <1>6, UnitCut
<1>8. wire'[e] = w \o a /\ out'[e] = b
  BY <1>5 DEF Types, Rest
<1>9. UNCHANGED <<sstate, open, link, acc, want, received, broken>> /\ call'[p] = call[p]
  BY <1>0 DEF SendSome, Types
<1> DEFINE z == sent'[e]
<1>10. z = IF i = 1 THEN Append(sent[e], m) ELSE sent[e]
  BY <1>2 DEF SendSome, Types
<1>11. Total(m) \in Nat \ {0} /\ m[1] \in Nat \ {0}
  BY <1>3, MessageType
<1> HIDE DEF f, w, x, m, i, h, a, b, z
<1>12. /\ z \in Seq(Messages) /\ Len(z) \in Nat /\ h <= Len(z)
       /\ \A k \in 1 .. h : z[k] = sent[e][k]
       /\ m[1] = Len(z) /\ z[m[1]] = m
  <2>1. CASE i = 1
    <3>1. z = Append(sent[e], m) /\ m[1] = h + 1
      BY <1>4, <1>10, <2>1
    <3>2. /\ Append(sent[e], m) \in Seq(Messages)
          /\ Len(Append(sent[e], m)) = h + 1
          /\ \A k \in 1 .. h : Append(sent[e], m)[k] = sent[e][k]
          /\ Append(sent[e], m)[h + 1] = m
      BY <1>0, <1>3, AppendProperties DEF h
    <3>3. QED
      BY <1>0, <3>1, <3>2
  <2>2. CASE i # 1
    <3>1. i > 1
      BY <1>3, <2>2
    <3>2. QED
      BY <1>0, <1>4, <1>10, <3>1, <2>2 DEF h
  <2>3. QED
    BY <2>1, <2>2
<1>13. b # <<>> =>
         /\ b[1][1] = m /\ b[1][2] = i + n /\ i + n > 1 /\ i + n <= Total(m)
         /\ Len(b) = Total(m) - (i + n) + 1
         /\ \A j \in 1 .. Len(b) : b[j] = <<m, i + n + j - 1>>
  <2> SUFFICES ASSUME b # <<>>
               PROVE /\ b[1][1] = m /\ b[1][2] = i + n /\ i + n > 1 /\ i + n <= Total(m)
                     /\ Len(b) = Total(m) - (i + n) + 1
                     /\ \A j \in 1 .. Len(b) : b[j] = <<m, i + n + j - 1>>
    OBVIOUS
  <2>1. Len(b) \in Nat \ {0} /\ n \in Nat \ {0} /\ i \in Nat \ {0}
    BY <1>3, <1>6, <1>7
  <2>2. Len(b) = Total(m) - (i + n) + 1 /\ i + n <= Total(m) /\ i + n > 1
    <3>1. Len(x) = Total(m) - i + 1 /\ Len(b) = Len(x) - n
      BY <1>4, <1>7
    <3>2. QED
      BY <1>11, <2>1, <3>1
  <2>3. ASSUME NEW j \in 1 .. Len(b)
        PROVE  b[j] = <<m, i + n + j - 1>>
    <3>1. n + j \in 1 .. Len(x) /\ j \in 1 .. Len(x) - n /\ i + (n + j) - 1 = i + n + j - 1
      BY <1>0, <1>7, <2>1
    <3>2. b[j] = x[n + j]
      BY <1>7, <3>1
    <3>3. QED
      BY <1>4, <3>1, <3>2
  <2>4. b[1] = <<m, i + n>>
    <3>1. 1 \in 1 .. Len(b) /\ i + n + 1 - 1 = i + n
      BY <2>1
    <3>2. QED
      BY <2>3, <3>1
  <2>5. QED
    BY <2>2, <2>3, <2>4
<1>14. Sending(e)'
  BY <1>8, <1>12, <1>13, <1>11 DEF Sending, z
<1>15. Received(e)'
  <2>1. ~broken[e] => /\ Len(received[p]) <= h
                      /\ \A k \in 1 .. Len(received[p]) : received[p][k] = sent[e][k]
    BY DEF Direction, Received, h
  <2>2. ~broken[e] => /\ Len(received[p]) <= Len(z)
                      /\ \A k \in 1 .. Len(received[p]) : received[p][k] = z[k]
    <3> SUFFICES ASSUME ~broken[e]
                 PROVE  /\ Len(received[p]) <= Len(z)
                        /\ \A k \in 1 .. Len(received[p]) : received[p][k] = z[k]
      OBVIOUS
    <3>1. h \in Nat /\ Len(received[p]) \in Nat /\ Len(received[p]) <= h
      BY <1>0, <2>1 DEF h
    <3>2. \A k \in 1 .. Len(received[p]) : k \in 1 .. h
      BY <3>1
    <3>3. QED
      BY <1>12, <2>1, <3>1, <3>2
  <2>3. QED
    BY <1>9, <2>2 DEF Received, z
<1>16. Gathered(e)'
  <2> SUFFICES ASSUME ~broken[e], f # <<>>
               PROVE  /\ Len(received[p]) < Len(z)
                      /\ \A j \in 1 .. Len(f) : f[j] = <<z[Len(received[p]) + 1], j>>
                      /\ Len(f) <= Total(z[Len(received[p]) + 1])
                      /\ call[p] = "payload" => want[p] = Total(z[Len(received[p]) + 1])
    BY <1>9 DEF Gathered, f, z
  <2> DEFINE k == Len(received[p]) + 1
  <2>1. /\ Len(received[p]) < h
        /\ \A j \in 1 .. Len(f) : f[j] = <<sent[e][k], j>>
        /\ Len(f) <= Total(sent[e][k])
        /\ call[p] = "payload" => want[p] = Total(sent[e][k])
    BY DEF Direction, Gathered, f, h
  <2>2. z[k] = sent[e][k] /\ Len(received[p]) < Len(z)
    <3>1. h \in Nat /\ Len(received[p]) \in Nat
      BY <1>0 DEF h
    <3>2. k \in 1 .. h
      BY <2>1, <3>1
    <3>3. QED
      BY <1>12, <2>1, <3>1, <3>2
  <2>3. QED
    BY <2>1, <2>2
<1>17. Ended(e)'
  BY <1>1, <1>9 DEF Direction, Ended
<1>18. Flows(e)'
  <2> SUFFICES ASSUME Flowing(e)
               PROVE  /\ Stream(Flow(e)', Len(received[p]), Number(e)')
                      /\ Named((acc[p] \o wire[e])', z)
    BY <1>9 DEF Flows, Flowing, z
  <2>1. Stream(Flow(e), Len(received[p]), Number(e)) /\ Named(f \o w, sent[e])
    BY DEF Direction, Flows, f, w
  <2>2. Flow(e)' = Flow(e)
    <3>0. f \in Seq(Unit) /\ w \in Seq(Unit) /\ f \o w \in Seq(Unit)
          /\ a \in Seq(Unit) /\ b \in Seq(Unit)
      BY <1>0, <1>7 DEF f, w
    <3>1. Flow(e)' = (f \o (w \o a)) \o b
      BY <1>8, <1>9 DEF Flow, f
    <3>2. f \o (w \o a) = (f \o w) \o a
      BY <3>0, UnitAssociative
    <3>3. ((f \o w) \o a) \o b = (f \o w) \o (a \o b)
      BY <3>0, UnitAssociative
    <3>4. QED
      BY <1>7, <3>1, <3>2, <3>3 DEF Flow, f, w, x
  <2>3. Number(e)' = Number(e)
    <3>1. Number(e) = IF i = 1 THEN h + 1 ELSE h
      BY <1>1 DEF Number, x, i, h
    <3>2. Number(e)' = Len(z)
      BY <1>8, <1>13 DEF Number, z
    <3>3. i # 1 => i > 1
      BY <1>3
    <3>4. QED
      BY <1>4, <1>12, <3>1, <3>2, <3>3
  <2>4. Named((f \o w) \o a, z)
    <3>1. ASSUME NEW q \in 1 .. Len(a) PROVE a[q][1] = m
      <4>1. q \in 1 .. n /\ q \in 1 .. Len(x)
        BY <1>0, <1>6, <1>7
      <4>2. QED
        BY <4>1, <1>4, <1>7
    <3>2. m[1] \in 1 .. Len(z) /\ Len(sent[e]) <= Len(z)
          /\ \A k \in 1 .. Len(sent[e]) : z[k] = sent[e][k]
      BY <1>11, <1>12 DEF h
    <3>3. f \o w \in Seq(Unit) /\ a \in Seq(Unit) /\ m \in Messages
          /\ sent[e] \in Seq(Messages) /\ z \in Seq(Messages) /\ z[m[1]] = m
      BY <1>0, <1>3, <1>7, <1>12 DEF f, w
    <3>4. QED
      BY <3>3, <2>1, <3>1, <3>2, NamedExtend
  <2>5. (acc[p] \o wire[e])' = (f \o w) \o a
    <3>1. (acc[p] \o wire[e])' = f \o (w \o a)
      BY <1>8, <1>9 DEF f
    <3>2. f \in Seq(Unit) /\ w \in Seq(Unit) /\ a \in Seq(Unit)
      BY <1>0, <1>7 DEF f, w
    <3>3. QED
      BY <3>1, <3>2, UnitAssociative
  <2>6. QED
    BY <2>1, <2>2, <2>3, <2>4, <2>5, <1>9
<1>19. QED
  BY <1>14, <1>15, <1>16, <1>17, <1>18 DEF Direction

(* A send that fails before its first unit takes the whole message back; one
   that fails later breaks the direction. *)
LEMMA DirectionSendError ==
  ASSUME EndsInv, NEW e \in Ends, Direction(e), SendError(e)
  PROVE  Direction(e)'
<1> USE DEF socket, kernel, history, EndsInv
<1> DEFINE p == Peer(e)
           w == acc[p] \o wire[e]
           x == out[e]
           m == x[1][1]
           h == Len(sent[e])
<1>0. /\ p \in Ends /\ p # e
      /\ x \in Seq(Unit) /\ w \in Seq(Unit) /\ Flow(e) \in Seq(Unit)
      /\ Len(received[p]) \in Nat /\ h \in Nat
  BY PeerType, DirectionTypes
<1>1. x # <<>> /\ open[e] /\ acc[e] = <<>>
  BY DEF SendError, In, Calls
<1>2. /\ UNCHANGED <<sstate, open, link, wire, want, sent, received>>
      /\ out'[e] = <<>> /\ acc'[p] = acc[p] /\ call'[p] = call[p]
      /\ broken'[e] = (broken[e] \/ x[1][2] > 1)
  BY <1>0, <1>1 DEF SendError, Return, Types
<1>3. Sending(e)'
  BY <1>2 DEF Sending
<1>4. Received(e)' /\ Gathered(e)' /\ Ended(e)'
  BY <1>1, <1>2 DEF Direction, Received, Gathered, Ended
<1>5. Flows(e)'
  <2> SUFFICES ASSUME Flowing(e), ~(x[1][2] > 1)
               PROVE  Stream(w, Len(received[p]), h) /\ Named(w, sent[e])
    <3>1. Flow(e)' = w
      BY <1>0, <1>2, ConcatEmptySeq DEF Flow
    <3>2. Number(e)' = h
      BY <1>2 DEF Number
    <3>3. QED
      BY <1>2, <3>1, <3>2 DEF Flows, Flowing
  <2>1. Stream(Flow(e), Len(received[p]), Number(e)) /\ Named(w, sent[e])
    BY DEF Direction, Flows
  <2>2. x[1] \in Unit
    BY <1>0, <1>1
  <2>3. m \in Messages /\ x[1][2] = 1
    BY <2>2, UnitType
  <2>4. /\ m[1] = h + 1 /\ Len(x) = Total(m) - 1 + 1
        /\ \A j \in 1 .. Len(x) : x[j] = <<m, 1 + j - 1>>
    BY <1>1, <2>3 DEF Direction, Sending
  <2>5. Number(e) = h + 1
    BY <1>1, <2>3 DEF Number
  <2>6. Total(m) \in Nat
    BY <2>3, MessageType
  <2> HIDE DEF m, x, w, h
  <2>7. Len(x) = Total(m) /\ \A j \in 1 .. Total(m) : x[j] = <<m, j>>
    BY <2>4, <2>6
  <2>8. Flow(e) = w \o x
    BY DEF Flow, w, x
  <2>9. /\ Len(Flow(e)) = Len(w) + Total(m)
        /\ \A q \in 1 .. Len(w) : Flow(e)[q] = w[q]
        /\ \A j \in 1 .. Total(m) : Flow(e)[Len(w) + j] = <<m, j>>
    BY <1>0, <2>7, <2>8, UnitConcat
  <2>10. QED
    BY <1>0, <2>1, <2>3, <2>4, <2>5, <2>9, StreamCut
<1>6. QED
  BY <1>3, <1>4, <1>5 DEF Direction

(* Units go from the kernel to what recv_all gathers: the beginning of the
   message that is next. *)
LEMMA DirectionRecvSome ==
  ASSUME EndsInv, NEW e \in Ends, Direction(e), RecvSome(Peer(e))
  PROVE  Direction(e)'
<1> USE DEF socket, kernel, history, EndsInv
<1> DEFINE p == Peer(e)
           f == acc[p]
           w == wire[e]
           x == out[e]
<1>0. /\ p \in Ends /\ p # e /\ Peer(p) = e
      /\ f \in Seq(Unit) /\ w \in Seq(Unit) /\ x \in Seq(Unit) /\ f \o w \in Seq(Unit)
      /\ Flow(e) \in Seq(Unit) /\ Len(f) \in Nat /\ Len(w) \in Nat
      /\ sent[e] \in Seq(Messages) /\ Len(sent[e]) \in Nat
      /\ Len(received[p]) \in Nat /\ Number(e) \in Nat
      /\ want[p] \in Header .. Header + MaxPayload /\ want[p] \in Nat
      /\ Header \in Nat \ {0}
  <2>1. p \in Ends /\ p # e /\ Peer(p) = e
    BY PeerType
  <2>2. Header \in Nat \ {0} /\ MaxPayload \in Nat
    BY TransportAssumption
  <2>3. want[p] \in Header .. Header + MaxPayload /\ want[p] \in Nat
    BY <2>1, <2>2 DEF Types
  <2>4. /\ f \in Seq(Unit) /\ w \in Seq(Unit) /\ x \in Seq(Unit)
        /\ f \o w \in Seq(Unit) /\ Flow(e) \in Seq(Unit)
        /\ sent[e] \in Seq(Messages) /\ Len(sent[e]) \in Nat
        /\ Len(received[p]) \in Nat /\ Number(e) \in Nat
    BY DirectionTypes
  <2>5. Len(f) \in Nat /\ Len(w) \in Nat
    BY <2>4
  <2>6. QED
    BY <2>1, <2>2, <2>3, <2>4, <2>5
<1>1. link = "up" /\ open[p] /\ sstate[p] = "CONNECTED"
      /\ call[p] \in {"header", "payload"}
  BY <1>0 DEF RecvSome, Receiving, In, Calls
<1>2. PICK n \in 1 .. Min2(want[p] - Len(f), Len(w)) :
        /\ acc' = [acc EXCEPT ![p] = @ \o SubSeq(w, 1, n)]
        /\ wire' = [wire EXCEPT ![e] = SubSeq(@, n + 1, Len(@))]
  BY <1>0 DEF RecvSome
<1>3. n \in 1 .. Len(w) /\ n \in 1 .. want[p] - Len(f)
  BY <1>0, Min2Type
<1> DEFINE a == SubSeq(w, 1, n)
           b == SubSeq(w, n + 1, Len(w))
<1>4. /\ a \in Seq(Unit) /\ Len(a) = n
      /\ b \in Seq(Unit) /\ Len(b) = Len(w) - n
      /\ a \o b = w
  BY <1>0, <1>3, UnitCut
<1>5. acc'[p] = f \o a /\ wire'[e] = b
  BY <1>0, <1>2 DEF Types
<1>6. UNCHANGED <<sstate, open, link, call, out, want, sent, received, broken>>
  BY DEF RecvSome
<1> HIDE DEF p, f, w, x, a, b
<1>7. /\ f \in Seq(Unit) /\ a \in Seq(Unit) /\ b \in Seq(Unit) /\ f \o a \in Seq(Unit)
      /\ Len(f \o a) = Len(f) + n /\ n \in Nat \ {0}
  BY <1>0, <1>3, <1>4, UnitConcat DEF f, w
<1>8. (acc[Peer(e)] \o wire[e])' = f \o w
  <2>1. (acc[Peer(e)] \o wire[e])' = (f \o a) \o b
    BY <1>5, <1>0 DEF p
  <2>2. QED
    BY <1>4, <1>7, <2>1, UnitAssociative
<1>9. Sending(e)' /\ Received(e)'
  BY <1>6 DEF Direction, Sending, Received
<1>10. Ended(e)'
  BY <1>1, <1>6 DEF Ended, p
<1>11. Flow(e)' = Flow(e) /\ Number(e)' = Number(e)
  BY <1>6, <1>8 DEF Flow, Number, f, w, p
<1>12. Flows(e)'
  BY <1>6, <1>8, <1>11 DEF Direction, Flows, Flowing, f, w, p
<1>13. Gathered(e)'
  <2> DEFINE r == Len(received[p])
             m == sent[e][r + 1]
             g == f \o a
  <2> SUFFICES ASSUME ~broken[e]
               PROVE  /\ r < Len(sent[e])
                      /\ \A j \in 1 .. Len(g) : g[j] = <<m, j>>
                      /\ Len(g) <= Total(m)
                      /\ call[p] = "payload" => want[p] = Total(m)
    BY <1>5, <1>6 DEF Gathered, p
  <2>1. Stream(Flow(e), r, Number(e)) /\ Named(f \o w, sent[e])
    BY <1>1 DEF Direction, Flows, Flowing, p, f, w
  <2>2. f \o w = g \o b
    BY <1>4, <1>7, UnitAssociative
  <2>3. Flow(e) = g \o (b \o x)
    <3>1. Flow(e) = (g \o b) \o x
      BY <2>2 DEF Flow, f, w, p, x
    <3>2. x \in Seq(Unit) /\ g \in Seq(Unit) /\ b \in Seq(Unit)
      BY <1>0, <1>7 DEF x
    <3>3. QED
      BY <3>1, <3>2, UnitAssociative
  <2>4. b \o x \in Seq(Unit) /\ b \in Seq(Unit) /\ g \in Seq(Unit) /\ Len(g) \in Nat \ {0}
    BY <1>0, <1>7, UnitConcat DEF x, f
  <2> HIDE DEF g
  <2>5. /\ Flow(e) # <<>>
        /\ \A j \in 1 .. Len(g) : Flow(e)[j] = g[j]
    <3>1. Len(Flow(e)) = Len(g) + Len(b \o x)
          /\ Len(b \o x) \in Nat
          /\ \A j \in 1 .. Len(g) : Flow(e)[j] = g[j]
      BY <2>3, <2>4, UnitConcat
    <3>2. QED
      BY <2>4, <3>1
  <2> DEFINE k == Flow(e)[1][1]
  <2>6. /\ k \in Messages /\ k[1] = r + 1
        /\ \A j \in 1 .. Total(k) : Flow(e)[j] = <<k, j>>
    BY <1>0, <2>1, <2>5, StreamFirst DEF p
  <2>7. r < Len(sent[e]) /\ m = k
    <3>1. (f \o w)[1] = g[1] /\ 1 \in 1 .. Len(f \o w)
      BY <2>2, <2>4, UnitConcat
    <3>2. (f \o w)[1] = Flow(e)[1]
      BY <2>4, <2>5, <3>1
    <3>3. k[1] \in 1 .. Len(sent[e]) /\ k = sent[e][k[1]]
      BY <2>1, <3>1, <3>2 DEF Named
    <3>4. QED
      BY <1>0, <2>6, <3>3 DEF p
  <2>8. Header <= Total(k) /\ Total(k) \in Nat
    BY <1>0, <2>6, MessageType
  <2>9. call[p] = "payload" => want[p] = Total(m)
    <3>1. call[p] = "payload" => f # <<>>
      BY <1>0 DEF Calls, p, f
    <3>2. QED
      BY <3>1 DEF Direction, Gathered, p, f
  <2>10. Len(g) <= want[p]
    BY <1>0, <1>3, <1>7 DEF g, p, f
  <2>11. call[p] = "header" => want[p] = Header
    BY <1>0 DEF Calls, p
  <2>12. Len(g) <= Total(m)
    <3>1. want[p] <= Total(k)
      BY <1>0, <1>1, <2>7, <2>8, <2>9, <2>11 DEF p
    <3>2. want[p] \in Nat
      BY <1>0 DEF p
    <3>3. QED
      BY <2>4, <2>7, <2>8, <2>10, <3>1, <3>2
  <2>13. ASSUME NEW j \in 1 .. Len(g) PROVE g[j] = <<m, j>>
    <3>1. j \in 1 .. Total(k)
      BY <2>4, <2>7, <2>8, <2>12
    <3>2. QED
      BY <2>5, <2>6, <2>7, <3>1
  <2>14. QED
    BY <2>7, <2>9, <2>12, <2>13
<1>14. QED
  BY <1>9, <1>10, <1>12, <1>13 DEF Direction

(* What a receiver that holds a part of an unbroken direction has. *)
LEMMA GatheredUnits ==
  ASSUME EndsInv, NEW e \in Ends, Direction(e), ~broken[e], acc[Peer(e)] # <<>>
  PROVE  LET f == acc[Peer(e)]
             m == sent[e][Len(received[Peer(e)]) + 1]
         IN /\ m \in Messages /\ f \in Seq(Unit) /\ f[1] = <<m, 1>>
            /\ Len(received[Peer(e)]) < Len(sent[e])
            /\ Len(f) = Header => f = HeaderOf(m)
            /\ Len(f) = Total(m) => f = Units(m)
            /\ call[Peer(e)] = "payload" => want[Peer(e)] = Total(m)
<1> DEFINE f == acc[Peer(e)]
           r == Len(received[Peer(e)])
           m == sent[e][r + 1]
<1>1. f \in Seq(Unit) /\ r \in Nat /\ sent[e] \in Seq(Messages) /\ Len(sent[e]) \in Nat
  BY DirectionTypes DEF EndsInv
<1>2. /\ r < Len(sent[e])
      /\ \A j \in 1 .. Len(f) : f[j] = <<m, j>>
      /\ Len(f) <= Total(m)
      /\ call[Peer(e)] = "payload" => want[Peer(e)] = Total(m)
  BY DEF Direction, Gathered
<1>3. r + 1 \in 1 .. Len(sent[e])
  BY <1>1, <1>2
<1>4. m \in Messages
  BY <1>1, <1>3
<1>5. Units(m) \in Seq(Unit) /\ Len(Units(m)) = Total(m) /\ Total(m) \in Nat
      /\ \A j \in 1 .. Total(m) : Units(m)[j] = <<m, j>>
  BY <1>4, UnitsType, MessageType
<1>6. f # <<>> /\ Len(f) \in Nat \ {0}
  BY <1>1
<1> HIDE DEF m, f, r
<1>7. f[1] = <<m, 1>>
  BY <1>2, <1>6
<1>8. Len(f) = Total(m) => f = Units(m)
  <2> SUFFICES ASSUME Len(f) = Total(m) PROVE f = Units(m)
    OBVIOUS
  <2>1. \A j \in 1 .. Len(f) : f[j] = Units(m)[j]
    BY <1>2, <1>5
  <2>2. QED
    BY <1>1, <1>5, <2>1, SeqEqual
<1>9. Len(f) = Header => f = HeaderOf(m)
  <2> SUFFICES ASSUME Len(f) = Header PROVE f = HeaderOf(m)
    OBVIOUS
  <2> DEFINE u == Units(m)
  <2>1. Header \in 1 .. Len(u) /\ u \in Seq(Unit) /\ Header \in Nat
    BY <1>4, <1>5, MessageType, TransportAssumption
  <2>2. /\ HeaderOf(m) \in Seq(Unit) /\ Len(HeaderOf(m)) = Header
        /\ \A q \in 1 .. Header : HeaderOf(m)[q] = u[q]
    BY <2>1, UnitCut DEF HeaderOf
  <2>3. ASSUME NEW j \in 1 .. Len(f) PROVE f[j] = HeaderOf(m)[j]
    <3>1. j \in 1 .. Header /\ j \in 1 .. Total(m)
      BY <1>5, <2>1
    <3>2. QED
      BY <1>2, <1>5, <2>2, <3>1
  <2>4. QED
    BY <1>1, <2>2, <2>3, SeqEqual
<1>10. QED
  BY <1>1, <1>2, <1>4, <1>7, <1>8, <1>9 DEF m, f, r

LEMMA DirectionHeader ==
  ASSUME EndsInv, NEW e \in Ends, Direction(e),
         HeaderValid(Peer(e)) \/ HeaderInvalid(Peer(e))
  PROVE  Direction(e)'
<1> USE DEF socket, kernel, history, EndsInv
<1> DEFINE p == Peer(e)
           m == sent[e][Len(received[p]) + 1]
<1>0. p \in Ends /\ p # e
  BY PeerType
<1>1. acc[p] # <<>> /\ Len(acc[p]) = Header
  <2>1. Len(acc[p]) = Header
    BY DEF HeaderValid, HeaderInvalid
  <2>2. QED
    BY <2>1, TransportAssumption
<1>2. ~broken[e] => /\ m \in Messages /\ acc[p][1] = <<m, 1>> /\ acc[p] = HeaderOf(m)
  BY <1>1, GatheredUnits
<1>3. CASE HeaderValid(p)
  <2>1. PICK s \in SizesIn(acc[p]) : want' = [want EXCEPT ![p] = Header + s]
    BY <1>3 DEF HeaderValid
  <2>2. UNCHANGED <<sstate, open, link, wire, out, acc, sent, received, broken>>
    BY <1>3 DEF HeaderValid
  <2>3. ~broken[e] => want'[p] = Total(m)
    <3> SUFFICES ASSUME ~broken[e] PROVE want'[p] = Total(m)
      OBVIOUS
    <3>1. acc[p][1][1] = m
      BY <1>2
    <3>2. SizesIn(acc[p]) = {Size(m)}
      BY <1>2, <3>1 DEF SizesIn
    <3>3. QED
      BY <1>0, <2>1, <3>2 DEF Total, Types
  <2>4. Gathered(e)'
    BY <2>2, <2>3 DEF Direction, Gathered
  <2>5. Sending(e)' /\ Received(e)' /\ Flows(e)' /\ Ended(e)'
    BY <2>2 DEF Direction, Sending, Received, Flows, Flowing, Flow, Number, Ended
  <2>6. QED
    BY <2>4, <2>5 DEF Direction
<1>4. CASE HeaderInvalid(p)
  <2>1. broken[e]
    <3> SUFFICES ASSUME ~broken[e] PROVE FALSE
      BY DEF Types
    <3>1. acc[p][1][1] = m
      BY <1>2
    <3>2. QED
      BY <1>2, <1>4, <3>1 DEF HeaderInvalid
  <2>2. out'[e] = out[e] /\ UNCHANGED <<sstate, open, link, wire, sent, broken>>
    BY <1>0, <1>4 DEF HeaderInvalid, Return, Types
  <2>3. Sending(e)'
    BY <2>2 DEF Direction, Sending
  <2>4. QED
    BY <2>1, <2>2, <2>3 DEF Direction, Received, Gathered, Flows, Flowing, Ended
<1>5. QED
  BY <1>3, <1>4

(* recv_all fails: with nothing gathered nothing is lost. *)
LEMMA DirectionRecvError ==
  ASSUME EndsInv, NEW e \in Ends, Direction(e), RecvError(Peer(e))
  PROVE  Direction(e)'
<1> USE DEF socket, kernel, history, EndsInv
<1> DEFINE p == Peer(e)
<1>0. p \in Ends /\ p # e /\ Peer(p) = e
  BY PeerType
<1>1. /\ out'[e] = out[e] /\ acc'[p] = <<>>
      /\ broken'[e] = (broken[e] \/ acc[p] # <<>>)
      /\ UNCHANGED <<sstate, open, link, wire, sent, received>>
  BY <1>0 DEF RecvError, Return, Types
<1>2. Sending(e)' /\ Received(e)' /\ Gathered(e)' /\ Ended(e)'
  BY <1>1 DEF Direction, Sending, Received, Gathered, Ended
<1>3. Flows(e)'
  <2>1. Flowing(e)' => Flowing(e) /\ acc[p] = <<>>
    BY <1>1 DEF Flowing
  <2>2. QED
    BY <1>1, <2>1 DEF Direction, Flows, Flow, Number
<1>4. QED
  BY <1>2, <1>3 DEF Direction

(* A whole message is delivered: it is the next one. *)
LEMMA DeliverNext ==
  ASSUME EndsInv, NEW e \in Ends, Direction(e), Deliver(Peer(e)), ~broken[e]
  PROVE  LET m == sent[e][Len(received[Peer(e)]) + 1]
         IN /\ m \in Messages /\ Len(received[Peer(e)]) < Len(sent[e])
            /\ acc[Peer(e)] # <<>> /\ Len(acc[Peer(e)]) = Total(m)
            /\ acc[Peer(e)][1] = <<m, 1>>
            /\ received' = [received EXCEPT ![Peer(e)] = Append(@, m)]
<1> DEFINE p == Peer(e)
           m == sent[e][Len(received[p]) + 1]
<1>0. p \in Ends
  BY PeerType
<1>1. call[p] = "payload" /\ Len(acc[p]) = want[p]
  BY DEF Deliver, In
<1>2. acc[p] # <<>>
  <2>1. Len(acc[p]) >= Header /\ Header \in Nat \ {0}
    BY <1>0, <1>1, TransportAssumption DEF EndsInv, Calls
  <2>2. QED
    BY <2>1
<1>3. /\ m \in Messages /\ acc[p][1] = <<m, 1>>
      /\ Len(received[p]) < Len(sent[e]) /\ want[p] = Total(m)
      /\ Len(acc[p]) = Total(m) => acc[p] = Units(m)
  BY <1>1, <1>2, GatheredUnits
<1>4. MessageIn(acc[p]) = m
  <2>1. acc[p][1][1] = m /\ acc[p] = Units(m)
    BY <1>1, <1>3
  <2>2. QED
    BY <2>1 DEF MessageIn
<1>5. received' = [received EXCEPT ![p] = Append(@, m)]
  BY <1>4 DEF Deliver
<1>6. QED
  BY <1>1, <1>2, <1>3, <1>5

LEMMA DirectionDeliver ==
  ASSUME EndsInv, NEW e \in Ends, Direction(e), Deliver(Peer(e))
  PROVE  Direction(e)'
<1> USE DEF socket, kernel, history, EndsInv
<1> DEFINE p == Peer(e)
           f == acc[p]
           w == wire[e]
           x == out[e]
           r == Len(received[p])
           m == sent[e][r + 1]
<1>0. p \in Ends /\ p # e /\ Peer(p) = e
  BY PeerType
<1>1. /\ f \in Seq(Unit) /\ w \in Seq(Unit) /\ x \in Seq(Unit)
      /\ Flow(e) \in Seq(Unit) /\ Number(e) \in Nat
      /\ received[p] \in Seq(Messages \cup {Garbled}) /\ r \in Nat
      /\ Len(sent[e]) \in Nat
  BY DirectionTypes
<1>2. /\ out'[e] = out[e] /\ acc'[p] = <<>>
      /\ UNCHANGED <<sstate, open, link, wire, sent, broken>>
  BY <1>0 DEF Deliver, Return, Types
<1>3. In(p, "payload")
  BY DEF Deliver
<1>4. Sending(e)' /\ Gathered(e)'
  BY <1>2 DEF Direction, Sending, Gathered
<1>5. Ended(e)'
  BY <1>0, <1>2, <1>3 DEF Ended, In, Calls
<1>6. CASE broken[e]
  BY <1>2, <1>4, <1>5, <1>6 DEF Direction, Received, Flows, Flowing
<1>7. CASE ~broken[e]
  <2>1. /\ m \in Messages /\ r < Len(sent[e]) /\ f # <<>> /\ Len(f) = Total(m)
        /\ f[1] = <<m, 1>> /\ received' = [received EXCEPT ![p] = Append(@, m)]
    BY <1>7, DeliverNext
  <2>2. /\ Len(received'[p]) = r + 1 /\ received'[p][r + 1] = m
        /\ \A k \in 1 .. r : received'[p][k] = received[p][k]
    <3>1. received'[p] = Append(received[p], m)
      BY <1>0, <2>1 DEF Types
    <3>2. m \in Messages \cup {Garbled}
      BY <2>1
    <3>3. QED
      BY <1>1, <3>1, <3>2, AppendProperties
  <2>3. Received(e)'
    <3>1. \A k \in 1 .. r : received[p][k] = sent[e][k]
      BY <1>7 DEF Direction, Received
    <3>2. ASSUME NEW k \in 1 .. r + 1 PROVE received'[p][k] = sent[e][k]
      <4>1. CASE k = r + 1
        BY <2>2, <4>1
      <4>2. CASE k # r + 1
        <5>1. k \in 1 .. r
          <6> HIDE DEF r
          <6>1. QED
            BY <1>1, <4>2
        <5>2. QED
          BY <2>2, <3>1, <5>1
      <4>3. QED
        BY <4>1, <4>2
    <3>3. r + 1 <= Len(sent[e])
      BY <1>1, <2>1
    <3>4. QED
      BY <1>2, <2>2, <3>2, <3>3 DEF Received
  <2>4. Flows(e)'
    <3> SUFFICES ASSUME Flowing(e)
                 PROVE  /\ Stream(w \o x, r + 1, Number(e))
                        /\ Named(w, sent[e])
      <4>1. (acc[Peer(e)] \o wire[e])' = w
        BY <1>1, <1>2, ConcatEmptySeq
      <4>2. Flow(e)' = w \o x
        BY <1>2, <4>1 DEF Flow
      <4>3. Number(e)' = Number(e)
        BY <1>2 DEF Number
      <4>4. QED
        BY <1>2, <2>2, <4>1, <4>2, <4>3 DEF Flows, Flowing
    <3>1. Stream(Flow(e), r, Number(e)) /\ Named(f \o w, sent[e])
      BY DEF Direction, Flows
    <3>2. Named(w, sent[e])
      BY <1>1, <3>1, NamedDrop
    <3> DEFINE g == w \o x
    <3>3. Flow(e) = f \o g /\ g \in Seq(Unit)
      <4>1. Flow(e) = (f \o w) \o x
        BY DEF Flow
      <4>2. (f \o w) \o x = f \o g
        BY <1>1, UnitAssociative
      <4>3. QED
        BY <1>1, <4>1, <4>2, UnitConcat
    <3>4. Len(f) \in Nat \ {0} /\ Total(m) = Len(f)
      BY <1>1, <2>1
    <3> HIDE DEF g, f, w, x, m, r
    <3>5. /\ Len(Flow(e)) = Len(f) + Len(g) /\ Len(g) \in Nat
          /\ Flow(e)[1] = <<m, 1>>
          /\ \A q \in 1 .. Len(g) : Flow(e)[Len(f) + q] = g[q]
      <4>1. f \in Seq(Unit) /\ 1 \in 1 .. Len(f) /\ f[1] = <<m, 1>>
        BY <1>1, <2>1, <3>4 DEF f, m
      <4>2. /\ Len(f \o g) = Len(f) + Len(g) /\ Len(g) \in Nat
            /\ (f \o g)[1] = f[1]
            /\ \A q \in 1 .. Len(g) : (f \o g)[Len(f) + q] = g[q]
        BY <3>3, <4>1, UnitConcat
      <4>3. QED
        BY <3>3, <4>1, <4>2
    <3>6. Flow(e) # <<>> /\ Flow(e)[1][1] = m
      BY <3>4, <3>5
    <3>7. Len(g) = Len(Flow(e)) - Total(Flow(e)[1][1])
      BY <3>4, <3>5, <3>6
    <3>8. ASSUME NEW q \in 1 .. Len(g)
          PROVE  g[q] = Flow(e)[q + Total(Flow(e)[1][1])]
      <4>1. q + Len(f) = Len(f) + q
        BY <3>4, <3>5
      <4>2. QED
        BY <3>4, <3>5, <3>6, <4>1
    <3>9. Stream(g, r + 1, Number(e))
      BY <1>1, <3>1, <3>3, <3>6, <3>7, <3>8, StreamDrop
    <3>10. QED
      BY <3>2, <3>9 DEF g
  <2>5. QED
    BY <1>4, <1>5, <2>3, <2>4 DEF Direction
<1>8. QED
  BY <1>6, <1>7

(* The end of the connection is found when nothing is under way any more:
   everything that was sent was received. *)
LEMMA DirectionFindEnd ==
  ASSUME EndsInv, NEW e \in Ends, Direction(e), FindEnd(Peer(e))
  PROVE  Direction(e)'
<1> USE DEF socket, kernel, history, EndsInv
<1> DEFINE p == Peer(e)
           f == acc[p]
           r == Len(received[p])
           h == Len(sent[e])
<1>0. p \in Ends /\ p # e /\ Peer(p) = e
  BY PeerType
<1>1. /\ f \in Seq(Unit) /\ Len(f) \in Nat /\ Number(e) \in Nat
      /\ received[p] \in Seq(Messages \cup {Garbled}) /\ r \in Nat
      /\ sent[e] \in Seq(Messages) /\ h \in Nat
      /\ broken[e] \in BOOLEAN
  BY DirectionTypes
<1>2. /\ out'[e] = out[e] /\ acc'[p] = <<>> /\ sstate'[p] = "DISCONNECTING"
      /\ sstate'[e] = sstate[e]
      /\ UNCHANGED <<open, link, wire, sent, received, broken>>
  BY <1>0 DEF FindEnd, Return, Types
<1>3. /\ link = "up" /\ ~open[e] /\ sstate[e] # "NONE" /\ wire[e] = <<>>
      /\ Len(f) < want[p]
      /\ In(p, "header") \/ In(p, "payload")
  BY <1>0 DEF FindEnd, Hungup, Receiving
<1>4. out[e] = <<>>
  BY <1>3 DEF Calls
<1>5. Sending(e)' /\ Received(e)' /\ Gathered(e)' /\ Flows(e)'
  BY <1>2 DEF Direction, Sending, Received, Gathered, Flows, Flowing
<1>6. ~broken[e] => received[p] = sent[e]
  <2> SUFFICES ASSUME ~broken[e] PROVE received[p] = sent[e]
    OBVIOUS
  <2>1. sstate[p] = "CONNECTED"
    BY <1>0, <1>3 DEF In, Calls
  <2>2. Flow(e) = f
    BY <1>1, <1>3, <1>4, ConcatEmptySeq DEF Flow
  <2>3. Number(e) = h
    BY <1>4 DEF Number
  <2>4. Stream(f, r, h)
    BY <1>3, <2>1, <2>2, <2>3 DEF Direction, Flows, Flowing
  <2>5. f = <<>>
    <3> SUFFICES ASSUME f # <<>> PROVE FALSE
      OBVIOUS
    <3> DEFINE m == f[1][1]
    <3>1. m \in Messages /\ Total(m) <= Len(f)
      BY <1>1, <2>4, StreamFirst
    <3>2. Header <= Total(m) /\ Total(m) \in Nat /\ Header \in Nat
      BY <3>1, MessageType, TransportAssumption
    <3>3. call[p] = "header" => want[p] = Header
      BY <1>0 DEF Calls
    <3>4. call[p] = "payload" => want[p] = Total(m)
      BY GatheredUnits
    <3>5. want[p] <= Total(m)
      BY <1>3, <3>2, <3>3, <3>4 DEF In
    <3>6. want[p] \in Int
      BY <3>2, <3>3, <3>4, <1>3 DEF In
    <3> HIDE DEF m
    <3>7. QED
      BY <1>1, <1>3, <3>1, <3>2, <3>5, <3>6
  <2>6. r = h
    BY <2>4, <2>5 DEF Stream
  <2>7. \A k \in 1 .. r : received[p][k] = sent[e][k]
    BY DEF Direction, Received
  <2>8. sent[e] \in Seq(Messages \cup {Garbled})
    BY <1>1, SeqMonotonic
  <2>9. QED
    BY <1>1, <2>6, <2>7, <2>8, SeqEqual
<1>7. Ended(e)'
  BY <1>2, <1>3, <1>6 DEF Ended
<1>8. QED
  BY <1>5, <1>7 DEF Direction

LEMMA DirectionStep ==
  ASSUME ConnectionInv, [Next]_vars, NEW e \in Ends
  PROVE  Direction(e)'
<1> USE DEF ConnectionInv
<1>1. Direction(e)
  OBVIOUS
<1>2. CASE UNCHANGED vars
  BY <1>1, <1>2
     DEF vars, socket, kernel, history, Direction, Sending, Received, Gathered,
         Flows, Flowing, Flow, Number, Ended
<1>3. CASE Connect \/ ConnectCheck \/ Accept \/ Reset \/ Stops
  BY <1>1, <1>3, DirectionLink
<1>4. ASSUME NEW d \in Ends, BeginSend(d) \/ Works(d) \/ Fails(d) \/ Close(d)
      PROVE  Direction(e)'
  <2>1. d = e \/ d = Peer(e)
    BY PeerType
  <2>2. CASE Close(d)
    BY <1>1, <2>2, DirectionClose
  <2>3. CASE d = e /\ (BeginSend(d) \/ Works(d) \/ Fails(d))
    BY <1>1, <2>3, DirectionOther, DirectionBeginSend, DirectionSendSome,
       DirectionSendError DEF Works, Fails
  <2>4. CASE d = Peer(e) /\ (BeginSend(d) \/ Works(d) \/ Fails(d))
    BY <1>1, <2>4, DirectionOther, DirectionRecvSome, DirectionHeader,
       DirectionDeliver, DirectionFindEnd, DirectionRecvError DEF Works, Fails
  <2>5. QED
    BY <1>4, <2>1, <2>2, <2>3, <2>4
<1>5. QED
  BY <1>2, <1>3, <1>4 DEF Next, Stops, Over

(* The invariant of a connection holds in every reachable state. *)
THEOREM ConnectionInvariant == Spec => []ConnectionInv
<1>1. Init => ConnectionInv
  BY EndsInit, DirectionInit DEF ConnectionInv
<1>2. ConnectionInv /\ [Next]_vars => ConnectionInv'
  BY EndsStep, DirectionStep DEF ConnectionInv
<1>3. QED
  BY <1>1, <1>2, PTL DEF Spec

-----------------------------------------------------------------------------
(* The properties *)

(* The types, and the bounds of the kernels' buffers and of what recv_message
   gathers, for every size of the parts. *)
THEOREM TransportTypes == Spec => []TypeOK
<1>1. ConnectionInv => TypeOK
  BY DEF ConnectionInv, EndsInv, Types, Bounds, TypeOK
<1>2. QED
  BY <1>1, ConnectionInvariant, PTL

(* A message that was sent before its sender closed the socket is received
   before the close is noticed: network_socket_send_message and
   network_socket_close of a refusal or a goodbye lose nothing. *)
THEOREM NothingIsLostByClose == Spec => []NothingLostByClose
<1>1. ConnectionInv => NothingLostByClose
  <2> SUFFICES ASSUME ConnectionInv, NEW e \in Ends,
                      open[e], sstate[e] = "DISCONNECTING", link = "up",
                      ~broken[Peer(e)]
               PROVE  received[e] = sent[Peer(e)]
    BY DEF NothingLostByClose
  <2>1. Peer(e) \in Ends /\ Peer(Peer(e)) = e
    BY PeerType
  <2>2. Ended(Peer(e))
    BY <2>1 DEF ConnectionInv, Direction
  <2>3. QED
    BY <2>1, <2>2 DEF Ended
<1>2. QED
  BY <1>1, ConnectionInvariant, PTL

(* Every step is a step of a channel in each direction. *)
LEMMA ChannelStep ==
  ASSUME ConnectionInv, [Next]_vars, NEW e \in Ends
  PROVE  LET p == Peer(e)
             same == UNCHANGED <<sent[e], received[p], broken[e]>>
         IN \/ same
            \/ /\ \E m \in Messages : sent'[e] = Append(sent[e], m)
               /\ received'[p] = received[p] /\ broken'[e] = broken[e]
            \/ /\ Len(received[p]) < Len(sent[e])
               /\ received'[p] = Append(received[p], sent[e][Len(received[p]) + 1])
               /\ sent'[e] = sent[e] /\ broken'[e] = broken[e]
            \/ /\ broken'[e] = TRUE
               /\ sent'[e] = sent[e] /\ received'[p] = received[p]
            \/ /\ broken[e]
               /\ \E m \in Messages \cup {Garbled} :
                    received'[p] = Append(received[p], m)
               /\ sent'[e] = sent[e] /\ broken'[e] = broken[e]
<1> DEFINE p == Peer(e)
<1> USE DEF history
<1>0. p \in Ends /\ p # e /\ Peer(p) = e /\ \A d \in Ends : d = e \/ d = p
  BY PeerType
<1>1. Types /\ EndsInv /\ Direction(e)
  BY DEF ConnectionInv, EndsInv
<1>2. CASE UNCHANGED history
  BY <1>2
<1>3. CASE SendSome(e)
  <2>1. out[e] # <<>> /\ out[e] \in Seq(Unit)
    BY <1>1, <1>3 DEF SendSome, In, EndsInv, Calls, Types
  <2>2. Head(out[e]) \in Unit
    BY <2>1
  <2>3. Head(out[e])[1] \in Messages
    BY <2>2, UnitType
  <2>4. sent' = sent \/ sent' = [sent EXCEPT ![e] = Append(@, Head(out[e])[1])]
    BY <1>3 DEF SendSome
  <2>5. sent'[e] = sent[e] \/ sent'[e] = Append(sent[e], Head(out[e])[1])
    BY <1>1, <2>4 DEF Types
  <2>6. UNCHANGED <<received, broken>>
    BY <1>3 DEF SendSome
  <2>7. QED
    BY <2>3, <2>5, <2>6
<1>4. CASE SendError(e)
  BY <1>1, <1>4 DEF SendError, Types
<1>5. CASE RecvError(p)
  BY <1>0, <1>1, <1>5 DEF RecvError, Types
<1>6. CASE Deliver(p)
  <2>1. UNCHANGED <<sent, broken>>
    BY <1>6 DEF Deliver
  <2>2. CASE ~broken[e]
    <3>1. /\ Len(received[p]) < Len(sent[e])
          /\ received' = [received EXCEPT
                            ![p] = Append(@, sent[e][Len(received[p]) + 1])]
      BY <1>1, <1>6, <2>2, DeliverNext
    <3>2. received'[p] = Append(received[p], sent[e][Len(received[p]) + 1])
      BY <1>0, <1>1, <3>1 DEF Types
    <3>3. QED
      BY <2>1, <3>1, <3>2
  <2>3. CASE broken[e]
    <3>1. acc[p] \in Seq(Unit) /\ acc[p] # <<>>
      BY <1>0, <1>1, <1>6, TransportAssumption DEF Deliver, In, EndsInv, Types, Calls
    <3>2. MessageIn(acc[p]) \in Messages \cup {Garbled}
      BY <3>1, MessageInType
    <3>3. received'[p] = Append(received[p], MessageIn(acc[p]))
      BY <1>0, <1>1, <1>6 DEF Deliver, Types
    <3>4. QED
      BY <2>1, <2>3, <3>2, <3>3
  <2>4. QED
    BY <2>2, <2>3
<1>7. CASE SendSome(p) \/ SendError(p) \/ RecvError(e) \/ Deliver(e)
  BY <1>0, <1>1, <1>7 DEF SendSome, SendError, RecvError, Deliver, Types
<1>8. QED
  <2>1. CASE \E d \in Ends : SendSome(d) \/ SendError(d) \/ RecvError(d) \/ Deliver(d)
    BY <1>0, <1>3, <1>4, <1>5, <1>6, <1>7, <2>1
  <2>2. CASE ~ \E d \in Ends : SendSome(d) \/ SendError(d) \/ RecvError(d) \/ Deliver(d)
    <3>1. UNCHANGED history
      BY <2>2 DEF Next, vars, Connect, ConnectCheck, Accept, BeginSend, Works,
                  Fails, Close, Reset, StopReading, Halt, Over, FindReset, FindEnd,
                  BeginRecv, RecvSome, HeaderValid, HeaderInvalid
    <3>2. QED
      BY <1>2, <3>1
  <2>3. QED
    BY <2>1, <2>2

(* The framing of message.c on a TCP connection is a channel in each
   direction, wherever send() and recv() cut a message: messages arrive whole,
   once and in order, until a call fails in the middle of one. *)
THEOREM TransportImplementsChannels == Spec => ImplementsChannels
<1>1. Init => ToServer!Init /\ ToClient!Init
  BY DEF Init, ToServer!Init, ToClient!Init, Ends
<1>2. ConnectionInv /\ [Next]_vars => [ToServer!Next]_ToServer!vars
  <2> SUFFICES ASSUME ConnectionInv, [Next]_vars
               PROVE  [ToServer!Next]_ToServer!vars
    OBVIOUS
  <2>1. "client" \in Ends /\ Peer("client") = "server"
    BY DEF Ends, Peer
  <2>2. QED
    BY <2>1, ChannelStep
       DEF ToServer!Next, ToServer!vars, ToServer!Send, ToServer!Receive,
           ToServer!Break, ToServer!ReceiveBroken
<1>3. ConnectionInv /\ [Next]_vars => [ToClient!Next]_ToClient!vars
  <2> SUFFICES ASSUME ConnectionInv, [Next]_vars
               PROVE  [ToClient!Next]_ToClient!vars
    OBVIOUS
  <2>1. "server" \in Ends /\ Peer("server") = "client"
    BY DEF Ends, Peer
  <2>2. QED
    BY <2>1, ChannelStep
       DEF ToClient!Next, ToClient!vars, ToClient!Send, ToClient!Receive,
           ToClient!Break, ToClient!ReceiveBroken
<1>4. QED
  BY <1>1, <1>2, <1>3, ConnectionInvariant, PTL
     DEF Spec, ImplementsChannels, ToServer!Spec, ToClient!Spec

=============================================================================
