------------------------------ MODULE Transport ------------------------------
(***************************************************************************)
(* One connection between a client and the server, as Pisces.Common uses   *)
(* it: network.c on top of a TCP connection, message.c for the framing.    *)
(*                                                                         *)
(* TCP carries units (a fixed part of the bytes): a message is Header      *)
(* units and then its payload.  Each end runs one thread, whose calls      *)
(* block: send_all and recv_all call send and recv again and again until   *)
(* every unit has passed or a call fails.  A call that would block is      *)
(* repeated, so it is no step.  The kernels hold at most Buffer units of   *)
(* a direction.                                                            *)
(*                                                                         *)
(* The users of the connection are nondeterminism: they send, receive when *)
(* there is something to read, close, and may stop reading; a program may  *)
(* also halt where it is, its connection standing.                         *)
(***************************************************************************)
EXTENDS Integers, Sequences

CONSTANTS
  Header,       \* units of message_header_t
  MaxPayload,   \* units of the longest payload
  Buffer,       \* units the kernels hold of one direction
  MaxMessages,  \* bound: the messages each end sends
  Garbled       \* a message that nobody sent

Ends == {"client", "server"}
Peer(e) == IF e = "client" THEN "server" ELSE "client"

(* The n-th message an end sends, and its size. *)
Messages == UNION {(1 .. MaxMessages[e]) \X (0 .. MaxPayload) : e \in Ends}
Size(m) == m[2]

ASSUME TransportAssumption ==
  /\ Header \in Nat \ {0} /\ MaxPayload \in Nat
  /\ Buffer \in Nat \ {0} /\ MaxMessages \in [Ends -> Nat]
  /\ Garbled \notin Messages

VARIABLES
  sstate,    \* sock->state of each end
  open,      \* sock->handle is valid
  link,      \* the TCP connection: "none", "up" or "reset"
  wire,      \* the units of an end that its peer has not received
  call,      \* the call an end's thread is in
  out,       \* what send_all still has to send
  acc, want, \* what recv_message has gathered, and has to gather
  user,      \* the program of this end: "reads", "ignores" or "halted"
  sent, received,   \* history, by the end that did it
  broken     \* history: a call cut this end's stream in a message

socket  == <<sstate, open>>
kernel  == <<link, wire>>
history == <<sent, received, broken>>
vars == <<socket, kernel, call, out, acc, want, user, history>>

Min2(a, b) == IF a <= b THEN a ELSE b

-----------------------------------------------------------------------------
(* message_serialize, and the header it starts with. *)
Units(m) == [i \in 1 .. Header + Size(m) |-> <<m, i>>]
HeaderOf(m) == SubSeq(Units(m), 1, Header)

(* The payload sizes message_validate_header may read from these units.
   Units that are no header may still look like one. *)
SizesIn(units) ==
  IF units = HeaderOf(units[1][1]) THEN {Size(units[1][1])}
                                   ELSE 0 .. MaxPayload

(* message_deserialize *)
MessageIn(units) ==
  IF units = Units(units[1][1]) THEN units[1][1] ELSE Garbled

-----------------------------------------------------------------------------
(* Making the connection: network_socket_create has made the client's
   socket, the server's socket comes from network_socket_accept. *)

Init ==
  /\ sstate = [e \in Ends |-> IF e = "client" THEN "CLOSED" ELSE "NONE"]
  /\ open = [e \in Ends |-> e = "client"]
  /\ link = "none" /\ wire = [e \in Ends |-> <<>>]
  /\ call = [e \in Ends |-> "idle"]
  /\ out = [e \in Ends |-> <<>>] /\ acc = [e \in Ends |-> <<>>]
  /\ want = [e \in Ends |-> Header]
  /\ user = [e \in Ends |-> "reads"]
  /\ sent = [e \in Ends |-> <<>>] /\ received = [e \in Ends |-> <<>>]
  /\ broken = [e \in Ends |-> FALSE]

(* network_socket_connect on a socket that does not block. *)
Connect ==
  /\ sstate["client"] = "CLOSED" /\ open["client"]
  /\ \E s \in {"CONNECTING", "ERROR"} :
       sstate' = [sstate EXCEPT !["client"] = s]
  /\ UNCHANGED <<open, kernel, call, out, acc, want, user, history>>

(* network_socket_connect_check: the kernels have agreed, before the server
   accepts, or they have not. *)
ConnectCheck ==
  /\ sstate["client"] = "CONNECTING" /\ open["client"]
  /\ \/ /\ sstate' = [sstate EXCEPT !["client"] = "CONNECTED"]
        /\ link' = "up"
     \/ /\ sstate' = [sstate EXCEPT !["client"] = "ERROR"]
        /\ UNCHANGED link
  /\ UNCHANGED <<open, wire, call, out, acc, want, user, history>>

Accept ==
  /\ link # "none" /\ sstate["server"] = "NONE"
  /\ sstate' = [sstate EXCEPT !["server"] = "CONNECTED"]
  /\ open' = [open EXCEPT !["server"] = TRUE]
  /\ UNCHANGED <<kernel, call, out, acc, want, user, history>>

-----------------------------------------------------------------------------
Idle(e) == open[e] /\ sstate[e] = "CONNECTED" /\ call[e] = "idle"
In(e, c) == open[e] /\ call[e] = c

(* The call of e ends. *)
Return(e) ==
  /\ call' = [call EXCEPT ![e] = "idle"]
  /\ out' = [out EXCEPT ![e] = <<>>]
  /\ acc' = [acc EXCEPT ![e] = <<>>]

(* network_socket_send_message *)
BeginSend(e) ==
  /\ Idle(e) /\ Len(sent[e]) < MaxMessages[e]
  /\ \E s \in 0 .. MaxPayload :
       out' = [out EXCEPT ![e] = Units(<<Len(sent[e]) + 1, s>>)]
  /\ call' = [call EXCEPT ![e] = "send"]
  /\ UNCHANGED <<socket, kernel, acc, want, user, history>>

(* Mutant: the kernel takes one unit too many. *)
RoomMore(e) == Buffer + 1 - Len(wire[e])

Room(e) == Buffer - Len(wire[e])

(* Mutant: the pointer into the data does not advance. *)
RestAgain(units, n) ==
  IF n = Len(units) THEN <<>> ELSE units

(* What is left of the data after n units were sent. *)
Rest(units, n) == SubSeq(units, n + 1, Len(units))

(* One send() of send_all that takes some of the units. *)
SendSome(e) ==
  /\ In(e, "send") /\ link = "up"
  /\ \E n \in 1 .. Min2(Len(out[e]), Room(e)) :
       /\ wire' = [wire EXCEPT ![e] = @ \o SubSeq(out[e], 1, n)]
       /\ out' = [out EXCEPT ![e] = Rest(out[e], n)]
  /\ sent' = IF Head(out[e])[2] = 1
               THEN [sent EXCEPT ![e] = Append(@, Head(out[e])[1])]
               ELSE sent
  /\ call' = IF out'[e] = <<>> THEN [call EXCEPT ![e] = "idle"] ELSE call
  /\ UNCHANGED <<socket, link, acc, want, user, received, broken>>

(* The kernel says that the connection is gone. *)
FindReset(e) ==
  /\ open[e] /\ call[e] # "idle" /\ link = "reset"
  /\ sstate' = [sstate EXCEPT ![e] = "DISCONNECTING"]
  /\ Return(e)
  /\ UNCHANGED <<open, kernel, want, user, history>>

(* Any other error: the call ends, the state stays CONNECTED. *)
SendError(e) ==
  /\ In(e, "send")
  /\ broken' = [broken EXCEPT ![e] = @ \/ Head(out[e])[2] > 1]
  /\ Return(e)
  /\ UNCHANGED <<socket, kernel, want, user, sent, received>>

-----------------------------------------------------------------------------
(* The peer has closed, and the kernel of e knows. *)
Hungup(e) == link = "up" /\ ~open[Peer(e)] /\ sstate[Peer(e)] # "NONE"

(* Mutant: data counts when it is a whole header. *)
ReadableLater(e) ==
  Len(wire[Peer(e)]) > Header \/ link = "reset" \/ Hungup(e)

(* network_socket_has_data, and select() of the server. *)
Readable(e) == wire[Peer(e)] # <<>> \/ link = "reset" \/ Hungup(e)

(* network_socket_recv_message *)
BeginRecv(e) ==
  /\ Idle(e) /\ user[e] = "reads" /\ Readable(e)
  /\ call' = [call EXCEPT ![e] = "header"]
  /\ want' = [want EXCEPT ![e] = Header]
  /\ UNCHANGED <<socket, kernel, out, acc, user, history>>

Receiving(e) == In(e, "header") \/ In(e, "payload")

(* One recv() of recv_all that brings some units. *)
RecvSome(e) ==
  /\ Receiving(e) /\ link = "up"
  /\ \E n \in 1 .. Min2(want[e] - Len(acc[e]), Len(wire[Peer(e)])) :
       /\ acc' = [acc EXCEPT ![e] = @ \o SubSeq(wire[Peer(e)], 1, n)]
       /\ wire' = [wire EXCEPT ![Peer(e)] = SubSeq(@, n + 1, Len(@))]
  /\ UNCHANGED <<socket, link, call, out, want, user, history>>

(* The header is there: it is valid, or it is dropped. *)
HeaderValid(e) ==
  /\ In(e, "header") /\ Len(acc[e]) = Header
  /\ \E s \in SizesIn(acc[e]) : want' = [want EXCEPT ![e] = Header + s]
  /\ call' = [call EXCEPT ![e] = "payload"]
  /\ UNCHANGED <<socket, kernel, out, acc, user, history>>

HeaderInvalid(e) ==
  /\ In(e, "header") /\ Len(acc[e]) = Header
  /\ acc[e] # HeaderOf(acc[e][1][1])
  /\ Return(e)
  /\ UNCHANGED <<socket, kernel, want, user, history>>

Deliver(e) ==
  /\ In(e, "payload") /\ Len(acc[e]) = want[e]
  /\ received' = [received EXCEPT ![e] = Append(@, MessageIn(acc[e]))]
  /\ Return(e)
  /\ UNCHANGED <<socket, kernel, want, user, sent, broken>>

(* Mutants: the end is found before the last data; no data means again. *)
FindEndEarly(e) ==
  /\ Receiving(e) /\ Len(acc[e]) < want[e] /\ Hungup(e)
  /\ sstate' = [sstate EXCEPT ![e] = "DISCONNECTING"]
  /\ Return(e)
  /\ UNCHANGED <<open, kernel, want, user, history>>
FindEndNever(e) == Receiving(e) /\ UNCHANGED vars

(* recv() returns 0. *)
FindEnd(e) ==
  /\ Receiving(e) /\ Len(acc[e]) < want[e]
  /\ wire[Peer(e)] = <<>> /\ Hungup(e)
  /\ sstate' = [sstate EXCEPT ![e] = "DISCONNECTING"]
  /\ Return(e)
  /\ UNCHANGED <<open, kernel, want, user, history>>

(* Any other error of recv(), or no memory for the message. *)
RecvError(e) ==
  /\ Receiving(e) /\ (In(e, "payload") => want[e] > Header)
  /\ broken' = [broken EXCEPT ![Peer(e)] = @ \/ acc[e] # <<>>]
  /\ Return(e)
  /\ UNCHANGED <<socket, kernel, want, user, sent, received>>

-----------------------------------------------------------------------------
(* The end of the connection. *)

(* network_socket_close and network_socket_destroy.  The kernel resets a
   connection that is closed with data to read. *)
Close(e) ==
  /\ open[e] /\ call[e] = "idle"
  /\ open' = [open EXCEPT ![e] = FALSE]
  /\ sstate' = [sstate EXCEPT ![e] = "CLOSED"]
  /\ IF link = "up" /\ wire[Peer(e)] # <<>>
       THEN link' = "reset" /\ wire' = [d \in Ends |-> <<>>]
       ELSE UNCHANGED kernel
  /\ UNCHANGED <<call, out, acc, want, user, history>>

(* The network fails, or data reached an end that is closed.  What was not
   received is lost. *)
Reset ==
  /\ link = "up"
  /\ link' = "reset" /\ wire' = [d \in Ends |-> <<>>]
  /\ UNCHANGED <<socket, call, out, acc, want, user, history>>

(* A client that does not take itself to be connected does not read. *)
StopReading ==
  /\ Idle("client") /\ user["client"] = "reads"
  /\ user' = [user EXCEPT !["client"] = "ignores"]
  /\ UNCHANGED <<socket, kernel, call, out, acc, want, history>>

(* The program of e is suspended or hangs, in a call or between two; its
   kernel keeps the connection. *)
Runs(e) == user[e] # "halted"

Halt(e) ==
  /\ Runs(e) /\ open[e] /\ sstate[e] = "CONNECTED"
  /\ user' = [user EXCEPT ![e] = "halted"]
  /\ UNCHANGED <<socket, kernel, call, out, acc, want, history>>

Over ==
  /\ \A e \in Ends : ~open[e] \/ ~Runs(e)
  /\ UNCHANGED vars

(* The thread of end e goes on with a call, or finds something to read. *)
Works(e) ==
  \/ SendSome(e) \/ FindReset(e) \/ FindEnd(e)
  \/ BeginRecv(e) \/ RecvSome(e)
  \/ HeaderValid(e) \/ HeaderInvalid(e) \/ Deliver(e)

Fails(e) == SendError(e) \/ RecvError(e)

Next ==
  \/ Connect \/ ConnectCheck \/ Accept
  \/ \E e \in Ends :
       Runs(e) /\ (BeginSend(e) \/ Works(e) \/ Fails(e) \/ Close(e))
  \/ \E e \in Ends : Halt(e)
  \/ Reset \/ StopReading \/ Over

Spec == Init /\ [][Next]_vars

(* A connection that was sent something after its other end was closed. *)
ResetByPeer == Reset /\ \E e \in Ends : Hungup(e) /\ wire[e] # <<>>

(* A thread that has not halted goes on, the server accepts, recv() does not
   fail for ever, and TCP resets a connection that was sent data after its
   other end was closed. *)
FairSpec ==
  /\ Spec
  /\ \A e \in Ends : WF_vars(Runs(e) /\ Works(e)) /\ SF_vars(Runs(e) /\ RecvSome(e))
  /\ WF_vars(Accept) /\ WF_vars(ResetByPeer)

-----------------------------------------------------------------------------
(* Properties *)

(* The types of the variables. *)
TypeOK ==
  /\ sstate \in [Ends -> {"NONE", "CLOSED", "CONNECTING", "CONNECTED",
                          "DISCONNECTING", "ERROR"}]
  /\ open \in [Ends -> BOOLEAN]
  /\ link \in {"none", "up", "reset"}
  /\ \A e \in Ends :
       /\ Len(wire[e]) <= Buffer
       /\ call[e] \in {"idle", "send", "header", "payload"}
       /\ want[e] \in Header .. Header + MaxPayload
       /\ Len(acc[e]) <= want[e]
       /\ \A k \in DOMAIN sent[e] : sent[e][k] \in Messages
       /\ \A k \in DOMAIN received[e] : received[e][k] \in Messages \cup {Garbled}
  /\ user \in [Ends -> {"reads", "ignores", "halted"}]
  /\ broken \in [Ends -> BOOLEAN]

(* Every message of the peer was received when the connection is found to
   have been closed: a refusal or a goodbye that is sent right before the
   socket is closed arrives, unless the connection was reset. *)
NothingLostByClose ==
  \A e \in Ends :
    open[e] /\ sstate[e] = "DISCONNECTING" /\ link = "up" /\ ~broken[Peer(e)] =>
      received[e] = sent[Peer(e)]

(* A thread in send_all stays there only while its peer is in send_all, too,
   and nothing moves, or while its peer does not read, or because it halts
   itself: the loop that retries for ever ends in every other case. *)
Stuck == \A e \in Ends : In(e, "send") /\ Room(e) = 0
SendEnds ==
  \A e \in Ends :
    In(e, "send") ~>
      (~In(e, "send") \/ Stuck \/ user[Peer(e)] # "reads" \/ ~Runs(e))

(* A thread in recv_all gets out of it, whatever part of a message it has and
   wherever the stream is cut, closed or reset, unless a call of its peer
   failed inside the message, its peer halted inside the message, in send_all,
   or it halts itself. *)
RecvEnds ==
  \A e \in Ends :
    Receiving(e) ~>
      \/ ~Receiving(e) \/ broken[Peer(e)] \/ ~Runs(e)
      \/ ~Runs(Peer(e)) /\ In(Peer(e), "send")

ToServer == INSTANCE MessageChannel WITH
  sent <- sent["client"], received <- received["server"],
  broken <- broken["client"]

ToClient == INSTANCE MessageChannel WITH
  sent <- sent["server"], received <- received["client"],
  broken <- broken["server"]

(* Each direction is a channel: messages arrive whole, once and in order,
   wherever send() and recv() cut them, as long as no call failed inside a
   message. *)
ImplementsChannels == ToServer!Spec /\ ToClient!Spec

=============================================================================
