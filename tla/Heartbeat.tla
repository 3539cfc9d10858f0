------------------------------ MODULE Heartbeat ------------------------------
(***************************************************************************)
(* The heartbeats of Pisces: when the server sends one, when it takes a    *)
(* client for inactive, and when a client gives its connection up.  Time   *)
(* passes in whole seconds, the unit of time(NULL), and every time stamp   *)
(* of the code is the age it has.                                          *)
(*                                                                         *)
(* One slot of the server and the client that holds it.  The server works  *)
(* in rounds: select, then accepting and receiving, then the cleanup, then *)
(* the heartbeats; at most Lag seconds pass between two rounds.  The       *)
(* client reads at least one message in Delay seconds while there is one,  *)
(* as its network thread does.  It may also hang, and then does nothing    *)
(* any more while its connection stands.                                   *)
(***************************************************************************)
EXTENDS Integers, Sequences

CONSTANTS
  Interval,       \* config.heartbeat_interval_sec
  ClientTimeout,  \* config.client_timeout_sec
  CleanupEvery,   \* the 5 of server_run
  Limit,          \* config.heartbeat_timeout of the client
  Lag,            \* a round of the server takes at most so many seconds
  Delay,          \* the client reads a message within so many seconds
  Backlog         \* bound: messages under way in one direction

ASSUME TimingAssumption ==
  /\ Interval \in Nat \ {0} /\ CleanupEvery \in Nat \ {0}
  /\ ClientTimeout \in Nat /\ Limit \in Nat /\ Lag \in Nat /\ Delay \in Nat
  /\ Backlog \in Nat

VARIABLES
  slot,          \* client_info_t: "none", "joined", or "member" once logged in
  activity,      \* age of client_info_t.last_activity
  stamp,         \* age of client_info_t.last_heartbeat
  sinceCleanup,  \* age of server->last_cleanup
  sinceCheck,    \* age of server->last_heartbeat_check
  sinceRound,    \* how long the round before is over
  at,            \* where the server's round stands
  link,          \* the connection: "cut", "pending" until accepted, "up"
  inbox, outbox, \* the messages to the client and from it
  view,          \* the client's state: "off", "connected", "member"
  heard,         \* age of chat_client_t.last_heartbeat
  late,          \* how long the client has left a message unread
  alive,         \* the client does not hang
  faulted        \* history: a send on this connection failed

server == <<slot, activity, stamp>>
clocks == <<sinceCleanup, sinceCheck, sinceRound>>
wire   == <<link, inbox, outbox>>
client == <<view, heard, late, alive>>
vars   == <<server, clocks, at, wire, client, faulted>>

(* Ages count up to the first value that makes no difference any more. *)
Older(age, top) == IF age < top THEN age + 1 ELSE age

LongestSilence == ClientTimeout + CleanupEvery - 1 + Lag

Init ==
  /\ slot = "none" /\ activity = 0 /\ stamp = 0
  /\ sinceCleanup = 0 /\ sinceCheck = 0 /\ sinceRound = 0
  /\ at = "select"
  /\ link = "cut" /\ inbox = <<>> /\ outbox = <<>>
  /\ view = "off" /\ heard = 0 /\ late = 0 /\ alive = TRUE
  /\ faulted = FALSE

-----------------------------------------------------------------------------
(* A second passes, while the server is in select(). *)

Reads == alive /\ view # "off"

Tick ==
  /\ at = "select" /\ sinceRound < Lag
  /\ Reads /\ inbox # <<>> => late < Delay
  /\ activity' = IF slot = "none" THEN 0 ELSE Older(activity, LongestSilence + 1)
  /\ stamp' = IF slot = "none" THEN 0 ELSE Older(stamp, Interval)
  /\ sinceCleanup' = sinceCleanup + 1
  /\ sinceCheck' = sinceCheck + 1
  /\ sinceRound' = sinceRound + 1
  /\ heard' = Older(heard, Limit + 1)
  /\ late' = IF Reads /\ inbox # <<>> THEN late + 1 ELSE 0
  /\ UNCHANGED <<slot, at, wire, view, alive, faulted>>

-----------------------------------------------------------------------------
(* The server. *)

(* What a message adds to the inbox of the client: one that hangs leaves it
   in the buffers of its connection. *)
Delivered(m) == IF alive /\ link = "up" THEN Append(inbox, m) ELSE inbox

(* The bound on the messages under way leaves room for a welcome and for a
   heartbeat. *)
ChatFits == Len(inbox) + 2 < Backlog

Clear ==
  /\ slot' = "none" /\ activity' = 0 /\ stamp' = 0
  /\ link' = "cut" /\ UNCHANGED <<inbox, outbox>>

(* select() returns: data, or its timeout. *)
Select ==
  /\ at = "select"
  /\ at' = "work" /\ sinceRound' = 0
  /\ UNCHANGED <<server, sinceCleanup, sinceCheck, wire, client, faulted>>

(* server_handle_new_connection *)
Accept ==
  /\ at = "work" /\ link = "pending"
  /\ link' = "up"
  /\ slot' = "joined" /\ activity' = 0 /\ stamp' = 0
  /\ faulted' = FALSE
  /\ UNCHANGED <<clocks, at, inbox, outbox, client>>

(* server_handle_client_data takes one message of the client.  A login is
   welcomed, a chat text comes back to its sender; that send may fail. *)
Receive ==
  /\ at = "work" /\ slot # "none" /\ outbox # <<>>
  /\ LET m == Head(outbox) IN
       /\ slot' = IF m = "login" THEN "member" ELSE slot
       /\ inbox' \in {inbox} \cup
            CASE m = "login" -> {Delivered("welcome")}
              [] m = "chat" /\ ChatFits -> {Delivered("chat")}
              [] OTHER -> {}
       /\ stamp' = IF m = "ack" THEN 0 ELSE stamp
  /\ activity' = 0
  /\ outbox' = Tail(outbox)
  /\ at' = "others"
  /\ UNCHANGED <<clocks, link, client, faulted>>

(* The connection is found closed. *)
PeerGone ==
  /\ at = "work" /\ slot # "none" /\ link = "cut"
  /\ Clear
  /\ at' = "others"
  /\ UNCHANGED <<clocks, client, faulted>>

NothingReceived ==
  /\ at = "work" /\ link # "pending"
  /\ slot # "none" => outbox = <<>> /\ link = "up"
  /\ at' = "others"
  /\ UNCHANGED <<server, clocks, wire, client, faulted>>

(* The other clients have their turn.  A text of theirs is broadcast, and the
   send to a member counts as its activity. *)
Others ==
  /\ at = "others"
  /\ \/ /\ slot = "member" /\ ChatFits
        /\ inbox' = Delivered("chat")
        /\ activity' = 0
     \/ UNCHANGED <<inbox, activity>>
  /\ at' = "cleanup"
  /\ UNCHANGED <<slot, stamp, clocks, link, outbox, client, faulted>>


ExpiredLater == slot # "none" /\ activity > ClientTimeout + CleanupEvery

Expired == slot # "none" /\ activity > ClientTimeout

(* Mutant: off by one. *)
CleanupLate == sinceCleanup > CleanupEvery

CleanupDue == sinceCleanup >= CleanupEvery

(* server_cleanup_inactive_clients, when it is due. *)
Cleanup ==
  /\ at = "cleanup"
  /\ IF CleanupDue /\ Expired THEN Clear ELSE UNCHANGED <<server, wire>>
  /\ sinceCleanup' = IF CleanupDue THEN 0 ELSE sinceCleanup
  /\ at' = "heartbeat"
  /\ UNCHANGED <<sinceCheck, sinceRound, client, faulted>>

(* Mutant: off by one. *)
CheckLate == sinceCheck > Interval

CheckDue == sinceCheck >= Interval

(* server_send_to_client of a heartbeat: it is sent, it fails, or it finds the
   connection closed.  Only a heartbeat that was sent is stamped, and counts as
   activity. *)
SendHeartbeat ==
  \/ /\ stamp' = 0 /\ activity' = 0
     /\ inbox' = Delivered("heartbeat")
     /\ UNCHANGED <<slot, link, outbox, faulted>>
  \/ /\ faulted' = TRUE
     /\ UNCHANGED <<server, wire>>
  \/ /\ link = "cut" /\ Clear
     /\ UNCHANGED faulted

(* server_check_heartbeats, when it is due, sends to a member whose last
   heartbeat or acknowledgement is old enough. *)
CheckHeartbeats ==
  /\ at = "heartbeat"
  /\ IF CheckDue /\ slot = "member" /\ stamp >= Interval
       THEN SendHeartbeat
       ELSE UNCHANGED <<server, wire, faulted>>
  /\ sinceCheck' = IF CheckDue THEN 0 ELSE sinceCheck
  /\ at' = "select"
  /\ UNCHANGED <<sinceCleanup, sinceRound, client>>

-----------------------------------------------------------------------------
(* The client. *)

(* network_thread_connect_to_server, once the server has noticed the end of
   the connection before.  It does not set last_heartbeat. *)
Dial ==
  /\ alive /\ view = "off" /\ slot = "none"
  /\ view' = "connected"
  /\ link' = "pending" /\ inbox' = <<>> /\ outbox' = <<>> /\ late' = 0
  /\ UNCHANGED <<server, clocks, at, heard, alive, faulted>>

Says(m) ==
  /\ alive /\ link # "cut" /\ Len(outbox) < Backlog
  /\ outbox' = Append(outbox, m)
  /\ UNCHANGED <<server, clocks, at, link, inbox, client, faulted>>

Login ==
  /\ view = "connected" /\ slot # "member" /\ outbox = <<>>
  /\ Says("login")

Chat == view = "member" /\ outbox = <<>> /\ Says("chat")

(* One pass of the network thread takes one message.  A welcome starts the
   age anew, a heartbeat is acknowledged. *)
Read ==
  /\ Reads /\ inbox # <<>>
  /\ heard' = 0 /\ late' = 0
  /\ inbox' = Tail(inbox)
  /\ view' = IF Head(inbox) = "welcome" THEN "member" ELSE view
  /\ IF Head(inbox) = "heartbeat" /\ link = "up"
       THEN \/ outbox' = Append(outbox, "ack") /\ UNCHANGED faulted
            \/ faulted' = TRUE /\ UNCHANGED outbox
       ELSE UNCHANGED <<outbox, faulted>>
  /\ UNCHANGED <<server, clocks, at, link, alive>>

(* The client loses its connection, or its user ends it. *)
Hangup ==
  /\ Reads
  /\ view' = "off" /\ link' = "cut" /\ late' = 0
  /\ UNCHANGED <<server, clocks, at, inbox, outbox, heard, alive, faulted>>

(* The heartbeat check of client_run, and the disconnect it asks for. *)
GiveUp == heard > Limit /\ Hangup

Hang ==
  /\ alive /\ alive' = FALSE
  /\ UNCHANGED <<server, clocks, at, wire, view, heard, late, faulted>>

Cut ==
  /\ link = "up" /\ link' = "cut"
  /\ UNCHANGED <<server, clocks, at, inbox, outbox, client, faulted>>

-----------------------------------------------------------------------------
Round ==
  \/ Select \/ Accept \/ Receive \/ PeerGone \/ NothingReceived
  \/ Others \/ Cleanup \/ CheckHeartbeats

Client == Dial \/ Login \/ Chat \/ Read \/ Hangup \/ GiveUp \/ Hang

Next == Tick \/ Round \/ Client \/ Cut

Spec == Init /\ [][Next]_vars

(* The server's thread goes round, and time goes on. *)
FairSpec == Spec /\ WF_vars(Round) /\ SF_vars(Tick)

-----------------------------------------------------------------------------
(* Properties *)

(* The types of the variables. *)
TypeOK ==
  /\ slot \in {"none", "joined", "member"}
  /\ activity \in 0 .. LongestSilence + 1 /\ stamp \in 0 .. Interval
  /\ sinceCleanup \in 0 .. CleanupEvery - 1 + Lag
  /\ sinceCheck \in 0 .. Interval - 1 + Lag
  /\ sinceRound \in 0 .. Lag
  /\ at \in {"select", "work", "others", "cleanup", "heartbeat"}
  /\ link \in {"cut", "pending", "up"}
  /\ inbox \in Seq({"welcome", "heartbeat", "chat"}) /\ Len(inbox) <= Backlog
  /\ outbox \in Seq({"login", "chat", "ack"}) /\ Len(outbox) <= Backlog
  /\ view \in {"off", "connected", "member"}
  /\ heard \in 0 .. Limit + 1 /\ late \in 0 .. Delay
  /\ alive \in BOOLEAN /\ faulted \in BOOLEAN

(* A member whose heartbeats are sent is never taken for inactive, although a
   heartbeat is only due at every other check when the one before was
   acknowledged: the timeout has to leave room for two intervals. *)
MembersKept ==
  at = "cleanup" /\ slot = "member" /\ ~faulted => ~Expired

(* No client that says nothing and is sent nothing keeps its slot longer than
   the timeout, the distance of two cleanups and a round.  Before its login a
   client is sent nothing that it did not ask for.  A member is sent heartbeats,
   which count as its activity (server.c:1006), and may be silent for ever:
   see HungRemoved. *)
QuietBounded == slot # "none" => activity <= LongestSilence

(* A client that is logged in on a connection that stands does not find its
   heartbeat overdue while the server sends it heartbeats. *)
ClientPatient ==
  view = "member" /\ alive /\ link = "up" /\ ~faulted => heard <= Limit


(* "Detects connections by heartbeats", README: a client that hangs is found
   out, logged in or not. *)
HungRemoved == (slot = "member" /\ ~alive) ~> slot # "member"

=============================================================================
