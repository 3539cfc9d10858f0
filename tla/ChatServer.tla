----------------------------- MODULE ChatServer -----------------------------
(***************************************************************************)
(* The chat server of Pisces.Server/server.c as Pisces.Server/main.c runs  *)
(* it: one thread, one select() loop, a table of client slots.             *)
(*                                                                         *)
(* The server's functions call each other re-entrantly: a send that finds  *)
(* the peer gone removes the client, the removal broadcasts to the others, *)
(* and each of those sends may find another peer gone.  The call stack is  *)
(* therefore a variable, todo: the calls still to be made, innermost       *)
(* first.  One step performs one call: one send, one memset of a slot, one *)
(* decision of the main loop.                                              *)
(*                                                                         *)
(* The network is the nondeterminism of the calls into it: which sockets   *)
(* select() reports, what a receive delivers, how a send ends.  Time is    *)
(* the nondeterminism of the maintenance loops.  Counters no decision      *)
(* reads (messages, bytes, protocol errors) are left out.                  *)
(***************************************************************************)
EXTENDS Integers, Sequences, FiniteSets

CONSTANTS
  MaxSlots,    \* MAX_SERVER_CLIENTS, the length of server->clients
  MaxClients,  \* config.max_clients
  Names,       \* the user names peers ask for, trimmed and non-empty
  NoName,      \* the empty user name
  IdMod,       \* next_client_id counts modulo IdMod (2^32 in the code)
  LastId,      \* bound: nobody connects once next_client_id is LastId
  MaxDepth,    \* bound: nested removals the machine's call stack can hold
  LostKinds,   \* the messages whose send may report NETWORK_DISCONNECTED
  ErrorKinds   \* the messages whose send may report another error

Kinds == {"welcome", "error", "system", "joined", "left", "chat", "users",
          "bye", "heartbeat"}

Slots == 1 .. MaxSlots
Listen == 0                        \* the listening socket in an fd set
Ids == 0 .. (IdMod - 1)

ASSUME ConfigAssumption ==
  /\ MaxSlots \in Nat \ {0}
  /\ MaxClients \in 1 .. MaxSlots          \* server_validate_config
  /\ NoName \notin Names
  /\ IdMod \in Nat /\ IdMod > 1
  /\ LastId \in Nat
  /\ MaxDepth \in Nat /\ MaxDepth >= MaxSlots
  /\ LostKinds \subseteq Kinds
  /\ ErrorKinds \subseteq Kinds

VARIABLES
  id, active, auth, username, sock,  \* client_info_t, field by field
  nextId,                            \* server->next_client_id
  clientCount,                       \* server->client_count
  curConn, maxConn,                  \* stats.current/max_concurrent_connections
  master, working,                   \* master_read_fds, working_read_fds
  state, shouldShutdown,             \* server->state, server->should_shutdown
  phase,                             \* where main() and server_run() stand
  cursor,                            \* the slot the maintenance loop is at
  todo,                              \* calls still to be made, innermost first
  synced, roster                     \* history: what the peers have been told

slotVars == <<id, active, auth, username, sock>>
stats    == <<clientCount, curConn, maxConn>>
fdSets   == <<master, working>>
told     == <<synced, roster>>
vars == <<slotVars, nextId, stats, fdSets, state, shouldShutdown, phase,
          cursor, todo, told>>

-----------------------------------------------------------------------------
(* Calls waiting in todo. *)

Send(s, k)    == [op |-> "send", slot |-> s, kind |-> k]
Announce(s, k, n) == [op |-> "announce", slot |-> s, kind |-> k, who |-> n]
Leave(s)      == [op |-> "leave", slot |-> s]
Clear(s)      == [op |-> "clear", slot |-> s]
Bcast(k, n, x, authOnly) ==
  [op |-> "bcast", kind |-> k, who |-> n, excl |-> x,
   authOnly |-> authOnly, next |-> 1]

Active == {s \in Slots : active[s]}
Authenticated == {s \in Active : auth[s]}
Online == {username[s] : s \in Authenticated}

(* server_find_client_by_id returns the first active slot with that id,
   and nothing for 0.  At most one slot is returned. *)
FindById(i) ==
  {s \in Active : /\ i # 0 /\ id[s] = i
                  /\ \A t \in Active : id[t] = i => s <= t}

(* Mutants: nobody is told that a user left; a client that never logged in
   is not removed. *)
RemoveCallsQuiet(s) == <<Clear(s)>>
RemoveCallsLoggedIn(s) ==
  IF auth[s] THEN <<Bcast("left", username[s], id[s], TRUE), Clear(s)>>
             ELSE <<>>

(* The body of server_remove_client: announce the departure of an
   authenticated user, then close the socket and clear the slot. *)
RemoveCalls(s) ==
  IF auth[s] /\ username[s] # NoName
    THEN <<Bcast("system", username[s], id[s], TRUE),
           Bcast("left",   username[s], id[s], TRUE), Clear(s)>>
    ELSE <<Clear(s)>>

(* How many removals are under way, one inside the other. *)
Depth(calls) == Cardinality({k \in DOMAIN calls : calls[k].op = "clear"})

(* Entering server_remove_client from a call whose continuation is rest;
   the call stack overflows when it is entered too deep. *)
EnterRemove(s, rest) ==
  IF Depth(rest) < MaxDepth
    THEN /\ todo' = RemoveCalls(s) \o rest
         /\ UNCHANGED phase
    ELSE /\ phase' = "crashed"
         /\ UNCHANGED todo

(* What the peer of slot s knows about who is online after message k about
   user n reached it.  It knows nothing before it has asked for the list. *)
Hear(s, k, n) ==
  /\ synced' = IF k = "users" THEN synced \cup {s} ELSE synced
  /\ roster' = CASE k = "users" -> [roster EXCEPT ![s] = Online]
                 [] k = "joined" /\ s \in synced ->
                      [roster EXCEPT ![s] = @ \cup {n}]
                 [] k = "left" /\ s \in synced ->
                      [roster EXCEPT ![s] = @ \ {n}]
                 [] OTHER -> roster

(* Mutant: a send that failed does not mark the socket. *)
SendToUnmarked(s, k, n, rest) ==
  \/ /\ sock[s] = "up" /\ todo' = rest /\ Hear(s, k, n)
     /\ UNCHANGED <<sock, phase>>
  \/ /\ sock[s] = "down" \/ k \in LostKinds
     /\ EnterRemove(s, rest)
     /\ UNCHANGED <<sock, told>>

(* server_send_to_client to the client of slot s, then rest. *)
SendTo(s, k, n, rest) ==
  \/ /\ sock[s] = "up"                                \* NETWORK_SUCCESS
     /\ todo' = rest
     /\ Hear(s, k, n)
     /\ UNCHANGED <<sock, phase>>
  \/ /\ sock[s] = "up" /\ k \in ErrorKinds            \* NETWORK_ERROR
     /\ todo' = rest
     /\ UNCHANGED <<sock, phase, told>>
  \/ /\ sock[s] = "down" \/ k \in LostKinds           \* NETWORK_DISCONNECTED
     /\ sock' = [sock EXCEPT ![s] = "down"]
     /\ EnterRemove(s, rest)
     /\ UNCHANGED told

-----------------------------------------------------------------------------
(* The innermost call of todo. *)

Calling(op) == phase # "crashed" /\ todo # <<>> /\ Head(todo).op = op

DoSend ==
  /\ Calling("send")
  /\ LET c == Head(todo) IN
       \E t \in FindById(id[c.slot]) : SendTo(t, c.kind, NoName, Tail(todo))
  /\ UNCHANGED <<id, active, auth, username, nextId, stats, fdSets, state,
                 shouldShutdown, cursor>>

(* Mutant: the excluded client gets the broadcast, too. *)
RecipientsAll(b) == {s \in Active : s >= b.next /\ (b.authOnly => auth[s])}

(* The slots the broadcast loop still has to send to. *)
Recipients(b) ==
  {s \in Active : /\ s >= b.next /\ id[s] # b.excl
                  /\ b.authOnly => auth[s]}

DoBcast ==
  /\ Calling("bcast")
  /\ LET b == Head(todo)
         R == Recipients(b)
     IN \/ /\ R = {}
           /\ todo' = Tail(todo)
           /\ UNCHANGED <<sock, phase, told>>
        \/ \E s \in R :
             /\ \A t \in R : s <= t
             /\ \E t \in FindById(id[s]) :
                  SendTo(t, b.kind, b.who,
                         <<[b EXCEPT !.next = s + 1]>> \o Tail(todo))
  /\ UNCHANGED <<id, active, auth, username, nextId, stats, fdSets, state,
                 shouldShutdown, cursor>>

(* A join announcement excludes client->id, read when its broadcast starts:
   0, which excludes nobody, once the slot has been cleared. *)
DoAnnounce ==
  /\ Calling("announce")
  /\ LET c == Head(todo) IN
       todo' = <<Bcast(c.kind, c.who, id[c.slot], TRUE)>> \o Tail(todo)
  /\ UNCHANGED <<slotVars, nextId, stats, fdSets, state, shouldShutdown,
                 phase, cursor, told>>

(* server_remove_client(client->id) after the reply to MSG_DISCONNECT. *)
DoLeave ==
  /\ Calling("leave")
  /\ LET found == FindById(id[Head(todo).slot]) IN
       \/ /\ found = {}
          /\ todo' = Tail(todo)
          /\ UNCHANGED phase
       \/ \E s \in found : EnterRemove(s, Tail(todo))
  /\ UNCHANGED <<slotVars, nextId, stats, fdSets, state, shouldShutdown,
                 cursor, told>>

(* Mutant: client_count is not decremented. *)
CountDownStats(s) ==
  /\ curConn' = Cardinality(Active \ {s})
  /\ UNCHANGED clientCount

(* The counts after slot s was cleared. *)
CountDown(s) ==
  /\ clientCount' = clientCount - 1
  /\ curConn' = Cardinality(Active \ {s})

DoClear ==
  /\ Calling("clear")
  /\ LET s == Head(todo).slot IN
       /\ id'       = [id       EXCEPT ![s] = 0]
       /\ active'   = [active   EXCEPT ![s] = FALSE]
       /\ auth'     = [auth     EXCEPT ![s] = FALSE]
       /\ username' = [username EXCEPT ![s] = NoName]
       /\ sock'     = [sock     EXCEPT ![s] = "none"]
       /\ synced'   = synced \ {s}
       /\ roster'   = [roster   EXCEPT ![s] = {}]
       /\ CountDown(s)
  /\ todo' = Tail(todo)
  /\ UNCHANGED <<nextId, maxConn, fdSets, state, shouldShutdown, phase, cursor>>

Calls == DoSend \/ DoBcast \/ DoAnnounce \/ DoLeave \/ DoClear

-----------------------------------------------------------------------------
(* main() and the main loop.  A step of the loop waits until the calls of
   the step before it have returned. *)

At(p) == phase = p /\ todo = <<>>
GoTo(p) == phase' = p

Init ==                                             \* server_create
  /\ id       = [s \in Slots |-> 0]
  /\ active   = [s \in Slots |-> FALSE]
  /\ auth     = [s \in Slots |-> FALSE]
  /\ username = [s \in Slots |-> NoName]
  /\ sock     = [s \in Slots |-> "none"]
  /\ nextId = 1
  /\ clientCount = 0 /\ curConn = 0 /\ maxConn = 0
  /\ master = {} /\ working = {}
  /\ state = "STOPPED" /\ shouldShutdown = FALSE
  /\ phase = "boot" /\ cursor = 1 /\ todo = <<>>
  /\ synced = {} /\ roster = [s \in Slots |-> {}]

(* The process has ended: in good order, by undefined behaviour or a stack
   overflow, or by the C library. *)
Over == phase \in {"done", "crashed", "aborted"}

(* SIGINT: the handler runs beside the main thread, once installed. *)
Sigint ==
  /\ ~Over
  /\ ~shouldShutdown
  /\ shouldShutdown' = TRUE
  /\ UNCHANGED <<slotVars, nextId, stats, fdSets, state, phase, cursor, todo,
                 told>>

(* server_start; creating, binding or listening may fail. *)
Start ==
  /\ At("boot") /\ state = "STOPPED"
  /\ \/ /\ state' = "RUNNING"
        /\ shouldShutdown' = FALSE
        /\ master' = {Listen}
        /\ GoTo("select")
     \/ /\ state' = "ERROR"
        /\ GoTo("returned")
        /\ UNCHANGED <<shouldShutdown, master>>
  /\ UNCHANGED <<slotVars, nextId, stats, working, cursor, todo, told>>

(* The head of the loop: leave it, or let select() report a part of the
   watched sockets, none of them when it times out. *)
LoopExit ==
  /\ At("select") /\ shouldShutdown
  /\ GoTo("returned")
  /\ UNCHANGED <<slotVars, nextId, stats, fdSets, state, shouldShutdown,
                 cursor, todo, told>>

(* Mutant: the loop does not test should_shutdown. *)
SelectForever ==
  /\ At("select")
  /\ working' \in SUBSET master
  /\ GoTo(IF working' = {} THEN "cleanup" ELSE "data")
  /\ UNCHANGED <<slotVars, nextId, stats, master, state, shouldShutdown,
                 cursor, todo, told>>

Select ==
  /\ At("select") /\ ~shouldShutdown
  /\ working' \in SUBSET master
  /\ GoTo(IF working' = {} THEN "cleanup" ELSE "data")
  /\ UNCHANGED <<slotVars, nextId, stats, master, state, shouldShutdown,
                 cursor, todo, told>>

SelectFails ==
  /\ At("select") /\ ~shouldShutdown
  /\ state' = "ERROR"
  /\ GoTo("returned")
  /\ UNCHANGED <<slotVars, nextId, stats, fdSets, shouldShutdown, cursor,
                 todo, told>>

ServerFull == Cardinality(Active) >= MaxClients

(* Mutant: the id is made from the number of clients. *)
NextIdByCount == Cardinality(Active) + 2

NextId == IF nextId = IdMod - 1 THEN 0 ELSE nextId + 1

Peak(count) == IF count > maxConn THEN count ELSE maxConn

(* server_handle_new_connection.  The first disjunct stands for a refused
   client (server full) and for an accept that fails. *)
NewConnection ==
  /\ At("data") /\ Listen \in working
  /\ working' = working \ {Listen}
  /\ \/ UNCHANGED <<slotVars, nextId, stats>>
     \/ /\ ~ServerFull
        /\ nextId # LastId
        /\ \E s \in Slots \ Active :
             /\ \A t \in Slots \ Active : s <= t
             /\ id'       = [id       EXCEPT ![s] = nextId]
             /\ active'   = [active   EXCEPT ![s] = TRUE]
             /\ auth'     = [auth     EXCEPT ![s] = FALSE]
             /\ username' = [username EXCEPT ![s] = NoName]
             /\ sock'     = [sock EXCEPT ![s] = IF nextId = 0 THEN "freed"
                                                              ELSE "up"]
        /\ nextId' = NextId
        /\ clientCount' = clientCount + 1
        /\ curConn' = IF nextId = 0 THEN curConn ELSE Cardinality(Active) + 1
        /\ maxConn' = Peak(curConn')
  /\ UNCHANGED <<master, state, shouldShutdown, phase, cursor, todo, told>>

(* The loop of server_handle_client_data reads the handle of every active
   slot: reading a socket that was freed is undefined behaviour, and nothing
   is said of the server from there on. *)
UseAfterFree ==
  /\ At("data") /\ \E s \in Active : sock[s] = "freed"
  /\ GoTo("crashed")
  /\ UNCHANGED <<slotVars, nextId, stats, fdSets, state, shouldShutdown,
                 cursor, todo, told>>

(* One iteration of that loop, for the next readable socket. *)
NextUp(s) ==
  /\ At("data") /\ Listen \notin working
  /\ \A t \in Active : sock[t] # "freed"
  /\ s \in working /\ \A t \in working : s <= t

NextReadable(s) == NextUp(s) /\ working' = working \ {s}

DataDone ==
  /\ At("data") /\ working = {}
  /\ \A t \in Active : sock[t] # "freed"
  /\ GoTo("cleanup")
  /\ UNCHANGED <<slotVars, nextId, stats, fdSets, state, shouldShutdown,
                 cursor, todo, told>>

(* The slot was cleared earlier in this round, or the receive delivered no
   message although the connection stands: an invalid header, an error. *)
NothingReceived(s) ==
  /\ NextReadable(s)
  /\ UNCHANGED <<slotVars, nextId, stats, master, state, shouldShutdown,
                 phase, cursor, todo, told>>

(* The peer closed or reset the connection. *)
PeerGone(s) ==
  /\ NextReadable(s) /\ active[s]
  /\ sock' = [sock EXCEPT ![s] = "down"]
  /\ EnterRemove(s, <<>>)
  /\ UNCHANGED <<id, active, auth, username, nextId, stats, master, state,
                 shouldShutdown, cursor, told>>

-----------------------------------------------------------------------------
(* The message handlers. *)

Handles(s, calls) ==
  /\ NextReadable(s) /\ active[s]
  /\ todo' = calls
  /\ UNCHANGED <<id, active, sock, nextId, stats, master, state,
                 shouldShutdown, phase, cursor, told>>

(* Mutant: the search starts at the second slot. *)
TakenLater(n) == \E s \in Authenticated \ {1} : username[s] = n

Taken(n) == n \in Online            \* server_find_client_by_username

(* Mutants: the empty name, or a second login, is let through. *)
AcceptableNameless(s, n) == ~auth[s] /\ ~Taken(n)
AcceptableAgain(s, n) == n # NoName /\ ~Taken(n)

Acceptable(s, n) == ~auth[s] /\ n # NoName /\ ~Taken(n)

(* server_handle_connect_request; n is NoName for a payload that is too
   short and for a name that trims to nothing. *)
ConnectRefused(s, n) ==
  /\ ~Acceptable(s, n)
  /\ Handles(s, <<Send(s, "error")>>)
  /\ UNCHANGED <<auth, username>>

ConnectRequest(s, n) ==
  /\ Acceptable(s, n)
  /\ auth' = [auth EXCEPT ![s] = TRUE]
  /\ username' = [username EXCEPT ![s] = n]
  /\ Handles(s, <<Send(s, "welcome"), Announce(s, "system", n),
                  Announce(s, "joined", n)>>)

(* A name that fills its 32 bytes without a terminator: strcpy_s finds the
   target too small and ends the process. *)
NameUnterminated(s) ==
  /\ NextReadable(s) /\ active[s] /\ ~auth[s]
  /\ GoTo("aborted")
  /\ UNCHANGED <<slotVars, nextId, stats, master, state, shouldShutdown,
                 cursor, todo, told>>

(* server_handle_chat_message; an empty text is dropped. *)
ChatSend(s) ==
  /\ Handles(s, IF auth[s] THEN <<Bcast("chat", username[s], 0, TRUE)>>
                           ELSE <<Send(s, "error")>>)
  /\ UNCHANGED <<auth, username>>

UserListRequest(s) ==
  /\ Handles(s, <<Send(s, IF auth[s] THEN "users" ELSE "error")>>)
  /\ UNCHANGED <<auth, username>>

DisconnectRequest(s) ==
  /\ Handles(s, <<Send(s, "bye"), Leave(s)>>)
  /\ UNCHANGED <<auth, username>>

(* The default case of server_process_client_message. *)
UnknownMessage(s) ==
  /\ Handles(s, <<Send(s, "error")>>)
  /\ UNCHANGED <<auth, username>>

(* A heartbeat acknowledgement only stamps the time, an empty chat text is
   dropped: neither makes a call. *)
QuietMessage(s) ==
  /\ Handles(s, <<>>)
  /\ UNCHANGED <<auth, username>>

-----------------------------------------------------------------------------
(* Maintenance, at the end of every round of the loop. *)

Cursor(s) == s >= cursor /\ cursor' = s + 1

(* The cleanup loop may leave alone only clients whose socket is connected. *)
Spared(upTo) == \A t \in Active : cursor <= t /\ t < upTo => sock[t] = "up"

(* server_cleanup_inactive_clients removes a client that was silent for too
   long, or whose socket is not connected. *)
CleanupRemove(s) ==
  /\ At("cleanup") /\ active[s] /\ Cursor(s) /\ Spared(s)
  /\ EnterRemove(s, <<>>)
  /\ UNCHANGED <<slotVars, nextId, stats, fdSets, state, shouldShutdown, told>>

CleanupDone ==
  /\ At("cleanup") /\ Spared(MaxSlots + 1)
  /\ cursor' = 1
  /\ GoTo("heartbeat")
  /\ UNCHANGED <<slotVars, nextId, stats, fdSets, state, shouldShutdown,
                 todo, told>>

(* server_check_heartbeats sends to the authenticated clients it is due for. *)
HeartbeatSend(s) ==
  /\ At("heartbeat") /\ s \in Authenticated /\ Cursor(s)
  /\ todo' = <<Send(s, "heartbeat")>>
  /\ UNCHANGED <<slotVars, nextId, stats, fdSets, state, shouldShutdown,
                 phase, told>>

(* Mutant: the set is not emptied first. *)
WatchedSoFar == master \cup {Listen} \cup Active

Watched == {Listen} \cup Active

(* The loops are over: server_update_fd_sets, and the next round. *)
UpdateFdSets ==
  /\ At("heartbeat")
  /\ cursor' = 1
  /\ master' = Watched
  /\ working' = {}
  /\ GoTo("select")
  /\ UNCHANGED <<slotVars, nextId, stats, state, shouldShutdown, todo, told>>

-----------------------------------------------------------------------------
(* cleanup_and_exit: server_stop for a running server, server_destroy. *)

Stop ==
  /\ At("returned") /\ state = "RUNNING"
  /\ state' = "STOPPING"
  /\ todo' = <<Bcast("bye", NoName, 0, FALSE)>>
  /\ GoTo("stopping")
  /\ UNCHANGED <<slotVars, nextId, stats, fdSets, shouldShutdown, cursor, told>>

(* Both functions close every active slot the same way and leave the id and
   the name behind. *)
CloseAll ==
  /\ active' = [s \in Slots |-> FALSE]
  /\ sock'   = [s \in Slots |-> "none"]
  /\ synced' = {}
  /\ roster' = [s \in Slots |-> {}]
  /\ GoTo("done")

StopCloses ==
  /\ At("stopping")
  /\ CloseAll
  /\ state' = "STOPPED"
  /\ master' = {} /\ working' = {}
  /\ clientCount' = 0
  /\ UNCHANGED <<id, auth, username, nextId, curConn, maxConn, shouldShutdown,
                 cursor, todo>>

Destroy ==
  /\ At("returned") /\ state # "RUNNING"
  /\ CloseAll
  /\ UNCHANGED <<id, auth, username, nextId, stats, fdSets, state,
                 shouldShutdown, cursor, todo>>

-----------------------------------------------------------------------------
Handlers ==
  \E s \in Slots :
    \/ NothingReceived(s) \/ PeerGone(s)
    \/ \E n \in Names \cup {NoName} :
         ConnectRefused(s, n) \/ ConnectRequest(s, n)
    \/ NameUnterminated(s)
    \/ ChatSend(s) \/ UserListRequest(s) \/ DisconnectRequest(s)
    \/ UnknownMessage(s) \/ QuietMessage(s)

Maintenance ==
  \/ \E s \in Slots : CleanupRemove(s) \/ HeartbeatSend(s)
  \/ CleanupDone \/ UpdateFdSets

MainLoop ==
  \/ Start \/ LoopExit \/ Select \/ SelectFails
  \/ NewConnection \/ UseAfterFree \/ DataDone
  \/ Stop \/ StopCloses \/ Destroy

Server == Calls \/ MainLoop \/ Handlers \/ Maintenance

Ended == Over /\ UNCHANGED vars

Next == Server \/ Sigint \/ Ended

Spec == Init /\ [][Next]_vars

(* The server is in a call that takes as long as a peer likes: a send or a
   receive that tries again until the whole message is through. *)
Waiting ==
  \/ Calling("send")
  \/ Calling("bcast") /\ Recipients(Head(todo)) # {}
  \/ \E s \in Active : NextUp(s)

(* The server's thread keeps running, and select() returns after its timeout.
   Of a call that is waiting for its peer nothing is assumed, nobody has to
   press Ctrl+C, and no peer has to do anything. *)
FairSpec == Spec /\ WF_vars(Server /\ ~Waiting)

(* And every peer takes what it is sent and finishes what it sends. *)
AnsweredSpec == Spec /\ WF_vars(Server)

-----------------------------------------------------------------------------
(* Properties *)

Notices == {"system", "joined", "left"}     \* the messages about a user

BcastCall(K, W) ==
  [op : {"bcast"}, kind : K, who : W, excl : Ids, authOnly : BOOLEAN,
   next : 1 .. (MaxSlots + 1)]

Call ==
  [op : {"send"}, slot : Slots, kind : Kinds \ Notices]
  \cup [op : {"announce"}, slot : Slots, kind : Notices, who : Names]
  \cup [op : {"leave", "clear"}, slot : Slots]
  \cup BcastCall(Notices, Names)
  \cup BcastCall(Kinds \ Notices, Names \cup {NoName})

Phases == {"boot", "select", "data", "cleanup", "heartbeat", "returned",
           "stopping", "done", "crashed", "aborted"}

(* The types of the variables. *)
TypeOK ==
  /\ id \in [Slots -> Ids]
  /\ active \in [Slots -> BOOLEAN]
  /\ auth \in [Slots -> BOOLEAN]
  /\ username \in [Slots -> Names \cup {NoName}]
  /\ sock \in [Slots -> {"none", "up", "down", "freed"}]
  /\ nextId \in Ids
  /\ clientCount \in Int /\ curConn \in Int /\ maxConn \in Int
  /\ master \subseteq {Listen} \cup Slots
  /\ working \subseteq {Listen} \cup Slots
  /\ state \in {"STOPPED", "RUNNING", "STOPPING", "ERROR"}
  /\ shouldShutdown \in BOOLEAN
  /\ phase \in Phases
  /\ cursor \in 1 .. (MaxSlots + 1)
  /\ todo \in Seq(Call)
  /\ synced \in SUBSET Slots
  /\ roster \in [Slots -> SUBSET (Names \cup {NoName})]

(* Two authenticated clients never share a user name, and none is nameless:
   the duplicate check and the assignment of the name are not separated by
   any of the re-entrant removals, and a slot is reused only when cleared. *)
UniqueUsernames ==
  \A s, t \in Authenticated :
    /\ username[s] # NoName
    /\ username[s] = username[t] => s = t

(* server->client_count and stats.current_connections count the active slots
   whatever removals are nested in one another, until the server stops. *)
CountsAgree ==
  phase \notin {"done", "crashed"} =>
    /\ clientCount = Cardinality(Active)
    /\ curConn = Cardinality(Active)

(* No two active clients have the same id, wherever the counter stands: by the
   time next_client_id comes round to an id that is still in use it has passed
   0, and the server has not survived that. *)
UniqueIds == \A s, t \in Active : id[s] = id[t] => s = t

(* A removal that found its client being removed already, further out on the
   stack, never gets to clear the slot: the second memset of one client and
   the second decrement of client_count cannot happen. *)
NoDoubleClear ==
  [][\A s \in Slots : active[s] /\ ~active'[s] =>
       \A k \in DOMAIN todo' : todo'[k] # Clear(s)]_vars

(* The stack overflows only when two authenticated clients are both found
   disconnected: the removals of one failed peer never bring the server down.
   It says nothing of a name without a terminator, NameUnterminated. *)
CrashNeedsTwoDead ==
  phase = "crashed" =>
    \E s, t \in Authenticated : s # t /\ sock[s] = "down" /\ sock[t] = "down"

(* Whenever the server calls select(), it watches exactly the sockets of the
   active clients: no closed handle (select would fail and end the server),
   no client that is never served. *)
SelectSetsValid == phase = "select" => master = {Listen} \cup Active

(* A connection found dead is removed before the round of the loop goes on:
   between the calls of the main loop every active client is connected. *)
NoDeadAtRest ==
  todo = <<>> /\ phase # "crashed" => \A s \in Active : sock[s] = "up"

(* A client that asked for the user list and then applied the join and leave
   notices it was sent knows exactly who is online. *)
RosterExact == phase = "select" => \A s \in synced : roster[s] = Online

(* SIGINT ends a server that is past server_start, unless a call waits for its
   peer for ever: recv_all and send_all do not look at should_shutdown. *)
ShutdownCompletes ==
  (phase # "boot" /\ shouldShutdown) ~> (Over \/ []Waiting)

(* A client found dead, by a receive or by a send however deep in a removal of
   another one, is removed, or the stack overflows on the way, or the server
   waits for another peer for ever. *)
DeadRemoved ==
  \A s \in Slots :
    sock[s] = "down" ~>
      (sock[s] # "down" \/ phase = "crashed" \/ []Waiting)

(* "If the connection is lost, remove the client", server_send_to_client. *)
DisconnectedRemoved ==
  \A s \in Slots : sock[s] = "down" ~> sock[s] # "down"

(* The sessions of the slots S, whose ids are i, and the table of their names
   n by session: the room the slot table stands for. *)
SessionsOf(S, i) == {i[s] : s \in S}
MembersOf(S, i, n) ==
  [k \in SessionsOf(S, i) |-> n[CHOOSE s \in S : i[s] = k]]

Room == INSTANCE ChatRoom WITH
  Capacity <- MaxClients,
  next     <- nextId,
  present  <- SessionsOf(Active, id),
  member   <- MembersOf(Authenticated, id, username)

(* The server implements the abstract room: a session number is never given
   twice, a session takes at most one name, keeps it until it leaves, and no
   two sessions hold one name at a time, however removals nest. *)
ImplementsRoom == Room!Spec

=============================================================================
