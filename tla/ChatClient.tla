----------------------------- MODULE ChatClient -----------------------------
(***************************************************************************)
(* The chat client of Pisces.Client: the UI thread, which runs the user's  *)
(* lines and the heartbeat check of client_run, and the network thread,    *)
(* which owns the connection.  They share the client state, the pointer to *)
(* the server socket, the shutdown flag and the command queue; each read   *)
(* or write of one of these is a step, for the code holds state_lock or    *)
(* the queue's lock only for one such access.                              *)
(*                                                                         *)
(* The server and the network are the nondeterminism of dialling, sending  *)
(* and receiving.  Time is the nondeterminism of the timeouts and of the   *)
(* reconnect interval.  The events the network thread sends back to the    *)
(* UI only change the screen and are left out.                             *)
(***************************************************************************)
EXTENDS Integers, Sequences

CONSTANTS
  AutoReconnect,  \* config.auto_reconnect
  Capacities,     \* the command queue may have one of these lengths
  MaxLines        \* bound: user lines and heartbeat timeouts

ASSUME ClientAssumption ==
  /\ AutoReconnect \in BOOLEAN
  /\ Capacities \subseteq Nat \ {0}
  /\ MaxLines \in Nat

VARIABLES
  state,      \* current_state
  sock,       \* server_socket: NULL, or the state of the socket object
  shutdown,   \* should_shutdown
  queue,      \* command_queue
  named,      \* config.username is not empty
  capacity,   \* config.message_queue_size
  ui, net,    \* where the two threads stand
  cmd,        \* the command the network thread works on
  lines,      \* lines and timeouts so far
  session,    \* the server accepted a login on this connection
  pending,    \* login requests on this connection that have no answer yet
  asked       \* history: Ctrl+C was pressed

link == <<sock, session, pending>>
config == <<named, capacity>>
vars == <<state, link, shutdown, queue, config, ui, net, cmd, lines, asked>>

States == {"DISCONNECTED", "CONNECTING", "CONNECTED", "AUTHENTICATING",
           "AUTHENTICATED", "RECONNECTING", "DISCONNECTING", "ERROR"}

Commands == {"connect", "auth", "disconnect", "chat", "users", "shutdown"}

-----------------------------------------------------------------------------
(* The state machine of client_change_state: a transition that is not
   allowed leaves the state as it is. *)

Allowed(s) ==
  CASE s = "DISCONNECTED"   -> {"CONNECTING", "RECONNECTING"}
    [] s = "CONNECTING"     -> {"CONNECTED", "DISCONNECTED", "ERROR"}
    [] s = "CONNECTED"      -> {"AUTHENTICATING", "DISCONNECTING", "ERROR"}
    [] s = "AUTHENTICATING" -> {"AUTHENTICATED", "DISCONNECTING", "ERROR"}
    [] s = "AUTHENTICATED"  -> {"DISCONNECTING", "RECONNECTING", "ERROR"}
    [] OTHER                -> States

Change(s) == state' = IF s \in Allowed(state) THEN s ELSE state

IsConnected == state \in {"CONNECTED", "AUTHENTICATING", "AUTHENTICATED"}

(* The connection and what was agreed on it are gone. *)
DropLink == sock' = "null" /\ session' = FALSE /\ pending' = 0

(* Mutant: one too many. *)
QueueFullLate == Len(queue) > capacity

QueueFull == Len(queue) >= capacity

-----------------------------------------------------------------------------
(* The UI thread: main, then client_run, then cleanup_and_exit_client. *)

Ui(here, next) == ui = here /\ net # "crashed" /\ ui' = next

(* client_start, after the signal handler was installed. *)
Start ==
  /\ Ui("boot", "loop")
  /\ shutdown' = FALSE
  /\ net' = "head"
  /\ UNCHANGED <<state, link, queue, config, cmd, lines, asked>>

UiLoop ==
  /\ ui = "loop" /\ net # "crashed"
  /\ ui' = IF shutdown THEN "exit" ELSE "body"
  /\ UNCHANGED <<state, link, shutdown, queue, config, net, cmd, lines, asked>>

(* No line was typed, or one that changes nothing the threads share.  /quit
   is such a line: ui_process_command returns 1 for it, and client_run only
   looks for negative results. *)
UiNothing ==
  /\ Ui("body", "loop")
  /\ UNCHANGED <<state, link, shutdown, queue, config, net, cmd, lines, asked>>

(* A line of the user, or a heartbeat timeout, that leads to step next. *)
Line(next) ==
  /\ Ui("body", next)
  /\ lines < MaxLines /\ lines' = lines + 1
  /\ UNCHANGED <<state, link, shutdown, queue, config, net, cmd>>

(* Pushing c on the command queue; full is where a full queue leads. *)
Push(here, c, full) ==
  /\ ui = here /\ net # "crashed"
  /\ \/ ~QueueFull /\ queue' = Append(queue, c) /\ ui' = "loop"
     \/ QueueFull /\ ui' = full /\ UNCHANGED queue
  /\ UNCHANGED <<state, link, shutdown, config, net, cmd, lines, asked>>

(* A change of the state by the UI thread. *)
UiChange(here, s, next) ==
  /\ Ui(here, next)
  /\ Change(s)
  /\ UNCHANGED <<link, shutdown, queue, net, cmd, lines, asked>>

(* client_connect_to_server *)
ConnectLine ==
  /\ state = "DISCONNECTED"
  /\ Line("connect1")
  /\ UNCHANGED asked
ConnectChange == UiChange("connect1", "CONNECTING", "connect2") /\ UNCHANGED config
ConnectPush   == Push("connect2", "connect", "connect3")

ConnectUndo   == UiChange("connect3", "DISCONNECTED", "loop") /\ UNCHANGED config

(* client_authenticate *)
AuthLine ==
  /\ state = "CONNECTED"
  /\ Line("auth1")
  /\ UNCHANGED asked
AuthChange ==
  /\ UiChange("auth1", "AUTHENTICATING", "auth2")
  /\ named' = TRUE /\ UNCHANGED capacity
AuthPush == Push("auth2", "auth", "auth3")
AuthUndo == UiChange("auth3", "CONNECTED", "loop") /\ UNCHANGED config

(* client_disconnect *)
DisconnectLine ==
  /\ state \notin {"DISCONNECTED", "DISCONNECTING"}
  /\ Line("disconnect1")
  /\ UNCHANGED asked
DisconnectChange ==
  UiChange("disconnect1", "DISCONNECTING", "disconnect2") /\ UNCHANGED config

(* Mutant: the socket is dropped in any case. *)
DisconnectPushDrop ==
  /\ Ui("disconnect2", "disconnect3")
  /\ queue' = IF QueueFull THEN queue ELSE Append(queue, "disconnect")
  /\ UNCHANGED <<state, link, shutdown, config, net, cmd, lines, asked>>

DisconnectPush == Push("disconnect2", "disconnect", "disconnect3")

(* Where the network thread uses the socket it has taken from the client. *)
Holding == {"dialing", "send", "read", "failed", "lost2"}

(* The queue is full: the UI thread destroys the socket itself.  That is
   undefined behaviour when the network thread is using it: it goes on with
   NULL or it dies. *)
DisconnectForced ==
  /\ Ui("disconnect3", "disconnect4")
  /\ DropLink
  /\ net' \in {net} \cup
       (IF sock # "null" /\ net \in Holding THEN {"crashed"} ELSE {})
  /\ UNCHANGED <<state, shutdown, queue, config, cmd, lines, asked>>
DisconnectForcedChange ==
  UiChange("disconnect4", "DISCONNECTED", "loop") /\ UNCHANGED config

(* A chat text or a request for the user list; the heartbeat timeout. *)
TalkLine ==
  /\ state = "AUTHENTICATED"
  /\ Line("chat") \/ Line("users")
  /\ UNCHANGED asked
ChatPush  == Push("chat", "chat", "loop")
UsersPush == Push("users", "users", "loop")

HeartbeatTimeout ==
  /\ IsConnected
  /\ Line("timeout")
  /\ UNCHANGED asked
TimeoutPush == Push("timeout", "disconnect", "loop")

(* Ctrl+C, on a thread of its own, from the moment the handler is there. *)
Sigint ==
  /\ ui # "ended" /\ net # "crashed"
  /\ ~asked
  /\ queue' = IF QueueFull THEN queue ELSE Append(queue, "shutdown")
  /\ shutdown' = TRUE /\ asked' = TRUE
  /\ UNCHANGED <<state, link, config, ui, net, cmd, lines>>

(* cleanup_and_exit_client, and client_destroy, which repeats the test: a
   client that is not DISCONNECTED is shut down first, which waits for the
   network thread. *)
Exit ==
  /\ ui \in {"exit", "destroy"} /\ net # "crashed"
  /\ ui' = IF state # "DISCONNECTED" THEN "join"
           ELSE IF ui = "exit" THEN "destroy" ELSE "free"
  /\ shutdown' = (shutdown \/ state # "DISCONNECTED")
  /\ UNCHANGED <<state, link, queue, config, net, cmd, lines, asked>>

(* client_destroy without a client_shutdown: the socket, the queues and the
   client are freed, whatever the network thread is doing.  The process then
   ends, and the thread with it, if it has not died in the freed memory. *)
Destroy ==
  /\ Ui("free", "ended")
  /\ DropLink
  /\ net' \in IF net = "gone" THEN {"gone"} ELSE {"gone", "crashed"}
  /\ UNCHANGED <<state, shutdown, queue, config, cmd, lines, asked>>

(* client_shutdown after the wait.  The state may refuse to change; the
   second client_shutdown then finds no thread and nothing to do. *)
Joined ==
  /\ Ui("join", "ended")
  /\ net = "gone"
  /\ DropLink
  /\ Change("DISCONNECTED")
  /\ UNCHANGED <<shutdown, queue, config, net, cmd, lines, asked>>

UserLine ==
  \/ ConnectLine \/ AuthLine \/ DisconnectLine \/ TalkLine
  \/ HeartbeatTimeout

UiThread ==
  \/ Start \/ UiLoop \/ UiNothing
  \/ ConnectChange \/ ConnectPush \/ ConnectUndo
  \/ AuthChange \/ AuthPush \/ AuthUndo
  \/ DisconnectChange \/ DisconnectPush
  \/ DisconnectForced \/ DisconnectForcedChange
  \/ ChatPush \/ UsersPush \/ TimeoutPush
  \/ Exit \/ Destroy \/ Joined

-----------------------------------------------------------------------------
(* The network thread. *)

Net(here) == net = here

(* The test at the head of the loop; network_thread_cleanup. *)
NetHead ==
  /\ Net("head")
  /\ \/ ~shutdown /\ net' = "pop" /\ UNCHANGED link
     \/ shutdown /\ net' = "gone" /\ DropLink
  /\ UNCHANGED <<state, shutdown, queue, config, ui, cmd, lines, asked>>

(* command_queue_pop; on a timeout there is no command. *)
NetPop ==
  /\ Net("pop")
  /\ \/ /\ queue # <<>>
        /\ cmd' = Head(queue) /\ queue' = Tail(queue)
        /\ net' = "cmd"
     \/ /\ queue = <<>>
        /\ net' = "recv"
        /\ UNCHANGED <<cmd, queue>>
  /\ UNCHANGED <<state, link, shutdown, config, ui, lines, asked>>

NetStep(here, next) ==
  /\ Net(here) /\ net' = next
  /\ UNCHANGED <<queue, config, ui, lines, asked>>

(* network_thread_process_ui_command, by the command. *)
Handle(c, next) ==
  /\ cmd \in c
  /\ NetStep("cmd", next)
  /\ UNCHANGED <<state, link, cmd>>

HandleConnect ==
  /\ Handle({"connect"}, IF state = "CONNECTING" THEN "dial" ELSE "recv")
  /\ UNCHANGED shutdown

HandleAuth ==
  /\ Handle({"auth"}, IF sock = "null" THEN "recv" ELSE "send")
  /\ UNCHANGED shutdown


HandleDisconnect ==
  /\ Handle({"disconnect"}, IF sock = "null" THEN "recv" ELSE "send")
  /\ UNCHANGED shutdown

(* Mutant: the network thread does not look at the state again. *)
HandleTalkUnchecked ==
  /\ Handle({"chat", "users"}, IF sock # "null" THEN "send" ELSE "recv")
  /\ UNCHANGED shutdown

HandleTalk ==
  /\ Handle({"chat", "users"},
            IF sock # "null" /\ state = "AUTHENTICATED" THEN "send" ELSE "recv")
  /\ UNCHANGED shutdown

(* Mutant: the command is not known. *)
HandleShutdownUnknown ==
  /\ Handle({"shutdown"}, "recv")
  /\ UNCHANGED shutdown

HandleShutdown ==
  /\ Handle({"shutdown"}, "recv")
  /\ shutdown' = TRUE

(* network_thread_connect_to_server: the old socket goes, a new one dials.
   The answer, a refusal, or a timeout comes; a shutdown gives up. *)
Dial ==
  /\ NetStep("dial", "dialing")
  /\ sock' = "dialing" /\ session' = FALSE /\ pending' = 0
  /\ UNCHANGED <<state, shutdown, cmd>>

(* client_notify_connection_result, then for a reconnect the login with the
   configured name. *)
DialSucceeds ==
  /\ Net("dialing") /\ sock = "dialing"
  /\ sock' = "up" /\ Change("CONNECTED")
  /\ \/ cmd = "connect" /\ net' = "recv" /\ UNCHANGED cmd
     \/ cmd = "redial" /\ ~named /\ net' = "head" /\ UNCHANGED cmd
     \/ cmd = "redial" /\ named /\ net' = "send" /\ cmd' = "relogin"
  /\ UNCHANGED <<session, pending, shutdown, queue, config, ui, lines, asked>>

DialFails ==
  /\ NetStep("dialing", "failed")
  /\ Change("DISCONNECTED")
  /\ UNCHANGED <<link, shutdown, cmd>>

FailedDrop ==
  /\ NetStep("failed", IF cmd = "connect" THEN "recv" ELSE "head")
  /\ DropLink
  /\ UNCHANGED <<state, shutdown, cmd>>

(* A message is sent.  What follows depends on what was sent and on how it
   ended; a login request that was sent waits for its answer. *)
AfterSend(result) ==
  CASE cmd = "disconnect"                       -> "lost"
    [] cmd = "auth" /\ result = "ok"            -> "recv"
    [] cmd = "relogin" /\ result = "ok"         -> "head"
    [] cmd \in {"auth", "relogin"}              -> "authFailed"
    [] result = "lost"                          -> "lost"
    [] cmd = "ack"                              -> "tick"
    [] OTHER                                    -> "recv"

SendOk ==
  /\ sock = "up"
  /\ NetStep("send", AfterSend("ok"))
  /\ pending' = IF cmd \in {"auth", "relogin"} THEN pending + 1 ELSE pending
  /\ UNCHANGED <<state, sock, session, shutdown, cmd>>

SendFails ==
  /\ NetStep("send", AfterSend("error"))
  /\ UNCHANGED <<state, link, shutdown, cmd>>

SendLost ==
  /\ sock \in {"up", "down"}
  /\ NetStep("send", AfterSend("lost"))
  /\ sock' = "down"
  /\ UNCHANGED <<state, session, pending, shutdown, cmd>>

(* client_handle_authentication_result after a send that failed, or after
   the server refused. *)
AuthFailed ==
  /\ Net("authFailed")
  /\ Change("CONNECTED")
  /\ net' = CASE cmd = "auth" -> "recv" [] cmd = "relogin" -> "head"
              [] OTHER -> "tick"
  /\ UNCHANGED <<link, shutdown, queue, config, ui, cmd, lines, asked>>

(* The tests before a receive, then the receive; cmd no longer matters. *)
Recv ==
  /\ Net("recv")
  /\ net' = IF sock # "null" /\ IsConnected THEN "read" ELSE "tick"
  /\ cmd' = "none"
  /\ UNCHANGED <<state, link, shutdown, queue, config, ui, lines, asked>>

(* No data, or a message that only makes an event for the screen. *)
ReadOther ==
  /\ sock \in {"up", "null"}
  /\ NetStep("read", "tick")
  /\ UNCHANGED <<state, link, shutdown, cmd>>

(* The server accepts the first login of a connection. *)
ReadAccept ==
  /\ sock = "up" /\ pending > 0 /\ ~session
  /\ NetStep("read", "tick")
  /\ session' = TRUE /\ pending' = pending - 1
  /\ Change("AUTHENTICATED")
  /\ UNCHANGED <<sock, shutdown, cmd>>

(* An error message: it is the answer to a login if one is under way. *)
ReadRefusal ==
  /\ sock = "up" /\ pending > 0
  /\ NetStep("read", IF state = "AUTHENTICATING" THEN "authFailed" ELSE "tick")
  /\ pending' = pending - 1
  /\ UNCHANGED <<state, sock, session, shutdown, cmd>>

ReadHeartbeat ==
  /\ sock = "up"
  /\ NetStep("read", "send")
  /\ cmd' = "ack"
  /\ UNCHANGED <<state, link, shutdown>>

ReadBye ==
  /\ sock = "up"
  /\ NetStep("read", "lost")
  /\ UNCHANGED <<state, link, shutdown, cmd>>

ReadFails ==
  /\ NetStep("read", "lost")
  /\ sock' = IF sock = "null" THEN "null" ELSE "down"
  /\ UNCHANGED <<state, session, pending, shutdown, cmd>>

(* network_thread_handle_connection_lost: the state, the socket, and the
   state again. *)
Lost1 ==
  /\ NetStep("lost", "lost2")
  /\ Change("DISCONNECTED")
  /\ UNCHANGED <<link, shutdown, cmd>>

Lost2 ==
  /\ NetStep("lost2", "lost3")
  /\ DropLink
  /\ UNCHANGED <<state, shutdown, cmd>>

(* Mutant: the client does not ask to be reconnected. *)
Lost3Never ==
  /\ NetStep("lost3", "tick")
  /\ UNCHANGED <<state, link, shutdown, cmd>>

Lost3 ==
  /\ NetStep("lost3", "tick")
  /\ \/ AutoReconnect /\ ~shutdown /\ Change("RECONNECTING")
     \/ (~AutoReconnect \/ shutdown) /\ UNCHANGED state
  /\ UNCHANGED <<link, shutdown, cmd>>

(* network_thread_check_reconnect: not yet, or now. *)
TickNothing ==
  /\ NetStep("tick", "head")
  /\ UNCHANGED <<state, link, shutdown, cmd>>

Redial ==
  /\ AutoReconnect /\ state = "RECONNECTING"
  /\ NetStep("tick", "dial")
  /\ cmd' = "redial"
  /\ UNCHANGED <<state, link, shutdown>>

NetworkThread ==
  \/ NetHead \/ NetPop
  \/ HandleConnect \/ HandleAuth \/ HandleDisconnect \/ HandleTalk
  \/ HandleShutdown
  \/ Dial \/ DialSucceeds \/ DialFails \/ FailedDrop
  \/ SendOk \/ SendFails \/ SendLost \/ AuthFailed
  \/ Recv \/ ReadOther \/ ReadAccept \/ ReadRefusal \/ ReadHeartbeat
  \/ ReadBye \/ ReadFails
  \/ Lost1 \/ Lost2 \/ Lost3 \/ TickNothing \/ Redial

-----------------------------------------------------------------------------
Init ==
  /\ state = "DISCONNECTED"
  /\ sock = "null" /\ session = FALSE /\ pending = 0
  /\ shutdown = FALSE /\ queue = <<>>
  /\ named \in BOOLEAN /\ capacity \in Capacities
  /\ ui = "boot" /\ net = "unborn" /\ cmd = "none" /\ lines = 0
  /\ asked = FALSE

(* The process has ended, or died. *)
Over ==
  /\ (ui = "ended" /\ net = "gone") \/ net = "crashed"
  /\ UNCHANGED vars

Next == UiThread \/ UserLine \/ Sigint \/ NetworkThread \/ Over

Spec == Init /\ [][Next]_vars

(* Both threads run: a dial ends, with its timeout if nothing else, and so
   does a send.  Nobody has to type anything, and the server has to answer
   nothing. *)
FairSpec == Spec /\ WF_vars(UiThread) /\ WF_vars(NetworkThread)

(* And the reconnect interval passes again and again. *)
RetrySpec == FairSpec /\ SF_vars(Redial)

-----------------------------------------------------------------------------
(* Properties *)

(* The types of the variables. *)
TypeOK ==
  /\ state \in States
  /\ sock \in {"null", "dialing", "up", "down"}
  /\ session \in BOOLEAN /\ pending \in Nat
  /\ shutdown \in BOOLEAN /\ named \in BOOLEAN
  /\ capacity \in Capacities
  /\ queue \in Seq(Commands) /\ Len(queue) <= capacity
  /\ ui \in {"boot", "loop", "body", "connect1", "connect2", "connect3",
             "auth1", "auth2", "auth3", "disconnect1", "disconnect2",
             "disconnect3", "disconnect4", "chat", "users", "timeout",
             "exit", "join", "destroy", "free", "ended"}
  /\ net \in {"unborn", "head", "pop", "cmd", "dial", "dialing", "failed",
              "send", "authFailed", "recv", "read", "lost", "lost2", "lost3",
              "tick", "gone", "crashed"}
  /\ cmd \in Commands \cup {"none", "relogin", "ack", "redial"}
  /\ lines \in Nat /\ asked \in BOOLEAN

(* There were as many lines and timeouts as the command queue can hold: it may
   have been full, and then the UI thread destroys the socket itself. *)
MayOverrun == lines >= capacity

(* The client takes itself to be logged in only on a connection on which the
   server accepted it, except while the network thread is tearing that
   connection down or the client is ending: a reconnect, an answer read late
   or a second login never leave it in an old session.  With a full queue the
   UI thread may: the answer to a login overtakes its disconnect. *)
AuthenticatedTruthful ==
  state = "AUTHENTICATED" =>
    session \/ net \in {"lost3", "gone", "crashed"} \/ shutdown \/ MayOverrun

(* A chat text or a list request, however long it was queued, is only sent on
   a connection on which the server accepted a login. *)
TalkInSession == net = "send" /\ cmd \in {"chat", "users"} => session \/ sock = "null"

Broken == net = "crashed"

(* As long as client_destroy has not freed the client, the UI thread never
   destroys the socket under the network thread unless the command queue may
   have been full.  client_destroy itself does: see Destroy. *)
SocketSafe == Broken => MayOverrun \/ ui = "ended"


(* "Auto-reconnect enabled, will retry" (client.c:1177), said when a dial
   failed: the network thread dials again after a redial that failed. *)
RetriesGoOn ==
  (net = "failed" /\ cmd = "redial") ~> (net = "dial" \/ shutdown \/ Broken)

(* Ctrl+C ends the network thread, if not the whole process, even when it
   comes before client_start clears the flag: the shutdown command is still in
   the queue. *)
SigintStopsNetwork ==
  (shutdown \/ (ui = "boot" /\ asked)) ~> (net = "gone" \/ Broken)

(* "Connected" of client_state_t: there is a connection. *)
ConnectedHasSocket ==
  IsConnected /\ net = "head" /\ ~shutdown => sock # "null"


=============================================================================
