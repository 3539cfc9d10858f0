-------------------------- MODULE ChatClientProofs --------------------------
(***************************************************************************)
(* Proofs about the two threads of the client, for every queue capacity    *)
(* and every number of lines.                                              *)
(***************************************************************************)
EXTENDS ChatClient, SequenceTheorems, TLAPS

(* The session invariant.  A chat is sent after a look at the state, so the
   state has to tell the truth about the connection: a client that takes
   itself to be logged in and has a socket has a session on it.  This needs
   in turn that no dial, which throws a session away, is under way then. *)
Truthful == state = "AUTHENTICATED" /\ sock # "null" => session
Dials == net \in {"dial", "dialing", "failed"} => state # "AUTHENTICATED"
SessionInv == Truthful /\ Dials /\ TalkInSession

(* A change by the UI thread never makes a client authenticated. *)
LEMMA UiChangeKeeps ==
  ASSUME NEW here, NEW s, NEW next, s # "AUTHENTICATED",
         SessionInv, UiChange(here, s, next)
  PROVE  SessionInv'
  BY DEF UiChange, Ui, Change, link, SessionInv, Truthful, Dials, TalkInSession

LEMMA PushKeeps ==
  ASSUME NEW here, NEW c, NEW full, SessionInv, Push(here, c, full)
  PROVE  SessionInv'
  BY DEF Push, link, SessionInv, Truthful, Dials, TalkInSession

LEMMA LineKeeps ==
  ASSUME NEW next, SessionInv, Line(next)
  PROVE  SessionInv'
  BY DEF Line, link, SessionInv, Truthful, Dials, TalkInSession

LEMMA UiStep == SessionInv /\ UiThread => SessionInv'
<1> SUFFICES ASSUME SessionInv, UiThread PROVE SessionInv'
  OBVIOUS
<1>1. CASE Start
  BY <1>1 DEF Start, Ui, link, SessionInv, Truthful, Dials, TalkInSession
<1>2. CASE UiLoop
  BY <1>2 DEF UiLoop, link, SessionInv, Truthful, Dials, TalkInSession
<1>3. CASE UiNothing
  BY <1>3 DEF UiNothing, Ui, link, SessionInv, Truthful, Dials, TalkInSession
<1>4. CASE ConnectChange \/ ConnectUndo
  BY <1>4, UiChangeKeeps DEF ConnectChange, ConnectUndo
<1>5. CASE ConnectPush \/ AuthPush \/ DisconnectPush
  BY <1>5, PushKeeps DEF ConnectPush, AuthPush, DisconnectPush
<1>6. CASE AuthChange \/ AuthUndo
  BY <1>6, UiChangeKeeps DEF AuthChange, AuthUndo
<1>7. CASE DisconnectChange \/ DisconnectForcedChange
  BY <1>7, UiChangeKeeps DEF DisconnectChange, DisconnectForcedChange
<1>8. CASE DisconnectForced
  BY <1>8 DEF DisconnectForced, Ui, DropLink, Holding, SessionInv, Truthful,
              Dials, TalkInSession
<1>9. CASE ChatPush \/ UsersPush \/ TimeoutPush
  BY <1>9, PushKeeps DEF ChatPush, UsersPush, TimeoutPush
<1>10. CASE Exit
  BY <1>10 DEF Exit, link, SessionInv, Truthful, Dials, TalkInSession
<1>11. CASE Joined
  BY <1>11 DEF Joined, Ui, DropLink, Change, SessionInv, Truthful, Dials,
               TalkInSession
<1>12. CASE Destroy
  BY <1>12 DEF Destroy, Ui, DropLink, SessionInv, Truthful, Dials,
               TalkInSession
<1>13. QED
  BY <1>1, <1>2, <1>3, <1>4, <1>5, <1>6, <1>7, <1>8, <1>9, <1>10, <1>11,
     <1>12 DEF UiThread

LEMMA LinesStep == SessionInv /\ (UserLine \/ Sigint) => SessionInv'
<1> SUFFICES ASSUME SessionInv, UserLine \/ Sigint PROVE SessionInv'
  OBVIOUS
<1>1. CASE UserLine
  BY <1>1, LineKeeps DEF UserLine, ConnectLine, AuthLine, DisconnectLine,
                         TalkLine, HeartbeatTimeout
<1>2. CASE Sigint
  BY <1>2 DEF Sigint, link, SessionInv, Truthful, Dials, TalkInSession
<1>3. QED
  BY <1>1, <1>2

LEMMA NetworkStep == SessionInv /\ NetworkThread => SessionInv'
<1> SUFFICES ASSUME SessionInv, NetworkThread PROVE SessionInv'
  OBVIOUS
<1> USE DEF SessionInv, Truthful, Dials, TalkInSession
<1>1. CASE NetHead
  BY <1>1 DEF NetHead, Net, DropLink, link
<1>2. CASE NetPop
  BY <1>2 DEF NetPop, Net, link
<1>3. CASE HandleConnect \/ HandleAuth \/ HandleDisconnect \/ HandleShutdown
  BY <1>3 DEF HandleConnect, HandleAuth, HandleDisconnect, HandleShutdown,
              Handle, NetStep, Net, link
<1>4. CASE HandleTalk
  BY <1>4 DEF HandleTalk, Handle, NetStep, Net, link
<1>5. CASE Dial \/ FailedDrop
  BY <1>5 DEF Dial, FailedDrop, NetStep, Net, DropLink
<1>6. CASE DialSucceeds
  BY <1>6 DEF DialSucceeds, Net, Change
<1>7. CASE DialFails
  BY <1>7 DEF DialFails, NetStep, Net, Change, link
<1>8. CASE SendOk \/ SendFails \/ SendLost
  BY <1>8 DEF SendOk, SendFails, SendLost, AfterSend, NetStep, Net, link
<1>9. CASE AuthFailed
  BY <1>9 DEF AuthFailed, Net, Change, link
<1>10. CASE Recv
  BY <1>10 DEF Recv, Net, link
<1>11. CASE ReadOther \/ ReadRefusal \/ ReadHeartbeat \/ ReadBye \/ ReadFails
  BY <1>11 DEF ReadOther, ReadRefusal, ReadHeartbeat, ReadBye, ReadFails,
               NetStep, Net, link
<1>12. CASE ReadAccept
  BY <1>12 DEF ReadAccept, NetStep, Net, Change
<1>13. CASE Lost1 \/ Lost2
  BY <1>13 DEF Lost1, Lost2, NetStep, Net, Change, DropLink, link
<1>14. CASE Lost3
  BY <1>14 DEF Lost3, NetStep, Net, Change, link
<1>15. CASE TickNothing \/ Redial
  BY <1>15 DEF TickNothing, Redial, NetStep, Net, link
<1>16. QED
  BY <1>1, <1>2, <1>3, <1>4, <1>5, <1>6, <1>7, <1>8, <1>9, <1>10, <1>11,
     <1>12, <1>13, <1>14, <1>15 DEF NetworkThread

(* However the two threads interleave, and however long a chat text or a list
   request waited in the queue across lost and new connections, it is only
   sent on a connection on which the server accepted a login. *)
THEOREM TalksInSession == Spec => []TalkInSession
<1>1. Init => SessionInv
  BY DEF Init, SessionInv, Truthful, Dials, TalkInSession
<1>2. SessionInv /\ [Next]_vars => SessionInv'
  <2>1. SessionInv /\ Over => SessionInv'
    BY DEF Over, vars, link, SessionInv, Truthful, Dials, TalkInSession
  <2>2. SessionInv /\ UNCHANGED vars => SessionInv'
    BY DEF vars, link, SessionInv, Truthful, Dials, TalkInSession
  <2>3. QED
    BY <2>1, <2>2, UiStep, LinesStep, NetworkStep DEF Next
<1>3. SessionInv => TalkInSession
  BY DEF SessionInv
<1>4. QED
  BY <1>1, <1>2, <1>3, PTL DEF Spec

-----------------------------------------------------------------------------
(* Type correctness. *)

UiSteps == {"boot", "loop", "body", "connect1", "connect2", "connect3",
            "auth1", "auth2", "auth3", "disconnect1", "disconnect2",
            "disconnect3", "disconnect4", "chat", "users", "timeout",
            "exit", "join", "destroy", "free", "ended"}

NetSteps == {"unborn", "head", "pop", "cmd", "dial", "dialing", "failed",
             "send", "authFailed", "recv", "read", "lost", "lost2", "lost3",
             "tick", "gone", "crashed"}

LEMMA ChangeType ==
  ASSUME NEW s \in States, state \in States, Change(s)
  PROVE  state' \in States
BY DEF Change

LEMMA UiChangeType ==
  ASSUME TypeOK, NEW here, NEW s \in States, NEW next \in UiSteps,
         UiChange(here, s, next), named' \in BOOLEAN, UNCHANGED capacity
  PROVE  TypeOK'
<1>1. state' \in States
  BY ChangeType DEF UiChange, TypeOK
<1>2. QED
  BY <1>1 DEF UiChange, Ui, link, TypeOK, UiSteps

LEMMA AppendFits ==
  ASSUME TypeOK, NEW c \in Commands
  PROVE  /\ Len(queue) \in Nat /\ capacity \in Nat
         /\ Append(queue, c) \in Seq(Commands)
         /\ Len(Append(queue, c)) = Len(queue) + 1
<1>1. queue \in Seq(Commands) /\ capacity \in Nat
  BY ClientAssumption DEF TypeOK
<1>2. QED
  BY <1>1, AppendProperties, LenProperties

LEMMA PushType ==
  ASSUME TypeOK, NEW here, NEW c \in Commands, NEW full \in UiSteps,
         Push(here, c, full)
  PROVE  TypeOK'
<1>1. queue' \in Seq(Commands) /\ Len(queue') <= capacity
  <2>1. CASE UNCHANGED queue
    BY <2>1 DEF TypeOK
  <2>2. CASE ~QueueFull /\ queue' = Append(queue, c)
    BY <2>2, AppendFits DEF QueueFull
  <2>3. QED
    BY <2>1, <2>2 DEF Push
<1>2. QED
  BY <1>1 DEF Push, link, config, TypeOK, UiSteps

LEMMA UiType == ASSUME TypeOK, UiThread PROVE TypeOK'
<1>1. /\ {"CONNECTING", "DISCONNECTED", "AUTHENTICATING", "CONNECTED",
         "DISCONNECTING"} \subseteq States
      /\ {"connect", "auth", "disconnect", "chat", "users"} \subseteq Commands
      /\ {"connect2", "connect3", "loop", "auth2", "auth3", "disconnect2",
         "disconnect3", "disconnect4"} \subseteq UiSteps
  BY DEF States, Commands, UiSteps
<1>2. CASE Start \/ UiLoop \/ UiNothing
  BY <1>2 DEF Start, UiLoop, UiNothing, Ui, link, config, TypeOK
<1>3. CASE ConnectChange \/ ConnectUndo \/ AuthUndo \/ DisconnectChange
           \/ DisconnectForcedChange
  <2>1. UNCHANGED config
    BY <1>3 DEF ConnectChange, ConnectUndo, AuthUndo, DisconnectChange,
                DisconnectForcedChange
  <2>2. named' \in BOOLEAN /\ UNCHANGED capacity
    BY <2>1 DEF config, TypeOK
  <2>3. QED
    BY <1>1, <1>3, <2>2, UiChangeType
       DEF ConnectChange, ConnectUndo, AuthUndo, DisconnectChange,
           DisconnectForcedChange
<1>4. CASE AuthChange
  <2>1. named' \in BOOLEAN /\ UNCHANGED capacity
    BY <1>4 DEF AuthChange
  <2>2. QED
    BY <1>1, <1>4, <2>1, UiChangeType DEF AuthChange
<1>5. CASE ConnectPush \/ AuthPush \/ DisconnectPush \/ ChatPush \/ UsersPush
           \/ TimeoutPush
  BY <1>1, <1>5, PushType DEF ConnectPush, AuthPush, DisconnectPush, ChatPush,
                              UsersPush, TimeoutPush
<1>6. CASE DisconnectForced
  <2>1. net' \in NetSteps
    BY <1>6 DEF DisconnectForced, TypeOK, NetSteps
  <2>2. QED
    BY <1>6, <2>1 DEF DisconnectForced, Ui, DropLink, config, TypeOK, NetSteps
<1>7. CASE Exit
  BY <1>7 DEF Exit, link, config, TypeOK
<1>8. CASE Joined
  <2>1. state' \in States
    BY <1>1, <1>8, ChangeType DEF Joined, TypeOK
  <2>2. QED
    BY <1>8, <2>1 DEF Joined, Ui, DropLink, config, TypeOK
<1>9. CASE Destroy
  <2>1. net' \in NetSteps
    BY <1>9 DEF Destroy, NetSteps
  <2>2. QED
    BY <1>9, <2>1 DEF Destroy, Ui, DropLink, config, TypeOK, NetSteps
<1>10. QED
  BY <1>2, <1>3, <1>4, <1>5, <1>6, <1>7, <1>8, <1>9 DEF UiThread

LEMMA LinesType == ASSUME TypeOK, UserLine \/ Sigint PROVE TypeOK'
<1>1. ASSUME NEW next \in UiSteps, Line(next), UNCHANGED asked
      PROVE  TypeOK'
  BY <1>1 DEF Line, Ui, link, config, TypeOK, UiSteps
<1>2. CASE UserLine
  BY <1>1, <1>2 DEF UserLine, ConnectLine, AuthLine, DisconnectLine, TalkLine,
                    HeartbeatTimeout, UiSteps
<1>3. CASE Sigint
  <2>1. "shutdown" \in Commands
    BY DEF Commands
  <2>2. queue' \in Seq(Commands) /\ Len(queue') <= capacity
    <3>1. CASE QueueFull
      BY <1>3, <3>1 DEF Sigint, TypeOK
    <3>2. CASE ~QueueFull
      BY <1>3, <2>1, <3>2, AppendFits DEF Sigint, QueueFull
    <3>3. QED
      BY <3>1, <3>2
  <2>3. QED
    BY <1>3, <2>2 DEF Sigint, link, config, TypeOK
<1>4. QED
  BY <1>2, <1>3

(* What a step of the network thread leaves alone keeps its type. *)
LEMMA NetKeepsType ==
  ASSUME TypeOK, net' \in NetSteps,
         UNCHANGED <<queue, named, capacity, ui, lines, asked>>,
         UNCHANGED state, UNCHANGED cmd, session' \in BOOLEAN,
         sock' \in {"null", "dialing", "up", "down"}, pending' \in Nat,
         shutdown' \in BOOLEAN
  PROVE  TypeOK'
<1>1. UNCHANGED queue /\ UNCHANGED named /\ UNCHANGED capacity /\ UNCHANGED ui
      /\ UNCHANGED lines /\ UNCHANGED asked
  OBVIOUS
<1>2. named' \in BOOLEAN /\ asked' \in BOOLEAN
  BY <1>1, Zenon DEF TypeOK
<1>3. QED
  BY <1>1, <1>2 DEF TypeOK, NetSteps

LEMMA NetworkType == ASSUME TypeOK, NetworkThread PROVE TypeOK'
<1> USE DEF TypeOK, NetStep, Net, link, config
<1>1. CASE NetHead \/ Dial \/ FailedDrop
  <2>1. session' = session \/ session' = FALSE
    BY <1>1 DEF NetHead, Dial, FailedDrop, DropLink
  <2>2. session' \in BOOLEAN /\ shutdown' \in BOOLEAN
    <3>1. session \in BOOLEAN /\ shutdown \in BOOLEAN
      OBVIOUS
    <3>2. shutdown' = shutdown
      BY <1>1 DEF NetHead, Dial, FailedDrop
    <3>3. session' \in BOOLEAN
      BY <2>1, <3>1, Zenon
    <3>4. QED
      BY <3>1, <3>2, <3>3
  <2>3. net' \in NetSteps /\ UNCHANGED state /\ UNCHANGED cmd
        /\ UNCHANGED <<queue, named, capacity, ui, lines, asked>>
    BY <1>1 DEF NetHead, Dial, FailedDrop, NetSteps
  <2>4. sock' \in {"null", "dialing", "up", "down"} /\ pending' \in Nat
    BY <1>1 DEF NetHead, Dial, FailedDrop, DropLink
  <2>5. QED
    BY <2>2, <2>3, <2>4, NetKeepsType
<1>2. CASE NetPop
  <2>1. CASE queue = <<>>
    BY <1>2, <2>1 DEF NetPop
  <2>2. CASE queue # <<>>
    <3>1. /\ Head(queue) \in Commands /\ Tail(queue) \in Seq(Commands)
          /\ Len(Tail(queue)) = Len(queue) - 1 /\ Len(queue) \in Nat
      BY <2>2, HeadTailProperties, LenProperties
    <3>2. Len(Tail(queue)) <= capacity
      BY <3>1, ClientAssumption
    <3>3. QED
      BY <1>2, <2>2, <3>1, <3>2 DEF NetPop
  <2>3. QED
    BY <2>1, <2>2
<1>3. CASE HandleConnect \/ HandleAuth \/ HandleDisconnect \/ HandleTalk
           \/ HandleShutdown
  <2>1. net' \in {"dial", "recv", "send"} /\ UNCHANGED <<state, link, cmd>>
        /\ UNCHANGED <<queue, config, ui, lines, asked>>
    BY <1>3 DEF HandleConnect, HandleAuth, HandleDisconnect, HandleTalk,
                HandleShutdown, Handle
  <2>2. shutdown' = shutdown \/ shutdown' = TRUE
    BY <1>3 DEF HandleConnect, HandleAuth, HandleDisconnect, HandleTalk,
                HandleShutdown
  <2>3. shutdown' \in BOOLEAN
    BY <2>2
  <2>4. /\ UNCHANGED state /\ session' \in BOOLEAN /\ UNCHANGED cmd
        /\ UNCHANGED <<queue, named, capacity, ui, lines, asked>>
        /\ sock' \in {"null", "dialing", "up", "down"} /\ pending' \in Nat
    BY <2>1
  <2>5. QED
    BY <2>1, <2>3, <2>4, NetKeepsType DEF NetSteps
<1>4. CASE DialSucceeds \/ DialFails \/ Lost1
  <2>1. {"CONNECTED", "DISCONNECTED"} \subseteq States
    BY DEF States
  <2>2. state' \in States
    BY <1>4, <2>1, ChangeType DEF DialSucceeds, DialFails, Lost1
  <2>3. QED
    BY <1>4, <2>2 DEF DialSucceeds, DialFails, Lost1
<1>5. CASE SendOk \/ SendFails \/ SendLost
  <2>1. \A x : AfterSend(x) \in NetSteps
    BY DEF AfterSend, NetSteps
  <2>2. net' \in NetSteps
    BY <1>5, <2>1 DEF SendOk, SendFails, SendLost
  <2>3. /\ UNCHANGED state /\ session' \in BOOLEAN /\ UNCHANGED cmd
        /\ UNCHANGED <<queue, named, capacity, ui, lines, asked>>
        /\ shutdown' \in BOOLEAN
        /\ sock' = sock \/ sock' = "down"
        /\ pending' = pending \/ pending' = pending + 1
    BY <1>5 DEF SendOk, SendFails, SendLost
  <2>4. pending' \in Nat /\ sock' \in {"null", "dialing", "up", "down"}
    BY <2>3
  <2>5. QED
    BY <2>2, <2>3, <2>4, NetKeepsType
<1>6. CASE AuthFailed
  <2>1. "CONNECTED" \in States
    BY DEF States
  <2>2. state' \in States
    BY <1>6, <2>1, ChangeType DEF AuthFailed
  <2>3. QED
    BY <1>6, <2>2 DEF AuthFailed
<1>7. CASE Recv
  BY <1>7 DEF Recv
<1>8. CASE ReadOther \/ ReadRefusal \/ ReadHeartbeat \/ ReadBye \/ ReadFails
  BY <1>8 DEF ReadOther, ReadRefusal, ReadHeartbeat, ReadBye, ReadFails
<1>9. CASE ReadAccept
  <2>1. state' \in States
    BY <1>9 DEF ReadAccept, Change, States
  <2>2. QED
    BY <1>9, <2>1 DEF ReadAccept
<1>10. CASE Lost2
  BY <1>10 DEF Lost2, DropLink
<1>11. CASE Lost3
  <2>1. state' \in States
    BY <1>11 DEF Lost3, Change, States
  <2>2. QED
    BY <1>11, <2>1 DEF Lost3
<1>12. CASE TickNothing \/ Redial
  BY <1>12 DEF TickNothing, Redial
<1>13. QED
  BY <1>1, <1>2, <1>3, <1>4, <1>5, <1>6, <1>7, <1>8, <1>9, <1>10, <1>11,
     <1>12 DEF NetworkThread

(* The state, the socket, the command queue within its capacity and the places
   of the two threads are well formed in every reachable state. *)
THEOREM ClientTypes == Spec => []TypeOK
<1>1. Init => TypeOK
  <2>1. Init => Len(queue) <= capacity /\ queue \in Seq(Commands)
    BY EmptySeq, ClientAssumption DEF Init
  <2>2. ASSUME Init
        PROVE  /\ state \in States /\ sock = "null" /\ session \in BOOLEAN
               /\ pending \in Nat /\ shutdown \in BOOLEAN /\ named \in BOOLEAN
               /\ asked \in BOOLEAN /\ lines \in Nat
    <3>1. /\ session = FALSE /\ shutdown = FALSE /\ named \in BOOLEAN /\ asked = FALSE
      BY <2>2, Zenon DEF Init
    <3>2. session \in BOOLEAN /\ shutdown \in BOOLEAN /\ asked \in BOOLEAN
      BY <3>1, Zenon
    <3>3. state \in States /\ sock = "null" /\ pending \in Nat /\ lines \in Nat
      BY <2>2 DEF Init, States
    <3>4. QED
      BY <3>1, <3>2, <3>3
  <2>3. Init => /\ capacity \in Capacities /\ ui = "boot" /\ net = "unborn"
                /\ cmd = "none"
    BY DEF Init
  <2>4. QED
    BY <2>1, <2>2, <2>3 DEF TypeOK
<1>2. TypeOK /\ [Next]_vars => TypeOK'
  <2>1. TypeOK /\ (Over \/ UNCHANGED vars) => TypeOK'
    BY DEF Over, vars, link, config, TypeOK
  <2>2. QED
    BY <2>1, UiType, LinesType, NetworkType DEF Next
<1>3. QED
  BY <1>1, <1>2, PTL DEF Spec

-----------------------------------------------------------------------------
(* The socket under the network thread. *)

(* A line is about to push its command. *)
Pushing == {"connect1", "connect2", "auth1", "auth2", "disconnect1",
            "disconnect2", "chat", "users", "timeout"}

(* The budget of the command queue: what is in it, or about to be, came from
   the lines and the timeouts so far, one command each, and from one Ctrl+C.  So
   a push that finds it full has seen as many of them as it can hold. *)
Budget ==
  /\ Len(queue) + (IF ui \in Pushing THEN 1 ELSE 0)
       <= lines + (IF asked THEN 1 ELSE 0)
  /\ ui = "disconnect3" => MayOverrun
  /\ SocketSafe

LEMMA PushBudget ==
  ASSUME TypeOK, Budget, NEW here \in Pushing, NEW c \in Commands,
         NEW full \in {"connect3", "auth3", "disconnect3", "loop"},
         Push(here, c, full)
  PROVE  Budget'
<1>1. /\ Len(queue) \in Nat /\ capacity \in Nat /\ lines \in Nat
      /\ Len(Append(queue, c)) = Len(queue) + 1
      /\ Len(queue) + 1 <= lines + (IF asked THEN 1 ELSE 0)
      /\ UNCHANGED <<lines, asked, capacity, net>>
  BY AppendFits DEF TypeOK, Budget, Push, config
<1>2. ui' \notin Pushing /\ ui # "ended" /\ net # "crashed"
  BY DEF Push, Pushing
<1>3. CASE ~QueueFull /\ queue' = Append(queue, c) /\ ui' = "loop"
  BY <1>1, <1>2, <1>3 DEF Budget, SocketSafe, Broken, MayOverrun
<1>4. CASE QueueFull /\ UNCHANGED queue
  <2>1. lines >= capacity
    BY <1>1, <1>4 DEF QueueFull
  <2>2. QED
    BY <1>1, <1>2, <1>4, <2>1 DEF Budget, SocketSafe, Broken, MayOverrun
<1>5. QED
  BY <1>3, <1>4 DEF Push

(* Other steps of the UI thread neither push nor come to the forced end of a
   disconnect. *)
LEMMA OtherBudget ==
  ASSUME TypeOK, Budget, UNCHANGED <<queue, lines, asked, capacity>>,
         ui' \in Pushing => ui \in Pushing,
         ui' = "disconnect3" => ui = "disconnect3",
         ui = "ended" => ui' = "ended",
         net' = "crashed" => net = "crashed" \/ MayOverrun \/ ui' = "ended"
  PROVE  Budget'
<1>1. Len(queue) \in Nat /\ lines \in Nat /\ capacity \in Nat
  BY LenProperties, ClientAssumption DEF TypeOK
<1>2. QED
  BY <1>1 DEF Budget, SocketSafe, Broken, MayOverrun

LEMMA UiBudget == ASSUME TypeOK, Budget, UiThread PROVE Budget'
<1>1. CASE ConnectPush \/ AuthPush \/ DisconnectPush \/ ChatPush \/ UsersPush
           \/ TimeoutPush
  <2>1. /\ {"connect", "auth", "disconnect", "chat", "users"} \subseteq Commands
        /\ {"connect2", "auth2", "disconnect2", "chat", "users", "timeout"}
             \subseteq Pushing
    BY DEF Commands, Pushing
  <2>2. QED
    BY <1>1, <2>1, PushBudget DEF ConnectPush, AuthPush, DisconnectPush, ChatPush,
                                  UsersPush, TimeoutPush
<1>2. CASE DisconnectForced
  <2>1. MayOverrun
    BY <1>2 DEF DisconnectForced, Ui, Budget
  <2>2. QED
    BY <1>2, <2>1, OtherBudget DEF DisconnectForced, Ui, config, Pushing
<1>3. CASE Start \/ UiLoop \/ UiNothing \/ Exit \/ Joined
  <2>1. /\ UNCHANGED <<queue, lines, asked, capacity>> /\ net' # "crashed"
        /\ ui' \notin Pushing /\ ui' # "disconnect3" /\ ui # "ended"
    BY <1>3 DEF Start, UiLoop, UiNothing, Exit, Joined, Ui, config, Pushing
  <2>2. QED
    BY <2>1, OtherBudget
<1>4. CASE ConnectChange \/ ConnectUndo \/ AuthChange \/ AuthUndo
           \/ DisconnectChange \/ DisconnectForcedChange
  <2>1. /\ UNCHANGED <<queue, lines, asked, capacity, net>>
        /\ ui' \in Pushing => ui \in Pushing
        /\ ui' # "disconnect3" /\ ui # "ended"
    BY <1>4 DEF ConnectChange, ConnectUndo, AuthChange, AuthUndo, DisconnectChange,
                DisconnectForcedChange, UiChange, Ui, config, Pushing
  <2>2. QED
    BY <2>1, OtherBudget
<1>5. CASE Destroy
  BY <1>5, OtherBudget DEF Destroy, Ui, config, Pushing
<1>6. QED
  BY <1>1, <1>2, <1>3, <1>4, <1>5 DEF UiThread

LEMMA LinesBudget == ASSUME TypeOK, Budget, UserLine \/ Sigint PROVE Budget'
<1>1. Len(queue) \in Nat /\ lines \in Nat /\ capacity \in Nat
  BY LenProperties, ClientAssumption DEF TypeOK
<1>2. ASSUME NEW next, Line(next), UNCHANGED asked, next # "disconnect3"
      PROVE  Budget'
  <2>1. ui = "body" /\ lines' = lines + 1 /\ ui' = next
        /\ UNCHANGED <<queue, capacity, net>>
    BY <1>2 DEF Line, Ui, config
  <2>2. ui \notin Pushing
    BY <2>1 DEF Pushing
  <2>3. QED
    BY <1>1, <1>2, <2>1, <2>2 DEF Budget, SocketSafe, Broken, MayOverrun
<1>3. CASE UserLine
  BY <1>2, <1>3 DEF UserLine, ConnectLine, AuthLine, DisconnectLine, TalkLine,
                    HeartbeatTimeout
<1>4. CASE Sigint
  <2>1. Len(queue') <= Len(queue) + 1 /\ Len(queue') \in Nat
    <3>1. "shutdown" \in Commands
      BY DEF Commands
    <3>2. Len(Append(queue, "shutdown")) = Len(queue) + 1
      BY <3>1, AppendFits
    <3>3. QED
      BY <1>1, <1>4, <3>2 DEF Sigint
  <2>2. ~asked /\ asked' /\ UNCHANGED <<lines, capacity, ui, net>>
    BY <1>4 DEF Sigint, config
  <2>3. QED
    BY <1>1, <2>1, <2>2 DEF Budget, SocketSafe, Broken, MayOverrun
<1>5. QED
  BY <1>3, <1>4

LEMMA NetworkBudget == ASSUME TypeOK, Budget, NetworkThread PROVE Budget'
<1>1. /\ UNCHANGED <<ui, lines, asked, capacity>> /\ net' # "crashed"
      /\ UNCHANGED queue \/ (queue # <<>> /\ queue' = Tail(queue))
  <2> USE DEF NetStep, Net, config
  <2>1. CASE NetHead \/ NetPop \/ Recv
    BY <2>1 DEF NetHead, NetPop, Recv
  <2>2. CASE HandleConnect \/ HandleAuth \/ HandleDisconnect \/ HandleTalk
             \/ HandleShutdown
    BY <2>2 DEF HandleConnect, HandleAuth, HandleDisconnect, HandleTalk,
                HandleShutdown, Handle
  <2>3. CASE Dial \/ DialSucceeds \/ DialFails \/ FailedDrop \/ AuthFailed
    BY <2>3 DEF Dial, DialSucceeds, DialFails, FailedDrop, AuthFailed
  <2>4. CASE SendOk \/ SendFails \/ SendLost
    BY <2>4 DEF SendOk, SendFails, SendLost, AfterSend
  <2>5. CASE ReadOther \/ ReadAccept \/ ReadRefusal \/ ReadHeartbeat \/ ReadBye
             \/ ReadFails
    BY <2>5 DEF ReadOther, ReadAccept, ReadRefusal, ReadHeartbeat, ReadBye,
                ReadFails
  <2>6. CASE Lost1 \/ Lost2 \/ Lost3 \/ TickNothing \/ Redial
    BY <2>6 DEF Lost1, Lost2, Lost3, TickNothing, Redial
  <2>7. QED
    BY <2>1, <2>2, <2>3, <2>4, <2>5, <2>6 DEF NetworkThread
<1>2. CASE UNCHANGED queue
  BY <1>1, <1>2, OtherBudget
<1>3. CASE queue # <<>> /\ queue' = Tail(queue)
  <2>1. Len(queue') = Len(queue) - 1 /\ Len(queue) \in Nat
    BY <1>3, HeadTailProperties, LenProperties DEF TypeOK
  <2>2. QED
    BY <1>1, <2>1 DEF Budget, SocketSafe, Broken, MayOverrun, TypeOK
<1>4. QED
  BY <1>1, <1>2, <1>3

(* Until client_destroy frees the client, the UI thread destroys the socket
   under the network thread only after as many lines and heartbeat timeouts as
   the command queue can hold, for a queue of any length. *)
THEOREM SocketIsSafe == Spec => []SocketSafe
<1>1. Init => Budget
  <2>1. Init => Len(queue) = 0 /\ lines = 0 /\ ~asked /\ ui = "boot" /\ net = "unborn"
    BY EmptySeq DEF Init
  <2>2. QED
    BY <2>1 DEF Budget, Pushing, SocketSafe, Broken
<1>2. TypeOK /\ Budget /\ [Next]_vars => Budget'
  <2>1. TypeOK /\ Budget /\ (Over \/ UNCHANGED vars) => Budget'
    BY DEF Over, vars, config, Budget, SocketSafe, Broken, MayOverrun
  <2>2. QED
    BY <2>1, UiBudget, LinesBudget, NetworkBudget DEF Next
<1>3. Budget => SocketSafe
  BY DEF Budget
<1>4. QED
  BY <1>1, <1>2, <1>3, ClientTypes, PTL DEF Spec

-----------------------------------------------------------------------------
(* What the client takes itself for. *)

(* A client that takes itself to be logged in without a socket has its network
   thread tear the connection down or has ended, unless the command queue may
   have been full.  Before client_start there is no login. *)
Dropped ==
  /\ ui = "boot" => net = "unborn" /\ state = "DISCONNECTED"
  /\ state = "AUTHENTICATED" /\ sock = "null" =>
       net \in {"lost3", "gone", "crashed"} \/ shutdown \/ MayOverrun

(* A step keeps this when it does not drop the socket of a client that takes
   itself to be logged in, nor goes on after it was dropped. *)
LEMMA DroppedKept ==
  ASSUME TypeOK, Dropped, lines' \in {lines, lines + 1}, UNCHANGED capacity,
         shutdown => shutdown',
         ui' = "boot" => ui = "boot" /\ UNCHANGED <<net, state>>,
         state' = "AUTHENTICATED" /\ sock' = "null" =>
           \/ /\ state = "AUTHENTICATED" /\ sock = "null"
              /\ net' = net
           \/ net' \in {"lost3", "gone", "crashed"} \/ shutdown' \/ MayOverrun
  PROVE  Dropped'
<1>1. lines \in Nat /\ capacity \in Nat
  BY ClientAssumption DEF TypeOK
<1>2. MayOverrun => MayOverrun'
  BY <1>1 DEF MayOverrun
<1>3. QED
  BY <1>2 DEF Dropped

LEMMA UiDropped == ASSUME TypeOK, Budget, Dropped, UiThread PROVE Dropped'
<1>1. CASE Start
  BY <1>1 DEF Start, Ui, link, Dropped
<1>2. CASE UiLoop \/ UiNothing \/ Exit
  <2>1. UNCHANGED <<lines, capacity, state, sock, net>>
    BY <1>2 DEF UiLoop, UiNothing, Exit, Ui, config, link
  <2>2. ui' # "boot"
    BY <1>2 DEF UiLoop, UiNothing, Exit, Ui
  <2>3. CASE UiLoop \/ UiNothing
    BY <2>1, <2>2, <2>3, DroppedKept DEF UiLoop, UiNothing
  <2>4. CASE Exit
    <3>1. shutdown => shutdown'
      BY <2>4, Zenon DEF Exit
    <3>2. QED
      BY <2>1, <2>2, <3>1, DroppedKept
  <2>5. QED
    BY <1>2, <2>3, <2>4
<1>3. CASE ConnectPush \/ AuthPush \/ DisconnectPush \/ ChatPush \/ UsersPush
           \/ TimeoutPush
  <2>1. /\ UNCHANGED <<lines, capacity, state, sock, net, shutdown>> /\ ui' # "boot"
    BY <1>3 DEF ConnectPush, AuthPush, DisconnectPush, ChatPush, UsersPush,
                TimeoutPush, Push, config, link
  <2>2. QED
    BY <2>1, DroppedKept
<1>4. CASE ConnectChange \/ ConnectUndo \/ AuthChange \/ AuthUndo
           \/ DisconnectChange \/ DisconnectForcedChange
  <2>1. /\ UNCHANGED <<lines, capacity, sock, net, shutdown>> /\ ui' # "boot"
        /\ state' = "AUTHENTICATED" => state = "AUTHENTICATED"
    BY <1>4 DEF ConnectChange, ConnectUndo, AuthChange, AuthUndo, DisconnectChange,
                DisconnectForcedChange, UiChange, Ui, Change, config, link
  <2>2. QED
    BY <2>1, DroppedKept
<1>5. CASE DisconnectForced
  <2>1. /\ UNCHANGED <<lines, capacity, state, shutdown>> /\ ui' # "boot"
        /\ MayOverrun
    BY <1>5 DEF DisconnectForced, Ui, config, Budget
  <2>2. QED
    BY <2>1, DroppedKept
<1>6. CASE Joined
  <2>1. /\ UNCHANGED <<lines, capacity, shutdown, net>> /\ ui' # "boot"
        /\ net' = "gone"
    BY <1>6 DEF Joined, Ui, config
  <2>2. QED
    BY <2>1, DroppedKept
<1>7. CASE Destroy
  <2>1. /\ UNCHANGED <<lines, capacity, shutdown>> /\ ui' # "boot"
        /\ net' \in {"gone", "crashed"}
    BY <1>7 DEF Destroy, Ui, config
  <2>2. QED
    BY <2>1, DroppedKept
<1>8. QED
  BY <1>1, <1>2, <1>3, <1>4, <1>5, <1>6, <1>7 DEF UiThread

LEMMA LinesDropped ==
  ASSUME TypeOK, Dropped, UserLine \/ Sigint
  PROVE  Dropped'
<1>1. ASSUME NEW next, Line(next), next # "boot"
      PROVE  Dropped'
  <2>1. /\ lines' = lines + 1 /\ UNCHANGED <<capacity, state, sock, net, shutdown>>
        /\ ui' # "boot"
    BY <1>1 DEF Line, Ui, config, link
  <2>2. QED
    BY <2>1, DroppedKept
<1>2. CASE UserLine
  BY <1>1, <1>2 DEF UserLine, ConnectLine, AuthLine, DisconnectLine, TalkLine,
                    HeartbeatTimeout
<1>3. CASE Sigint
  <2>1. UNCHANGED <<lines, capacity, state, sock, net, ui>> /\ shutdown'
    BY <1>3 DEF Sigint, config, link
  <2>2. QED
    BY <2>1, DroppedKept
<1>4. QED
  BY <1>2, <1>3

LEMMA NetworkDropped ==
  ASSUME TypeOK, AutoReconnect, SessionInv, Dropped, NetworkThread
  PROVE  Dropped'
<1>1. ui # "boot"
  <2>1. net # "unborn"
    BY DEF NetworkThread, NetHead, NetPop, HandleConnect, HandleAuth,
       HandleDisconnect, HandleTalk, HandleShutdown, Handle, Dial, DialSucceeds,
       DialFails, FailedDrop, SendOk, SendFails, SendLost, AuthFailed, Recv,
       ReadOther, ReadAccept, ReadRefusal, ReadHeartbeat, ReadBye, ReadFails, Lost1,
       Lost2, Lost3, TickNothing, Redial, NetStep, Net
  <2>2. QED
    BY <2>1 DEF Dropped
<1> USE DEF NetStep, Net, config, link
<1>2. ASSUME UNCHANGED <<lines, capacity, ui>>, shutdown => shutdown',
             state' = "AUTHENTICATED" => state = "AUTHENTICATED",
             sock' = "null" => sock = "null",
             net \notin {"lost3", "gone", "crashed"}
      PROVE  Dropped'
  <2>1. lines \in Nat /\ capacity \in Nat
    BY ClientAssumption DEF TypeOK
  <2>2. QED
    BY <1>1, <1>2, <2>1 DEF Dropped, MayOverrun
<1>3. CASE NetHead
  <2>1. UNCHANGED <<lines, capacity, ui, state, shutdown>>
    BY <1>3 DEF NetHead
  <2>2. CASE net' = "gone"
    BY <1>1, <2>1, <2>2, DroppedKept
  <2>3. CASE UNCHANGED link /\ net = "head"
    BY <1>2, <2>1, <2>3
  <2>4. QED
    BY <1>3, <2>2, <2>3 DEF NetHead
<1>4. CASE NetPop \/ Recv
  BY <1>2, <1>4 DEF NetPop, Recv
<1>5. CASE HandleConnect \/ HandleAuth \/ HandleDisconnect \/ HandleTalk
           \/ HandleShutdown
  BY <1>2, <1>5 DEF HandleConnect, HandleAuth, HandleDisconnect, HandleTalk,
                    HandleShutdown, Handle
<1>6. CASE Dial \/ DialSucceeds \/ DialFails \/ AuthFailed \/ Lost1
  BY <1>2, <1>6 DEF Dial, DialSucceeds, DialFails, AuthFailed, Lost1, Change
<1>7. CASE FailedDrop
  <2>1. state # "AUTHENTICATED" /\ UNCHANGED <<state, lines, capacity, ui, shutdown>>
    BY <1>7 DEF FailedDrop, SessionInv, Dials
  <2>2. QED
    BY <1>1, <2>1, DroppedKept
<1>8. CASE SendOk \/ SendFails \/ SendLost
  BY <1>2, <1>8 DEF SendOk, SendFails, SendLost
<1>9. CASE ReadOther \/ ReadRefusal \/ ReadHeartbeat \/ ReadBye \/ ReadFails
           \/ TickNothing \/ Redial
  BY <1>2, <1>9 DEF ReadOther, ReadRefusal, ReadHeartbeat, ReadBye, ReadFails,
                    TickNothing, Redial
<1>10. CASE ReadAccept
  <2>1. sock' = "up" /\ UNCHANGED <<lines, capacity, ui, shutdown>>
    BY <1>10 DEF ReadAccept
  <2>2. QED
    BY <1>1, <2>1, DroppedKept
<1>11. CASE Lost2
  <2>1. net' = "lost3" /\ UNCHANGED <<lines, capacity, ui, shutdown>>
    BY <1>11 DEF Lost2
  <2>2. QED
    BY <1>1, <2>1, DroppedKept
<1>12. CASE Lost3
  <2>1. UNCHANGED <<lines, capacity, ui, shutdown>>
    BY <1>12 DEF Lost3
  <2>2. state' # "AUTHENTICATED" \/ shutdown'
    BY <1>12 DEF Lost3, Change, Allowed
  <2>3. QED
    BY <1>1, <2>1, <2>2, DroppedKept
<1>13. QED
  BY <1>3, <1>4, <1>5, <1>6, <1>7, <1>8, <1>9, <1>10, <1>11, <1>12
     DEF NetworkThread

LEMMA SessionStep == SessionInv /\ [Next]_vars => SessionInv'
<1>1. SessionInv /\ Over => SessionInv'
  BY DEF Over, vars, link, SessionInv, Truthful, Dials, TalkInSession
<1>2. SessionInv /\ UNCHANGED vars => SessionInv'
  BY DEF vars, link, SessionInv, Truthful, Dials, TalkInSession
<1>3. QED
  BY <1>1, <1>2, UiStep, LinesStep, NetworkStep DEF Next

LEMMA BudgetStep == TypeOK /\ Budget /\ [Next]_vars => Budget'
<1>1. TypeOK /\ Budget /\ (Over \/ UNCHANGED vars) => Budget'
  BY DEF Over, vars, config, Budget, SocketSafe, Broken, MayOverrun
<1>2. QED
  BY <1>1, UiBudget, LinesBudget, NetworkBudget DEF Next

(* With automatic reconnection, the client's default, the client takes itself
   to be logged in only on a connection on which the server accepted a login,
   except while that connection is torn down, the client ends, or the command
   queue may have been full: for a queue of any length and any number of lines. *)
THEOREM AuthenticatedIsTruthful ==
  ASSUME AutoReconnect
  PROVE  Spec => []AuthenticatedTruthful
<1> DEFINE I == SessionInv /\ Budget /\ Dropped
<1>1. Init => I
  <2>1. Init => Len(queue) = 0 /\ lines = 0 /\ ~asked /\ ui = "boot" /\ net = "unborn"
    BY EmptySeq DEF Init
  <2>2. Init => Budget
    BY <2>1 DEF Budget, Pushing, SocketSafe, Broken
  <2>3. Init => Dropped /\ SessionInv
    BY DEF Init, Dropped, SessionInv, Truthful, Dials, TalkInSession
  <2>4. QED
    BY <2>2, <2>3
<1>2. TypeOK /\ I /\ [Next]_vars => I'
  <2> SUFFICES ASSUME TypeOK, I, [Next]_vars PROVE I'
    OBVIOUS
  <2>1. SessionInv' /\ Budget'
    BY SessionStep, BudgetStep
  <2>2. Over \/ UNCHANGED vars => Dropped'
    <3>1. UNCHANGED vars => Dropped'
      BY DEF vars, link, config, Dropped, MayOverrun
    <3>2. QED
      BY <3>1 DEF Over
  <2>3. UiThread => Dropped'
    BY UiDropped
  <2>4. UserLine \/ Sigint => Dropped'
    BY LinesDropped
  <2>5. NetworkThread => Dropped'
    BY AutoReconnect, NetworkDropped
  <2>6. Dropped'
    BY <2>2, <2>3, <2>4, <2>5 DEF Next
  <2>7. QED
    BY <2>1, <2>6
<1>3. I => AuthenticatedTruthful
  BY DEF AuthenticatedTruthful, SessionInv, Truthful, Dropped
<1>4. QED
  BY <1>1, <1>2, <1>3, ClientTypes, PTL DEF Spec
=============================================================================
