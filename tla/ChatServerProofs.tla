-------------------------- MODULE ChatServerProofs --------------------------
(***************************************************************************)
(* Theorems about ChatServer, for any number of slots, names, ids and      *)
(* nested removals, and any behaviour of the network.                      *)
(***************************************************************************)
EXTENDS ChatServer, SequenceTheorems, FiniteSetTheorems, TLAPS

(* The pending calls are well formed, and so is what is left of them once
   the innermost one has returned. *)
LEMMA HeadCall ==
  ASSUME todo \in Seq(Call), todo # <<>>
  PROVE  /\ Head(todo) \in Call
         /\ Tail(todo) \in Seq(Call)
BY HeadTailProperties

(* A call in front of well-formed calls. *)
LEMMA PushCall ==
  ASSUME NEW c \in Call, NEW rest \in Seq(Call)
  PROVE  <<c>> \o rest \in Seq(Call)
<1>1. <<c>> \in Seq(Call)
  OBVIOUS
<1>2. QED
  BY <1>1, ConcatProperties

(* Up to three calls in a row are well formed when each of them is. *)
LEMMA CallTuples ==
  ASSUME NEW c \in Call, NEW d \in Call, NEW e \in Call
  PROVE  /\ <<>> \in Seq(Call)
         /\ <<c>> \in Seq(Call)
         /\ <<c, d>> \in Seq(Call)
         /\ <<c, d, e>> \in Seq(Call)
OBVIOUS

LEMMA CallTypes ==
  ASSUME NEW s \in Slots, NEW n \in Names \cup {NoName}, NEW x \in Ids,
         NEW b \in BOOLEAN
  PROVE  /\ \A k \in Kinds \ Notices :
              Send(s, k) \in Call /\ Bcast(k, n, x, b) \in Call
         /\ Clear(s) \in Call
         /\ Leave(s) \in Call
         /\ n # NoName => \A k \in Notices :
              Announce(s, k, n) \in Call /\ Bcast(k, n, x, b) \in Call
<1>1. 1 \in 1 .. (MaxSlots + 1)
  BY ConfigAssumption
<1>2. QED
  BY <1>1 DEF Send, Clear, Leave, Announce, Bcast, Call, BcastCall

(* server_remove_client queues well-formed calls. *)
LEMMA RemoveCallsType ==
  ASSUME TypeOK, NEW s \in Slots
  PROVE  RemoveCalls(s) \in Seq(Call)
<1>1. Clear(s) \in Call
  BY DEF Clear, Call
<1>2. CASE auth[s] /\ username[s] # NoName
  <2>1. /\ username[s] \in Names \cup {NoName}
        /\ id[s] \in Ids
        /\ "system" \in Notices /\ "left" \in Notices /\ TRUE \in BOOLEAN
    BY DEF TypeOK, Notices
  <2>2. /\ Bcast("system", username[s], id[s], TRUE) \in Call
        /\ Bcast("left", username[s], id[s], TRUE) \in Call
    BY <1>2, <2>1, CallTypes
  <2>3. QED
    BY <1>1, <1>2, <2>2, CallTuples DEF RemoveCalls
<1>3. CASE ~(auth[s] /\ username[s] # NoName)
  BY <1>1, <1>3, CallTuples DEF RemoveCalls
<1>4. QED
  BY <1>2, <1>3

LEMMA EnterRemoveType ==
  ASSUME TypeOK, NEW s \in Slots, NEW rest \in Seq(Call),
         EnterRemove(s, rest)
  PROVE  /\ todo' \in Seq(Call)
         /\ phase' \in Phases
<1>1. RemoveCalls(s) \o rest \in Seq(Call)
  BY RemoveCallsType, ConcatProperties
<1>2. QED
  BY <1>1 DEF EnterRemove, TypeOK, Phases

LEMMA SendToType ==
  ASSUME TypeOK, NEW s \in Slots, NEW k \in Kinds, NEW n,
         k \in Notices => n \in Names,
         NEW rest \in Seq(Call), SendTo(s, k, n, rest)
  PROVE  /\ todo' \in Seq(Call)
         /\ phase' \in Phases
         /\ sock' \in [Slots -> {"none", "up", "down", "freed"}]
         /\ synced' \in SUBSET Slots
         /\ roster' \in [Slots -> SUBSET (Names \cup {NoName})]
<1>1. CASE sock[s] = "up" /\ todo' = rest /\ Hear(s, k, n) /\ UNCHANGED <<sock, phase>>
  <2>1. Online \subseteq Names \cup {NoName}
    BY DEF TypeOK, Online, Authenticated, Active
  <2>2. synced' \in SUBSET Slots
    BY <1>1 DEF TypeOK, Hear
  <2>3. roster' \in [Slots -> SUBSET (Names \cup {NoName})]
    BY <1>1, <2>1 DEF TypeOK, Hear, Notices
  <2>4. QED
    BY <1>1, <2>2, <2>3 DEF TypeOK
<1>2. CASE todo' = rest /\ UNCHANGED <<sock, phase, told>>
  BY <1>2 DEF TypeOK, told
<1>3. CASE /\ sock' = [sock EXCEPT ![s] = "down"]
           /\ EnterRemove(s, rest)
           /\ UNCHANGED told
  BY <1>3, EnterRemoveType DEF TypeOK, told
<1>4. QED
  BY <1>1, <1>2, <1>3 DEF SendTo

(* Counting a set of slots gives an integer. *)
LEMMA SlotsFinite ==
  ASSUME NEW S \in SUBSET Slots
  PROVE  Cardinality(S) \in Nat
<1>1. IsFiniteSet(Slots)
  BY ConfigAssumption, FS_Interval DEF Slots
<1>2. QED
  BY <1>1, FS_Subset, FS_CardinalityType

LEMMA FindByIdSlot == ASSUME NEW i PROVE FindById(i) \subseteq Slots
BY DEF FindById, Active

-----------------------------------------------------------------------------
(* Type correctness, one lemma for each group of actions. *)

LEMMA CallsType == ASSUME TypeOK, Calls PROVE TypeOK'
<1>1. CASE DoSend
  <2>1. todo # <<>> /\ Head(todo).op = "send"
    BY <1>1 DEF DoSend, Calling
  <2>2. Head(todo) \in Call /\ Tail(todo) \in Seq(Call)
    BY <2>1, HeadCall DEF TypeOK
  <2>3. Head(todo).kind \in Kinds \ Notices
    BY <2>1, <2>2 DEF Call, BcastCall
  <2>4. PICK t \in FindById(id[Head(todo).slot]) :
          SendTo(t, Head(todo).kind, NoName, Tail(todo))
    BY <1>1 DEF DoSend
  <2>5. t \in Slots
    BY <2>4, FindByIdSlot
  <2>6. /\ todo' \in Seq(Call)
        /\ phase' \in Phases
        /\ sock' \in [Slots -> {"none", "up", "down", "freed"}]
        /\ synced' \in SUBSET Slots
        /\ roster' \in [Slots -> SUBSET (Names \cup {NoName})]
    BY <2>2, <2>3, <2>4, <2>5, SendToType
  <2>7. QED
    BY <1>1, <2>6 DEF DoSend, TypeOK, stats, fdSets
<1>2. CASE DoBcast
  <2> DEFINE b == Head(todo)
  <2>1. todo # <<>> /\ b.op = "bcast"
    BY <1>2 DEF DoBcast, Calling
  <2>2. b \in Call /\ Tail(todo) \in Seq(Call)
    BY <2>1, HeadCall DEF TypeOK
  <2>3. b \in BcastCall(Notices, Names)
          \cup BcastCall(Kinds \ Notices, Names \cup {NoName})
    BY <2>1, <2>2 DEF Call
  <2>4. CASE todo' = Tail(todo) /\ UNCHANGED <<sock, phase, told>>
    BY <1>2, <2>2, <2>4 DEF DoBcast, TypeOK, stats, fdSets, told
  <2>5. ASSUME NEW s \in Recipients(b), NEW t \in FindById(id[s]),
               SendTo(t, b.kind, b.who,
                      <<[b EXCEPT !.next = s + 1]>> \o Tail(todo))
        PROVE  TypeOK'
    <3> DEFINE rest == <<[b EXCEPT !.next = s + 1]>> \o Tail(todo)
    <3>1. s \in Slots /\ t \in Slots
      BY FindByIdSlot DEF Recipients, Active
    <3>2. s + 1 \in 1 .. (MaxSlots + 1)
      BY <3>1, ConfigAssumption DEF Slots
    <3>3. [b EXCEPT !.next = s + 1] \in Call
      BY <2>3, <3>2 DEF BcastCall, Call
    <3>4. rest \in Seq(Call)
      BY <2>2, <3>3, PushCall
    <3>5. b.kind \in Kinds /\ (b.kind \in Notices => b.who \in Names)
      BY <2>3 DEF BcastCall, Notices, Kinds
    <3>6. SendTo(t, b.kind, b.who, rest)
      BY <2>5
    <3>7. /\ todo' \in Seq(Call)
          /\ phase' \in Phases
          /\ sock' \in [Slots -> {"none", "up", "down", "freed"}]
          /\ synced' \in SUBSET Slots
          /\ roster' \in [Slots -> SUBSET (Names \cup {NoName})]
      <4> HIDE DEF b, rest
      <4> QED
        BY <3>1, <3>4, <3>5, <3>6, SendToType
    <3>8. QED
      BY <1>2, <3>7 DEF DoBcast, TypeOK, stats, fdSets
  <2>6. QED
    BY <1>2, <2>4, <2>5 DEF DoBcast
<1>3. CASE DoAnnounce
  <2> DEFINE c == Head(todo)
  <2>1. todo # <<>> /\ c.op = "announce"
    BY <1>3 DEF DoAnnounce, Calling
  <2>2. c \in Call /\ Tail(todo) \in Seq(Call)
    BY <2>1, HeadCall DEF TypeOK
  <2>3. c.slot \in Slots /\ c.kind \in Notices /\ c.who \in Names
    BY <2>1, <2>2 DEF Call, BcastCall
  <2>4. id[c.slot] \in Ids /\ c.who # NoName
    BY <2>3, ConfigAssumption DEF TypeOK
  <2>5. Bcast(c.kind, c.who, id[c.slot], TRUE) \in Call
    BY <2>3, <2>4, CallTypes
  <2>6. todo' \in Seq(Call)
    BY <1>3, <2>2, <2>5, PushCall DEF DoAnnounce
  <2>7. QED
    BY <1>3, <2>6 DEF DoAnnounce, TypeOK, slotVars, stats, fdSets, told
<1>4. CASE DoLeave
  <2>1. todo # <<>>
    BY <1>4 DEF DoLeave, Calling
  <2>2. Tail(todo) \in Seq(Call)
    BY <2>1, HeadCall DEF TypeOK
  <2>3. todo' \in Seq(Call) /\ phase' \in Phases
    BY <1>4, <2>2, EnterRemoveType, FindByIdSlot DEF DoLeave, TypeOK
  <2>4. QED
    BY <1>4, <2>3 DEF DoLeave, TypeOK, slotVars, stats, fdSets, told
<1>5. CASE DoClear
  <2> DEFINE s == Head(todo).slot
  <2>1. todo # <<>> /\ Head(todo).op = "clear"
    BY <1>5 DEF DoClear, Calling
  <2>2. Head(todo) \in Call /\ todo' \in Seq(Call)
    BY <1>5, <2>1, HeadCall DEF TypeOK, DoClear
  <2>3. s \in Slots
    BY <2>1, <2>2 DEF Call, BcastCall
  <2>4. 0 \in Ids
    BY ConfigAssumption DEF Ids
  <2>5. Cardinality(Active \ {s}) \in Int /\ clientCount - 1 \in Int
    BY SlotsFinite DEF Active, TypeOK
  <2>6. QED
    BY <1>5, <2>2, <2>3, <2>4, <2>5 DEF DoClear, CountDown, TypeOK, fdSets
<1>6. QED
  BY <1>1, <1>2, <1>3, <1>4, <1>5 DEF Calls

LEMMA MainLoopType == ASSUME TypeOK, MainLoop PROVE TypeOK'
<1> USE DEF TypeOK, Phases, At, GoTo, slotVars, stats, fdSets, told
<1>1. CASE Start \/ LoopExit \/ Select \/ SelectFails
  BY <1>1 DEF Start, LoopExit, Select, SelectFails
<1>2. CASE NewConnection
  <2>1. CASE UNCHANGED <<slotVars, nextId, stats>>
    BY <1>2, <2>1 DEF NewConnection
  <2>2. ASSUME NEW s \in Slots \ Active,
               /\ id'       = [id       EXCEPT ![s] = nextId]
               /\ active'   = [active   EXCEPT ![s] = TRUE]
               /\ auth'     = [auth     EXCEPT ![s] = FALSE]
               /\ username' = [username EXCEPT ![s] = NoName]
               /\ sock'     = [sock EXCEPT ![s] = IF nextId = 0 THEN "freed"
                                                                ELSE "up"],
               nextId' = NextId,
               clientCount' = clientCount + 1,
               curConn' = (IF nextId = 0 THEN curConn
                                         ELSE Cardinality(Active) + 1),
               maxConn' = Peak(curConn')
        PROVE  TypeOK'
    <3>1. nextId' \in Ids
      BY <2>2, ConfigAssumption DEF Ids, NextId
    <3>2. Cardinality(Active) \in Int
      BY SlotsFinite DEF Active
    <3>3. clientCount' \in Int /\ curConn' \in Int /\ maxConn' \in Int
      BY <2>2, <3>2 DEF Peak
    <3>4. QED
      BY <1>2, <2>2, <3>1, <3>3 DEF NewConnection
  <2>3. QED
    BY <1>2, <2>1, <2>2 DEF NewConnection
<1>3. CASE UseAfterFree \/ DataDone
  BY <1>3 DEF UseAfterFree, DataDone
<1>4. CASE Stop
  <2>1. 0 \in Ids /\ "bye" \in Kinds \ Notices /\ FALSE \in BOOLEAN
    BY ConfigAssumption DEF Ids, Kinds, Notices
  <2>2. 1 \in Slots
    BY ConfigAssumption DEF Slots
  <2>3. Bcast("bye", NoName, 0, FALSE) \in Call
    BY <2>1, <2>2, CallTypes
  <2>4. todo' \in Seq(Call)
    BY <1>4, <2>3, CallTuples DEF Stop
  <2>5. QED
    BY <1>4, <2>4 DEF Stop
<1>5. CASE StopCloses \/ Destroy
  <2>1. CloseAll
    BY <1>5 DEF StopCloses, Destroy
  <2>2. /\ active' \in [Slots -> BOOLEAN]
        /\ sock' \in [Slots -> {"none", "up", "down", "freed"}]
        /\ synced' \in SUBSET Slots
        /\ roster' \in [Slots -> SUBSET (Names \cup {NoName})]
        /\ phase' \in Phases
    BY <2>1 DEF CloseAll
  <2>3. QED
    BY <1>5, <2>2 DEF StopCloses, Destroy
<1>6. QED
  BY <1>1, <1>2, <1>3, <1>4, <1>5 DEF MainLoop

LEMMA HandlersType == ASSUME TypeOK, Handlers PROVE TypeOK'
<1> PICK s \in Slots :
      \/ NothingReceived(s) \/ PeerGone(s)
      \/ \E n \in Names \cup {NoName} :
           ConnectRefused(s, n) \/ ConnectRequest(s, n)
      \/ ChatSend(s) \/ UserListRequest(s) \/ DisconnectRequest(s)
      \/ UnknownMessage(s) \/ QuietMessage(s) \/ NameUnterminated(s)
  BY DEF Handlers
<1>1. /\ <<>> \in Seq(Call)
      /\ <<Send(s, "error")>> \in Seq(Call)
      /\ <<Send(s, "users")>> \in Seq(Call)
      /\ <<Send(s, "bye"), Leave(s)>> \in Seq(Call)
      /\ <<Bcast("chat", username[s], 0, TRUE)>> \in Seq(Call)
      /\ \A n \in Names :
           <<Send(s, "welcome"), Announce(s, "system", n),
             Announce(s, "joined", n)>> \in Seq(Call)
  <2>1. /\ 0 \in Ids /\ TRUE \in BOOLEAN
        /\ username[s] \in Names \cup {NoName}
        /\ {"error", "users", "bye", "chat", "welcome"} \subseteq Kinds \ Notices
        /\ "system" \in Notices /\ "joined" \in Notices
    BY ConfigAssumption DEF Ids, Kinds, Notices, TypeOK
  <2>2. /\ Send(s, "error") \in Call /\ Send(s, "users") \in Call
        /\ Send(s, "bye") \in Call /\ Send(s, "welcome") \in Call
        /\ Leave(s) \in Call
        /\ Bcast("chat", username[s], 0, TRUE) \in Call
    BY <2>1, CallTypes
  <2>3. \A n \in Names : /\ Announce(s, "system", n) \in Call
                         /\ Announce(s, "joined", n) \in Call
    BY <2>1, CallTypes, ConfigAssumption
  <2>4. QED
    BY <2>2, <2>3, CallTuples
<1>2. /\ working \ {s} \subseteq {Listen} \cup Slots
      /\ NextReadable(s) => working' = working \ {s}
  BY DEF TypeOK, NextReadable, NextUp
<1>3. CASE NothingReceived(s)
  BY <1>2, <1>3 DEF NothingReceived, TypeOK, slotVars, stats, told
<1>4. CASE PeerGone(s)
  <2>1. todo' \in Seq(Call) /\ phase' \in Phases
    BY <1>1, <1>4, EnterRemoveType DEF PeerGone
  <2>2. QED
    BY <1>2, <1>4, <2>1 DEF PeerGone, TypeOK, stats, told
<1>5. ASSUME NEW calls \in Seq(Call), Handles(s, calls),
             auth' \in [Slots -> BOOLEAN],
             username' \in [Slots -> Names \cup {NoName}]
      PROVE  TypeOK'
  BY <1>2, <1>5 DEF Handles, TypeOK, stats, told
<1>6. ASSUME NEW n \in Names \cup {NoName}, ConnectRequest(s, n)
      PROVE  TypeOK'
  <2>1. n \in Names
    BY <1>6 DEF ConnectRequest, Acceptable
  <2>2. QED
    BY <1>1, <1>5, <1>6, <2>1 DEF ConnectRequest, TypeOK
<1>7. ASSUME NEW calls \in Seq(Call), Handles(s, calls),
             UNCHANGED <<auth, username>>
      PROVE  TypeOK'
  BY <1>5, <1>7 DEF TypeOK
<1>8. CASE NameUnterminated(s)
  <2>1. "aborted" \in Phases
    BY DEF Phases
  <2>2. QED
    BY <1>2, <1>8, <2>1 DEF NameUnterminated, GoTo, TypeOK, slotVars, stats, told
<1>9. QED
  BY <1>1, <1>3, <1>4, <1>6, <1>7, <1>8
     DEF ConnectRefused, ChatSend, UserListRequest, DisconnectRequest,
         UnknownMessage, QuietMessage

LEMMA MaintenanceType == ASSUME TypeOK, Maintenance PROVE TypeOK'
<1>1. ASSUME NEW s \in Slots, CleanupRemove(s)
      PROVE  TypeOK'
  <2>1. cursor' \in 1 .. (MaxSlots + 1)
    BY <1>1, ConfigAssumption DEF CleanupRemove, Cursor, Slots
  <2>2. todo' \in Seq(Call) /\ phase' \in Phases
    BY <1>1, EnterRemoveType, EmptySeq DEF CleanupRemove
  <2>3. QED
    BY <1>1, <2>1, <2>2
       DEF CleanupRemove, TypeOK, slotVars, stats, fdSets, told
<1>2. ASSUME NEW s \in Slots, HeartbeatSend(s)
      PROVE  TypeOK'
  <2>1. cursor' \in 1 .. (MaxSlots + 1)
    BY <1>2, ConfigAssumption DEF HeartbeatSend, Cursor, Slots
  <2>2. Send(s, "heartbeat") \in Call
    BY DEF Send, Call, Kinds, Notices
  <2>3. QED
    BY <1>2, <2>1, <2>2, CallTuples
       DEF HeartbeatSend, TypeOK, slotVars, stats, fdSets, told
<1>3. CASE CleanupDone \/ UpdateFdSets
  <2>1. 1 \in 1 .. (MaxSlots + 1)
    BY ConfigAssumption
  <2>2. QED
    BY <1>3, <2>1 DEF CleanupDone, UpdateFdSets, Watched, TypeOK, Phases, GoTo, Active,
                      slotVars, stats, fdSets, told
<1>4. QED
  BY <1>1, <1>2, <1>3 DEF Maintenance

LEMMA InitType == ASSUME Init PROVE TypeOK
<1>1. 0 \in Ids /\ 1 \in Ids /\ 1 \in 1 .. (MaxSlots + 1)
  BY ConfigAssumption DEF Ids
<1>2. <<>> \in Seq(Call)
  BY EmptySeq
<1>3. /\ [s \in Slots |-> 0] \in [Slots -> Ids]
      /\ [s \in Slots |-> FALSE] \in [Slots -> BOOLEAN]
      /\ [s \in Slots |-> NoName] \in [Slots -> Names \cup {NoName}]
      /\ [s \in Slots |-> "none"] \in [Slots -> {"none", "up", "down", "freed"}]
      /\ [s \in Slots |-> {}] \in [Slots -> SUBSET (Names \cup {NoName})]
  BY <1>1
<1>4. /\ clientCount \in Int /\ curConn \in Int /\ maxConn \in Int
      /\ master \subseteq {Listen} \cup Slots
      /\ working \subseteq {Listen} \cup Slots
      /\ state \in {"STOPPED", "RUNNING", "STOPPING", "ERROR"}
      /\ shouldShutdown \in BOOLEAN
      /\ phase \in Phases
  <2>1. /\ clientCount = 0 /\ curConn = 0 /\ maxConn = 0
        /\ master = {} /\ working = {}
        /\ state = "STOPPED" /\ shouldShutdown = FALSE /\ phase = "boot"
    BY Zenon DEF Init
  <2>2. shouldShutdown \in BOOLEAN
    BY <2>1, Zenon
  <2>3. QED
    BY <2>1, <2>2 DEF Phases
<1>5. QED
  BY <1>1, <1>2, <1>3, <1>4 DEF Init, TypeOK

(* No behaviour of the server leaves the types: the slot table, the counters,
   the fd sets and the stack of pending calls are always well formed. *)
THEOREM TypeCorrect == Spec => []TypeOK
<1>1. Init => TypeOK
  BY InitType
<1>2. TypeOK /\ [Next]_vars => TypeOK'
  <2> SUFFICES ASSUME TypeOK, [Next]_vars
               PROVE  TypeOK'
    OBVIOUS
  <2>1. CASE Server
    BY <2>1, CallsType, MainLoopType, HandlersType, MaintenanceType DEF Server
  <2>2. CASE Sigint
    BY <2>2 DEF Sigint, TypeOK, slotVars, stats, fdSets, told
  <2>3. CASE UNCHANGED vars
    BY <2>3 DEF vars, TypeOK, slotVars, stats, fdSets, told
  <2>4. QED
    BY <2>1, <2>2, <2>3 DEF Next, Ended
<1>3. QED
  BY <1>1, <1>2, PTL DEF Spec

-----------------------------------------------------------------------------
(* What a step can do to the identity of a slot: nothing, clear it, give it to
   a new connection, authenticate it; or close them all. *)

identity == <<id, active, auth, username, nextId>>

ClearSlot(s) ==
  /\ id'       = [id       EXCEPT ![s] = 0]
  /\ active'   = [active   EXCEPT ![s] = FALSE]
  /\ auth'     = [auth     EXCEPT ![s] = FALSE]
  /\ username' = [username EXCEPT ![s] = NoName]
  /\ UNCHANGED nextId

ConnectSlot(s) ==
  /\ s \notin Active /\ ~ServerFull /\ nextId # LastId
  /\ id'       = [id       EXCEPT ![s] = nextId]
  /\ active'   = [active   EXCEPT ![s] = TRUE]
  /\ auth'     = [auth     EXCEPT ![s] = FALSE]
  /\ username' = [username EXCEPT ![s] = NoName]
  /\ nextId'   = IF nextId = IdMod - 1 THEN 0 ELSE nextId + 1

JoinSlot(s, n) ==
  /\ s \in Active /\ ~auth[s] /\ n \notin Online
  /\ auth'     = [auth     EXCEPT ![s] = TRUE]
  /\ username' = [username EXCEPT ![s] = n]
  /\ UNCHANGED <<id, active, nextId>>

CloseSlots ==
  /\ active' = [s \in Slots |-> FALSE]
  /\ UNCHANGED <<id, auth, username, nextId>>

IdentityStep ==
  \/ UNCHANGED identity
  \/ \E s \in Slots : ClearSlot(s) \/ ConnectSlot(s)
  \/ \E s \in Slots, n \in Names : JoinSlot(s, n)
  \/ CloseSlots

(* Of all the calls, handlers and loop steps only four touch the identity of a
   slot, each of them in one of these ways. *)
LEMMA StepIdentity == ASSUME TypeOK, [Next]_vars PROVE IdentityStep
<1> USE DEF IdentityStep, identity, slotVars
<1>1. CASE DoSend \/ DoBcast
  BY <1>1 DEF DoSend, DoBcast
<1>2. CASE DoAnnounce \/ DoLeave
  BY <1>2 DEF DoAnnounce, DoLeave
<1>3. CASE DoClear
  <2>1. Head(todo) \in Call /\ Head(todo).op = "clear"
    BY <1>3, HeadCall DEF DoClear, Calling, TypeOK
  <2>2. Head(todo).slot \in Slots
    BY <2>1 DEF Call, BcastCall
  <2>3. QED
    BY <1>3, <2>2 DEF DoClear, ClearSlot
<1>4. CASE MainLoop
  <2>1. CASE Start \/ LoopExit \/ Select \/ SelectFails \/ UseAfterFree
               \/ DataDone \/ Stop
    BY <2>1 DEF Start, LoopExit, Select, SelectFails, UseAfterFree, DataDone,
                Stop
  <2>2. CASE NewConnection
    BY <2>2 DEF NewConnection, NextId, ConnectSlot
  <2>3. CASE StopCloses \/ Destroy
    BY <2>3 DEF StopCloses, Destroy, CloseAll, CloseSlots
  <2>4. QED
    BY <1>4, <2>1, <2>2, <2>3 DEF MainLoop
<1>5. CASE Handlers
  <2> PICK s \in Slots :
        \/ NothingReceived(s) \/ PeerGone(s)
        \/ \E n \in Names \cup {NoName} :
             ConnectRefused(s, n) \/ ConnectRequest(s, n)
        \/ ChatSend(s) \/ UserListRequest(s) \/ DisconnectRequest(s)
        \/ UnknownMessage(s) \/ QuietMessage(s) \/ NameUnterminated(s)
    BY <1>5 DEF Handlers
  <2>1. CASE NothingReceived(s) \/ PeerGone(s) \/ NameUnterminated(s)
    BY <2>1 DEF NothingReceived, PeerGone, NameUnterminated
  <2>2. ASSUME NEW n \in Names \cup {NoName}, ConnectRequest(s, n)
        PROVE  n \in Names /\ JoinSlot(s, n)
    BY <2>2 DEF ConnectRequest, Acceptable, Handles, JoinSlot, Taken, Active
  <2>3. ASSUME NEW calls, Handles(s, calls), UNCHANGED <<auth, username>>
        PROVE  UNCHANGED identity
    BY <2>3 DEF Handles
  <2>4. QED
    BY <2>1, <2>2, <2>3
       DEF ConnectRefused, ChatSend, UserListRequest, DisconnectRequest,
           UnknownMessage, QuietMessage
<1>6. CASE Maintenance
  BY <1>6 DEF Maintenance, CleanupRemove, HeartbeatSend, CleanupDone,
              UpdateFdSets
<1>7. CASE Sigint \/ Ended \/ UNCHANGED vars
  BY <1>7 DEF Sigint, Ended, vars
<1>8. QED
  BY <1>1, <1>2, <1>3, <1>4, <1>5, <1>6, <1>7 DEF Next, Server, Calls

LEMMA UniqueStep ==
  ASSUME TypeOK, UniqueUsernames, IdentityStep
  PROVE  UniqueUsernames'
<1> USE DEF UniqueUsernames, Authenticated, Active, TypeOK
<1>1. CASE UNCHANGED identity
  BY <1>1 DEF identity
<1>2. ASSUME NEW s \in Slots, ClearSlot(s)
      PROVE  UniqueUsernames'
  BY <1>2 DEF ClearSlot
<1>3. ASSUME NEW s \in Slots, ConnectSlot(s)
      PROVE  UniqueUsernames'
  BY <1>3 DEF ConnectSlot
<1>4. ASSUME NEW s \in Slots, NEW n \in Names, JoinSlot(s, n)
      PROVE  UniqueUsernames'
  <2>1. n # NoName
    BY ConfigAssumption
  <2>2. \A t \in Authenticated : username[t] # n
    BY <1>4 DEF JoinSlot, Online
  <2>3. QED
    BY <1>4, <2>1, <2>2 DEF JoinSlot
<1>5. CASE CloseSlots
  BY <1>5 DEF CloseSlots
<1>6. QED
  BY <1>1, <1>2, <1>3, <1>4, <1>5 DEF IdentityStep

(* At no moment, inside a nested removal or between messages, do two logged-in
   clients share a user name, and none of them is nameless. *)
THEOREM UsernamesUnique == Spec => []UniqueUsernames
<1>1. Init => UniqueUsernames
  BY DEF Init, UniqueUsernames, Authenticated, Active
<1>2. TypeOK /\ UniqueUsernames /\ [Next]_vars => UniqueUsernames'
  BY StepIdentity, UniqueStep
<1>3. QED
  BY <1>1, <1>2, TypeCorrect, PTL DEF Spec

-----------------------------------------------------------------------------
(* What select() watches. *)

SelectInv ==
  /\ phase \in {"boot", "select"} => todo = <<>>
  /\ phase = "boot" => Active = {}
  /\ SelectSetsValid

LEMMA SelectInvStep ==
  ASSUME TypeOK, SelectInv, [Next]_vars
  PROVE  SelectInv'
<1> USE DEF SelectInv, SelectSetsValid, Active, At, GoTo, slotVars, fdSets
<1>1. CASE Calls
  <2>1. phase \notin {"boot", "select"}
    BY <1>1 DEF Calls, DoSend, DoBcast, DoAnnounce, DoLeave, DoClear, Calling
  <2>2. phase' = phase \/ phase' = "crashed"
    BY <1>1 DEF Calls, DoSend, DoBcast, DoAnnounce, DoLeave, DoClear, SendTo,
                EnterRemove
  <2>3. QED
    BY <2>1, <2>2
<1>2. CASE MainLoop
  BY <1>2 DEF MainLoop, Start, LoopExit, Select, SelectFails, NewConnection,
              UseAfterFree, DataDone, Stop, StopCloses, Destroy, CloseAll
<1>3. CASE Handlers
  <2>1. phase = "data" /\ phase' \in {"data", "crashed", "aborted"}
    BY <1>3 DEF Handlers, NothingReceived, PeerGone, NameUnterminated, ConnectRefused,
                ConnectRequest, ChatSend, UserListRequest, DisconnectRequest,
                UnknownMessage, QuietMessage, Handles, NextReadable, NextUp,
                EnterRemove
  <2>2. QED
    BY <2>1
<1>4. CASE Maintenance
  <2>1. CASE CleanupDone \/ UpdateFdSets
    BY <2>1 DEF CleanupDone, UpdateFdSets, Watched
  <2>2. ASSUME NEW s \in Slots, CleanupRemove(s) \/ HeartbeatSend(s)
        PROVE  SelectInv'
    BY <2>2 DEF CleanupRemove, HeartbeatSend, EnterRemove
  <2>3. QED
    BY <1>4, <2>1, <2>2 DEF Maintenance
<1>5. CASE Sigint \/ Ended \/ UNCHANGED vars
  BY <1>5 DEF Sigint, Ended, vars
<1>6. QED
  BY <1>1, <1>2, <1>3, <1>4, <1>5 DEF Next, Server

(* Every select() call watches the listening socket and exactly the sockets of
   the active clients, whatever was accepted, removed or timed out before. *)
THEOREM SelectSetsExact == Spec => []SelectSetsValid
<1>1. Init => SelectInv
  BY DEF Init, SelectInv, SelectSetsValid, Active
<1>2. TypeOK /\ SelectInv /\ [Next]_vars => SelectInv'
  BY SelectInvStep
<1>3. SelectInv => SelectSetsValid
  BY DEF SelectInv
<1>4. QED
  BY <1>1, <1>2, <1>3, TypeCorrect, PTL DEF Spec

-----------------------------------------------------------------------------
(* The server implements ChatRoom, as long as next_client_id does not wrap. *)

(* Active clients have different ids, all of them given out already. *)
IdsInv ==
  /\ nextId \in 1 .. LastId
  /\ \A s \in Active : id[s] \in 1 .. (nextId - 1)
  /\ UniqueIds

LEMMA IdsStep ==
  ASSUME TypeOK, IdsInv, LastId \in 1 .. (IdMod - 1), IdentityStep
  PROVE  IdsInv'
<1> USE DEF IdsInv, UniqueIds, Active, TypeOK
<1>1. CASE UNCHANGED identity
  BY <1>1 DEF identity
<1>2. ASSUME NEW s \in Slots, ClearSlot(s)
      PROVE  IdsInv'
  BY <1>2 DEF ClearSlot
<1>3. ASSUME NEW s \in Slots, ConnectSlot(s)
      PROVE  IdsInv'
  <2>1. nextId + 1 \in 1 .. LastId /\ nextId' = nextId + 1
    BY <1>3, ConfigAssumption DEF ConnectSlot
  <2>2. \A t \in Active' : t = s \/ (t \in Active /\ id'[t] = id[t])
    <3> SUFFICES ASSUME NEW t \in Active', t # s
                 PROVE  t \in Active /\ id'[t] = id[t]
      OBVIOUS
    <3>1. t \in Slots /\ active'[t] = active[t] /\ id'[t] = id[t]
      BY <1>3 DEF ConnectSlot
    <3>2. QED
      BY <3>1
  <2>3. id'[s] = nextId
    BY <1>3 DEF ConnectSlot
  <2>4. QED
    BY <2>1, <2>2, <2>3
<1>4. ASSUME NEW s \in Slots, NEW n \in Names, JoinSlot(s, n)
      PROVE  IdsInv'
  BY <1>4 DEF JoinSlot
<1>5. CASE CloseSlots
  BY <1>5 DEF CloseSlots
<1>6. QED
  BY <1>1, <1>2, <1>3, <1>4, <1>5 DEF IdentityStep

(* MembersOf maps the session of each slot to the name of that slot. *)
Injective(S, i) == \A s, t \in S : i[s] = i[t] => s = t

LEMMA MembersValue ==
  ASSUME NEW S, NEW i, NEW n, Injective(S, i)
  PROVE  /\ DOMAIN MembersOf(S, i, n) = SessionsOf(S, i)
         /\ \A s \in S : MembersOf(S, i, n)[i[s]] = n[s]
<1>1. DOMAIN MembersOf(S, i, n) = SessionsOf(S, i)
  BY DEF MembersOf
<1>2. ASSUME NEW s \in S
      PROVE  MembersOf(S, i, n)[i[s]] = n[s]
  <2>1. (CHOOSE t \in S : i[t] = i[s]) = s
    BY DEF Injective
  <2>2. QED
    BY <2>1 DEF MembersOf, SessionsOf
<1>3. QED
  BY <1>1, <1>2

(* Dropping the session of slot s leaves the members of the others alone. *)
LEMMA MembersDrop ==
  ASSUME NEW S, NEW s \in S, NEW i, NEW n, NEW j, NEW m,
         Injective(S, i),
         \A t \in S \ {s} : j[t] = i[t] /\ m[t] = n[t]
  PROVE  MembersOf(S \ {s}, j, m) = Room!Minus(MembersOf(S, i, n), i[s])
<1>1. Injective(S \ {s}, j)
  BY DEF Injective
<1>2. /\ DOMAIN MembersOf(S, i, n) = SessionsOf(S, i)
      /\ \A t \in S : MembersOf(S, i, n)[i[t]] = n[t]
  BY MembersValue
<1>3. /\ DOMAIN MembersOf(S \ {s}, j, m) = SessionsOf(S \ {s}, j)
      /\ \A t \in S \ {s} : MembersOf(S \ {s}, j, m)[j[t]] = m[t]
  BY <1>1, MembersValue
<1>4. SessionsOf(S \ {s}, j) = SessionsOf(S, i) \ {i[s]}
  BY DEF Injective, SessionsOf
<1>5. \A k \in SessionsOf(S \ {s}, j) :
        MembersOf(S \ {s}, j, m)[k] = MembersOf(S, i, n)[k]
  <2> TAKE k \in SessionsOf(S \ {s}, j)
  <2>1. PICK t \in S \ {s} : k = j[t]
    BY DEF SessionsOf
  <2>2. MembersOf(S \ {s}, j, m)[k] = m[t] /\ MembersOf(S, i, n)[i[t]] = n[t]
    BY <1>2, <1>3, <2>1
  <2>3. QED
    BY <2>1, <2>2
<1>6. MembersOf(S \ {s}, j, m) =
        [k \in SessionsOf(S \ {s}, j) |-> MembersOf(S \ {s}, j, m)[k]]
  BY DEF MembersOf
<1>7. QED
  BY <1>2, <1>4, <1>5, <1>6 DEF Room!Minus

(* Adding the session of slot s leaves the members of the others alone. *)
LEMMA MembersAdd ==
  ASSUME NEW S, NEW s, s \notin S, NEW i, NEW n, NEW m,
         Injective(S \cup {s}, i),
         \A t \in S : m[t] = n[t]
  PROVE  MembersOf(S \cup {s}, i, m) =
           Room!Plus(MembersOf(S, i, n), i[s], m[s])
<1>1. Injective(S, i)
  BY DEF Injective
<1>2. /\ DOMAIN MembersOf(S, i, n) = SessionsOf(S, i)
      /\ \A t \in S : MembersOf(S, i, n)[i[t]] = n[t]
  BY <1>1, MembersValue
<1>3. /\ DOMAIN MembersOf(S \cup {s}, i, m) = SessionsOf(S \cup {s}, i)
      /\ \A t \in S \cup {s} : MembersOf(S \cup {s}, i, m)[i[t]] = m[t]
  BY MembersValue
<1>4. SessionsOf(S \cup {s}, i) = SessionsOf(S, i) \cup {i[s]}
  BY DEF SessionsOf
<1>5. \A k \in SessionsOf(S \cup {s}, i) :
        MembersOf(S \cup {s}, i, m)[k] =
          IF k = i[s] THEN m[s] ELSE MembersOf(S, i, n)[k]
  BY <1>2, <1>3 DEF Injective, SessionsOf
<1>6. MembersOf(S \cup {s}, i, m) =
        [k \in SessionsOf(S \cup {s}, i) |-> MembersOf(S \cup {s}, i, m)[k]]
  BY DEF MembersOf
<1>7. QED
  BY <1>2, <1>4, <1>5, <1>6 DEF Room!Plus

(* The table depends on the ids and the names of its slots only. *)
LEMMA MembersSame ==
  ASSUME NEW S, NEW i, NEW n, NEW j, NEW m,
         Injective(S, i),
         \A t \in S : j[t] = i[t] /\ m[t] = n[t]
  PROVE  MembersOf(S, j, m) = MembersOf(S, i, n)
<1>1. Injective(S, j)
  BY DEF Injective
<1>2. /\ DOMAIN MembersOf(S, i, n) = SessionsOf(S, i)
      /\ \A t \in S : MembersOf(S, i, n)[i[t]] = n[t]
  BY MembersValue
<1>3. /\ DOMAIN MembersOf(S, j, m) = SessionsOf(S, j)
      /\ \A t \in S : MembersOf(S, j, m)[j[t]] = m[t]
  BY <1>1, MembersValue
<1>4. SessionsOf(S, j) = SessionsOf(S, i)
  BY DEF SessionsOf
<1>5. \A k \in SessionsOf(S, i) : MembersOf(S, j, m)[k] = MembersOf(S, i, n)[k]
  BY <1>2, <1>3 DEF SessionsOf
<1>6. QED
  BY <1>4, <1>5 DEF MembersOf

(* As many sessions are present as slots are active. *)
LEMMA SessionsCount ==
  ASSUME TypeOK, IdsInv
  PROVE  Cardinality(SessionsOf(Active, id)) = Cardinality(Active)
<1>1. IsFiniteSet(Active)
  <2>1. IsFiniteSet(Slots)
    BY ConfigAssumption, FS_Interval DEF Slots
  <2>2. QED
    BY <2>1, FS_Subset DEF Active
<1> DEFINE f == [s \in Active |-> id[s]]
<1>2. f \in [Active -> SessionsOf(Active, id)]
  BY DEF SessionsOf
<1>3. \A s, t \in Active : f[s] = f[t] => s = t
  BY DEF IdsInv, UniqueIds
<1>4. \A k \in SessionsOf(Active, id) : \E s \in Active : f[s] = k
  BY DEF SessionsOf
<1>5. f \in Bijection(Active, SessionsOf(Active, id))
  <2> HIDE DEF f
  <2>1. f \in Injection(Active, SessionsOf(Active, id))
    BY <1>2, <1>3 DEF Injection, IsInjective
  <2>2. f \in Surjection(Active, SessionsOf(Active, id))
    BY <1>2, <1>4 DEF Surjection
  <2>3. QED
    BY <2>1, <2>2 DEF Bijection
<1>6. ExistsBijection(Active, SessionsOf(Active, id))
  BY <1>5 DEF ExistsBijection
<1>7. QED
  BY <1>1, <1>6, FS_Bijection

(* Every step of a slot's identity is a step of the room or leaves it as it is. *)
LEMMA RoomStep ==
  ASSUME TypeOK, IdsInv, IdentityStep, LastId \in 1 .. (IdMod - 1)
  PROVE  [Room!Next]_(Room!roomVars)
<1> DEFINE A == Authenticated
           mem == MembersOf(A, id, username)
<1> USE DEF TypeOK
<1>1. /\ Injective(Active, id) /\ Injective(A, id)
      /\ A \subseteq Active /\ Active \subseteq Slots
      /\ DOMAIN mem = SessionsOf(A, id)
  <2>1. Injective(Active, id) /\ Injective(A, id)
        /\ A \subseteq Active /\ Active \subseteq Slots
    BY DEF IdsInv, UniqueIds, Injective, Authenticated, Active
  <2>2. QED
    BY <2>1, MembersValue
<1>2. CASE UNCHANGED identity
  <2>1. Active' = Active /\ A' = A
    BY <1>2 DEF identity, Active, Authenticated
  <2>2. QED
    BY <1>2, <2>1 DEF identity, Room!roomVars
<1>3. ASSUME NEW s \in Slots, ClearSlot(s), s \in Active
      PROVE  Room!Next
  <2>1. Active' = Active \ {s} /\ A' = A \ {s}
    BY <1>3 DEF ClearSlot, Active, Authenticated
  <2>2. \A t \in Slots \ {s} : id'[t] = id[t] /\ username'[t] = username[t]
    BY <1>3 DEF ClearSlot
  <2>3. SessionsOf(Active', id') = SessionsOf(Active, id) \ {id[s]}
    BY <1>1, <1>3, <2>1, <2>2 DEF SessionsOf, Injective
  <2>4. MembersOf(A', id', username') = Room!Minus(mem, id[s])
    <3>1. CASE s \in A
      <4>1. \A t \in A \ {s} : id'[t] = id[t] /\ username'[t] = username[t]
        BY <1>1, <2>2
      <4>2. MembersOf(A \ {s}, id', username') = Room!Minus(mem, id[s])
        <5> HIDE DEF A
        <5> QED
          BY <1>1, <3>1, <4>1, MembersDrop
      <4>3. QED
        BY <2>1, <4>2
    <3>2. CASE s \notin A
      <4>1. A' = A /\ \A t \in A : id'[t] = id[t] /\ username'[t] = username[t]
        BY <1>1, <2>1, <2>2, <3>2
      <4>2. MembersOf(A', id', username') = mem
        BY <1>1, <4>1, MembersSame
      <4>3. id[s] \notin DOMAIN mem
        BY <1>1, <1>3, <3>2 DEF SessionsOf, Injective
      <4>4. mem = [k \in DOMAIN mem |-> mem[k]]
        BY <1>1 DEF MembersOf
      <4>5. DOMAIN mem \ {id[s]} = DOMAIN mem
        BY <4>3
      <4>6. QED
        BY <4>2, <4>4, <4>5 DEF Room!Minus
    <3>3. QED
      BY <3>1, <3>2
  <2>5. id[s] \in SessionsOf(Active, id)
    BY <1>3 DEF SessionsOf
  <2>6. nextId' = nextId
    BY <1>3 DEF ClearSlot
  <2>7. Room!LeaveRoom(id[s])
    BY <2>3, <2>4, <2>6 DEF Room!LeaveRoom
  <2>8. QED
    BY <2>5, <2>7 DEF Room!Next
<1>4. ASSUME NEW s \in Slots, ClearSlot(s), s \notin Active
      PROVE  UNCHANGED Room!roomVars
  <2>1. Active' = Active /\ A' = A /\ nextId' = nextId
    BY <1>4 DEF ClearSlot, Active, Authenticated
  <2>2. \A t \in Active : id'[t] = id[t] /\ username'[t] = username[t]
    BY <1>1, <1>4 DEF ClearSlot
  <2>3. SessionsOf(Active', id') = SessionsOf(Active, id)
    BY <2>1, <2>2 DEF SessionsOf
  <2>4. MembersOf(A', id', username') = mem
    BY <1>1, <2>1, <2>2, MembersSame
  <2>5. QED
    BY <2>1, <2>3, <2>4 DEF Room!roomVars
<1>5. ASSUME NEW s \in Slots, ConnectSlot(s)
      PROVE  Room!Connect
  <2>1. s \notin Active /\ Active' = Active \cup {s} /\ A' = A
    BY <1>5 DEF ConnectSlot, Active, Authenticated
  <2>2. /\ \A t \in Active : id'[t] = id[t] /\ username'[t] = username[t]
        /\ id'[s] = nextId
    BY <1>1, <1>5, <2>1 DEF ConnectSlot
  <2>3. SessionsOf(Active', id') = SessionsOf(Active, id) \cup {nextId}
    BY <2>1, <2>2 DEF SessionsOf
  <2>4. MembersOf(A', id', username') = mem
    BY <1>1, <2>1, <2>2, MembersSame
  <2>5. nextId' = nextId + 1
    BY <1>5, ConfigAssumption DEF ConnectSlot, IdsInv
  <2>6. Cardinality(SessionsOf(Active, id)) < MaxClients
    <3>1. Cardinality(Active) \in Nat /\ MaxClients \in Nat
      BY <1>1, SlotsFinite, ConfigAssumption
    <3>2. ~(Cardinality(Active) >= MaxClients)
      BY <1>5 DEF ConnectSlot, ServerFull
    <3>3. Cardinality(SessionsOf(Active, id)) = Cardinality(Active)
      BY SessionsCount
    <3>4. QED
      BY <3>1, <3>2, <3>3
  <2>7. Room!Cardinality(SessionsOf(Active, id)) < MaxClients
    BY <2>6, Zenon DEF Cardinality, Room!Cardinality
  <2>8. QED
    BY <2>3, <2>4, <2>5, <2>7 DEF Room!Connect
<1>6. ASSUME NEW s \in Slots, NEW n \in Names, JoinSlot(s, n)
      PROVE  Room!Next
  <2>1. s \in Active \ A /\ Active' = Active /\ A' = A \cup {s}
    BY <1>6 DEF JoinSlot, Active, Authenticated
  <2>2. /\ id' = id /\ nextId' = nextId
        /\ \A t \in A : username'[t] = username[t]
        /\ username'[s] = n
    BY <1>1, <1>6, <2>1 DEF JoinSlot
  <2>3. SessionsOf(Active', id') = SessionsOf(Active, id)
    BY <2>1, <2>2
  <2>4. Injective(A \cup {s}, id)
    BY <1>1, <2>1 DEF Injective
  <2>5. MembersOf(A \cup {s}, id, username') =
          Room!Plus(mem, id[s], username'[s])
    <3>1. s \notin A /\ \A t \in A : username'[t] = username[t]
      BY <2>1, <2>2
    <3> HIDE DEF A
    <3>2. QED
      BY <2>4, <3>1, MembersAdd
  <2>6. id[s] \in SessionsOf(Active, id) \ DOMAIN mem
    BY <1>1, <2>1 DEF SessionsOf, Injective
  <2>7. n \notin Room!Held
    <3>1. \A k \in DOMAIN mem : mem[k] \in Online
      <4> SUFFICES ASSUME NEW k \in DOMAIN mem PROVE mem[k] \in Online
        OBVIOUS
      <4>1. PICK t \in A : k = id[t]
        BY <1>1 DEF SessionsOf
      <4>2. mem[id[t]] = username[t]
        BY <1>1, MembersValue
      <4>3. QED
        BY <4>1, <4>2 DEF Online
    <3>2. n \notin Online
      BY <1>6 DEF JoinSlot
    <3>3. QED
      BY <3>1, <3>2 DEF Room!Held
  <2>8. Room!Join(id[s], n)
    BY <2>1, <2>2, <2>3, <2>5, <2>6, <2>7 DEF Room!Join
  <2>9. QED
    BY <2>6, <2>8 DEF Room!Next
<1>7. CASE CloseSlots
  <2>1. Active' = {} /\ A' = {} /\ nextId' = nextId
    BY <1>7 DEF CloseSlots, Active, Authenticated
  <2>2. SessionsOf(Active', id') = {}
    BY <2>1 DEF SessionsOf
  <2>3. MembersOf(A', id', username') = [k \in {} |-> {}]
    BY <2>1 DEF MembersOf, SessionsOf
  <2>4. QED
    BY <2>1, <2>2, <2>3 DEF Room!Next, Room!Close
<1>8. QED
  BY <1>2, <1>3, <1>4, <1>5, <1>6, <1>7 DEF IdentityStep, Room!Next

(* As long as the environment opens fewer connections than next_client_id can
   count, the server implements the abstract room: a session number is never
   given twice, and a member joins once, under a free name it then keeps. *)
THEOREM RoomImplemented ==
  ASSUME LastId \in 1 .. (IdMod - 1)
  PROVE  Spec => ImplementsRoom
<1>1. Init => IdsInv /\ Room!Init
  <2> SUFFICES ASSUME Init PROVE IdsInv /\ Room!Init
    OBVIOUS
  <2>1. Active = {} /\ Authenticated = {} /\ nextId = 1
    BY DEF Init, Active, Authenticated
  <2>2. QED
    BY <2>1 DEF IdsInv, UniqueIds, Room!Init, SessionsOf, MembersOf
<1>2. TypeOK /\ IdsInv /\ [Next]_vars => IdsInv'
  BY StepIdentity, IdsStep
<1>3. TypeOK /\ IdsInv /\ [Next]_vars => [Room!Next]_(Room!roomVars)
  BY StepIdentity, RoomStep
<1>4. QED
  BY <1>1, <1>2, <1>3, TypeCorrect, PTL DEF Spec, Room!Spec, ImplementsRoom
=============================================================================
