--------------------------- MODULE HeartbeatProofs ---------------------------
(***************************************************************************)
(* Proofs about the heartbeats, for every interval and timeout: how long a *)
(* client can be silent before it is removed, when a client that is sent   *)
(* heartbeats is not, how many messages can be under way, and when a       *)
(* client that is sent heartbeats does not give its connection up.         *)
(***************************************************************************)
EXTENDS Heartbeat, FiniteSetTheorems, SequenceTheorems, TLAPS

(* Ages are numbers. *)
Numbers ==
  /\ activity \in Nat /\ stamp \in Nat
  /\ sinceCleanup \in Nat /\ sinceCheck \in Nat /\ sinceRound \in Nat

(* The server is never later than one round with a cleanup or a check. *)
OnTime ==
  /\ sinceRound <= Lag
  /\ at # "select" => sinceRound = 0
  /\ IF at = "select"
       THEN /\ sinceCleanup <= CleanupEvery - 1 + sinceRound
            /\ sinceCheck <= Interval - 1 + sinceRound
       ELSE /\ sinceCleanup <= CleanupEvery - 1 + Lag
            /\ at = "heartbeat" => sinceCleanup <= CleanupEvery - 1
            /\ sinceCheck <= Interval - 1 + Lag

(* Whoever survived the last cleanup was not silent for long at that time. *)
Survivor == slot # "none" => activity <= ClientTimeout + sinceCleanup

(* A stamp is never newer than the activity it counts as, so a member that is
   passed over by a check was active less than an interval ago. *)
StampOlder == slot # "none" /\ stamp < Interval => activity <= stamp
MemberActive ==
  slot = "member" /\ ~faulted => activity <= sinceCheck + Interval - 1

Quiet == Survivor /\ StampOlder /\ MemberActive
TimeInv == Numbers /\ OnTime /\ Quiet

LEMMA TickKeeps == TimeInv /\ Tick => TimeInv'
<1> SUFFICES ASSUME TimeInv, Tick PROVE TimeInv'
  OBVIOUS
<1> USE TimingAssumption DEF TimeInv, Numbers
<1>1. LongestSilence + 1 \in Nat
  BY DEF LongestSilence
<1>2. /\ Older(activity, LongestSilence + 1) \in Nat
      /\ Older(activity, LongestSilence + 1) <= activity + 1
  BY <1>1 DEF Older
<1>3. /\ Older(stamp, Interval) \in Nat
      /\ Older(stamp, Interval) < Interval => Older(stamp, Interval) = stamp + 1
  BY DEF Older
<1>4. Numbers'
  BY <1>2, <1>3 DEF Tick
<1>5. OnTime'
  BY DEF Tick, OnTime
<1>6. Survivor'
  BY <1>2 DEF Tick, Quiet, Survivor
<1>7. StampOlder'
  BY <1>2, <1>3 DEF Tick, Quiet, StampOlder
<1>8. MemberActive'
  BY <1>2 DEF Tick, Quiet, MemberActive
<1>9. QED
  BY <1>4, <1>5, <1>6, <1>7, <1>8 DEF Quiet

(* The steps of the server other than the two maintenance functions. *)
LEMMA WorkKeeps ==
  TimeInv /\ (Select \/ Accept \/ Receive \/ PeerGone \/ NothingReceived \/ Others)
    => TimeInv'
<1> SUFFICES ASSUME TimeInv,
                    Select \/ Accept \/ Receive \/ PeerGone \/ NothingReceived \/ Others
             PROVE  TimeInv'
  OBVIOUS
<1> USE TimingAssumption
    DEF TimeInv, Numbers, OnTime, Quiet, Survivor, StampOlder, MemberActive,
        server, clocks
<1>1. CASE Select
  BY <1>1 DEF Select
<1>2. CASE Accept
  BY <1>2 DEF Accept
<1>3. CASE Receive
  <2>1. /\ at = "work" /\ at' = "others" /\ slot # "none"
        /\ activity' = 0 /\ stamp' \in {0, stamp}
        /\ UNCHANGED <<clocks, faulted>>
    BY <1>3 DEF Receive
  <2>2. QED
    BY <2>1
<1>4. CASE PeerGone
  BY <1>4 DEF PeerGone, Clear
<1>5. CASE NothingReceived
  BY <1>5 DEF NothingReceived
<1>6. CASE Others
  BY <1>6 DEF Others
<1>7. QED
  BY <1>1, <1>2, <1>3, <1>4, <1>5, <1>6

LEMMA CleanupKeeps == TimeInv /\ Cleanup => TimeInv'
<1> SUFFICES ASSUME TimeInv, Cleanup PROVE TimeInv'
  OBVIOUS
<1> USE TimingAssumption
    DEF TimeInv, Numbers, OnTime, Quiet, Survivor, StampOlder, MemberActive, server
<1>1. CASE CleanupDue /\ Expired
  BY <1>1 DEF Cleanup, Clear
<1>2. CASE CleanupDue /\ ~Expired
  BY <1>2 DEF Cleanup, Expired
<1>3. CASE ~CleanupDue
  BY <1>3 DEF Cleanup, CleanupDue
<1>4. QED
  BY <1>1, <1>2, <1>3

LEMMA CheckKeeps == TimeInv /\ CheckHeartbeats => TimeInv'
<1> SUFFICES ASSUME TimeInv, CheckHeartbeats PROVE TimeInv'
  OBVIOUS
<1> USE TimingAssumption
    DEF TimeInv, Numbers, OnTime, Quiet, Survivor, StampOlder, MemberActive, server
<1>1. CASE CheckDue /\ slot = "member" /\ stamp >= Interval
  BY <1>1 DEF CheckHeartbeats, SendHeartbeat, Clear
<1>2. CASE CheckDue /\ ~(slot = "member" /\ stamp >= Interval)
  BY <1>2 DEF CheckHeartbeats
<1>3. CASE ~CheckDue
  BY <1>3 DEF CheckHeartbeats, CheckDue
<1>4. QED
  BY <1>1, <1>2, <1>3

LEMMA ClientKeeps == TimeInv /\ (Client \/ Cut) => TimeInv'
<1> SUFFICES ASSUME TimeInv, Client \/ Cut PROVE TimeInv'
  OBVIOUS
<1> USE DEF TimeInv, Numbers, OnTime, Quiet, Survivor, StampOlder,
            MemberActive, server, clocks
<1>1. CASE Dial \/ Login \/ Chat
  BY <1>1 DEF Dial, Login, Chat, Says
<1>2. CASE Read
  BY <1>2 DEF Read
<1>3. CASE Hangup \/ GiveUp \/ Hang
  BY <1>3 DEF Hangup, GiveUp, Hang
<1>4. CASE Cut
  BY <1>4 DEF Cut
<1>5. QED
  BY <1>1, <1>2, <1>3, <1>4 DEF Client

(* The invariant of the ages holds always. *)
LEMMA TimeInvariant == Spec => []TimeInv
<1>1. Init => TimeInv
  BY TimingAssumption
     DEF Init, TimeInv, Numbers, OnTime, Quiet, Survivor, StampOlder, MemberActive
<1>2. TimeInv /\ [Next]_vars => TimeInv'
  <2>1. TimeInv /\ UNCHANGED vars => TimeInv'
    BY DEF vars, server, clocks, TimeInv, Numbers, OnTime, Quiet, Survivor,
           StampOlder, MemberActive
  <2>2. QED
    BY <2>1, TickKeeps, WorkKeeps, CleanupKeeps, CheckKeeps, ClientKeeps
       DEF Next, Round
<1>3. QED
  BY <1>1, <1>2, PTL DEF Spec

(* The slot of a client that says nothing and is sent nothing, such as one that
   never logs in, is cleared after the timeout, the distance of two cleanups and
   one round at the latest.  A member is sent heartbeats, and is not meant. *)
THEOREM QuietRemoved == Spec => []QuietBounded
<1>1. TimeInv => QuietBounded
  BY TimingAssumption DEF TimeInv, Numbers, OnTime, Quiet, Survivor,
                          QuietBounded, LongestSilence
<1>2. QED
  BY <1>1, TimeInvariant, PTL

(* Two intervals, less the two seconds that were not yet over, and a round. *)
RoomForTwo == ClientTimeout >= 2 * Interval - 2 + Lag

(* If the timeout leaves room for two intervals and a round, then the cleanup
   never removes a member whose heartbeats were sent. *)
THEOREM MembersStay == RoomForTwo => (Spec => []MembersKept)
<1> SUFFICES ASSUME RoomForTwo PROVE Spec => []MembersKept
  OBVIOUS
<1>1. TimeInv => MembersKept
  BY RoomForTwo, TimingAssumption
     DEF RoomForTwo, TimeInv, Numbers, OnTime, Quiet, MemberActive, MembersKept,
         Expired
<1>2. QED
  BY <1>1, TimeInvariant, PTL

-----------------------------------------------------------------------------
(* The messages under way. *)

(* The client reads faster than heartbeats come, and the bound on the messages
   under way leaves room for a welcome, a heartbeat and a text. *)
KeepsUp == Delay < Interval /\ Backlog >= 3

Downs == {"welcome", "heartbeat", "chat"}
Ups   == {"login", "chat", "ack"}

(* How many heartbeats are on their way to the client. *)
BeatsOf(s) == {i \in 1 .. Len(s) : s[i] = "heartbeat"}
Beats(s) == Cardinality(BeatsOf(s))

WireTyped ==
  /\ inbox \in Seq(Downs) /\ outbox \in Seq(Ups)
  /\ slot \in {"none", "joined", "member"}
  /\ at \in {"select", "work", "others", "cleanup", "heartbeat"}
  /\ link \in {"cut", "pending", "up"}
  /\ view \in {"off", "connected", "member"}
  /\ alive \in BOOLEAN /\ faulted \in BOOLEAN
  /\ heard \in Nat /\ heard <= Limit + 1
  /\ late \in Nat /\ late <= Delay
  /\ stamp <= Interval /\ activity <= LongestSilence + 1

(* Before it is a member, a client has at most its login under way and is sent
   nothing; a login is alone, and comes once. *)
Stranger ==
  /\ link = "pending" => slot = "none"
  /\ link = "up" => view # "off"
  /\ link # "cut" /\ slot # "member" =>
       inbox = <<>> /\ view = "connected" /\ outbox \in {<<>>, <<"login">>}
  /\ \A i \in 1 .. Len(outbox) :
       outbox[i] = "login" => Len(outbox) = 1 /\ slot # "member"
  /\ slot = "none" => stamp = 0

(* The last place of the inbox is a heartbeat's, and the client reads a message
   before the next one is due. *)
InboxFits ==
  /\ Len(inbox) <= Backlog - 1
  /\ Len(inbox) = Backlog - 1 /\ Reads => stamp <= late

(* A heartbeat and its acknowledgement take one place, and the server receives
   a message in each round before it sends a heartbeat. *)
OutboxFits ==
  /\ Beats(inbox) + Len(outbox) <= Backlog
  /\ at \in {"others", "cleanup", "heartbeat"} /\ stamp >= Interval =>
       Beats(inbox) + Len(outbox) < Backlog

WireInv == WireTyped /\ Stranger /\ InboxFits /\ OutboxFits


LEMMA BeatsCount ==
  ASSUME NEW s \in Seq(Downs)
  PROVE  /\ IsFiniteSet(BeatsOf(s)) /\ Beats(s) \in Nat /\ Beats(s) <= Len(s)
         /\ s = <<>> => Beats(s) = 0
<1>1. Len(s) \in Nat /\ BeatsOf(s) \subseteq 1 .. Len(s)
  BY DEF BeatsOf
<1>2. IsFiniteSet(1 .. Len(s)) /\ Cardinality(1 .. Len(s)) = Len(s)
  <2>1. Len(s) \in Int /\ 1 \in Int
    BY <1>1
  <2>2. /\ IsFiniteSet(1 .. Len(s))
        /\ Cardinality(1 .. Len(s)) = IF 1 > Len(s) THEN 0 ELSE Len(s) - 1 + 1
    BY <2>1, FS_Interval
  <2>3. (IF 1 > Len(s) THEN 0 ELSE Len(s) - 1 + 1) = Len(s)
    BY <1>1
  <2>4. QED
    BY <2>2, <2>3
<1>3. /\ IsFiniteSet(BeatsOf(s))
      /\ Cardinality(BeatsOf(s)) <= Cardinality(1 .. Len(s))
  BY <1>1, <1>2, FS_Subset
<1>4. Beats(s) \in Nat
  BY <1>3, FS_CardinalityType DEF Beats
<1>5. s = <<>> => Len(s) = 0
  OBVIOUS
<1>6. QED
  BY <1>1, <1>2, <1>3, <1>4, <1>5 DEF Beats

LEMMA BeatsAppend ==
  ASSUME NEW s \in Seq(Downs), NEW m \in Downs
  PROVE  Beats(Append(s, m)) = Beats(s) + (IF m = "heartbeat" THEN 1 ELSE 0)
<1>1. /\ Len(Append(s, m)) = Len(s) + 1 /\ Len(s) \in Nat
      /\ \A i \in 1 .. Len(s) + 1 : Append(s, m)[i] = IF i = Len(s) + 1 THEN m ELSE s[i]
  OBVIOUS
<1>2. IsFiniteSet(BeatsOf(s)) /\ Len(s) + 1 \notin BeatsOf(s) /\ Beats(s) \in Nat
  <2>1. Len(s) + 1 \notin 1 .. Len(s)
    BY <1>1
  <2>2. Len(s) + 1 \notin BeatsOf(s)
    BY <2>1 DEF BeatsOf
  <2>3. QED
    BY <2>2, BeatsCount
<1>3. CASE m = "heartbeat"
  <2>1. BeatsOf(Append(s, m)) = BeatsOf(s) \cup {Len(s) + 1}
    BY <1>1, <1>3 DEF BeatsOf
  <2>2. QED
    BY <1>2, <1>3, <2>1, FS_AddElement DEF Beats
<1>4. CASE m # "heartbeat"
  <2>1. BeatsOf(Append(s, m)) = BeatsOf(s)
    BY <1>1, <1>4 DEF BeatsOf
  <2>2. QED
    BY <1>2, <1>4, <2>1 DEF Beats
<1>5. QED
  BY <1>3, <1>4

LEMMA BeatsTail ==
  ASSUME NEW s \in Seq(Downs), s # <<>>
  PROVE  Beats(s) = Beats(Tail(s)) + (IF Head(s) = "heartbeat" THEN 1 ELSE 0)
<1> DEFINE t == Tail(s)
           f == [i \in BeatsOf(t) |-> i + 1]
<1>1. /\ t \in Seq(Downs) /\ Len(s) \in Nat /\ Len(s) > 0 /\ Len(t) = Len(s) - 1
      /\ Head(s) = s[1]
      /\ \A i \in 1 .. Len(t) : t[i] = s[i + 1]
  BY HeadTailProperties
<1> HIDE DEF t
<1>2. BeatsOf(t) \subseteq Nat
  BY <1>1 DEF BeatsOf
<1>3. f \in Bijection(BeatsOf(t), BeatsOf(s) \ {1})
  <2>1. f \in [BeatsOf(t) -> BeatsOf(s) \ {1}]
    BY <1>1 DEF BeatsOf
  <2>2. \A i, j \in BeatsOf(t) : f[i] = f[j] => i = j
    BY <1>2
  <2>3. ASSUME NEW j \in BeatsOf(s) \ {1} PROVE \E i \in BeatsOf(t) : f[i] = j
    <3>1. j - 1 \in BeatsOf(t) /\ j - 1 + 1 = j
      BY <1>1, <2>3 DEF BeatsOf
    <3>2. QED
      BY <3>1
  <2>4. QED
    BY <2>1, <2>2, <2>3 DEF Bijection, Injection, Surjection, IsInjective
<1>4. IsFiniteSet(BeatsOf(s)) /\ Beats(s) \in Nat
  BY BeatsCount
<1>5. IsFiniteSet(BeatsOf(t)) /\ Beats(t) \in Nat
  BY <1>1, BeatsCount
<1>6. Cardinality(BeatsOf(t)) = Cardinality(BeatsOf(s) \ {1})
  BY <1>3, <1>5, FS_Bijection DEF ExistsBijection
<1>7. 1 \in BeatsOf(s) <=> Head(s) = "heartbeat"
  BY <1>1 DEF BeatsOf
<1>8. Cardinality(BeatsOf(s) \ {1}) =
        IF 1 \in BeatsOf(s) THEN Cardinality(BeatsOf(s)) - 1 ELSE Cardinality(BeatsOf(s))
  BY <1>4, FS_RemoveElement
<1>9. QED
  BY <1>4, <1>5, <1>6, <1>7, <1>8 DEF Beats, t

LEMMA GrownInbox ==
  ASSUME WireTyped, NEW m \in Downs
  PROVE  /\ Append(inbox, m) \in Seq(Downs) /\ Append(inbox, m) # <<>>
         /\ Len(Append(inbox, m)) = Len(inbox) + 1 /\ Len(inbox) \in Nat
         /\ Delivered(m) = IF alive /\ link = "up" THEN Append(inbox, m) ELSE inbox
BY DEF WireTyped, Delivered

LEMMA ShrunkInbox ==
  ASSUME WireTyped, inbox # <<>>
  PROVE  /\ Tail(inbox) \in Seq(Downs) /\ Head(inbox) \in Downs
         /\ Len(Tail(inbox)) = Len(inbox) - 1 /\ Len(inbox) \in Nat /\ Len(inbox) > 0
BY HeadTailProperties DEF WireTyped

LEMMA ShrunkOutbox ==
  ASSUME WireTyped, outbox # <<>>
  PROVE  /\ Tail(outbox) \in Seq(Ups) /\ Head(outbox) \in Ups
         /\ Len(Tail(outbox)) = Len(outbox) - 1 /\ Len(outbox) \in Nat /\ Len(outbox) > 0
         /\ Head(outbox) = outbox[1]
         /\ \A i \in 1 .. Len(outbox) - 1 : Tail(outbox)[i] = outbox[i + 1]
BY HeadTailProperties DEF WireTyped

LEMMA GrownOutbox ==
  ASSUME WireTyped, NEW m \in Ups
  PROVE  /\ Append(outbox, m) \in Seq(Ups)
         /\ Len(Append(outbox, m)) = Len(outbox) + 1 /\ Len(outbox) \in Nat
         /\ \A i \in 1 .. Len(outbox) + 1 :
              Append(outbox, m)[i] = IF i = Len(outbox) + 1 THEN m ELSE outbox[i]
BY DEF WireTyped

LEMMA TickWires == ASSUME KeepsUp, TimeInv, WireInv, Tick PROVE WireInv'
<1> USE TimingAssumption DEF WireInv
<1>1. /\ UNCHANGED <<slot, at, link, inbox, outbox, view, alive, faulted>>
      /\ at = "select"
  BY DEF Tick, wire
<1>2. /\ heard' = Older(heard, Limit + 1) /\ stamp' \in {0, Older(stamp, Interval)}
      /\ slot = "none" => stamp' = 0
      /\ activity' \in {0, Older(activity, LongestSilence + 1)}
      /\ Reads /\ inbox # <<>> => late' = late + 1 /\ late < Delay
      /\ ~(Reads /\ inbox # <<>>) => late' = 0
  BY DEF Tick
<1>3. heard' \in Nat /\ heard' <= Limit + 1
  BY <1>2 DEF Older, WireTyped
<1>4. stamp' <= Interval /\ stamp' <= stamp + 1
  BY <1>2 DEF Older, WireTyped, TimeInv, Numbers
<1>5. activity' <= LongestSilence + 1
  BY <1>2 DEF Older, WireTyped, TimeInv, Numbers, LongestSilence
<1>6. late' \in Nat /\ late' <= Delay
  BY <1>2 DEF WireTyped
<1>7. WireTyped'
  BY <1>1, <1>3, <1>4, <1>5, <1>6 DEF WireTyped
<1>8. Stranger'
  BY <1>1, <1>2 DEF Stranger
<1>9. InboxFits'
  <2>1. Len(inbox) = Backlog - 1 => inbox # <<>>
    BY DEF KeepsUp
  <2>2. Reads' = Reads
    BY <1>1 DEF Reads
  <2>3. late \in Nat /\ stamp \in Nat
    BY DEF WireTyped, TimeInv, Numbers
  <2>4. Len(inbox) = Backlog - 1 /\ Reads => stamp' <= late'
    <3>1. SUFFICES ASSUME Len(inbox) = Backlog - 1, Reads PROVE stamp' <= late'
      OBVIOUS
    <3>2. stamp <= late /\ late' = late + 1
      BY <1>2, <2>1, <3>1 DEF InboxFits
    <3>3. stamp' \in Int
      BY <1>2, <2>3 DEF Older
    <3>4. QED
      BY <1>4, <2>3, <3>2, <3>3
  <2>5. QED
    BY <1>1, <2>2, <2>4 DEF InboxFits
<1>10. OutboxFits'
  BY <1>1 DEF OutboxFits
<1>11. QED
  BY <1>7, <1>8, <1>9, <1>10

(* The steps of a round that put nothing on the wire and take nothing from it. *)
LEMMA RoundWires ==
  ASSUME KeepsUp, TimeInv, WireInv,
         Select \/ Accept \/ PeerGone \/ NothingReceived \/ Cleanup
  PROVE  WireInv'
<1> USE TimingAssumption DEF WireInv
<1>1. UNCHANGED <<inbox, outbox, view, heard, late, alive>>
  BY DEF Select, Accept, PeerGone, NothingReceived, Cleanup, Clear, server, wire, client
<1>2. \/ UNCHANGED <<slot, link, stamp>>
      \/ slot' = "joined" /\ link' = "up" /\ stamp' = 0 /\ link = "pending"
      \/ slot' = "none" /\ link' = "cut" /\ stamp' = 0
  BY DEF Select, Accept, PeerGone, NothingReceived, Cleanup, Clear, server, wire
<1>3. activity' \in {0, activity} /\ faulted' \in {FALSE, faulted}
  BY DEF Select, Accept, PeerGone, NothingReceived, Cleanup, Clear, server
<1>4. at' \in {"select", "work", "others", "cleanup", "heartbeat"}
  BY DEF Select, Accept, PeerGone, NothingReceived, Cleanup, WireTyped
<1>5. LongestSilence + 1 \in Nat
  BY DEF LongestSilence
<1>6. WireTyped'
  <2>1. /\ slot' \in {"none", "joined", "member"} /\ link' \in {"cut", "pending", "up"}
        /\ stamp' <= Interval
    BY <1>2 DEF WireTyped
  <2>2. activity' <= LongestSilence + 1
    BY <1>3, <1>5 DEF WireTyped
  <2>3. faulted' \in BOOLEAN
    BY <1>3, Zenon DEF WireTyped
  <2>4. QED
    BY <1>1, <1>4, <2>1, <2>2, <2>3 DEF WireTyped
<1>7. Stranger'
  BY <1>1, <1>2 DEF Stranger, WireTyped
<1>8. InboxFits'
  <2>1. Reads' = Reads
    BY <1>1 DEF Reads
  <2>2. late \in Nat
    BY DEF WireTyped
  <2>3. QED
    BY <1>1, <1>2, <2>1, <2>2 DEF InboxFits
<1>9. OutboxFits'
  <2>1. ASSUME at' \in {"others", "cleanup", "heartbeat"}, stamp' >= Interval
        PROVE  Beats(inbox) + Len(outbox) < Backlog
    <3>1. stamp' = stamp /\ slot' = slot /\ link' = link
      BY <1>2, <2>1
    <3>2. CASE NothingReceived
      <4>1. slot # "none"
        BY <2>1, <3>1 DEF Stranger
      <4>2. outbox = <<>> /\ inbox \in Seq(Downs)
        BY <3>2, <4>1 DEF NothingReceived, WireTyped
      <4>3. Beats(inbox) \in Nat /\ Beats(inbox) <= Len(inbox) /\ Len(inbox) \in Nat
        BY <4>2, BeatsCount
      <4>4. QED
        BY <4>2, <4>3 DEF InboxFits
    <3>3. CASE PeerGone
      BY <2>1, <3>3 DEF PeerGone, Clear
    <3>4. CASE Select \/ Accept
      BY <2>1, <3>4 DEF Select, Accept
    <3>5. CASE Cleanup
      BY <2>1, <3>1, <3>5 DEF Cleanup, OutboxFits
    <3>6. QED
      BY <3>2, <3>3, <3>4, <3>5
  <2>2. QED
    BY <1>1, <2>1 DEF OutboxFits
<1>10. QED
  BY <1>6, <1>7, <1>8, <1>9

LEMMA OthersWires == ASSUME KeepsUp, TimeInv, WireInv, Others PROVE WireInv'
<1> USE TimingAssumption DEF WireInv
<1>1. /\ UNCHANGED <<slot, stamp, link, outbox, view, heard, late, alive, faulted>>
      /\ at = "others" /\ at' = "cleanup" /\ activity' \in {0, activity}
  BY DEF Others, client
<1>2. \/ inbox' = inbox
      \/ inbox' = Append(inbox, "chat") /\ slot = "member" /\ Len(inbox) + 2 < Backlog
  BY DEF Others, Delivered, ChatFits
<1>3. "chat" \in Downs
  BY DEF Downs
<1>4. /\ inbox' \in Seq(Downs) /\ Len(inbox) \in Nat
      /\ Len(inbox') = Len(inbox) \/ Len(inbox') < Backlog - 1
      /\ Beats(inbox') = Beats(inbox)
  <2>1. inbox \in Seq(Downs)
    BY DEF WireTyped
  <2>2. Beats(inbox) \in Nat
    BY <2>1, BeatsCount
  <2>3. /\ Append(inbox, "chat") \in Seq(Downs) /\ Len(inbox) \in Nat
        /\ Len(Append(inbox, "chat")) = Len(inbox) + 1
    BY <1>3, GrownInbox
  <2>4. Beats(Append(inbox, "chat")) = Beats(inbox)
    BY <1>3, <2>1, <2>2, BeatsAppend
  <2>5. CASE inbox' = inbox
    BY <2>1, <2>3, <2>5
  <2>6. CASE inbox' = Append(inbox, "chat") /\ Len(inbox) + 2 < Backlog
    BY <2>3, <2>4, <2>6
  <2>7. QED
    BY <1>2, <2>5, <2>6
<1>5. LongestSilence + 1 \in Nat
  BY DEF LongestSilence
<1>6. WireTyped'
  BY <1>1, <1>4, <1>5 DEF WireTyped
<1>7. Stranger'
  BY <1>1, <1>2 DEF Stranger
<1>8. InboxFits' /\ OutboxFits'
  <2>1. Reads' = Reads
    BY <1>1 DEF Reads
  <2>2. InboxFits'
    <3>1. CASE Len(inbox') = Len(inbox)
      BY <1>1, <2>1, <3>1 DEF InboxFits
    <3>2. CASE Len(inbox') < Backlog - 1
      BY <1>4, <3>2, LenProperties DEF InboxFits
    <3>3. QED
      BY <1>4, <3>1, <3>2
  <2>3. QED
    BY <1>1, <1>4, <2>2 DEF OutboxFits
<1>9. QED
  BY <1>6, <1>7, <1>8

LEMMA ReceiveWires == ASSUME KeepsUp, TimeInv, WireInv, Receive PROVE WireInv'
<1> USE TimingAssumption DEF WireInv
<1> DEFINE m == Head(outbox)
<1>1. /\ UNCHANGED <<link, view, heard, late, alive, faulted>>
      /\ at = "work" /\ at' = "others" /\ activity' = 0 /\ slot # "none"
      /\ outbox # <<>> /\ outbox' = Tail(outbox)
      /\ slot' = IF m = "login" THEN "member" ELSE slot
      /\ stamp' = IF m = "ack" THEN 0 ELSE stamp
  BY DEF Receive, client
<1>2. \/ inbox' = inbox
      \/ inbox' = Delivered("welcome") /\ m = "login"
      \/ inbox' = Delivered("chat") /\ m = "chat" /\ ChatFits
  BY DEF Receive
<1>3. /\ Tail(outbox) \in Seq(Ups) /\ m \in Ups
      /\ Len(Tail(outbox)) = Len(outbox) - 1 /\ Len(outbox) \in Nat /\ Len(outbox) > 0
      /\ m = outbox[1] /\ 1 \in 1 .. Len(outbox)
      /\ \A i \in 1 .. Len(outbox) - 1 : Tail(outbox)[i] = outbox[i + 1]
  <2>1. /\ Tail(outbox) \in Seq(Ups) /\ m \in Ups
        /\ Len(Tail(outbox)) = Len(outbox) - 1 /\ Len(outbox) \in Nat /\ Len(outbox) > 0
        /\ m = outbox[1]
        /\ \A i \in 1 .. Len(outbox) - 1 : Tail(outbox)[i] = outbox[i + 1]
    BY <1>1, ShrunkOutbox
  <2>2. QED
    BY <2>1
<1> HIDE DEF m
<1>4. "welcome" \in Downs /\ "chat" \in Downs
  BY DEF Downs
<1>5. m = "login" => Len(outbox) = 1 /\ slot # "member" /\ (link = "up" => inbox = <<>>)
  BY <1>3 DEF Stranger
<1>6. link # "cut" /\ slot # "member" => m = "login"
  <2>1. link # "cut" /\ slot # "member" => outbox \in {<<>>, <<"login">>}
    BY DEF Stranger
  <2>2. QED
    BY <1>1, <1>3, <2>1
<1>7. \/ inbox' = inbox
      \/ \E x \in {"welcome", "chat"} :
           inbox' = Append(inbox, x) /\ Len(inbox) + 1 < Backlog - 1
  <2>1. /\ Delivered("welcome") = IF alive /\ link = "up" THEN Append(inbox, "welcome") ELSE inbox
        /\ Delivered("chat") = IF alive /\ link = "up" THEN Append(inbox, "chat") ELSE inbox
        /\ Len(inbox) \in Nat
    BY <1>4, GrownInbox
  <2>2. inbox = <<>> => Len(inbox) = 0
    OBVIOUS
  <2>3. CASE inbox' = inbox
    BY <2>3
  <2>4. CASE inbox' = Delivered("welcome") /\ m = "login"
    BY <1>5, <2>1, <2>2, <2>4 DEF KeepsUp
  <2>5. CASE inbox' = Delivered("chat") /\ m = "chat" /\ ChatFits
    BY <2>1, <2>5 DEF ChatFits
  <2>6. QED
    BY <1>2, <2>3, <2>4, <2>5
<1>8. /\ inbox' \in Seq(Downs) /\ Len(inbox) \in Nat /\ Beats(inbox) \in Nat
      /\ inbox' = inbox \/ Len(inbox') < Backlog - 1
      /\ Beats(inbox') = Beats(inbox)
  <2>1. inbox \in Seq(Downs)
    BY DEF WireTyped
  <2>2. Beats(inbox) \in Nat /\ Len(inbox) \in Nat
    BY <2>1, BeatsCount
  <2>3. \A x \in {"welcome", "chat"} :
          /\ Append(inbox, x) \in Seq(Downs) /\ Len(Append(inbox, x)) = Len(inbox) + 1
          /\ Beats(Append(inbox, x)) = Beats(inbox)
    BY <1>4, <2>1, <2>2, GrownInbox, BeatsAppend
  <2>4. QED
    BY <1>7, <2>1, <2>2, <2>3
<1>9. WireTyped'
  <2>1. slot' \in {"none", "joined", "member"} /\ stamp' <= Interval
    BY <1>1 DEF WireTyped
  <2>2. LongestSilence + 1 \in Nat
    BY DEF LongestSilence
  <2>3. QED
    BY <1>1, <1>3, <1>8, <2>1, <2>2 DEF WireTyped
<1>10. Stranger'
  <2>1. link' = "pending" => slot' = "none"
    BY <1>1 DEF Stranger
  <2>2. link' # "cut" => slot' = "member"
    BY <1>1, <1>6
  <2>3. \A i \in 1 .. Len(outbox') : outbox'[i] # "login"
    <3>1. SUFFICES ASSUME NEW i \in 1 .. Len(outbox) - 1, outbox[i + 1] = "login" PROVE FALSE
      BY <1>1, <1>3
    <3>2. i + 1 \in 1 .. Len(outbox) /\ Len(outbox) > 1
      BY <1>3, <3>1
    <3>3. QED
      BY <3>1, <3>2 DEF Stranger
  <2>4. slot' # "none"
    BY <1>1
  <2>5. link' = "up" => view' # "off"
    BY <1>1 DEF Stranger
  <2>6. QED
    BY <2>1, <2>2, <2>3, <2>4, <2>5 DEF Stranger
<1>11. InboxFits'
  <2>1. Reads' = Reads
    BY <1>1 DEF Reads
  <2>2. late \in Nat
    BY DEF WireTyped
  <2>3. CASE inbox' = inbox
    BY <1>1, <2>1, <2>2, <2>3 DEF InboxFits
  <2>4. CASE Len(inbox') < Backlog - 1
    BY <1>8, <2>4, LenProperties DEF InboxFits
  <2>5. QED
    BY <1>8, <2>3, <2>4
<1>12. OutboxFits'
  BY <1>1, <1>3, <1>8 DEF OutboxFits
<1>13. QED
  BY <1>9, <1>10, <1>11, <1>12

LEMMA CheckWires == ASSUME KeepsUp, TimeInv, WireInv, CheckHeartbeats PROVE WireInv'
<1> USE TimingAssumption DEF WireInv
<1>1. /\ UNCHANGED <<outbox, view, heard, late, alive>>
      /\ at = "heartbeat" /\ at' = "select"
  BY DEF CheckHeartbeats, SendHeartbeat, Clear, wire, client
<1>2. \/ UNCHANGED <<slot, link, inbox, stamp, activity>>
      \/ slot' = "none" /\ link' = "cut" /\ stamp' = 0 /\ activity' = 0 /\ inbox' = inbox
      \/ /\ UNCHANGED <<slot, link>> /\ stamp' = 0 /\ activity' = 0
         /\ slot = "member" /\ stamp >= Interval /\ inbox' = Delivered("heartbeat")
  BY DEF CheckHeartbeats, SendHeartbeat, Clear, server, wire
<1>3. faulted' \in {TRUE, faulted}
  BY DEF CheckHeartbeats, SendHeartbeat
<1>4. "heartbeat" \in Downs
  BY DEF Downs
<1>5. /\ inbox \in Seq(Downs) /\ outbox \in Seq(Ups) /\ Len(outbox) \in Nat
      /\ Beats(inbox) \in Nat /\ Len(inbox) \in Nat /\ late \in Nat
      /\ stamp \in Nat
  <2>1. inbox \in Seq(Downs) /\ outbox \in Seq(Ups) /\ late \in Nat
    BY DEF WireTyped
  <2>2. QED
    BY <2>1, BeatsCount DEF TimeInv, Numbers
<1>6. \/ inbox' = inbox
      \/ /\ inbox' = Append(inbox, "heartbeat") /\ slot = "member" /\ stamp >= Interval
         /\ alive /\ link = "up" /\ stamp' = 0 /\ slot' = slot /\ link' = link
         /\ Len(inbox) < Backlog - 1
  <2>1. CASE inbox' = inbox
    BY <2>1
  <2>2. CASE /\ UNCHANGED <<slot, link>> /\ stamp' = 0 /\ slot = "member"
             /\ stamp >= Interval /\ inbox' = Delivered("heartbeat")
    <3>1. Delivered("heartbeat") =
            IF alive /\ link = "up" THEN Append(inbox, "heartbeat") ELSE inbox
      BY <1>4, GrownInbox
    <3>2. ASSUME alive, link = "up" PROVE Len(inbox) < Backlog - 1
      <4>1. Reads
        BY <3>2 DEF Reads, Stranger
      <4>2. ~(stamp <= late)
        BY <1>5, <2>2 DEF KeepsUp, WireTyped
      <4>3. Len(inbox) # Backlog - 1 /\ Len(inbox) <= Backlog - 1
        BY <4>1, <4>2 DEF InboxFits
      <4>4. QED
        BY <1>5, <4>3
    <3>3. QED
      BY <2>2, <3>1, <3>2
  <2>3. QED
    BY <1>2, <2>1, <2>2
<1>7. /\ Append(inbox, "heartbeat") \in Seq(Downs)
      /\ Len(Append(inbox, "heartbeat")) = Len(inbox) + 1
      /\ Beats(Append(inbox, "heartbeat")) = Beats(inbox) + 1
  BY <1>4, <1>5, GrownInbox, BeatsAppend
<1>8. WireTyped'
  <2>1. /\ slot' \in {"none", "joined", "member"} /\ link' \in {"cut", "pending", "up"}
        /\ stamp' <= Interval
    BY <1>2 DEF WireTyped
  <2>2. activity' <= LongestSilence + 1
    BY <1>2 DEF WireTyped, LongestSilence
  <2>3. faulted' \in BOOLEAN
    BY <1>3, Zenon DEF WireTyped
  <2>4. inbox' \in Seq(Downs)
    BY <1>5, <1>6, <1>7
  <2>5. QED
    BY <1>1, <2>1, <2>2, <2>3, <2>4 DEF WireTyped
<1>9. Stranger'
  <2>1. CASE inbox' = inbox
    BY <1>1, <1>2, <2>1 DEF Stranger
  <2>2. CASE slot = "member" /\ link = "up" /\ slot' = slot /\ link' = link
    BY <1>1, <2>2 DEF Stranger
  <2>3. QED
    BY <1>6, <2>1, <2>2
<1>10. InboxFits'
  <2>1. Reads' = Reads
    BY <1>1 DEF Reads
  <2>2. stamp' = stamp \/ stamp' = 0
    BY <1>2
  <2>3. CASE inbox' = inbox
    BY <1>1, <1>5, <2>1, <2>2, <2>3 DEF InboxFits
  <2>4. CASE inbox' = Append(inbox, "heartbeat") /\ stamp' = 0 /\ Len(inbox) < Backlog - 1
    <3>1. Len(inbox') <= Backlog - 1 /\ stamp' <= late'
      BY <1>1, <1>5, <1>7, <2>4
    <3>2. QED
      BY <3>1 DEF InboxFits
  <2>5. QED
    BY <1>6, <2>3, <2>4
<1>11. OutboxFits'
  <2>1. Beats(inbox') + Len(outbox) <= Backlog
    <3>1. CASE inbox' = inbox
      BY <3>1 DEF OutboxFits
    <3>2. CASE inbox' = Append(inbox, "heartbeat") /\ stamp >= Interval
      <4>1. Beats(inbox) + Len(outbox) < Backlog
        BY <1>1, <3>2 DEF OutboxFits
      <4>2. QED
        BY <1>5, <1>7, <3>2, <4>1
    <3>3. QED
      BY <1>6, <3>1, <3>2
  <2>2. QED
    BY <1>1, <2>1 DEF OutboxFits
<1>12. QED
  BY <1>8, <1>9, <1>10, <1>11

LEMMA SaysWires ==
  ASSUME KeepsUp, TimeInv, WireInv, Login \/ Chat
  PROVE  WireInv'
<1> USE TimingAssumption DEF WireInv
<1>1. PICK m \in {"login", "chat"} :
        /\ outbox' = Append(outbox, m) /\ outbox = <<>> /\ alive /\ link # "cut"
        /\ UNCHANGED <<server, clocks, at, link, inbox, client, faulted>>
        /\ m = "login" => view = "connected" /\ slot # "member"
        /\ m = "chat" => view = "member"
  BY DEF Login, Chat, Says
<1>2. /\ UNCHANGED <<slot, activity, stamp, at, link, inbox, view, heard, late, alive, faulted>>
  BY <1>1 DEF server, client
<1>3. m \in Ups
  BY DEF Ups
<1>4. /\ outbox' \in Seq(Ups) /\ Len(outbox') = 1 /\ outbox'[1] = m /\ Len(outbox) = 0
      /\ outbox' = <<m>>
  BY <1>1, <1>3
<1>5. /\ inbox \in Seq(Downs) /\ Beats(inbox) \in Nat /\ Beats(inbox) <= Len(inbox)
      /\ Len(inbox) \in Nat /\ stamp \in Nat /\ late \in Nat /\ late <= Delay
  <2>1. inbox \in Seq(Downs) /\ late \in Nat /\ late <= Delay
    BY DEF WireTyped
  <2>2. QED
    BY <2>1, BeatsCount DEF TimeInv, Numbers
<1>6. WireTyped'
  BY <1>2, <1>4 DEF WireTyped
<1>7. Stranger'
  <2>1. link # "cut" /\ slot # "member" => m = "login"
    BY <1>1 DEF Stranger
  <2>2. QED
    BY <1>1, <1>2, <1>4, <2>1 DEF Stranger
<1>8. Reads /\ Reads' = Reads
  BY <1>1, <1>2 DEF Reads
<1>9. InboxFits'
  BY <1>2, <1>8 DEF InboxFits
<1>10. OutboxFits'
  <2>1. Beats(inbox) + 1 <= Backlog
    BY <1>5 DEF InboxFits
  <2>2. stamp >= Interval => Len(inbox) < Backlog - 1
    <3>1. Len(inbox) = Backlog - 1 => stamp <= late
      BY <1>8 DEF InboxFits
    <3>2. QED
      BY <1>5, <3>1 DEF InboxFits, KeepsUp
  <2>3. stamp >= Interval => Beats(inbox) + 1 < Backlog
    BY <1>5, <2>2
  <2>4. QED
    BY <1>2, <1>4, <2>1, <2>3 DEF OutboxFits
<1>11. QED
  BY <1>6, <1>7, <1>9, <1>10

LEMMA ReadWires == ASSUME KeepsUp, TimeInv, WireInv, Read PROVE WireInv'
<1> USE TimingAssumption DEF WireInv
<1> DEFINE m == Head(inbox)
<1>1. /\ UNCHANGED <<slot, activity, stamp, at, link, alive>>
      /\ Reads /\ inbox # <<>> /\ inbox' = Tail(inbox)
      /\ heard' = 0 /\ late' = 0 /\ view' \in {view, "member"}
      /\ view' # view => m = "welcome"
  BY DEF Read, server
<1>2. \/ outbox' = Append(outbox, "ack") /\ m = "heartbeat" /\ link = "up"
      \/ outbox' = outbox
  BY DEF Read
<1>3. faulted' \in {TRUE, faulted}
  BY DEF Read
<1>4. /\ inbox' \in Seq(Downs) /\ m \in Downs
      /\ Len(inbox') = Len(inbox) - 1 /\ Len(inbox) \in Nat /\ Len(inbox) > 0
  BY <1>1, ShrunkInbox
<1>5. /\ Beats(inbox) = Beats(inbox') + (IF m = "heartbeat" THEN 1 ELSE 0)
      /\ Beats(inbox) \in Nat /\ Beats(inbox') \in Nat
  <2>1. inbox \in Seq(Downs)
    BY DEF WireTyped
  <2>2. QED
    BY <1>1, <1>4, <2>1, BeatsCount, BeatsTail
<1> HIDE DEF m
<1>6. /\ Append(outbox, "ack") \in Seq(Ups)
      /\ Len(Append(outbox, "ack")) = Len(outbox) + 1 /\ Len(outbox) \in Nat
      /\ \A i \in 1 .. Len(outbox) + 1 :
           Append(outbox, "ack")[i] = IF i = Len(outbox) + 1 THEN "ack" ELSE outbox[i]
  <2>1. "ack" \in Ups
    BY DEF Ups
  <2>2. QED
    BY <2>1, GrownOutbox
<1>7. WireTyped'
  <2>1. faulted' \in BOOLEAN
    BY <1>3, Zenon DEF WireTyped
  <2>2. outbox' \in Seq(Ups)
    BY <1>2, <1>6 DEF WireTyped
  <2>3. QED
    BY <1>1, <1>4, <2>1, <2>2 DEF WireTyped
<1>8. link # "cut" => slot = "member"
  BY <1>1 DEF Stranger
<1>9. Stranger'
  <2>1. \A i \in 1 .. Len(outbox') :
          outbox'[i] = "login" => Len(outbox') = 1 /\ slot # "member"
    <3>1. CASE outbox' = outbox
      BY <3>1 DEF Stranger
    <3>2. CASE outbox' = Append(outbox, "ack") /\ link = "up"
      <4>1. SUFFICES ASSUME NEW i \in 1 .. Len(outbox) + 1, outbox'[i] = "login" PROVE FALSE
        BY <1>6, <3>2
      <4>2. i \in 1 .. Len(outbox) /\ outbox[i] = "login"
        BY <1>6, <3>2, <4>1
      <4>3. QED
        BY <1>8, <3>2, <4>2 DEF Stranger
    <3>3. QED
      BY <1>2, <3>1, <3>2
  <2>2. view' # "off"
    BY <1>1 DEF Reads
  <2>3. link' = "pending" => slot' = "none"
    BY <1>1 DEF Stranger
  <2>4. slot' = "none" => stamp' = 0
    BY <1>1 DEF Stranger
  <2>5. link' # "cut" => slot' = "member"
    BY <1>1, <1>8
  <2>6. slot' = slot
    BY <1>1
  <2>7. QED
    BY <2>1, <2>2, <2>3, <2>4, <2>5, <2>6 DEF Stranger
<1>10. InboxFits'
  BY <1>4 DEF InboxFits
<1>11. OutboxFits'
  <2>1. Beats(inbox') + Len(outbox') <= Beats(inbox) + Len(outbox)
    BY <1>2, <1>5, <1>6
  <2>2. Len(outbox') \in Nat
    BY <1>2, <1>6
  <2>3. QED
    BY <1>1, <1>5, <1>6, <2>1, <2>2 DEF OutboxFits
<1>12. QED
  BY <1>7, <1>9, <1>10, <1>11

LEMMA LinkWires ==
  ASSUME KeepsUp, TimeInv, WireInv, Dial \/ Hangup \/ GiveUp \/ Hang \/ Cut
  PROVE  WireInv'
<1> USE TimingAssumption DEF WireInv
<1>1. CASE Dial
  <2>1. /\ UNCHANGED <<slot, activity, stamp, at, heard, alive, faulted>>
        /\ slot = "none" /\ view' = "connected" /\ link' = "pending"
        /\ inbox' = <<>> /\ outbox' = <<>> /\ late' = 0
    BY <1>1 DEF Dial, server
  <2>2. /\ <<>> \in Seq(Downs) /\ <<>> \in Seq(Ups) /\ Len(<<>>) = 0
    OBVIOUS
  <2>3. Beats(<<>>) = 0
    BY <2>2, BeatsCount
  <2>4. WireTyped' /\ Stranger'
    BY <2>1, <2>2 DEF WireTyped, Stranger
  <2>5. InboxFits' /\ OutboxFits'
    BY <2>1, <2>2, <2>3 DEF InboxFits, OutboxFits, KeepsUp
  <2>6. QED
    BY <2>4, <2>5
<1>2. CASE Hangup \/ GiveUp
  <2>1. /\ UNCHANGED <<slot, activity, stamp, at, inbox, outbox, heard, alive, faulted>>
        /\ view' = "off" /\ link' = "cut" /\ late' = 0
    BY <1>2 DEF Hangup, GiveUp, server
  <2>2. WireTyped' /\ Stranger'
    BY <2>1 DEF WireTyped, Stranger
  <2>3. InboxFits' /\ OutboxFits'
    BY <2>1 DEF InboxFits, OutboxFits, Reads
  <2>4. QED
    BY <2>2, <2>3
<1>3. CASE Hang
  <2>1. /\ UNCHANGED <<slot, activity, stamp, at, link, inbox, outbox, view, heard, late, faulted>>
        /\ alive' = FALSE
    BY <1>3 DEF Hang, server, wire
  <2>2. WireTyped' /\ Stranger'
    BY <2>1 DEF WireTyped, Stranger
  <2>3. InboxFits' /\ OutboxFits'
    BY <2>1 DEF InboxFits, OutboxFits, Reads
  <2>4. QED
    BY <2>2, <2>3
<1>4. CASE Cut
  <2>1. /\ UNCHANGED <<slot, activity, stamp, at, inbox, outbox, view, heard, late, alive, faulted>>
        /\ link' = "cut"
    BY <1>4 DEF Cut, server, client
  <2>2. WireTyped' /\ Stranger'
    BY <2>1 DEF WireTyped, Stranger
  <2>3. InboxFits' /\ OutboxFits'
    BY <2>1 DEF InboxFits, OutboxFits, Reads
  <2>4. QED
    BY <2>2, <2>3
<1>5. QED
  BY <1>1, <1>2, <1>3, <1>4

LEMMA NextWires == ASSUME KeepsUp, TimeInv, WireInv, [Next]_vars PROVE WireInv'
<1>1. CASE UNCHANGED vars
  BY <1>1 DEF vars, server, wire, client, WireInv, WireTyped, Stranger, InboxFits,
              OutboxFits, Reads
<1>2. CASE Next
  BY <1>2, TickWires, RoundWires, OthersWires, ReceiveWires, CheckWires, SaysWires,
     ReadWires, LinkWires DEF Next, Round, Client
<1>3. QED
  BY <1>1, <1>2

LEMMA InitWires == ASSUME KeepsUp, Init PROVE WireInv
<1> USE TimingAssumption
<1>1. <<>> \in Seq(Downs) /\ <<>> \in Seq(Ups) /\ Len(<<>>) = 0
  OBVIOUS
<1>2. Beats(<<>>) = 0
  BY <1>1, BeatsCount
<1>3. WireTyped
  <2>1. inbox \in Seq(Downs) /\ outbox \in Seq(Ups)
    BY <1>1 DEF Init
  <2>2. /\ heard = 0 /\ late = 0 /\ stamp = 0 /\ activity = 0
        /\ slot = "none" /\ at = "select" /\ link = "cut" /\ view = "off"
    BY DEF Init
  <2>3. alive \in BOOLEAN /\ faulted \in BOOLEAN
    BY Zenon DEF Init
  <2>4. LongestSilence + 1 \in Nat
    BY DEF LongestSilence
  <2>5. QED
    BY <2>1, <2>2, <2>3, <2>4 DEF WireTyped
<1>4. Stranger
  BY <1>1 DEF Init, Stranger
<1>5. InboxFits /\ OutboxFits
  BY <1>1, <1>2 DEF Init, InboxFits, OutboxFits, KeepsUp
<1>6. QED
  BY <1>3, <1>4, <1>5 DEF WireInv

(* The types of the clocks and of what is under way, for every interval,
   timeout and delay: if the client reads faster than heartbeats come, then no
   more messages are under way in either direction than the bound on what the
   others send leaves room for. *)
THEOREM HeartbeatTypes == KeepsUp => (Spec => []TypeOK)
<1> SUFFICES ASSUME KeepsUp PROVE Spec => []TypeOK
  OBVIOUS
<1>1. Init => WireInv
  BY KeepsUp, InitWires
<1>2. TimeInv /\ WireInv /\ [Next]_vars => WireInv'
  BY KeepsUp, NextWires
<1>3. TimeInv /\ WireInv => TypeOK
  <2> SUFFICES ASSUME TimeInv, WireInv PROVE TypeOK
    OBVIOUS
  <2> USE TimingAssumption
  <2>1. /\ activity \in 0 .. LongestSilence + 1 /\ stamp \in 0 .. Interval
        /\ heard \in 0 .. Limit + 1 /\ late \in 0 .. Delay
    BY DEF WireInv, WireTyped, TimeInv, Numbers, LongestSilence
  <2>2. /\ sinceCleanup \in 0 .. CleanupEvery - 1 + Lag
        /\ sinceCheck \in 0 .. Interval - 1 + Lag
        /\ sinceRound \in 0 .. Lag
    BY DEF TimeInv, Numbers, OnTime
  <2>3. /\ inbox \in Seq({"welcome", "heartbeat", "chat"}) /\ Len(inbox) <= Backlog
        /\ outbox \in Seq({"login", "chat", "ack"}) /\ Len(outbox) <= Backlog
    <3>1. inbox \in Seq(Downs) /\ outbox \in Seq(Ups)
      BY DEF WireInv, WireTyped
    <3>2. Beats(inbox) \in Nat /\ Len(inbox) \in Nat /\ Len(outbox) \in Nat
      BY <3>1, BeatsCount
    <3>3. Len(inbox) <= Backlog /\ Len(outbox) <= Backlog
      BY <3>2 DEF WireInv, InboxFits, OutboxFits
    <3>4. QED
      BY <3>1, <3>3 DEF Downs, Ups
  <2>4. /\ slot \in {"none", "joined", "member"}
        /\ at \in {"select", "work", "others", "cleanup", "heartbeat"}
        /\ link \in {"cut", "pending", "up"} /\ view \in {"off", "connected", "member"}
    BY DEF WireInv, WireTyped
  <2>5. alive \in BOOLEAN /\ faulted \in BOOLEAN
    BY Zenon DEF WireInv, WireTyped
  <2>6. QED
    BY <2>1, <2>2, <2>3, <2>4, <2>5 DEF TypeOK
<1>4. QED
  BY <1>1, <1>2, <1>3, TimeInvariant, PTL DEF Spec

-----------------------------------------------------------------------------
(* What the client hears. *)

(* A member whose connection stands and whose heartbeats are sent. *)
Member == view = "member" /\ alive /\ link = "up" /\ ~faulted

(* So long n rounds take at most. *)
Rounds(n) == n * Lag

(* How much of a round is still allowed for. *)
Slack == CASE at = "select" -> sinceRound [] at = "work" -> Lag [] OTHER -> 0

(* An acknowledgement is received so many rounds after it was sent as there are
   messages before it. *)
AcksSoon ==
  Member => \A i \in 1 .. Len(outbox) :
    outbox[i] = "ack" => heard <= Rounds(Backlog - i) + Slack

(* What the client has read last, the last acknowledgement and the last check
   are not far apart while nothing is on its way to the client. *)
StampHeard ==
  Member /\ inbox = <<>> /\ stamp < Interval => heard <= Rounds(Backlog) + stamp
CheckHeard ==
  Member /\ inbox = <<>> => heard <= Rounds(Backlog) + Interval - 1 + sinceCheck
LateHeard ==
  /\ inbox = <<>> => late = 0
  /\ Member /\ inbox # <<>> =>
       heard <= Rounds(Backlog) + Lag + 2 * Interval - 2 + late

HeardInv == AcksSoon /\ StampHeard /\ CheckHeard /\ LateHeard

LEMMA RoundsAdd ==
  ASSUME NEW n \in Nat
  PROVE  Rounds(n) \in Nat /\ Rounds(n + 1) = Rounds(n) + Lag
BY TimingAssumption DEF Rounds

LEMMA Times ==
  ASSUME TimeInv, WireInv
  PROVE  /\ Rounds(Backlog) \in Nat /\ Lag \in Nat /\ Interval \in Nat /\ Interval > 0
         /\ sinceCheck \in Nat /\ sinceRound \in Nat /\ stamp \in Nat
         /\ heard \in Nat /\ late \in Nat
         /\ sinceRound <= Lag /\ sinceCheck <= Interval - 1 + Lag
<1>1. Rounds(Backlog) \in Nat
  BY TimingAssumption, RoundsAdd
<1>2. sinceRound <= Lag /\ sinceCheck <= Interval - 1 + Lag
  BY TimingAssumption DEF TimeInv, Numbers, OnTime
<1>3. QED
  BY <1>1, <1>2, TimingAssumption DEF TimeInv, Numbers, WireInv, WireTyped

LEMMA MemberIs ==
  ASSUME WireInv, Member PROVE slot = "member" /\ Reads
BY DEF WireInv, Stranger, Member, Reads

LEMMA TickHeard == ASSUME TimeInv, WireInv, HeardInv, Tick PROVE HeardInv'
<1> USE DEF HeardInv
<1>1. /\ UNCHANGED <<at, link, inbox, outbox, view, alive, faulted>>
      /\ at = "select" /\ sinceCheck' = sinceCheck + 1 /\ sinceRound' = sinceRound + 1
  BY DEF Tick, wire
<1>2. heard' = Older(heard, Limit + 1)
  BY DEF Tick
<1>3. heard' \in Nat /\ heard' <= heard + 1
  BY <1>2, Times, TimingAssumption DEF Older
<1>4. Member' <=> Member
  BY <1>1 DEF Member
<1>5. Member => slot = "member" /\ Reads
  BY MemberIs
<1>6. Member => stamp' = Older(stamp, Interval)
  BY <1>5 DEF Tick
<1>7. Member /\ stamp' < Interval => stamp' = stamp + 1 /\ stamp < Interval
  BY <1>6, Times DEF Older
<1>8. AcksSoon'
  <2>1. SUFFICES ASSUME Member, NEW i \in 1 .. Len(outbox), outbox[i] = "ack"
                 PROVE  heard' <= Rounds(Backlog - i) + Slack'
    BY <1>1, <1>4 DEF AcksSoon
  <2>2. heard <= Rounds(Backlog - i) + sinceRound
    BY <1>1, <2>1 DEF AcksSoon, Slack
  <2>3. Slack' = sinceRound + 1
    BY <1>1 DEF Slack
  <2>4. Rounds(Backlog - i) \in Int
    <3>1. Backlog \in Int /\ i \in Int /\ Lag \in Int
      BY TimingAssumption, <2>1
    <3>2. QED
      BY <3>1 DEF Rounds
  <2>5. QED
    BY <1>3, <2>2, <2>3, <2>4, Times
<1>9. StampHeard'
  BY <1>1, <1>3, <1>4, <1>7, Times DEF StampHeard
<1>10. CheckHeard'
  BY <1>1, <1>3, <1>4, Times DEF CheckHeard
<1>11. LateHeard'
  <2>1. inbox = <<>> => late' = 0
    BY DEF Tick
  <2>2. Member /\ inbox # <<>> => late' = late + 1
    BY <1>5 DEF Tick
  <2>3. ASSUME Member, inbox # <<>>
        PROVE  heard' <= (Rounds(Backlog) + Lag) + 2 * Interval - 2 + late'
    <3>1. heard <= (Rounds(Backlog) + Lag) + 2 * Interval - 2 + late
      BY <2>3 DEF LateHeard
    <3>2. late' = late + 1
      BY <2>2, <2>3
    <3> HIDE DEF HeardInv
    <3>3. QED
      BY <1>3, <3>1, <3>2, Times
  <2>4. QED
    BY <1>1, <1>4, <2>1, <2>3 DEF LateHeard
<1>12. QED
  BY <1>8, <1>9, <1>10, <1>11

LEMMA RoundHeard ==
  ASSUME TimeInv, WireInv, HeardInv,
         Select \/ Accept \/ PeerGone \/ NothingReceived \/ Cleanup
  PROVE  HeardInv'
<1> USE DEF HeardInv
<1>1. UNCHANGED <<inbox, outbox, view, heard, late, alive, sinceCheck>>
  BY DEF Select, Accept, PeerGone, NothingReceived, Cleanup, Clear, wire, client,
         clocks
<1>2. Member' => Member /\ stamp' = stamp
  <2>1. CASE Accept
    <3>1. view = "connected"
      BY <2>1 DEF Accept, WireInv, Stranger
    <3>2. QED
      BY <1>1, <3>1 DEF Member
  <2>2. CASE PeerGone
    BY <2>2 DEF PeerGone, Clear, Member
  <2>3. CASE Select \/ NothingReceived
    BY <2>3 DEF Select, NothingReceived, server, wire, client, Member
  <2>4. CASE Cleanup
    BY <2>4 DEF Cleanup, Clear, server, wire, client, Member
  <2>5. QED
    BY <2>1, <2>2, <2>3, <2>4
<1>3. AcksSoon'
  <2>1. SUFFICES ASSUME Member', Member, NEW i \in 1 .. Len(outbox), outbox[i] = "ack"
                 PROVE  heard <= Rounds(Backlog - i) + Slack'
    BY <1>1, <1>2 DEF AcksSoon
  <2>2. heard <= Rounds(Backlog - i) + Slack
    BY <2>1 DEF AcksSoon
  <2>3. Slack' = Slack \/ (Slack = sinceRound /\ Slack' = Lag)
    <3>1. CASE Select
      BY <3>1 DEF Select, Slack
    <3>2. CASE Accept
      BY <3>2 DEF Accept, Slack, clocks
    <3>3. CASE PeerGone
      BY <2>1, <3>3 DEF PeerGone, Clear, Member
    <3>4. CASE NothingReceived
      <4>1. outbox = <<>>
        BY <2>1, <3>4, MemberIs DEF NothingReceived
      <4>2. QED
        BY <2>1, <4>1
    <3>5. CASE Cleanup
      BY <3>5 DEF Cleanup, Slack
    <3>6. QED
      BY <3>1, <3>2, <3>3, <3>4, <3>5
  <2>4. Rounds(Backlog - i) \in Int
    <3>1. Backlog \in Int /\ i \in Int /\ Lag \in Int
      BY TimingAssumption, <2>1
    <3>2. QED
      BY <3>1 DEF Rounds
  <2>5. QED
    BY <2>2, <2>3, <2>4, Times
<1>4. StampHeard' /\ CheckHeard'
  BY <1>1, <1>2 DEF StampHeard, CheckHeard
<1>5. LateHeard'
  BY <1>1, <1>2 DEF LateHeard
<1>6. QED
  BY <1>3, <1>4, <1>5

(* A message that comes into an empty inbox comes in time. *)
LEMMA GrownHeard ==
  ASSUME TimeInv, WireInv, HeardInv, NEW m \in Downs,
         UNCHANGED <<view, heard, late, alive, link, faulted>>,
         inbox' = inbox \/ inbox' = Append(inbox, m)
  PROVE  LateHeard'
<1>1. Append(inbox, m) # <<>>
  BY GrownInbox DEF WireInv
<1>2. Member' <=> Member
  BY DEF Member
<1>3. ASSUME Member
      PROVE  inbox = <<>> => heard <= Rounds(Backlog) + Interval - 1 + (Interval - 1 + Lag)
  BY <1>3, Times DEF HeardInv, CheckHeard
<1>4. CASE inbox' = inbox
  BY <1>2, <1>4 DEF HeardInv, LateHeard
<1>5. CASE inbox' = Append(inbox, m)
  <2>1. SUFFICES ASSUME Member
                 PROVE  heard <= (Rounds(Backlog) + Lag) + 2 * Interval - 2 + late
    BY <1>1, <1>2, <1>5 DEF LateHeard
  <2>2. CASE inbox = <<>>
    BY <1>3, <2>1, <2>2, Times
  <2>3. CASE inbox # <<>>
    BY <2>1, <2>3, Times DEF HeardInv, LateHeard
  <2>4. QED
    BY <2>2, <2>3
<1>6. QED
  BY <1>4, <1>5

LEMMA OthersHeard == ASSUME TimeInv, WireInv, HeardInv, Others PROVE HeardInv'
<1> USE DEF HeardInv
<1>1. /\ UNCHANGED <<slot, stamp, sinceCheck, link, outbox, view, heard, late, alive, faulted>>
      /\ at = "others" /\ at' = "cleanup"
  BY DEF Others, client, clocks
<1>2. inbox' = inbox \/ inbox' = Append(inbox, "chat")
  BY DEF Others, Delivered
<1>3. Append(inbox, "chat") # <<>> /\ "chat" \in Downs
  BY GrownInbox DEF WireInv, Downs
<1>4. Member' <=> Member
  BY <1>1 DEF Member
<1>5. AcksSoon'
  BY <1>1, <1>4 DEF AcksSoon, Slack
<1>6. StampHeard' /\ CheckHeard'
  BY <1>1, <1>2, <1>3, <1>4 DEF StampHeard, CheckHeard
<1>7. LateHeard'
  BY <1>1, <1>2, <1>3, GrownHeard
<1>8. QED
  BY <1>5, <1>6, <1>7

LEMMA ReceiveHeard ==
  ASSUME KeepsUp, TimeInv, WireInv, HeardInv, Receive PROVE HeardInv'
<1> USE DEF HeardInv
<1>1. /\ UNCHANGED <<link, view, heard, late, alive, faulted, sinceCheck>>
      /\ at = "work" /\ at' = "others" /\ outbox # <<>> /\ outbox' = Tail(outbox)
      /\ stamp' = IF Head(outbox) = "ack" THEN 0 ELSE stamp
  BY DEF Receive, client, clocks
<1>2. \/ inbox' = inbox
      \/ inbox' = Append(inbox, "welcome")
      \/ inbox' = Append(inbox, "chat")
  BY DEF Receive, Delivered
<1>3. /\ "chat" \in Downs /\ "welcome" \in Downs
      /\ inbox' = <<>> => inbox = <<>>
  <2>1. "chat" \in Downs /\ "welcome" \in Downs
    BY DEF Downs
  <2>2. Append(inbox, "chat") # <<>> /\ Append(inbox, "welcome") # <<>>
    BY <2>1, GrownInbox DEF WireInv
  <2>3. QED
    BY <1>2, <2>1, <2>2
<1>4. Member' <=> Member
  BY <1>1 DEF Member
<1>5. /\ Len(Tail(outbox)) = Len(outbox) - 1 /\ Len(outbox) \in Nat /\ Len(outbox) > 0
      /\ Head(outbox) = outbox[1]
      /\ \A i \in 1 .. Len(outbox) - 1 : Tail(outbox)[i] = outbox[i + 1]
  BY <1>1, ShrunkOutbox DEF WireInv
<1>6. Len(outbox) <= Backlog /\ Backlog \in Nat
  <2>1. Beats(inbox) \in Nat
    BY BeatsCount DEF WireInv, WireTyped
  <2>2. QED
    BY <1>5, <2>1, TimingAssumption DEF WireInv, OutboxFits
<1>7. ASSUME Member, NEW j \in 1 .. Len(outbox), outbox[j] = "ack"
      PROVE  heard <= Rounds(Backlog - (j - 1))
  <2>1. heard <= Rounds(Backlog - j) + Lag
    BY <1>1, <1>7 DEF AcksSoon, Slack
  <2>2. Backlog - j \in Nat /\ Backlog - j + 1 = Backlog - (j - 1)
    BY <1>5, <1>6
  <2>3. Rounds(Backlog - (j - 1)) = Rounds(Backlog - j) + Lag
    BY <2>2, RoundsAdd
  <2>4. QED
    BY <2>1, <2>3
<1>8. AcksSoon'
  <2>1. SUFFICES ASSUME Member, NEW i \in 1 .. Len(outbox) - 1, outbox[i + 1] = "ack"
                 PROVE  heard <= Rounds(Backlog - i) + 0
    BY <1>1, <1>4, <1>5 DEF AcksSoon, Slack
  <2>2. i + 1 \in 1 .. Len(outbox) /\ (i + 1) - 1 = i
    BY <1>5, <2>1
  <2>3. heard <= Rounds(Backlog - ((i + 1) - 1))
    BY <1>7, <2>1, <2>2
  <2>4. heard <= Rounds(Backlog - i)
    BY <2>2, <2>3
  <2>5. Backlog - i \in Nat
    BY <1>5, <1>6, <2>1
  <2>6. Rounds(Backlog - i) \in Nat
    BY <2>5, RoundsAdd
  <2>7. QED
    BY <2>4, <2>6
<1>9. StampHeard'
  <2>1. SUFFICES ASSUME Member, inbox = <<>>, stamp' < Interval
                 PROVE  heard <= Rounds(Backlog) + stamp'
    BY <1>1, <1>3, <1>4 DEF StampHeard
  <2>2. CASE Head(outbox) = "ack"
    <3>1. 1 \in 1 .. Len(outbox) /\ Backlog - (1 - 1) = Backlog
      BY <1>5, <1>6
    <3>2. heard <= Rounds(Backlog)
      BY <1>5, <1>7, <2>1, <2>2, <3>1
    <3>3. QED
      BY <1>1, <2>2, <3>2, Times
  <2>3. CASE Head(outbox) # "ack"
    BY <1>1, <2>1, <2>3 DEF StampHeard
  <2>4. QED
    BY <2>2, <2>3
<1>10. CheckHeard'
  BY <1>1, <1>3, <1>4 DEF CheckHeard
<1>11. LateHeard'
  BY <1>1, <1>2, <1>3, GrownHeard
<1>12. QED
  BY <1>8, <1>9, <1>10, <1>11

LEMMA CheckHeartbeatsHeard ==
  ASSUME TimeInv, WireInv, HeardInv, CheckHeartbeats PROVE HeardInv'
<1> USE DEF HeardInv
<1>1. /\ UNCHANGED <<outbox, view, heard, late, alive, sinceRound>>
      /\ at = "heartbeat" /\ at' = "select"
      /\ sinceCheck' = IF CheckDue THEN 0 ELSE sinceCheck
  BY DEF CheckHeartbeats, SendHeartbeat, Clear, wire, client
<1>2. "heartbeat" \in Downs /\ Append(inbox, "heartbeat") # <<>>
  BY GrownInbox DEF WireInv, Downs
<1>3. ASSUME Member'
      PROVE  /\ Member /\ UNCHANGED <<link, faulted>>
             /\ \/ inbox' = Append(inbox, "heartbeat")
                \/ inbox' = inbox /\ stamp' = stamp /\ (CheckDue => stamp < Interval)
  <2>1. alive /\ link' = "up" /\ ~faulted' /\ view = "member"
    BY <1>1, <1>3 DEF Member
  <2>2. UNCHANGED <<link, faulted>>
    BY <2>1 DEF CheckHeartbeats, SendHeartbeat, Clear, wire
  <2>3. Member
    BY <2>1, <2>2 DEF Member
  <2>4. slot = "member"
    BY <2>3, MemberIs
  <2>5. CASE CheckDue /\ stamp >= Interval
    <3>1. SendHeartbeat
      BY <2>4, <2>5 DEF CheckHeartbeats
    <3>2. inbox' = Delivered("heartbeat")
      BY <2>1, <3>1 DEF SendHeartbeat, Clear
    <3>3. QED
      BY <2>1, <2>2, <2>3, <3>2 DEF Delivered
  <2>6. CASE ~(CheckDue /\ stamp >= Interval)
    <3>1. inbox' = inbox /\ stamp' = stamp
      BY <2>6 DEF CheckHeartbeats, server, wire
    <3>2. CheckDue => stamp < Interval
      BY <2>6, Times
    <3>3. QED
      BY <2>2, <2>3, <3>1, <3>2
  <2>7. QED
    BY <2>5, <2>6
<1>4. AcksSoon'
  <2>1. SUFFICES ASSUME Member', NEW i \in 1 .. Len(outbox), outbox[i] = "ack"
                 PROVE  heard <= Rounds(Backlog - i) + sinceRound
    BY <1>1 DEF AcksSoon, Slack
  <2>2. heard <= Rounds(Backlog - i) + 0
    BY <1>1, <1>3, <2>1 DEF AcksSoon, Slack
  <2>3. Rounds(Backlog - i) \in Int
    <3>1. Backlog \in Int /\ i \in Int /\ Lag \in Int
      BY TimingAssumption, <2>1
    <3>2. QED
      BY <3>1 DEF Rounds
  <2>4. QED
    BY <2>2, <2>3, Times
<1>5. StampHeard'
  BY <1>1, <1>2, <1>3 DEF StampHeard
<1>6. CheckHeard'
  <2>1. SUFFICES ASSUME Member', inbox' = <<>>
                 PROVE  heard <= Rounds(Backlog) + Interval - 1 + sinceCheck'
    BY <1>1 DEF CheckHeard
  <2>2. Member /\ inbox = <<>> /\ (CheckDue => stamp < Interval)
    BY <1>2, <1>3, <2>1
  <2>3. CASE CheckDue
    <3>1. heard <= Rounds(Backlog) + stamp /\ stamp < Interval
      BY <2>2, <2>3 DEF StampHeard
    <3>2. QED
      BY <1>1, <2>3, <3>1, Times
  <2>4. CASE ~CheckDue
    BY <1>1, <2>2, <2>4 DEF CheckHeard
  <2>5. QED
    BY <2>3, <2>4
<1>7. LateHeard'
  <2>1. CASE Member'
    BY <1>1, <1>2, <1>3, <2>1, GrownHeard
  <2>2. CASE ~Member'
    <3>1. inbox' = inbox \/ inbox' = Append(inbox, "heartbeat")
      BY DEF CheckHeartbeats, SendHeartbeat, Clear, Delivered, wire
    <3>2. QED
      BY <1>1, <1>2, <2>2, <3>1 DEF LateHeard
  <2>3. QED
    BY <2>1, <2>2
<1>8. QED
  BY <1>4, <1>5, <1>6, <1>7

LEMMA ReadHeard ==
  ASSUME TimeInv, WireInv, WireInv', HeardInv, Read PROVE HeardInv'
<1>1. heard' = 0 /\ late' = 0 /\ UNCHANGED <<stamp, sinceCheck, sinceRound, at>>
  BY DEF Read, server, clocks
<1>2. AcksSoon'
  <2>1. SUFFICES ASSUME NEW i \in 1 .. Len(outbox') PROVE 0 <= Rounds(Backlog - i) + Slack'
    BY <1>1 DEF AcksSoon
  <2>2. Len(outbox') <= Backlog /\ Len(outbox') \in Nat
    <3>1. inbox' \in Seq(Downs) /\ outbox' \in Seq(Ups)
      BY DEF WireInv, WireTyped
    <3>2. Beats(inbox') \in Nat /\ Len(outbox') \in Nat
      BY <3>1, BeatsCount
    <3>3. Beats(inbox') + Len(outbox') <= Backlog
      BY DEF WireInv, OutboxFits
    <3>4. QED
      BY <3>2, <3>3, TimingAssumption
  <2>3. Backlog - i \in Nat
    BY <2>1, <2>2, TimingAssumption
  <2>4. Rounds(Backlog - i) \in Nat
    BY <2>3, RoundsAdd
  <2>5. Slack' \in Nat
    BY <1>1, Times DEF Slack
  <2>6. QED
    BY <2>4, <2>5
<1>3. StampHeard' /\ CheckHeard' /\ LateHeard'
  BY <1>1, Times DEF StampHeard, CheckHeard, LateHeard
<1>4. QED
  BY <1>2, <1>3 DEF HeardInv

LEMMA OtherHeard ==
  ASSUME TimeInv, WireInv, HeardInv,
         Dial \/ Login \/ Chat \/ Hangup \/ GiveUp \/ Hang \/ Cut
  PROVE  HeardInv'
<1> USE DEF HeardInv
<1>1. CASE Dial
  BY <1>1 DEF Dial, Member, AcksSoon, StampHeard, CheckHeard, LateHeard
<1>2. CASE Hangup \/ GiveUp
  BY <1>2 DEF Hangup, GiveUp, Member, AcksSoon, StampHeard, CheckHeard, LateHeard
<1>3. CASE Hang
  BY <1>3 DEF Hang, wire, Member, AcksSoon, StampHeard, CheckHeard, LateHeard
<1>4. CASE Cut
  BY <1>4 DEF Cut, client, Member, AcksSoon, StampHeard, CheckHeard, LateHeard
<1>5. CASE Login \/ Chat
  <2>1. PICK m \in {"login", "chat"} :
          /\ outbox' = Append(outbox, m) /\ outbox = <<>>
          /\ UNCHANGED <<server, clocks, at, link, inbox, client, faulted>>
    BY <1>5 DEF Login, Chat, Says
  <2>2. outbox' = <<m>>
    BY <2>1
  <2>3. Member' <=> Member
    BY <2>1 DEF Member, client
  <2>4. AcksSoon'
    BY <2>2 DEF AcksSoon
  <2>5. StampHeard' /\ CheckHeard' /\ LateHeard'
    BY <2>1, <2>3 DEF server, clocks, client, StampHeard, CheckHeard, LateHeard
  <2>6. QED
    BY <2>4, <2>5
<1>6. QED
  BY <1>1, <1>2, <1>3, <1>4, <1>5

LEMMA NextHeard ==
  ASSUME KeepsUp, TimeInv, WireInv, WireInv', HeardInv, [Next]_vars PROVE HeardInv'
<1>1. CASE UNCHANGED vars
  BY <1>1 DEF vars, server, clocks, wire, client, HeardInv, AcksSoon, StampHeard,
              CheckHeard, LateHeard, Member, Slack
<1>2. CASE Next
  BY <1>2, TickHeard, RoundHeard, OthersHeard, ReceiveHeard, CheckHeartbeatsHeard,
     ReadHeard, OtherHeard DEF Next, Round, Client
<1>3. QED
  BY <1>1, <1>2

(* The rounds that the acknowledgements under way take, two intervals, a round,
   and the time the client takes to read the heartbeat. *)
RoomToHear == Limit >= (Rounds(Backlog) + Lag) + 2 * Interval - 2 + Delay

(* Whatever the intervals: if the client's timeout leaves room for two
   intervals and for the messages under way, then no client that is logged in
   on a connection that stands finds its heartbeat overdue, while its heartbeats
   and acknowledgements are sent. *)
THEOREM ClientsPatient == KeepsUp /\ RoomToHear => (Spec => []ClientPatient)
<1> SUFFICES ASSUME KeepsUp, RoomToHear PROVE Spec => []ClientPatient
  OBVIOUS
<1>1. Init => WireInv /\ HeardInv
  <2>1. Init => HeardInv
    BY DEF Init, HeardInv, AcksSoon, StampHeard, CheckHeard, LateHeard, Member
  <2>2. QED
    BY <2>1, KeepsUp, InitWires
<1>2. TimeInv /\ WireInv /\ HeardInv /\ [Next]_vars => WireInv' /\ HeardInv'
  BY KeepsUp, NextWires, NextHeard
<1>3. TimeInv /\ WireInv /\ HeardInv => ClientPatient
  <2> SUFFICES ASSUME TimeInv, WireInv, HeardInv, Member PROVE heard <= Limit
    BY DEF ClientPatient, Member
  <2>1. late <= Delay /\ Limit \in Nat /\ Delay \in Nat
    BY TimingAssumption DEF WireInv, WireTyped
  <2>2. CASE inbox = <<>>
    BY <2>1, <2>2, Times, RoomToHear DEF RoomToHear, HeardInv, CheckHeard
  <2>3. CASE inbox # <<>>
    BY <2>1, <2>3, Times, RoomToHear DEF RoomToHear, HeardInv, LateHeard
  <2>4. QED
    BY <2>2, <2>3
<1>4. QED
  BY <1>1, <1>2, <1>3, TimeInvariant, PTL DEF Spec
=============================================================================
