-------------------------- MODULE ChatScreenProofs --------------------------
(***************************************************************************)
(* Proofs about the screen, for every size of the history and of the       *)
(* console: what Ctrl+C can damage, and that nothing else damages it.      *)
(***************************************************************************)
EXTENDS ChatScreen, SequenceTheorems, TLAPS

UIPlaces == {"start", "welcome", "draw", "drawn", "loop", "pop", "event",
             "input", "typing", "line", "goodbye", "over"}
HandlerPlaces == {"idle", "shutdown", "draw", "drawn", "stop", "done"}

Typed ==
  /\ count \in Nat /\ overlap \in BOOLEAN
  /\ at \in [Threads -> UIPlaces \cup HandlerPlaces]
  /\ at["ui"] \in UIPlaces /\ at["handler"] \in HandlerPlaces
  /\ add \in [Threads -> {"test", "store", "read", "write", "shift"}]
  /\ todo \in [Threads -> Nat] /\ seen \in [Threads -> Nat]

(* The screen is freed by a UI thread that saw the flag the handler sets last. *)
Flags ==
  /\ at["handler"] \in {"shutdown", "draw", "drawn"} => live
  /\ stop => at["handler"] = "done"

(* A thread in the middle of adding a line is at work. *)
Middle == \A t \in Threads : add[t] # "test" => Adds(t)

Alone == ~overlap => \E t \in Threads : ~AtWork(t)

(* What a thread has tested still holds when it writes, if it was alone. *)
Within ==
  ~overlap =>
    /\ count <= Size
    /\ \A t \in Threads :
         /\ add[t] \in {"store", "read", "write"} => count < Size
         /\ add[t] = "write" => seen[t] = count
         /\ add[t] = "shift" => count = Size
Inside == ended = "overrun" => overlap

WorkInv == Typed /\ Flags /\ Middle /\ Alone /\ Within /\ Inside

LEMMA InitWorks == Init => WorkInv
<1> SUFFICES ASSUME Init PROVE WorkInv
  OBVIOUS
<1> USE ScreenAssumption DEF Init, Threads
<1>1. at["ui"] = "start" /\ at["handler"] = "idle"
  OBVIOUS
<1>2. Typed
  BY <1>1 DEF Typed, UIPlaces, HandlerPlaces
<1>3. Flags /\ Alone
  BY <1>1 DEF Flags, Alone, AtWork, Adding
<1>4. Middle /\ Within /\ Inside
  BY DEF Middle, Within, Inside
<1>5. QED
  BY <1>2, <1>3, <1>4 DEF WorkInv

(* The steps in the middle of a line. *)
LineStep(t) == Test(t) \/ Store(t) \/ ReadCount(t) \/ WriteCount(t) \/ Shift(t)

LEMMA LineStepWorks ==
  ASSUME WorkInv, NEW t \in Threads, LineStep(t),
         overlap' = (overlap \/ \A u \in Threads : AtWork(u)')
  PROVE  WorkInv'
<1> USE ScreenAssumption DEF WorkInv, Typed, Adds
<1>1. /\ at' = at /\ live' = live /\ stop' = stop
      /\ at[t] \in Adding /\ AtWork(t) /\ AtWork(t)'
  BY DEF LineStep, Test, Store, ReadCount, WriteCount, Shift, AtWork, state,
         threads, ends
<1>2. Typed' /\ Flags'
  BY <1>1 DEF LineStep, Test, Store, ReadCount, WriteCount, Shift, state,
         threads, ends, Added, Counted, Threads, Flags
<1>3. \A u \in Threads : u # t => add'[u] = add[u] /\ todo'[u] = todo[u] /\ seen'[u] = seen[u]
  BY DEF LineStep, Test, Store, ReadCount, WriteCount, Shift, state, threads,
         ends, Added
<1>4. add'[t] # "test" => todo'[t] = todo[t] /\ todo[t] > 0
  BY <1>1 DEF LineStep, Test, Store, ReadCount, WriteCount, Shift, state, threads,
         ends, Added
<1>5. Middle'
  BY <1>1, <1>2, <1>3, <1>4 DEF Middle
<1>6. Alone'
  BY <1>2 DEF Alone
<1>7. ASSUME ~overlap' PROVE \A u \in Threads : u # t => add[u] = "test" /\ add'[u] = "test"
  <2>1. \E u \in Threads : ~AtWork(u)
    BY <1>7, <1>1 DEF AtWork
  <2>2. \A u \in Threads : u # t => ~AtWork(u)
    BY <2>1, <1>1 DEF Threads
  <2>3. QED
    BY <2>2, <1>3 DEF Middle, AtWork
<1>8. Within' /\ Inside'
  <2>1. CASE overlap'
    BY <2>1 DEF Within, Inside
  <2>2. CASE ~overlap'
    <3>1. ~overlap /\ \A u \in Threads : u # t => add'[u] = "test"
      BY <2>2, <1>7
    <3>2. Within
      OBVIOUS
    <3>3. CASE Test(t)
      BY <3>1, <3>2, <3>3 DEF Test, RoomLeft, Within, Inside, state, ends
    <3>4. CASE Store(t)
      BY <3>1, <3>2, <3>4 DEF Store, Within, Inside, state, ends
    <3>5. CASE ReadCount(t)
      BY <3>1, <3>2, <3>5 DEF ReadCount, Within, Inside, state, ends
    <3>6. CASE WriteCount(t)
      BY <3>1, <3>2, <3>6 DEF WriteCount, Added, Within, Inside, state, ends
    <3>7. CASE Shift(t)
      BY <3>1, <3>2, <3>7 DEF Shift, Added, Counted, Within, Inside, state, ends
    <3>8. QED
      BY <3>3, <3>4, <3>5, <3>6, <3>7 DEF LineStep
  <2>3. QED
    BY <2>1, <2>2
<1>9. QED
  BY <1>2, <1>5, <1>6, <1>8

(* The steps of the UI thread that are not in the middle of a line. *)
UIStep ==
  \/ Initialize \/ Loop \/ NoEvent \/ KeyHit \/ NoLine
  \/ \E e \in Events : DisplayEvent(e)
  \/ \E l \in Inputs : Handle(l)

DrawStep(t) == LinesAdded(t) \/ Draw(t) \/ Drawn(t)

LEMMA UIStepWorks ==
  ASSUME WorkInv, UIStep, overlap' = (overlap \/ \A t \in Threads : AtWork(t)')
  PROVE  WorkInv'
<1> USE ScreenAssumption DEF WorkInv, Typed
<1>1. /\ at["ui"] \in {"start", "loop", "pop", "input", "typing"}
      /\ add["ui"] = "test"
  BY DEF UIStep, Initialize, Loop, NoEvent, KeyHit, NoLine, DisplayEvent, Handle,
         Aborts, Middle, Adds, Adding, Threads
<1>2. /\ add' = add /\ seen' = seen /\ stop' = stop
      /\ todo'["handler"] = todo["handler"] /\ at'["handler"] = at["handler"]
  BY DEF UIStep, Initialize, Loop, NoEvent, KeyHit, NoLine, DisplayEvent, Handle,
         Aborts, AddsThen, Goes, state, threads, ends, Threads
<1>3. /\ at'["ui"] \in UIPlaces
      /\ at' \in [Threads -> UIPlaces \cup HandlerPlaces]
  BY DEF UIStep, Initialize, Loop, NoEvent, KeyHit, NoLine, DisplayEvent, Handle,
         Aborts, AddsThen, Goes, threads, Threads, UIPlaces
<1>4. todo' \in [Threads -> Nat]
  <2>1. \A l \in Inputs : Answers(l) \subseteq Nat
    BY DEF Answers
  <2>2. QED
    BY <2>1 DEF UIStep, Initialize, Loop, NoEvent, KeyHit, NoLine, DisplayEvent,
                Handle, Aborts, AddsThen, threads, Threads
<1>5. /\ count' = count \/ (count' = 0 /\ at'["ui"] \in {"welcome", "line", "goodbye"})
      /\ live' # live => Initialize \/ (stop /\ live' = FALSE)
      /\ ended' = ended \/ ended' = "aborted"
  BY DEF UIStep, Initialize, Loop, ShouldShutdown, NoEvent, KeyHit, NoLine,
         DisplayEvent, Handle, Aborts, AddsThen, Goes, state, ends, Threads
<1>6. Typed'
  BY <1>2, <1>3, <1>4, <1>5 DEF Typed
<1>7. Flags'
  <2>1. at["handler"] \in {"shutdown", "draw", "drawn"} => ~stop /\ live
    BY DEF Flags
  <2>2. Initialize => live' = TRUE
    BY DEF Initialize
  <2>3. QED
    BY <1>2, <1>5, <2>1, <2>2 DEF Flags
<1>8. Middle'
  BY <1>1, <1>2 DEF Middle, Adds, Threads
<1>9. Alone'
  BY <1>6 DEF Alone
<1>10. Within' /\ Inside'
  <2>1. ASSUME ~overlap', count' # count PROVE add["handler"] = "test"
    <3>1. at'["ui"] \in {"welcome", "line", "goodbye"}
      BY <1>5, <2>1
    <3>2. AtWork("ui")'
      BY <3>1 DEF AtWork, Adding
    <3>3. ~AtWork("handler")'
      BY <2>1, <3>2 DEF Threads
    <3>4. QED
      BY <1>2, <3>3 DEF AtWork, Middle, Adds, Threads
  <2>2. overlap' \/ ~overlap
    OBVIOUS
  <2>3. QED
    BY <1>1, <1>2, <1>5, <2>1, <2>2 DEF Within, Inside, Threads
<1>11. QED
  BY <1>6, <1>7, <1>8, <1>9, <1>10

LEMMA DrawStepWorks ==
  ASSUME WorkInv, NEW t \in Threads, DrawStep(t),
         overlap' = (overlap \/ \A u \in Threads : AtWork(u)')
  PROVE  WorkInv'
<1> USE ScreenAssumption DEF WorkInv, Typed
<1>1. /\ add' = add /\ seen' = seen /\ todo' = todo /\ count' = count
      /\ stop' = stop /\ live' = live /\ ended' = ended
  BY DEF DrawStep, LinesAdded, Draw, Drawn, state, ends
<1>2. /\ add[t] = "test"
      /\ at[t] \in Adding \cup {"draw", "drawn"}
      /\ Adds(t) => todo[t] > 0
  BY DEF DrawStep, LinesAdded, Draw, Drawn, Middle, Adds, Adding
<1>3. \E p \in {"input", "draw", "drawn", AfterDraw[t]} :
        /\ Goes(t, p)
        /\ p = "input" => at[t] = "event"
  BY DEF DrawStep, LinesAdded, AfterLines, Draw, Drawn, AfterDraw, Threads
<1>4. at[t] = "event" => t = "ui"
  BY DEF Threads, HandlerPlaces
<1>5. Typed'
  BY <1>1, <1>3, <1>4 DEF Goes, AfterDraw, Threads, UIPlaces, HandlerPlaces
<1>6. Flags'
  <2>1. at'["handler"] \in {"shutdown", "draw", "drawn"}
          => at["handler"] \in {"shutdown", "draw", "drawn"}
    BY <1>2, <1>3 DEF Goes, Threads, HandlerPlaces, Adding
  <2>2. stop => at'["handler"] = "done"
    BY <1>2, <1>3 DEF Flags, Goes, Threads, Adding
  <2>3. QED
    BY <1>1, <2>1, <2>2 DEF Flags
<1>7. Middle'
  BY <1>1, <1>2, <1>3 DEF Middle, Adds, Goes
<1>8. Alone'
  BY <1>5 DEF Alone
<1>9. Within' /\ Inside'
  BY <1>1 DEF Within, Inside
<1>10. QED
  BY <1>5, <1>6, <1>7, <1>8, <1>9

LEMMA SignalWorks ==
  ASSUME WorkInv, Stop \/ Interrupt,
         overlap' = (overlap \/ \A t \in Threads : AtWork(t)')
  PROVE  WorkInv'
<1> USE ScreenAssumption DEF WorkInv, Typed
<1>1. /\ add' = add /\ seen' = seen /\ count' = count /\ live' = live
      /\ todo'["ui"] = todo["ui"] /\ at'["ui"] = at["ui"]
      /\ ended' = ended \/ ended' = "killed"
  BY DEF Stop, Interrupt, AddsThen, Goes, state, threads, ends, Threads
<1>2. at'["handler"] # at["handler"] => add["handler"] = "test"
  BY DEF Stop, Interrupt, threads, Middle, Adds, Adding, Threads
<1>3. Typed'
  BY <1>1 DEF Stop, Interrupt, AddsThen, Goes, threads, Threads, HandlerPlaces
<1>4. Flags'
  BY DEF Stop, Interrupt, AddsThen, Goes, state, threads, ends, Flags, Threads
<1>5. Middle'
  <2>1. add["handler"] # "test" => at'["handler"] = at["handler"] /\ todo' = todo
    BY <1>2 DEF Stop, Interrupt, threads, Middle, Adds, Adding, Threads
  <2>2. QED
    BY <1>1, <2>1 DEF Middle, Adds, Threads
<1>6. Alone'
  BY <1>3 DEF Alone
<1>7. Within' /\ Inside'
  BY <1>1 DEF Within, Inside
<1>8. QED
  BY <1>3, <1>4, <1>5, <1>6, <1>7

LEMMA NextWorks == WorkInv /\ [Next]_vars => WorkInv'
<1> SUFFICES ASSUME WorkInv, [Next]_vars PROVE WorkInv'
  OBVIOUS
<1>1. CASE UNCHANGED vars
  BY <1>1 DEF vars, state, threads, ends, WorkInv, Typed, Flags, Middle, Adds,
              Alone, AtWork, Within, Inside
<1>2. CASE Next
  <2>1. overlap' = (overlap \/ \A t \in Threads : AtWork(t)')
    BY <1>2 DEF Next
  <2>2. UIStep \/ Stop \/ Interrupt \/ \E t \in Threads : LineStep(t) \/ DrawStep(t)
    BY <1>2 DEF Next, UI, Handler, OnScreen, UIStep, LineStep, DrawStep, Threads
  <2>3. QED
    BY <2>1, <2>2, LineStepWorks, UIStepWorks, DrawStepWorks, SignalWorks
<1>3. QED
  BY <1>1, <1>2

LEMMA AlwaysWorks == Spec => []WorkInv
BY InitWorks, NextWorks, PTL DEF Spec

(* Whatever the sizes: the history is overrun, or counted too long, only if the
   signal handler and the UI thread were at work on it at once. *)
THEOREM OverrunsNeedBoth == Spec => []OverrunNeedsBoth
<1>1. WorkInv => OverrunNeedsBoth
  BY ScreenAssumption DEF WorkInv, Typed, Within, Inside, OverrunNeedsBoth
<1>2. QED
  BY <1>1, AlwaysWorks, PTL

(* The state of the screen is not freed while the signal handler uses it. *)
THEOREM HandlerFindsScreen == Spec => []HandlerUsesLive
<1>1. WorkInv => HandlerUsesLive
  BY DEF WorkInv, Flags, HandlerUsesLive
<1>2. QED
  BY <1>1, AlwaysWorks, PTL

-----------------------------------------------------------------------------
(* What the history holds. *)

LEMMA LatestIs ==
  ASSUME NEW S, NEW s \in Seq(S), NEW n \in Nat
  PROVE  /\ Latest(s, n) \in Seq(S)
         /\ Len(s) <= n => /\ Len(Latest(s, n)) = Len(s)
                           /\ \A i \in 1 .. Len(s) : Latest(s, n)[i] = s[i]
         /\ Len(s) > n => /\ Len(Latest(s, n)) = n
                          /\ \A i \in 1 .. n : Latest(s, n)[i] = s[Len(s) - n + i]
<1> DEFINE m == IF Len(s) > n THEN Len(s) - n + 1 ELSE 1
<1>1. Len(s) \in Nat /\ m \in 1 .. Len(s) + 1 /\ Len(s) \in m - 1 .. Len(s)
  OBVIOUS
<1>2. /\ SubSeq(s, m, Len(s)) \in Seq(S)
      /\ Len(SubSeq(s, m, Len(s))) = IF m <= Len(s) THEN Len(s) - m + 1 ELSE 0
      /\ \A i \in 1 .. Len(s) - m + 1 : SubSeq(s, m, Len(s))[i] = s[m + i - 1]
  <2> HIDE DEF m
  <2>1. QED
    BY <1>1, SubSeqProperties
<1>3. Latest(s, n) = SubSeq(s, m, Len(s))
  BY DEF Latest
<1>4. ASSUME Len(s) > n
      PROVE  /\ Len(Latest(s, n)) = n
             /\ \A i \in 1 .. n : Latest(s, n)[i] = s[Len(s) - n + i]
  <2>1. m = Len(s) - n + 1
    BY <1>4
  <2> HIDE DEF m
  <2>2. \A i \in 1 .. n : i \in 1 .. Len(s) - m + 1 /\ m + i - 1 = Len(s) - n + i
    BY <1>1, <1>4, <2>1
  <2>3. Len(Latest(s, n)) = n
    BY <1>1, <1>2, <1>3, <1>4, <2>1
  <2>4. QED
    BY <1>2, <1>3, <2>2, <2>3
<1>5. ASSUME Len(s) <= n
      PROVE  /\ Len(Latest(s, n)) = Len(s)
             /\ \A i \in 1 .. Len(s) : Latest(s, n)[i] = s[i]
  <2>1. m = 1
    BY <1>1, <1>5
  <2> HIDE DEF m
  <2>2. \A i \in 1 .. Len(s) : i \in 1 .. Len(s) - m + 1 /\ m + i - 1 = i
    BY <1>1, <2>1
  <2>3. Len(Latest(s, n)) = Len(s)
    BY <1>1, <1>2, <1>3, <2>1
  <2>4. QED
    BY <1>2, <1>3, <2>2, <2>3
<1>6. QED
  BY <1>2, <1>3, <1>4, <1>5

(* The latest n of a sequence of at most n that one more joins. *)
LEMMA LatestOfMore ==
  ASSUME NEW S, NEW s \in Seq(S), NEW x \in S, NEW n \in Nat \ {0}, Len(s) <= n
  PROVE  /\ Latest(Append(s, x), n) \in Seq(S)
         /\ Len(s) < n =>
              /\ Len(Latest(Append(s, x), n)) = Len(s) + 1
              /\ \A i \in 1 .. Len(s) + 1 :
                   Latest(Append(s, x), n)[i] = IF i = Len(s) + 1 THEN x ELSE s[i]
         /\ Len(s) = n =>
              /\ Len(Latest(Append(s, x), n)) = n
              /\ \A i \in 1 .. n :
                   Latest(Append(s, x), n)[i] = IF i = n THEN x ELSE s[i + 1]
<1> DEFINE a == Append(s, x)
<1>1. /\ a \in Seq(S) /\ Len(a) = Len(s) + 1 /\ Len(s) \in Nat
      /\ \A i \in 1 .. Len(s) + 1 : a[i] = IF i = Len(s) + 1 THEN x ELSE s[i]
  OBVIOUS
<1> HIDE DEF a
<1>2. Latest(a, n) \in Seq(S)
  BY <1>1, LatestIs
<1>3. ASSUME Len(s) < n
      PROVE  /\ Len(Latest(a, n)) = Len(s) + 1
             /\ \A i \in 1 .. Len(s) + 1 :
                  Latest(a, n)[i] = IF i = Len(s) + 1 THEN x ELSE s[i]
  <2>1. Len(a) <= n
    BY <1>1, <1>3
  <2>2. /\ Len(Latest(a, n)) = Len(a)
        /\ \A i \in 1 .. Len(a) : Latest(a, n)[i] = a[i]
    BY <1>1, <2>1, LatestIs
  <2>3. QED
    BY <1>1, <2>2
<1>4. ASSUME Len(s) = n
      PROVE  /\ Len(Latest(a, n)) = n
             /\ \A i \in 1 .. n : Latest(a, n)[i] = IF i = n THEN x ELSE s[i + 1]
  <2>1. Len(a) > n /\ \A i \in 1 .. n : Len(a) - n + i = i + 1
    BY <1>1, <1>4
  <2>2. /\ Len(Latest(a, n)) = n
        /\ \A i \in 1 .. n : Latest(a, n)[i] = a[i + 1]
    BY <1>1, <2>1, LatestIs
  <2>3. \A i \in 1 .. n : /\ i + 1 \in 1 .. Len(s) + 1
                          /\ i + 1 = Len(s) + 1 <=> i = n
    BY <1>1, <1>4
  <2>4. QED
    BY <1>1, <2>2, <2>3
<1>5. QED
  BY <1>2, <1>3, <1>4 DEF a

Kept ==
  /\ history \in [1 .. Size -> Lines] /\ serial \in Lines /\ shown \in Seq(Lines)
  /\ ~overlap =>
       /\ Len(shown) = count
       /\ \A i \in 1 .. count : history[i] = shown[i]
       /\ \A t \in Threads : add[t] \in {"read", "write"} => history[count + 1] = serial

Fresh ==
  /\ ~overlap /\ live /\ (~need \/ \E t \in Threads : at[t] = "drawn")
       => screen = Latest(shown, Height)
  /\ at["ui"] = "start" => ~live /\ count = 0 /\ shown = <<>>

ShowInv == Kept /\ Fresh

LEMMA InitShows == Init => ShowInv
BY ScreenAssumption DEF Init, ShowInv, Kept, Fresh, Threads, Lines

LEMMA LineStepShows ==
  ASSUME WorkInv, ShowInv, WorkInv', NEW t \in Threads, LineStep(t),
         overlap' = (overlap \/ \A u \in Threads : AtWork(u)')
  PROVE  ShowInv'
<1> USE ScreenAssumption DEF ShowInv
<1>1. /\ at' = at /\ live' = live /\ screen' = screen
      /\ at[t] \in Adding /\ AtWork(t)'
      /\ need' = need \/ need' = TRUE
  BY DEF LineStep, Test, Store, ReadCount, WriteCount, Shift, Added, Adds, AtWork,
         state, threads
<1>2. \A u \in Threads : u # t => add'[u] = add[u]
  BY DEF LineStep, Test, Store, ReadCount, WriteCount, Shift, Added, threads,
         WorkInv, Typed
<1>3. ASSUME ~overlap'
      PROVE  /\ ~overlap
             /\ \A u \in Threads : u # t => add[u] = "test" /\ at[u] # "drawn"
  <2>1. \A u \in Threads : u # t => ~AtWork(u)
    BY <1>1, <1>3 DEF Threads, AtWork
  <2>2. QED
    BY <1>3, <2>1 DEF WorkInv, Middle, Adds, AtWork
<1>4. serial' \in Lines /\ shown' \in Seq(Lines)
  <2>1. (serial + 1) % Ids \in Lines /\ 0 \in Lines
    BY DEF Kept, Lines
  <2>2. Append(shown, serial) \in Seq(Lines)
    BY DEF Kept
  <2>3. Latest(Append(shown, serial), Size) \in Seq(Lines)
    BY <2>2, LatestIs
  <2>4. QED
    <3>1. CASE UNCHANGED ghosts
      BY <3>1 DEF ghosts, Kept
    <3>2. CASE Added(t)
      <4>1. CASE overlap
        BY <2>1, <3>2, <4>1 DEF Added
      <4>2. CASE ~overlap
        BY <2>1, <2>3, <3>2, <4>2 DEF Added
      <4>3. QED
        BY <4>1, <4>2
    <3>3. QED
      BY <3>1, <3>2 DEF LineStep, Test, Store, ReadCount, WriteCount, Shift
<1>5. history' \in [1 .. Size -> Lines]
  <2>1. Shifted \in [1 .. Size -> Lines]
    BY DEF Shifted, Kept
  <2>2. QED
    BY <2>1 DEF LineStep, Test, Store, ReadCount, WriteCount, Shift, state, Kept
<1>6. ASSUME ~overlap'
      PROVE  /\ Len(shown') = count'
             /\ \A i \in 1 .. count' : history'[i] = shown'[i]
             /\ \A u \in Threads :
                  add'[u] \in {"read", "write"} => history'[count' + 1] = serial'
  <2> USE <1>6, <1>3
  <2>1. count \in Nat /\ count <= Size /\ shown \in Seq(Lines) /\ serial \in Lines
    BY DEF WorkInv, Typed, Within, Kept
  <2>2. /\ Len(shown) = count
        /\ \A i \in 1 .. count : history[i] = shown[i]
        /\ add[t] \in {"read", "write"} => history[count + 1] = serial
    BY DEF Kept
  <2>3. CASE Test(t)
    BY <1>2, <2>2, <2>3 DEF Test, RoomLeft, state, ghosts, WorkInv, Typed
  <2>4. CASE Store(t)
    <3>1. count < Size
      BY <2>4 DEF WorkInv, Within, Store
    <3>2. history' = [history EXCEPT ![count + 1] = serial]
      BY <2>4, <3>1 DEF Store
    <3>3. count' = count /\ shown' = shown /\ serial' = serial
      BY <2>4 DEF Store, ghosts
    <3>4. QED
      BY <1>2, <2>1, <2>2, <3>1, <3>2, <3>3 DEF Kept
  <2>5. CASE ReadCount(t)
    BY <1>2, <2>2, <2>5 DEF ReadCount, state, ghosts, WorkInv, Typed
  <2>6. Added(t) => shown' = Latest(Append(shown, serial), Size)
    BY DEF Added
  <2>7. Size \in Nat \ {0} /\ Len(shown) <= Size
    BY <2>1, <2>2
  <2>8. /\ Len(shown) < Size =>
             /\ Len(Latest(Append(shown, serial), Size)) = Len(shown) + 1
             /\ \A i \in 1 .. Len(shown) + 1 : Latest(Append(shown, serial), Size)[i]
                  = IF i = Len(shown) + 1 THEN serial ELSE shown[i]
        /\ Len(shown) = Size =>
             /\ Len(Latest(Append(shown, serial), Size)) = Size
             /\ \A i \in 1 .. Size : Latest(Append(shown, serial), Size)[i]
                  = IF i = Size THEN serial ELSE shown[i + 1]
    <3> HIDE <1>6, <1>3
    <3>1. QED
      BY <2>1, <2>7, LatestOfMore
  <2>9. CASE WriteCount(t)
    <3>1. count < Size /\ count' = count + 1 /\ history' = history
      BY <2>9 DEF WorkInv, Within, WriteCount
    <3>2. shown' = Latest(Append(shown, serial), Size)
      BY <2>6, <2>9 DEF WriteCount
    <3>3. /\ Len(shown') = count + 1
          /\ \A i \in 1 .. count + 1 :
               shown'[i] = IF i = count + 1 THEN serial ELSE shown[i]
      BY <2>2, <2>8, <3>1, <3>2
    <3>4. history[count + 1] = serial
      BY <2>2, <2>9 DEF WriteCount
    <3>5. add'[t] = "test"
      BY <2>9 DEF WriteCount, Added, WorkInv, Typed
    <3>6. QED
      BY <1>2, <2>1, <2>2, <3>1, <3>3, <3>4, <3>5
  <2>10. CASE Shift(t)
    <3>1. count = Size /\ count' = count /\ history' = Shifted
      BY <2>10 DEF WorkInv, Within, Shift, Counted
    <3>2. shown' = Latest(Append(shown, serial), Size)
      BY <2>6, <2>10 DEF Shift
    <3>3. /\ Len(shown') = Size
          /\ \A i \in 1 .. Size : shown'[i] = IF i = Size THEN serial ELSE shown[i + 1]
      BY <2>2, <2>8, <3>1, <3>2
    <3>4. add'[t] = "test"
      BY <2>10 DEF Shift, Added, WorkInv, Typed
    <3>5. \A i \in 1 .. Size : Shifted[i] = IF i = Size THEN serial ELSE shown[i + 1]
      BY <2>2, <3>1 DEF Shifted
    <3>6. \A i \in 1 .. count' : history'[i] = shown'[i]
      BY <3>1, <3>3, <3>5
    <3>7. QED
      BY <1>2, <3>1, <3>3, <3>4, <3>6
  <2>11. QED
    BY <2>3, <2>4, <2>5, <2>9, <2>10 DEF LineStep
<1>7. Kept'
  BY <1>4, <1>5, <1>6 DEF Kept
<1>8. Fresh'
  <2>1. at["ui"] # "start"
    BY <1>1 DEF WorkInv, Flags, Typed, HandlerPlaces, Adding, Fresh, Threads
  <2>2. ~overlap' => shown' = shown \/ need' = TRUE
    BY DEF LineStep, Test, Store, ReadCount, WriteCount, Shift, Added, ghosts
  <2>3. ~overlap' => \A u \in Threads : at[u] # "drawn"
    BY <1>1, <1>3 DEF Adding
  <2>4. need => need'
    BY <1>1
  <2>5. QED
    BY <1>1, <1>3, <2>1, <2>2, <2>3, <2>4 DEF Fresh
<1>9. QED
  BY <1>7, <1>8

(* Drawn alone, the console shows the last lines added. *)
LEMMA PaintedIs ==
  ASSUME Kept, ~overlap, count \in Nat, count <= Size
  PROVE  Painted = Latest(shown, Height)
<1> USE ScreenAssumption
<1>1. /\ shown \in Seq(Lines) /\ Len(shown) = count
      /\ \A i \in 1 .. count : history[i] = shown[i] /\ shown[i] \in Lines
  BY DEF Kept
<1> DEFINE k == count - FirstLine
<1>2. /\ FirstLine \in Nat /\ k \in Nat
      /\ count <= Height => FirstLine = 0 /\ k = count
      /\ count > Height => FirstLine = count - Height /\ k = Height
  BY DEF FirstLine
<1>3. Painted = [i \in 1 .. k |->
                   IF FirstLine + i <= Size THEN history[FirstLine + i] ELSE -1]
  BY DEF Painted
<1> HIDE DEF k
<1>4. \A i \in 1 .. k : FirstLine + i \in 1 .. count
  BY <1>2 DEF k
<1>5. \A i \in 1 .. k : Painted[i] = shown[FirstLine + i] /\ Painted[i] \in Lines
  BY <1>1, <1>2, <1>3, <1>4
<1>6. Painted \in Seq(Lines) /\ Len(Painted) = k
  <2>1. Painted \in [1 .. k -> Lines]
    BY <1>3, <1>5
  <2>2. QED
    BY <1>2, <2>1, SeqDef
<1>7. /\ Latest(shown, Height) \in Seq(Lines)
      /\ Len(Latest(shown, Height)) = k
      /\ \A i \in 1 .. k : Latest(shown, Height)[i] = shown[FirstLine + i]
  <2>1. CASE count <= Height
    <3>1. \A i \in 1 .. k : FirstLine + i = i
      BY <1>2, <2>1
    <3>2. QED
      BY <1>1, <1>2, <2>1, <3>1, LatestIs
  <2>2. CASE count > Height
    <3>1. Len(shown) > Height /\ \A i \in 1 .. k : Len(shown) - Height + i = FirstLine + i
      BY <1>1, <1>2, <2>2
    <3>2. /\ Latest(shown, Height) \in Seq(Lines)
          /\ Len(Latest(shown, Height)) = Height
          /\ \A i \in 1 .. Height :
               Latest(shown, Height)[i] = shown[Len(shown) - Height + i]
      BY <1>1, <3>1, LatestIs
    <3>3. QED
      BY <1>2, <2>2, <3>1, <3>2
  <2>3. QED
    BY <1>1, <2>1, <2>2
<1>8. QED
  BY <1>5, <1>6, <1>7, SeqEqual

LEMMA DrawStepShows ==
  ASSUME WorkInv, ShowInv, NEW t \in Threads, DrawStep(t),
         overlap' = (overlap \/ \A u \in Threads : AtWork(u)')
  PROVE  ShowInv'
<1> USE ScreenAssumption DEF ShowInv
<1>1. /\ add' = add /\ count' = count /\ live' = live /\ history' = history
      /\ serial' = serial /\ shown' = shown
  BY DEF DrawStep, LinesAdded, Draw, Drawn, state, ghosts
<1>2. ~overlap' => ~overlap
  OBVIOUS
<1>3. Kept'
  BY <1>1, <1>2 DEF Kept
<1>4. at["ui"] = "start" => t = "handler" /\ FALSE
  <2>1. at[t] \in Adding \cup {"draw", "drawn"}
    BY DEF DrawStep, LinesAdded, Draw, Drawn
  <2>2. at["ui"] = "start" => ~live
    BY DEF Fresh
  <2>3. at["handler"] \in Adding \cup {"draw", "drawn"} => live
    BY DEF WorkInv, Flags, Typed, HandlerPlaces, Adding
  <2>4. QED
    BY <2>1, <2>2, <2>3 DEF Threads, Adding
<1>5. at'["ui"] # "start"
  BY <1>4 DEF DrawStep, LinesAdded, AfterLines, Draw, Drawn, AfterDraw, Goes,
              Threads, WorkInv, Typed
<1>6. \A u \in Threads : u # t => at'[u] = at[u]
  BY DEF DrawStep, LinesAdded, Draw, Drawn, Goes, WorkInv, Typed
<1>7. ASSUME ~overlap' PROVE \A u \in Threads : u # t => at[u] # "drawn"
  <2>1. AtWork(t)
    BY DEF DrawStep, LinesAdded, Draw, Drawn, AtWork
  <2>2. \A u \in Threads : u # t => ~AtWork(u)
    BY <1>2, <1>7, <2>1 DEF WorkInv, Alone, Threads
  <2>3. QED
    BY <2>2 DEF AtWork
<1>8. ASSUME ~overlap', live', ~need' \/ \E u \in Threads : at'[u] = "drawn"
      PROVE  screen' = Latest(shown', Height)
  <2>1. CASE LinesAdded(t)
    <3>1. need' = TRUE /\ at'[t] # "drawn"
      BY <2>1 DEF LinesAdded, Goes, AfterLines, WorkInv, Typed
    <3>2. QED
      BY <1>6, <1>7, <1>8, <3>1
  <2>2. CASE Draw(t) /\ need
    <3>1. screen' = Painted
      BY <2>2 DEF Draw
    <3>2. QED
      BY <1>1, <1>2, <1>8, <3>1, PaintedIs DEF WorkInv, Typed, Within
  <2>3. CASE Draw(t) /\ ~need
    BY <1>1, <1>2, <1>8, <2>3 DEF Draw, Fresh
  <2>4. CASE Drawn(t)
    BY <1>1, <1>2, <1>8, <2>4 DEF Drawn, Fresh
  <2>5. QED
    BY <2>1, <2>2, <2>3, <2>4 DEF DrawStep
<1>9. QED
  BY <1>3, <1>5, <1>8 DEF Fresh

LEMMA UIStepShows ==
  ASSUME WorkInv, ShowInv, UIStep,
         overlap' = (overlap \/ \A t \in Threads : AtWork(t)')
  PROVE  ShowInv'
<1> USE ScreenAssumption DEF ShowInv
<1>1. /\ add' = add /\ history' = history /\ serial' = serial /\ screen' = screen
      /\ at'["handler"] = at["handler"]
  BY DEF UIStep, Initialize, Loop, NoEvent, KeyHit, NoLine, DisplayEvent, Handle,
         Aborts, AddsThen, Goes, state, threads, ghosts, WorkInv, Typed, Threads
<1>2. at["ui"] # "drawn" /\ at'["ui"] # "drawn" /\ add["ui"] = "test"
  <2>1. at["ui"] \in {"start", "loop", "pop", "input", "typing"}
    BY DEF UIStep, Initialize, Loop, NoEvent, KeyHit, NoLine, DisplayEvent,
           Handle, Aborts
  <2>2. add["ui"] = "test"
    BY <2>1 DEF WorkInv, Middle, Adds, Adding, Threads
  <2>3. at'["ui"] # "drawn"
    BY <2>1 DEF UIStep, Initialize, Loop, NoEvent, KeyHit, NoLine, DisplayEvent,
           Handle, Aborts, AddsThen, Goes, threads, WorkInv, Typed, Threads
  <2>4. QED
    BY <2>1, <2>2, <2>3
<1>3. ~overlap' => ~overlap
  OBVIOUS
  (* What a step of the UI thread may do to the lines. *)
<1>4. \/ count' = count /\ shown' = shown /\ need' = need /\ live' \in {live, FALSE}
      \/ /\ count' = 0 /\ shown' = <<>> /\ need' = TRUE
         /\ at'["ui"] \in {"welcome", "line", "goodbye"}
  <2>1. CASE Initialize
    BY <2>1 DEF Initialize, AddsThen, Goes, ghosts, Fresh, WorkInv, Typed, Threads
  <2>2. CASE Loop
    BY <2>2 DEF Loop, ghosts
  <2>3. CASE NoEvent \/ KeyHit \/ NoLine
    BY <2>3 DEF NoEvent, KeyHit, NoLine, state, ghosts
  <2>4. CASE \E e \in Events : DisplayEvent(e)
    BY <2>4 DEF DisplayEvent, Aborts, state, ghosts
  <2>5. CASE \E l \in Inputs : Handle(l)
    BY <2>5 DEF Handle, Aborts, AddsThen, Goes, state, ghosts, WorkInv, Typed, Threads
  <2>6. QED
    BY <2>1, <2>2, <2>3, <2>4, <2>5 DEF UIStep
<1>5. ASSUME ~overlap', at'["ui"] \in {"welcome", "line", "goodbye"}
      PROVE  add["handler"] = "test" /\ at["handler"] # "drawn"
  <2>1. AtWork("ui")'
    BY <1>5 DEF AtWork, Adding
  <2>2. ~AtWork("handler")'
    BY <1>5, <2>1 DEF Threads
  <2>3. QED
    BY <1>1, <2>2 DEF AtWork, WorkInv, Middle, Adds, Threads
<1>6. Kept'
  <2>1. CASE count' = count /\ shown' = shown
    BY <1>1, <1>3, <2>1 DEF Kept
  <2>2. CASE count' = 0 /\ shown' = <<>> /\ at'["ui"] \in {"welcome", "line", "goodbye"}
    <3>1. shown' \in Seq(Lines) /\ Len(shown') = 0
      BY <2>2
    <3>2. ~overlap' => \A t \in Threads : add'[t] = "test"
      BY <1>1, <1>2, <1>5, <2>2 DEF Threads
    <3>3. ~overlap' => /\ Len(shown') = count'
                       /\ \A i \in 1 .. count' : history'[i] = shown'[i]
      BY <2>2, <3>1
    <3>4. QED
      BY <1>1, <3>1, <3>2, <3>3 DEF Kept
  <2>3. QED
    BY <1>4, <2>1, <2>2
<1>7. at'["ui"] = "start" => at' = at /\ count' = count /\ shown' = shown /\ live' = live
  BY DEF UIStep, Initialize, Loop, NoEvent, KeyHit, NoLine, DisplayEvent, Handle,
         Aborts, AddsThen, Goes, state, threads, ghosts, WorkInv, Typed, Threads
<1>8. ASSUME ~overlap', live', ~need' \/ \E t \in Threads : at'[t] = "drawn"
      PROVE  screen' = Latest(shown', Height)
  <2>1. CASE need' = TRUE /\ at'["ui"] \in {"welcome", "line", "goodbye"}
    BY <1>1, <1>2, <1>5, <1>8, <2>1 DEF Threads
  <2>2. CASE shown' = shown /\ need' = need /\ live' \in {live, FALSE}
    <3>1. ~need \/ \E t \in Threads : at[t] = "drawn"
      BY <1>1, <1>2, <1>8, <2>2 DEF Threads
    <3>2. screen = Latest(shown, Height)
      BY <1>3, <1>8, <2>2, <3>1 DEF Fresh
    <3>3. QED
      BY <1>1, <2>2, <3>2
  <2>3. QED
    BY <1>4, <2>1, <2>2
<1>9. Fresh'
  BY <1>7, <1>8 DEF Fresh
<1>10. QED
  BY <1>6, <1>9

LEMMA SignalShows ==
  ASSUME WorkInv, ShowInv, Stop \/ Interrupt,
         overlap' = (overlap \/ \A t \in Threads : AtWork(t)')
  PROVE  ShowInv'
<1>1. /\ UNCHANGED <<state, screen, add, ghosts>>
      /\ at'["ui"] = at["ui"] /\ (at'["handler"] = "drawn" => at' = at)
  BY DEF Stop, Interrupt, AddsThen, Goes, state, threads, WorkInv, Typed, Threads
<1>2. QED
  BY <1>1 DEF ShowInv, Kept, Fresh, state, ghosts, Threads

LEMMA NextShows == WorkInv /\ WorkInv' /\ ShowInv /\ [Next]_vars => ShowInv'
<1> SUFFICES ASSUME WorkInv, WorkInv', ShowInv, [Next]_vars PROVE ShowInv'
  OBVIOUS
<1>1. CASE UNCHANGED vars
  BY <1>1 DEF vars, state, threads, ghosts, ShowInv, Kept, Fresh
<1>2. CASE Next
  <2>1. overlap' = (overlap \/ \A t \in Threads : AtWork(t)')
    BY <1>2 DEF Next
  <2>2. UIStep \/ Stop \/ Interrupt \/ \E t \in Threads : LineStep(t) \/ DrawStep(t)
    BY <1>2 DEF Next, UI, Handler, OnScreen, UIStep, LineStep, DrawStep, Threads
  <2>3. QED
    BY <2>1, <2>2, LineStepShows, UIStepShows, DrawStepShows, SignalShows
<1>3. QED
  BY <1>1, <1>2

LEMMA AlwaysShows == Spec => [](WorkInv /\ ShowInv)
BY InitWorks, NextWorks, InitShows, NextShows, PTL DEF Spec

(* Whatever the sizes: the history is the last Size lines in their order, unless
   the signal handler came between. *)
THEOREM HistoryKeepsLatest == Spec => []HistoryRight
<1>1. ASSUME WorkInv, ShowInv PROVE HistoryRight
  <2> USE ScreenAssumption
  <2>1. SUFFICES ASSUME ~overlap PROVE SubSeq(history, 1, count) = shown
    BY DEF HistoryRight
  <2>2. /\ shown \in Seq(Lines) /\ Len(shown) = count
        /\ \A i \in 1 .. count : history[i] = shown[i]
        /\ history \in [1 .. Size -> Lines]
        /\ count \in 0 .. Size
    BY <1>1, <2>1 DEF ShowInv, Kept, WorkInv, Typed, Within
  <2>3. history \in Seq(Lines) /\ Len(history) = Size
    BY <2>2, SeqDef
  <2>4. /\ SubSeq(history, 1, count) \in Seq(Lines)
        /\ Len(SubSeq(history, 1, count)) = IF 1 <= count THEN count - 1 + 1 ELSE 0
        /\ \A i \in 1 .. count - 1 + 1 :
             SubSeq(history, 1, count)[i] = history[1 + i - 1]
    BY <2>2, <2>3, SubSeqProperties
  <2>5. /\ Len(SubSeq(history, 1, count)) = Len(shown)
        /\ \A i \in 1 .. Len(shown) : SubSeq(history, 1, count)[i] = shown[i]
    BY <2>2, <2>4
  <2>6. QED
    BY <2>2, <2>4, <2>5, SeqEqual
<1>2. QED
  BY <1>1, AlwaysShows, PTL

(* Whatever the sizes: once a drawing is done and none is due, the console shows
   the last lines of the history, unless the signal handler came between. *)
THEOREM ConsoleShowsLatest == Spec => []ScreenCurrent
<1>1. WorkInv /\ ShowInv => ScreenCurrent
  BY DEF ShowInv, Fresh, ScreenCurrent
<1>2. QED
  BY <1>1, AlwaysShows, PTL

-----------------------------------------------------------------------------
(* Types, and how far the signal handler can push the count. *)

(* The handler has not yet counted the one line it adds. *)
Pending ==
  at["handler"] = "idle" \/ (at["handler"] = "shutdown" /\ todo["handler"] > 0)

(* The UI thread alone counts up to Size.  The line of the handler brings the
   count to Size + 1 at most, and an increment of the UI thread that was under
   way then to Size + 2: every other one starts below Size. *)
CountInv ==
  /\ todo["handler"] \in {0, 1}
  /\ \A t \in Threads : seen[t] <= Size + 1
  /\ count <= Size + 2
  /\ add["ui"] = "read" => count <= Size + 1
  /\ Pending =>
       /\ count <= Size /\ seen["handler"] <= Size
       /\ add["ui"] = "read" => count < Size
       /\ add["ui"] = "write" => seen["ui"] < Size
  /\ add["handler"] # "test" => Pending /\ at["handler"] = "shutdown"

RestTyped ==
  /\ need \in BOOLEAN /\ live \in BOOLEAN /\ stop \in BOOLEAN
  /\ ended \in {"no", "aborted", "overrun", "killed"}
  /\ cause \in Events \cup Inputs \cup {Nothing}
  /\ screen \in Seq(Lines \cup {-1}) /\ Len(screen) <= Height
  /\ Len(shown) <= Size

LEMMA InitCounts == Init => CountInv
BY ScreenAssumption DEF Init, CountInv, Pending, Threads

LEMMA LineStepCounts ==
  ASSUME WorkInv, CountInv, NEW t \in Threads, LineStep(t)
  PROVE  CountInv'
<1> USE ScreenAssumption
<1>1. /\ count \in Nat /\ seen \in [Threads -> Nat] /\ todo \in [Threads -> Nat]
      /\ add \in [Threads -> {"test", "store", "read", "write", "shift"}]
      /\ seen["ui"] \in Nat /\ seen["handler"] \in Nat
      /\ "ui" \in Threads /\ "handler" \in Threads
  BY DEF WorkInv, Typed, Threads
<1>2. at' = at /\ at[t] \in Adding /\ todo[t] > 0
  BY DEF LineStep, Test, Store, ReadCount, WriteCount, Shift, Adds, threads
<1>3. t = "handler" => at["handler"] = "shutdown" /\ Pending /\ todo["handler"] = 1
  BY <1>2 DEF WorkInv, Typed, HandlerPlaces, Adding, Pending, CountInv
<1>4. t = "ui" \/ t = "handler"
  BY DEF Threads
<1>5. CASE Test(t)
  BY <1>1, <1>2, <1>3, <1>4, <1>5 DEF Test, RoomLeft, CountInv, Pending, state, Threads
<1>6. CASE Store(t)
  BY <1>1, <1>2, <1>3, <1>4, <1>6 DEF Store, CountInv, Pending, Threads
<1>7. CASE ReadCount(t)
  BY <1>1, <1>2, <1>3, <1>4, <1>7 DEF ReadCount, CountInv, Pending, state, Threads
<1>8. CASE WriteCount(t)
  BY <1>1, <1>2, <1>3, <1>4, <1>8 DEF WriteCount, Added, CountInv, Pending, Threads
<1>9. CASE Shift(t)
  BY <1>1, <1>2, <1>3, <1>4, <1>9 DEF Shift, Added, Counted, CountInv, Pending, Threads
<1>10. QED
  BY <1>5, <1>6, <1>7, <1>8, <1>9 DEF LineStep

LEMMA OtherStepCounts ==
  ASSUME WorkInv, CountInv,
         UIStep \/ Stop \/ Interrupt \/ \E t \in Threads : DrawStep(t)
  PROVE  CountInv'
<1> USE ScreenAssumption
<1>1. /\ count \in Nat /\ seen \in [Threads -> Nat] /\ todo \in [Threads -> Nat]
      /\ at \in [Threads -> UIPlaces \cup HandlerPlaces]
      /\ at["handler"] \in HandlerPlaces
      /\ "ui" \in Threads /\ "handler" \in Threads
  BY DEF WorkInv, Typed, Threads
<1>2. CASE UIStep
  <2>1. /\ add' = add /\ seen' = seen
        /\ todo'["handler"] = todo["handler"] /\ at'["handler"] = at["handler"]
        /\ count' = count \/ count' = 0
    BY <1>1, <1>2 DEF UIStep, Initialize, Loop, NoEvent, KeyHit, NoLine, DisplayEvent,
           Handle, Aborts, AddsThen, Goes, state, threads, ends, Threads
  <2>2. QED
    BY <1>1, <2>1 DEF CountInv, Pending
<1>3. CASE Stop \/ Interrupt
  <2>1. add' = add /\ seen' = seen /\ count' = count
    BY <1>3 DEF Stop, Interrupt, state, threads
  <2>2. CASE Stop
    <3>1. todo' = todo /\ at["handler"] = "stop" /\ at'["handler"] = "done"
      BY <1>1, <2>2 DEF Stop, Goes
    <3>2. QED
      BY <1>1, <2>1, <3>1 DEF CountInv, Pending
  <2>3. CASE Interrupt
    <3>1. \/ at' = at /\ todo' = todo
          \/ at["handler"] = "idle" /\ at'["handler"] = "shutdown" /\ todo'["handler"] = 1
          \/ at["handler"] = "idle" /\ at'["handler"] = "stop" /\ todo' = todo
      BY <1>1, <2>3 DEF Interrupt, AddsThen, Goes, threads
    <3>2. at["handler"] = "idle" => Pending
      BY DEF Pending
    <3>3. QED
      BY <1>1, <2>1, <3>1, <3>2 DEF CountInv, Pending
  <2>4. QED
    BY <1>3, <2>2, <2>3
<1>4. ASSUME NEW t \in Threads, DrawStep(t) PROVE CountInv'
  <2>1. add' = add /\ seen' = seen /\ todo' = todo /\ count' = count
    BY <1>4 DEF DrawStep, LinesAdded, Draw, Drawn, state
  <2>2. /\ add[t] = "test" /\ at[t] \in Adding \cup {"draw", "drawn"}
        /\ at[t] \in Adding => todo[t] = 0
    BY <1>4 DEF DrawStep, LinesAdded, Draw, Drawn, WorkInv, Middle, Adds, Adding
  <2>3. at'["handler"] = at["handler"] \/ t = "handler"
    BY <1>1, <1>4 DEF DrawStep, LinesAdded, Draw, Drawn, Goes, Threads
  <2>4. t = "handler" => ~Pending /\ ~Pending'
    <3>1. SUFFICES ASSUME t = "handler" PROVE ~Pending /\ ~Pending'
      OBVIOUS
    <3>2. at'["handler"] \in {"draw", "drawn", "stop", "input"}
      BY <1>1, <1>4, <3>1 DEF DrawStep, LinesAdded, AfterLines, Draw, Drawn, AfterDraw, Goes
    <3>3. QED
      BY <1>1, <2>2, <3>1, <3>2 DEF Pending, Adding
  <2>5. QED
    BY <1>1, <2>1, <2>2, <2>3, <2>4 DEF CountInv, Pending
<1>5. QED
  BY <1>2, <1>3, <1>4

LEMMA PaintedFits ==
  ASSUME WorkInv, ShowInv
  PROVE  Painted \in Seq(Lines \cup {-1}) /\ Len(Painted) <= Height
<1> DEFINE k == count - FirstLine
<1>1. /\ count \in Nat /\ FirstLine \in Nat /\ k \in Nat /\ k <= Height
      /\ history \in [1 .. Size -> Lines] /\ Size \in Nat
  BY ScreenAssumption DEF WorkInv, Typed, ShowInv, Kept, FirstLine
<1>2. \A i \in 1 .. k : FirstLine + i <= Size => FirstLine + i \in 1 .. Size
  BY <1>1
<1>3. Painted \in [1 .. k -> Lines \cup {-1}]
  BY <1>1, <1>2 DEF Painted
<1> HIDE DEF k
<1>4. QED
  BY <1>1, <1>3, SeqDef, LenProperties

LEMMA InitRests == Init => RestTyped
<1> SUFFICES ASSUME Init PROVE RestTyped
  OBVIOUS
<1>1. <<>> \in Seq(Lines \cup {-1}) /\ Len(<<>>) = 0
  OBVIOUS
<1>2. Len(screen) <= Height /\ Len(shown) <= Size /\ screen \in Seq(Lines \cup {-1})
  BY <1>1, ScreenAssumption DEF Init
<1>3. need = FALSE /\ live = FALSE /\ stop = FALSE /\ ended = "no" /\ cause = Nothing
  BY DEF Init
<1>4. QED
  BY <1>2, <1>3 DEF RestTyped

LEMMA NextRests ==
  ASSUME WorkInv, ShowInv, RestTyped, Next
  PROVE  RestTyped'
<1> USE ScreenAssumption
<1>1. UIStep \/ Stop \/ Interrupt \/ \E t \in Threads : LineStep(t) \/ DrawStep(t)
  BY DEF Next, UI, Handler, OnScreen, UIStep, LineStep, DrawStep, Threads
<1>2. shown \in Seq(Lines) /\ serial \in Lines
  BY DEF ShowInv, Kept
<1>3. CASE UIStep
  <2>1. need' \in BOOLEAN
    BY <1>3, Zenon DEF UIStep, Initialize, Loop, NoEvent, KeyHit, NoLine, DisplayEvent,
           Handle, Aborts, state, RestTyped
  <2>2. live' \in BOOLEAN
    BY <1>3, Zenon DEF UIStep, Initialize, Loop, NoEvent, KeyHit, NoLine, DisplayEvent,
           Handle, Aborts, state, RestTyped
  <2>3. stop' = stop /\ screen' = screen
    BY <1>3 DEF UIStep, Initialize, Loop, NoEvent, KeyHit, NoLine, DisplayEvent,
           Handle, Aborts, ends
  <2>4. /\ ended' = ended \/ ended' = "aborted"
        /\ cause' = cause \/ cause' \in Events \cup Inputs
    BY <1>3 DEF UIStep, Initialize, Loop, NoEvent, KeyHit, NoLine, DisplayEvent,
           Handle, Aborts, ends
  <2>5. shown' = shown \/ shown' = <<>>
    BY <1>3 DEF UIStep, Initialize, Loop, NoEvent, KeyHit, NoLine, DisplayEvent,
           Handle, Aborts, ghosts
  <2>6. Len(shown') <= Size
    BY <2>5 DEF RestTyped
  <2>7. QED
    BY <2>1, <2>2, <2>3, <2>4, <2>6 DEF RestTyped
<1>4. CASE Stop \/ Interrupt
  <2>1. need' = need /\ live' = live /\ screen' = screen /\ shown' = shown /\ cause' = cause
    BY <1>4 DEF Stop, Interrupt, state, ghosts, ends
  <2>2. stop' = stop \/ stop' = TRUE
    BY <1>4 DEF Stop, Interrupt, ends
  <2>3. ended' = ended \/ ended' = "killed"
    BY <1>4 DEF Stop, Interrupt, ends
  <2>4. QED
    BY <2>1, <2>2, <2>3 DEF RestTyped
<1>5. ASSUME NEW t \in Threads, DrawStep(t) PROVE RestTyped'
  <2>1. live' = live /\ shown' = shown /\ cause' = cause /\ ended' = ended /\ stop' = stop
    BY <1>5 DEF DrawStep, LinesAdded, Draw, Drawn, state, ends, ghosts
  <2>2. need' = need \/ need' = TRUE \/ need' = FALSE
    BY <1>5 DEF DrawStep, LinesAdded, Draw, Drawn, state
  <2>3. screen' = screen \/ screen' = Painted
    BY <1>5 DEF DrawStep, LinesAdded, Draw, Drawn
  <2>4. QED
    BY <2>1, <2>2, <2>3, PaintedFits DEF RestTyped
<1>6. ASSUME NEW t \in Threads, LineStep(t) PROVE RestTyped'
  <2>1. live' = live /\ screen' = screen /\ cause' = cause /\ stop' = stop
    BY <1>6 DEF LineStep, Test, Store, ReadCount, WriteCount, Shift, state, ends
  <2>2. need' = need \/ need' = TRUE
    BY <1>6 DEF LineStep, Test, Store, ReadCount, WriteCount, Shift, Added, state
  <2>3. ended' = ended \/ ended' = "overrun"
    BY <1>6 DEF LineStep, Test, Store, ReadCount, WriteCount, Shift, ends
  <2>4. \/ shown' = shown \/ shown' = <<>>
        \/ shown' = Latest(Append(shown, serial), Size)
    BY <1>6 DEF LineStep, Test, Store, ReadCount, WriteCount, Shift, Added, ghosts
  <2>5. Len(shown) <= Size /\ Size \in Nat \ {0} /\ Len(shown) \in Nat
    BY <1>2 DEF RestTyped
  <2>6. Len(Latest(Append(shown, serial), Size)) <= Size
    <3>1. /\ Len(shown) < Size => Len(Latest(Append(shown, serial), Size)) = Len(shown) + 1
          /\ Len(shown) = Size => Len(Latest(Append(shown, serial), Size)) = Size
      BY <1>2, <2>5, LatestOfMore
    <3>2. QED
      BY <2>5, <3>1
  <2>7. Len(shown') <= Size
    BY <2>4, <2>5, <2>6
  <2>8. QED
    BY <2>1, <2>2, <2>3, <2>7 DEF RestTyped
<1>7. QED
  BY <1>1, <1>3, <1>4, <1>5, <1>6

LEMMA NextCounts ==
  WorkInv /\ ShowInv /\ CountInv /\ RestTyped /\ [Next]_vars => (CountInv /\ RestTyped)'
<1> SUFFICES ASSUME WorkInv, ShowInv, CountInv, RestTyped, [Next]_vars
             PROVE  (CountInv /\ RestTyped)'
  OBVIOUS
<1>1. CASE UNCHANGED vars
  <2>1. CountInv'
    BY <1>1 DEF vars, state, threads, CountInv, Pending
  <2>2. RestTyped'
    BY <1>1 DEF vars, state, ends, ghosts, RestTyped
  <2>3. QED
    BY <2>1, <2>2
<1>2. CASE Next
  <2>1. UIStep \/ Stop \/ Interrupt \/ \E t \in Threads : LineStep(t) \/ DrawStep(t)
    BY <1>2 DEF Next, UI, Handler, OnScreen, UIStep, LineStep, DrawStep, Threads
  <2>2. CountInv'
    BY <2>1, LineStepCounts, OtherStepCounts
  <2>3. QED
    BY <1>2, <2>2, NextRests
<1>3. QED
  BY <1>1, <1>2

(* The types of the screen, for every size of the history and of the console:
   with Ctrl+C in the middle of a line history_count may pass the array, but by
   two at most, and what is drawn never passes the chat area. *)
THEOREM ScreenTypes == Spec => []TypeOK
<1>1. ASSUME WorkInv, ShowInv, CountInv, RestTyped PROVE TypeOK
  <2> USE ScreenAssumption
  <2>1. /\ count \in 0 .. Size + 2
        /\ seen \in [Threads -> 0 .. Size + 1]
    BY <1>1 DEF WorkInv, Typed, CountInv
  <2>2. at.ui \in UIPlaces /\ at.handler \in HandlerPlaces
    BY <1>1 DEF WorkInv, Typed
  <2>3. /\ history \in [1 .. Size -> Lines] /\ serial \in Lines /\ shown \in Seq(Lines)
    BY <1>1 DEF ShowInv, Kept
  <2>4. /\ add \in [Threads -> {"test", "store", "read", "write", "shift"}]
        /\ todo \in [Threads -> Nat] /\ overlap \in BOOLEAN
    BY <1>1 DEF WorkInv, Typed
  <2>5. QED
    BY <1>1, <2>1, <2>2, <2>3, <2>4 DEF TypeOK, RestTyped, UIPlaces, HandlerPlaces
<1>2. QED
  BY <1>1, AlwaysShows, InitCounts, InitRests, NextCounts, PTL DEF Spec

-----------------------------------------------------------------------------
(* The texts that the program itself makes: names as message_create_chat and
   the join and leave messages let them pass, the two names of a state, the
   reasons of a lost connection and of an error, and the commands. *)
OwnTexts ==
  /\ \A e \in Events :
       /\ e.name < 32
       /\ e.kind = "state" => e.text < 64
       /\ e.kind \in {"notice", "status", "error"} => e.text < 256
  /\ \A l \in Inputs :
       l.kind \notin {"talk", "unknown"} => l.text <= 256

CauseFound == cause # Nothing => (cause \in Events /\ ~EventFits(cause))
                              \/ (cause \in Inputs /\ ~InputFits(cause))

LEMMA AlwaysFound == Spec => []CauseFound
<1>1. Init => CauseFound
  BY DEF Init, CauseFound
<1>2. CauseFound /\ [Next]_vars => CauseFound'
  <2> SUFFICES ASSUME CauseFound, [Next]_vars PROVE CauseFound'
    OBVIOUS
  <2>1. \/ cause' = cause
        \/ cause' \in Events /\ ~EventFits(cause')
        \/ cause' \in Inputs /\ ~InputFits(cause')
    <3>1. CASE UNCHANGED vars
      BY <3>1 DEF vars, ends
    <3>2. CASE UI
      BY <3>2 DEF UI, OnScreen, Test, Store, ReadCount, WriteCount, Shift, LinesAdded,
             Draw, Drawn, Initialize, Loop, NoEvent, KeyHit, NoLine, DisplayEvent,
             Handle, Aborts, ends
    <3>3. CASE Handler \/ Interrupt
      BY <3>3 DEF Handler, OnScreen, Test, Store, ReadCount, WriteCount, Shift,
             LinesAdded, Draw, Drawn, Stop, Interrupt, ends
    <3>4. QED
      BY <3>1, <3>2, <3>3 DEF Next
  <2>2. QED
    BY <2>1 DEF CauseFound
<1>3. QED
  BY <1>1, <1>2, PTL DEF Spec

(* Of the texts of any length that can come, only a chat text, a user list, a
   typed text or an unknown command can end the program, and none that is
   short enough. *)
THEOREM ShortTextsAlwaysFit ==
  ASSUME OwnTexts
  PROVE  Spec => []ShortTextsFit
<1>1. CauseFound => ShortTextsFit
  <2> SUFFICES ASSUME CauseFound, cause # Nothing
               PROVE  CASE cause.kind = "chat" -> cause.text > 466
                        [] cause.kind = "list" -> cause.text > 15 * 31 + 14
                        [] cause.kind = "talk" -> cause.text > 506
                        [] cause.kind = "unknown" -> cause.text - 1 > 211
                        [] OTHER -> FALSE
    BY DEF ShortTextsFit
  <2>1. CASE cause \in Events /\ ~EventFits(cause)
    <3>1. /\ cause.kind \in {"chat", "list", "notice", "error", "state", "status"}
          /\ cause.name \in Nat /\ cause.text \in Nat /\ cause.name < 32
      BY <2>1, ScreenAssumption DEF OwnTexts
    <3>2. cause.text >= 1024 \/ Written(cause) >= Buffer(cause)
      BY <2>1, <3>1 DEF EventFits, Written, Buffer, Stamp
    <3>3. CASE cause.kind = "chat"
      BY <3>1, <3>2, <3>3 DEF Written, Buffer, Stamp
    <3>4. CASE cause.kind = "list"
      BY <3>1, <3>2, <3>4 DEF Written, Buffer, Stamp
    <3>5. CASE cause.kind \in {"notice", "error", "state", "status"}
      BY <2>1, <3>1, <3>2, <3>5 DEF Written, Buffer, Stamp, OwnTexts
    <3>6. QED
      BY <3>1, <3>3, <3>4, <3>5
  <2>2. CASE cause \in Inputs /\ ~InputFits(cause)
    <3>1. /\ cause.kind \in {"blank", "talk", "reply", "help", "clear", "quit", "unknown"}
          /\ cause.text \in Nat
      BY <2>2, ScreenAssumption
    <3>2. CASE cause.kind \in {"talk", "unknown"}
      BY <2>2, <3>1, <3>2 DEF InputFits
    <3>3. CASE cause.kind \notin {"talk", "unknown"}
      BY <2>2, <3>1, <3>3 DEF InputFits, OwnTexts
    <3>4. QED
      BY <3>2, <3>3
  <2>3. QED
    BY <2>1, <2>2 DEF CauseFound
<1>2. QED
  BY <1>1, AlwaysFound, PTL
=============================================================================
