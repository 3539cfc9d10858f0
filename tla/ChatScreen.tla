----------------------------- MODULE ChatScreen -----------------------------
(***************************************************************************)
(* The screen of the client: the chat history, what is drawn of it, and    *)
(* the lines of the user, from client_run to client_ui_cleanup.            *)
(*                                                                         *)
(* Two threads use it.  The UI thread takes an event of the network        *)
(* thread, looks for input and tests should_shutdown, in turns.  Ctrl+C    *)
(* runs the signal handler on a thread of its own, which adds a line and   *)
(* draws, too, without a lock.  Each step below is one read or one write   *)
(* of what both use; a line is copied in one step, and the full history    *)
(* shifts in one.                                                          *)
(*                                                                         *)
(* A line of the history is a number.  Lengths of texts are real: the      *)
(* functions of the C library that format and copy them end the program    *)
(* when the target is too small.  What a command does to the connection,   *)
(* and the queues, are ChatClient and RingQueue.                           *)
(***************************************************************************)
EXTENDS Integers, Sequences

CONSTANTS
  Size,          \* CHAT_HISTORY_SIZE
  Height,        \* chat_area_height
  WelcomeLines,  \* lines of the welcome, 5
  HelpLines,     \* lines of the help, 10
  Events,        \* events of the network thread
  Inputs,        \* lines of the user
  Ids,           \* bound: lines are told apart modulo Ids
  Nothing        \* no text

ASSUME ScreenAssumption ==
  /\ Size \in Nat \ {0} /\ Height \in Nat
  /\ WelcomeLines \in Nat /\ HelpLines \in Nat
  /\ Ids \in Nat \ {0}
  /\ Events \subseteq [kind : {"chat", "list", "notice", "error", "state", "status"},
                       name : Nat, text : Nat]
  /\ Inputs \subseteq [kind : {"blank", "talk", "reply", "help", "clear", "quit",
                               "unknown"},
                       text : Nat]
  /\ Nothing \notin Events \cup Inputs

Threads == {"ui", "handler"}

VARIABLES
  history,  \* ui_state_t.chat_history
  count,    \* ui_state_t.history_count
  need,     \* ui_state_t.need_refresh
  live,     \* g_ui_state points to a state
  screen,   \* the lines on the console
  stop,     \* client->should_shutdown
  at,       \* where a thread stands
  add,      \* where a thread stands in ui_add_system_message
  todo,     \* how many lines a thread has still to add
  seen,     \* the history_count a thread has read to increment it
  ended,    \* how the process ended, "no" while it has not
  cause,    \* the text that ended it, Nothing while none has
  overlap,  \* history: both threads were at work on the screen at once
  serial,   \* history: the number of the next line
  shown     \* history: the last Size lines added since the last /clear

state   == <<history, count, need, live>>
threads == <<at, add, todo, seen>>
ends    == <<stop, ended, cause>>
ghosts  == <<serial, shown>>
vars    == <<state, screen, threads, ends, overlap, ghosts>>

Lines == 0 .. Ids - 1

(* The last n elements of a sequence, all of them if it is shorter. *)
Latest(s, n) == SubSeq(s, IF Len(s) > n THEN Len(s) - n + 1 ELSE 1, Len(s))

Init ==
  /\ history = [i \in 1 .. Size |-> 0] /\ count = 0 /\ need = FALSE /\ live = FALSE
  /\ screen = <<>>
  /\ at = [ui |-> "start", handler |-> "idle"]
  /\ add = [t \in Threads |-> "test"]
  /\ todo = [t \in Threads |-> 0] /\ seen = [t \in Threads |-> 0]
  /\ stop = FALSE /\ ended = "no" /\ cause = Nothing
  /\ overlap = FALSE
  /\ serial = 0 /\ shown = <<>>

-----------------------------------------------------------------------------
(* Texts *)

Stamp == 11

(* How long the line of an event is: "[stamp] <name> text" and the like. *)
Written(e) ==
  Stamp + CASE e.kind = "chat" -> 3 + e.name + e.text
            [] e.kind = "list" -> 14 + e.text
            [] e.kind = "notice" -> e.name + 16
            [] e.kind = "error" -> 7 + e.text
            [] OTHER -> e.text

(* Mutant: every buffer has the size of the smaller ones. *)
BufferSmall(e) == 256

Buffer(e) == IF e.kind \in {"state", "notice"} THEN 256 ELSE 512

(* An event holds a name of 31 and a text of 1023 characters at most. *)
EventFits(e) == e.name < 32 /\ e.text < 1024 /\ Written(e) < Buffer(e)

(* A chat text is echoed after "You: ", a command copied and, when it is
   unknown, quoted in an error; the text is the whole line. *)
InputFits(l) ==
  CASE l.kind = "talk" -> 5 + l.text < 512
    [] l.kind = "unknown" -> l.text - 1 < 256 /\ l.text - 1 + 44 < 256
    [] OTHER -> l.text - 1 < 256

-----------------------------------------------------------------------------
(* Adding a line: ui_add_system_message, ui_add_chat_message *)

Adding == {"welcome", "event", "line", "goodbye", "shutdown"}

Adds(t) == at[t] \in Adding /\ todo[t] > 0

(* Mutant: off by one. *)
RoomAfterLast == count <= Size

RoomLeft == count < Size

Test(t) ==
  /\ Adds(t) /\ add[t] = "test"
  /\ add' = [add EXCEPT ![t] = IF RoomLeft THEN "store" ELSE "shift"]
  /\ UNCHANGED <<state, screen, at, todo, seen, ends, ghosts>>

(* The count is read anew: what lies behind the array is the count itself. *)
Store(t) ==
  /\ Adds(t) /\ add[t] = "store"
  /\ IF count < Size
       THEN /\ history' = [history EXCEPT ![count + 1] = serial]
            /\ add' = [add EXCEPT ![t] = "read"]
            /\ UNCHANGED ended
       ELSE ended' = "overrun" /\ UNCHANGED <<history, add>>
  /\ UNCHANGED <<count, need, live, screen, at, todo, seen, stop, cause, ghosts>>

(* Mutant: the count goes up where the history shifts, too. *)
CountedShifted(t) == count' = count + 1

Counted(t) == UNCHANGED count

ReadCount(t) ==
  /\ Adds(t) /\ add[t] = "read"
  /\ seen' = [seen EXCEPT ![t] = count]
  /\ add' = [add EXCEPT ![t] = "write"]
  /\ UNCHANGED <<state, screen, at, todo, ends, ghosts>>

(* Once both threads have been at work at once the lines are not told apart
   any more. *)
Added(t) ==
  /\ need' = TRUE
  /\ add' = [add EXCEPT ![t] = "test"]
  /\ todo' = [todo EXCEPT ![t] = @ - 1]
  /\ IF overlap
       THEN serial' = 0 /\ shown' = <<>>
       ELSE /\ serial' = (serial + 1) % Ids
            /\ shown' = Latest(Append(shown, serial), Size)

WriteCount(t) ==
  /\ Adds(t) /\ add[t] = "write"
  /\ count' = seen[t] + 1
  /\ Added(t)
  /\ UNCHANGED <<history, live, screen, at, seen, ends>>

(* Mutant: the loop stops one line too early. *)
ShiftedShort ==
  [i \in 1 .. Size |-> IF i = Size THEN serial
                       ELSE IF i = Size - 1 THEN history[i] ELSE history[i + 1]]

Shifted == [i \in 1 .. Size |-> IF i = Size THEN serial ELSE history[i + 1]]

Shift(t) ==
  /\ Adds(t) /\ add[t] = "shift"
  /\ history' = Shifted
  /\ Counted(t)
  /\ Added(t)
  /\ UNCHANGED <<live, screen, at, seen, ends>>

-----------------------------------------------------------------------------
(* Drawing: ui_refresh_screen *)

Goes(t, place) == at' = [at EXCEPT ![t] = place]

AddsThen(t, place, n) == Goes(t, place) /\ todo' = [todo EXCEPT ![t] = n]

(* Mutant: off by one. *)
FirstLineLate == IF count > Height THEN count - Height + 1 ELSE 0

FirstLine == IF count > Height THEN count - Height ELSE 0

(* What lies behind the array is no line. *)
Painted ==
  [i \in 1 .. count - FirstLine |->
     IF FirstLine + i <= Size THEN history[FirstLine + i] ELSE -1]

AfterDraw == [ui |-> "loop", handler |-> "stop"]

(* The lines are drawn first, and the request is cleared after that. *)
Draw(t) ==
  /\ at[t] = "draw"
  /\ IF need THEN screen' = Painted /\ Goes(t, "drawn")
             ELSE Goes(t, AfterDraw[t]) /\ UNCHANGED screen
  /\ UNCHANGED <<state, add, todo, seen, ends, ghosts>>

Drawn(t) ==
  /\ at[t] = "drawn"
  /\ need' = FALSE
  /\ Goes(t, AfterDraw[t])
  /\ UNCHANGED <<history, count, live, screen, add, todo, seen, ends, ghosts>>

-----------------------------------------------------------------------------
(* The UI thread: client_run *)

(* client_ui_initialize *)
Initialize ==
  /\ at.ui = "start"
  /\ live' = TRUE /\ count' = 0 /\ need' = TRUE
  /\ AddsThen("ui", "welcome", WelcomeLines)
  /\ UNCHANGED <<history, screen, add, seen, ends, ghosts>>

AfterLines(t) == IF at[t] = "event" THEN "input" ELSE "draw"

(* The lines of the thread are all added; what follows them. *)
LinesAdded(t) ==
  /\ at[t] \in Adding /\ todo[t] = 0
  /\ need' = TRUE
  /\ Goes(t, AfterLines(t))
  /\ UNCHANGED <<history, count, live, screen, add, todo, seen, ends, ghosts>>

(* Mutant: the flag is set before the handler draws. *)
ShouldShutdownFirst == at.handler # "idle"

(* Mutant: what is still to be drawn keeps the loop going. *)
ShouldShutdownDrawn == stop /\ ~need

ShouldShutdown == stop

(* The test of should_shutdown; behind the loop is client_ui_cleanup. *)
Loop ==
  /\ at.ui = "loop"
  /\ IF ShouldShutdown
       THEN Goes("ui", "over") /\ live' = FALSE
       ELSE Goes("ui", "pop") /\ UNCHANGED live
  /\ UNCHANGED <<history, count, need, screen, add, todo, seen, ends, ghosts>>

Aborts(text) ==
  /\ ended' = "aborted" /\ cause' = text
  /\ UNCHANGED <<state, screen, threads, stop, ghosts>>

(* client_ui_display_event *)
DisplayEvent(e) ==
  /\ at.ui = "pop"
  /\ IF EventFits(e)
       THEN /\ AddsThen("ui", "event", 1)
            /\ UNCHANGED <<state, screen, add, seen, ends, ghosts>>
       ELSE Aborts(e)

NoEvent ==
  /\ at.ui = "pop" /\ Goes("ui", "input")
  /\ UNCHANGED <<state, screen, add, todo, seen, ends, ghosts>>

(* handle_user_input: with a first key pressed it waits for the whole line. *)
KeyHit ==
  /\ at.ui = "input"
  /\ Goes("ui", "typing") \/ Goes("ui", "loop")
  /\ UNCHANGED <<state, screen, add, todo, seen, ends, ghosts>>

(* How many lines a line of the user leaves in the history.  A chat text is
   echoed, and answered with an error when it cannot be sent. *)
Answers(l) ==
  CASE l.kind = "blank" -> {0}
    [] l.kind = "talk" -> {1, 2}
    [] l.kind = "help" -> {HelpLines}
    [] OTHER -> {1}

(* client_ui_handle_input.  What it returns for /quit nobody looks at. *)
Handle(l) ==
  /\ at.ui = "typing"
  /\ IF InputFits(l)
       THEN /\ \E n \in Answers(l) :
                 AddsThen("ui", IF l.kind = "quit" THEN "goodbye" ELSE "line", n)
            /\ IF l.kind = "clear"
                 THEN count' = 0 /\ shown' = <<>> /\ need' = TRUE
                 ELSE UNCHANGED <<count, shown, need>>
            /\ UNCHANGED <<history, live, screen, add, seen, stop, ended, cause, serial>>
       ELSE Aborts(l)

(* An empty line is ignored, and Ctrl+C ends the wait for a line. *)
NoLine ==
  /\ at.ui = "typing"
  /\ Goes("ui", "loop")
  /\ UNCHANGED <<state, screen, add, todo, seen, ends, ghosts>>

-----------------------------------------------------------------------------
(* The signal handler *)

(* Ctrl+C: the first one runs client_signal_handler, and restores the default
   action, with which a second one ends the process. *)
Interrupt ==
  \/ /\ at.handler = "idle" /\ at.ui # "over"
     /\ IF live THEN AddsThen("handler", "shutdown", 1)
                ELSE Goes("handler", "stop") /\ UNCHANGED todo
     /\ UNCHANGED <<state, screen, add, seen, ends, ghosts>>
  \/ /\ at.handler # "idle"
     /\ ended' = "killed"
     /\ UNCHANGED <<state, screen, threads, stop, cause, ghosts>>

Stop ==
  /\ at.handler = "stop"
  /\ stop' = TRUE
  /\ Goes("handler", "done")
  /\ UNCHANGED <<state, screen, add, todo, seen, ended, cause, ghosts>>

-----------------------------------------------------------------------------
OnScreen(t) ==
  \/ Test(t) \/ Store(t) \/ ReadCount(t) \/ WriteCount(t) \/ Shift(t)
  \/ LinesAdded(t) \/ Draw(t) \/ Drawn(t)

UI ==
  \/ OnScreen("ui")
  \/ Initialize \/ Loop \/ NoEvent \/ KeyHit \/ NoLine
  \/ \E e \in Events : DisplayEvent(e)
  \/ \E l \in Inputs : Handle(l)

Handler == OnScreen("handler") \/ Stop

AtWork(t) == at[t] \in Adding \cup {"draw", "drawn"}

Next ==
  /\ ended = "no"
  /\ UI \/ Handler \/ Interrupt
  /\ overlap' = (overlap \/ \A t \in Threads : AtWork(t)')

Spec == Init /\ [][Next]_vars

(* Both threads run on; a key pressed is followed by a line, and Ctrl+C ends
   the wait for one. *)
FairSpec == Spec /\ WF_vars(UI /\ Next) /\ WF_vars(Handler /\ Next)

-----------------------------------------------------------------------------
(* Properties *)

Idle == \A t \in Threads : add[t] = "test"

(* The types of the variables. *)
TypeOK ==
  /\ history \in [1 .. Size -> Lines] /\ count \in 0 .. Size + 2
  /\ need \in BOOLEAN /\ live \in BOOLEAN /\ stop \in BOOLEAN
  /\ screen \in Seq(Lines \cup {-1}) /\ Len(screen) <= Height
  /\ at.ui \in {"start", "welcome", "draw", "drawn", "loop", "pop", "event",
                "input", "typing", "line", "goodbye", "over"}
  /\ at.handler \in {"idle", "shutdown", "draw", "drawn", "stop", "done"}
  /\ add \in [Threads -> {"test", "store", "read", "write", "shift"}]
  /\ todo \in [Threads -> Nat] /\ seen \in [Threads -> 0 .. Size + 1]
  /\ ended \in {"no", "aborted", "overrun", "killed"}
  /\ cause \in Events \cup Inputs \cup {Nothing}
  /\ overlap \in BOOLEAN
  /\ serial \in Lines /\ shown \in Seq(Lines) /\ Len(shown) <= Size

(* The history holds the last Size lines in their order, whatever was shifted
   out and cleared on the way, as long as Ctrl+C does not come while the UI
   thread is at work on it. *)
HistoryRight ==
  ~overlap /\ Idle => SubSeq(history, 1, count) = shown

(* When no drawing is due, the console shows the last lines of the history. *)
ScreenCurrent ==
  ~overlap /\ ~need /\ Idle /\ live => screen = Latest(shown, Height)

(* No line is written or counted behind the end of the history, unless both
   threads add to it at once: between the test and the write the other one
   may have taken the last place. *)
OverrunNeedsBoth == ended = "overrun" \/ count > Size => overlap

(* No text ends the program that is short enough: a chat text of 466
   characters whatever the name before it, a list of 15 names of any length, a
   typed text of 506 characters, an unknown command of 211. *)
ShortTextsFit ==
  cause # Nothing =>
    CASE cause.kind = "chat" -> cause.text > 466
      [] cause.kind = "list" -> cause.text > 15 * 31 + 14
      [] cause.kind = "talk" -> cause.text > 506
      [] cause.kind = "unknown" -> cause.text - 1 > 211
      [] OTHER -> FALSE

(* The handler does not use a state of the screen that was freed under it. *)
HandlerUsesLive ==
  at.handler \in {"shutdown", "draw", "drawn"} => live

(* After Ctrl+C the UI thread leaves its loop, also when it is waiting for a
   line or in the middle of drawing. *)
InterruptEnds ==
  at.handler # "idle" ~> (at.ui = "over" \/ ended # "no")

=============================================================================
