---------------------------- MODULE FocusSession ----------------------------
(***************************************************************************)
(* Which browser has the focus, and what follows from it: the focus menu,  *)
(* the vanilla cursor, the engine's text-input lease, the player's         *)
(* movement mode.                                                          *)
(*                                                                         *)
(* FocusArbiter changes the owner under one mutex and leaves the rest to   *)
(* tasks on the game's main thread: game tasks, UI tasks and, fed by UI    *)
(* tasks, the engine's queue of menu messages.  The CEF thread calls the   *)
(* arbiter too.  A call is a few critical sections; the other thread may   *)
(* run between two of them, and the main thread finishes one call or task  *)
(* before it starts the next.                                              *)
(***************************************************************************)
EXTENDS Naturals, Sequences, SequencesExt

CONSTANTS Browsers,
          NoBrowser,  \* a null m_identity
          MaxCalls    \* bound: calls of the API and messages of the pages

ASSUME FocusAssumption == NoBrowser \notin Browsers /\ MaxCalls \in Nat

Threads == {"main", "cef"}

VARIABLES
  owner,       \* m_owner, m_identity
  alive,       \* browsers whose shared pointer has not expired
  stopped,     \* browsers whose m_shutdownStarted is set
  textActive,  \* browsers whose m_textInputActive is set
  session,     \* m_sessionState
  lease,       \* m_textInputLeaseState
  at,          \* where each thread is in the call or task it runs
  gameTasks,   \* SKSE's AddTask queue
  uiTasks,     \* SKSE's AddUITask queue
  messages,    \* UIMessageQueue, the messages to the focus menu
  pauseGame,   \* g_pauseGameRequested
  menu,        \* the focus menu: closed, open, or open and pausing the game
  cursor,      \* the vanilla cursor movie is visible
  textEntries, \* what AllowTextInput has added to the engine's count
  running,     \* the player runs rather than walks
  calls,       \* calls made
  late         \* a session began before the last one had been wound up

browsers == <<owner, alive, stopped, textActive>>
state    == <<session, lease>>
queues   == <<gameTasks, uiTasks, messages>>
engine   == <<menu, cursor, textEntries, running>>
vars     == <<browsers, state, at, queues, pauseGame, engine, calls, late>>

Idle == [in |-> "idle", b |-> NoBrowser, v |-> FALSE, then |-> "idle"]

\* The movement mode the player has chosen; no session lets him change it.
Chosen == TRUE

HasOwner == owner \in alive
IsOwner(b) == b = owner /\ b \in alive

AtRest == /\ \A t \in Threads : at[t] = Idle
          /\ gameTasks = <<>> /\ uiTasks = <<>> /\ messages = <<>>

Generations == 0..MaxCalls
GameTask == [do : {"text"}, gen : 0..2 * MaxCalls, running : {FALSE}] \cup
            [do : {"restore"}, gen : Generations, running : BOOLEAN]
UITask == [do : {"focus"}, b : Browsers, v : BOOLEAN] \cup
          [do : {"open", "close", "show cursor", "hide cursor"},
           b : {NoBrowser}, v : {FALSE}]

TypeOK ==
  /\ owner \in Browsers \cup {NoBrowser}
  /\ alive \subseteq Browsers /\ stopped \subseteq Browsers
  /\ textActive \subseteq Browsers
  /\ session \in [gen : Generations, active : BOOLEAN, captured : BOOLEAN, pending : BOOLEAN]
  /\ lease \in [gen : 0..2 * MaxCalls, desired : BOOLEAN, applied : BOOLEAN]
  /\ at \in [Threads -> [in : {"idle", "claim", "try", "granted", "lease", "text", "release",
                               "allow", "hide", "menu opened", "menu closed", "take",
                               "restore", "current", "write"},
                         b : Browsers \cup {NoBrowser}, v : BOOLEAN,
                         then : {"idle", "release"}]]
  /\ gameTasks \in Seq(GameTask) /\ uiTasks \in Seq(UITask)
  /\ messages \in Seq({"show", "hide"})
  /\ pauseGame \in BOOLEAN /\ menu \in {"closed", "open", "pausing"}
  /\ cursor \in BOOLEAN /\ textEntries \in Nat
  /\ running \in BOOLEAN /\ calls \in 0..MaxCalls /\ late \in BOOLEAN

\* Every browser has a loaded page.
Init ==
  /\ owner = NoBrowser /\ alive = Browsers /\ stopped = {}
  /\ textActive = {}
  /\ session = [gen |-> 0, active |-> FALSE, captured |-> FALSE, pending |-> FALSE]
  /\ lease = [gen |-> 0, desired |-> FALSE, applied |-> FALSE]
  /\ at = [t \in Threads |-> Idle]
  /\ gameTasks = <<>> /\ uiTasks = <<>> /\ messages = <<>>
  /\ pauseGame = FALSE /\ menu = "closed" /\ cursor = TRUE /\ textEntries = 0
  /\ running = Chosen /\ calls = 0 /\ late = FALSE

-----------------------------------------------------------------------------
(* Calls.                                                                  *)

Free(t) == at[t] = Idle
Call(t) == Free(t) /\ calls < MaxCalls /\ calls' = calls + 1
Goto(t, in, b, v, then) == at' = [at EXCEPT ![t] = [in |-> in, b |-> b, v |-> v, then |-> then]]
Step(t, in) == at' = [at EXCEPT ![t].in = in]

\* The call is over, unless its caller goes on to release the browser.
Return(t) ==
  at' = [at EXCEPT ![t] = IF @.then = "idle" THEN Idle
                          ELSE [@ EXCEPT !.in = "release", !.then = "idle"]]

UITaskOf(do) == [do |-> do, b |-> NoBrowser, v |-> FALSE]

\* SetBrowserFocused of a loaded page, on any thread, and the focus toggle keys.
SetBrowserFocused(b, v) ==
  /\ b \in alive /\ calls < MaxCalls /\ calls' = calls + 1
  /\ uiTasks' = Append(uiTasks, [do |-> "focus", b |-> b, v |-> v])
  /\ UNCHANGED <<browsers, state, at, gameTasks, messages, pauseGame, engine, late>>

\* A listener callback on the CEF thread may call TryFocus, too.
TryViewFocus(t, b, pause) ==
  /\ b \in alive \ stopped /\ Call(t)
  /\ Goto(t, "try", b, pause, "idle")
  /\ UNCHANGED <<browsers, state, queues, pauseGame, engine, late>>

SetText(b, v) == textActive' = IF v THEN textActive \cup {b} ELSE textActive \ {b}

\* The page's text-input listener and, with FALSE, the start of a load.
SetTextInputActive(b, v) ==
  /\ b \in alive /\ Call("cef")
  /\ LET active == v /\ b \notin stopped IN
     /\ (b \in textActive) # active
     /\ SetText(b, active)
     /\ Goto("cef", "text", b, active, "idle")
  /\ UNCHANGED <<owner, alive, stopped, state, queues, pauseGame, engine, late>>

RendererTerminated(b) ==
  /\ b \in alive /\ Call("cef")
  /\ SetText(b, FALSE)
  /\ IF b \in textActive THEN Goto("cef", "text", b, FALSE, "release")
                         ELSE Goto("cef", "release", b, FALSE, "idle")
  /\ UNCHANGED <<owner, alive, stopped, state, queues, pauseGame, engine, late>>

\* BeginShutdown, RequestClose and OnCefBrowserBeforeClose.
BeginShutdown(t, b) ==
  /\ b \in alive \ stopped /\ Call(t)
  /\ stopped' = stopped \cup {b}
  /\ Goto(t, "release", b, FALSE, "idle")
  /\ UNCHANGED <<owner, alive, textActive, state, queues, pauseGame, engine, late>>

\* The last shared pointer goes; the destructor releases the focus again.
Destroy(t, b) ==
  /\ b \in alive \cap stopped /\ Free(t)
  /\ \A u \in Threads : at[u].b # b
  /\ alive' = alive \ {b}
  /\ Goto(t, "release", b, FALSE, "idle")
  /\ UNCHANGED <<owner, stopped, textActive, state, queues, pauseGame, engine, calls, late>>

-----------------------------------------------------------------------------
(* FocusArbiter.  The callbacks of the first claim and of the last release *)
(* run under the owner's mutex.                                            *)

\* Nothing of an earlier session is left to be done.
WoundUp == /\ menu = "closed" /\ uiTasks = <<>> /\ messages = <<>>
           /\ \A i \in 1..Len(gameTasks) : gameTasks[i].do # "restore"
           /\ at["main"].in \notin {"menu closed", "take"}

\* A claimant that finds no live owner begins a session and opens the menu.
OnFirstClaim(pause) ==
  /\ late' = (late \/ ~WoundUp)
  /\ session' = [gen |-> session.gen + 1, active |-> TRUE,
                 captured |-> running, pending |-> FALSE]
  /\ pauseGame' = pause
  /\ uiTasks' = Append(uiTasks, UITaskOf("open"))

Own(b, pause) ==
  /\ owner' = b
  /\ IF HasOwner THEN UNCHANGED <<session, pauseGame, uiTasks, late>> ELSE OnFirstClaim(pause)

Claim(t) ==
  /\ at[t].in = "claim"
  /\ IF IsOwner(at[t].b)
       THEN Return(t) /\ UNCHANGED <<owner, session, pauseGame, uiTasks, late>>
       ELSE Own(at[t].b, FALSE) /\ Step(t, "granted")
  /\ UNCHANGED <<alive, stopped, textActive, lease, gameTasks, messages, engine, calls>>

TryClaim(t) ==
  /\ at[t].in = "try"
  /\ IF HasOwner
       THEN Return(t) /\ UNCHANGED <<owner, session, pauseGame, uiTasks, late>>
       ELSE Own(at[t].b, at[t].v) /\ Step(t, "granted")
  /\ UNCHANGED <<alive, stopped, textActive, lease, gameTasks, messages, engine, calls>>

\* Claim and TryClaim pass IsTextInputActive() on.
Granted(t) ==
  /\ at[t].in = "granted"
  /\ at' = [at EXCEPT ![t].in = "lease", ![t].v = at[t].b \in textActive]
  /\ UNCHANGED <<browsers, state, queues, pauseGame, engine, calls, late>>

\* OnTextInputChanged
TextInputChanged(t) ==
  /\ at[t].in = "text"
  /\ IF IsOwner(at[t].b) THEN Step(t, "lease") ELSE Return(t)
  /\ UNCHANGED <<browsers, state, queues, pauseGame, engine, calls, late>>

\* The two tasks of two threads may be queued in either order; ApplyText tells
\* them apart by their generation, so the one order stands for both.
QueueTextInputDesired(t) ==
  /\ at[t].in = "lease"
  /\ IF lease.desired = at[t].v
       THEN UNCHANGED <<lease, gameTasks>>
       ELSE /\ lease' = [lease EXCEPT !.gen = @ + 1, !.desired = at[t].v]
            /\ gameTasks' = Append(gameTasks, [do |-> "text", gen |-> lease.gen + 1,
                                               running |-> FALSE])
  /\ Return(t)
  /\ UNCHANGED <<browsers, session, uiTasks, messages, pauseGame, engine, calls, late>>

\* The fault restores the movement mode at once, and not when the menu has
\* been torn down.
Restore == [do |-> "restore", gen |-> session.gen, running |-> session.captured]
RestoreOnRelease(t) ==
  /\ gameTasks' = IF session.active THEN Append(gameTasks, Restore) ELSE gameTasks
  /\ session' = [session EXCEPT !.active = FALSE]
End(t) ==
  /\ session' = [session EXCEPT !.active = FALSE, !.pending = session.active \/ @]
  /\ UNCHANGED gameTasks

\* An expired owner is not told and its lease not released.
Release(t) ==
  /\ at[t].in = "release"
  /\ IF owner = at[t].b
       THEN /\ owner' = NoBrowser
            /\ End(t)
            /\ uiTasks' = uiTasks \o <<UITaskOf("show cursor"), UITaskOf("close")>>
            /\ IF HasOwner THEN Goto(t, "lease", at[t].b, FALSE, "idle") ELSE Return(t)
       ELSE Return(t) /\ UNCHANGED <<owner, session, gameTasks, uiTasks>>
  /\ UNCHANGED <<alive, stopped, textActive, lease, messages, pauseGame, engine, calls, late>>

-----------------------------------------------------------------------------
(* The main thread's queues.                                               *)

NextUITask(do) == Free("main") /\ uiTasks # <<>> /\ Head(uiTasks).do = do

\* ApplyBrowserFocused
ApplyBrowserFocused ==
  /\ NextUITask("focus")
  /\ uiTasks' = Tail(uiTasks)
  /\ LET task == Head(uiTasks) IN
     IF task.b \in alive \ stopped
       THEN Goto("main", IF task.v THEN "claim" ELSE "release", task.b, FALSE, "idle")
       ELSE UNCHANGED at
  /\ UNCHANGED <<browsers, state, gameTasks, messages, pauseGame, engine, calls, late>>

Open ==
  /\ NextUITask("open")
  /\ uiTasks' = Tail(uiTasks) /\ messages' = Append(messages, "show")
  /\ UNCHANGED <<browsers, state, at, gameTasks, pauseGame, engine, calls, late>>

\* The fault sends nothing to a menu that is not open yet.
CloseOpenOnly == IF menu = "closed" THEN messages ELSE Append(messages, "hide")
CloseAlways == Append(messages, "hide")

Close ==
  /\ NextUITask("close")
  /\ uiTasks' = Tail(uiTasks) /\ messages' = CloseAlways
  /\ UNCHANGED <<browsers, state, at, gameTasks, pauseGame, engine, calls, late>>

ShowCursor ==
  /\ NextUITask("show cursor")
  /\ uiTasks' = Tail(uiTasks) /\ cursor' = TRUE
  /\ UNCHANGED <<browsers, state, at, gameTasks, messages, pauseGame,
                 menu, textEntries, running, calls, late>>

\* The menu-open task and the AdvanceMovie hook look at the owner, then hide.
StartHideCursor ==
  /\ NextUITask("hide cursor")
  /\ uiTasks' = Tail(uiTasks)
  /\ IF HasOwner THEN Step("main", "hide") ELSE UNCHANGED at
  /\ UNCHANGED <<browsers, state, gameTasks, messages, pauseGame, engine, calls, late>>

AdvanceMovie ==
  /\ Free("main") /\ HasOwner /\ cursor
  /\ Step("main", "hide")
  /\ UNCHANGED <<browsers, state, queues, pauseGame, engine, calls, late>>

HideCursor ==
  /\ at["main"].in = "hide"
  /\ cursor' = FALSE
  /\ Return("main")
  /\ UNCHANGED <<browsers, state, queues, pauseGame, menu, textEntries, running, calls, late>>

\* A menu that is open stays as it is; opening one tells the sink, which looks
\* at the owner before it queues a task.
ShowMenu ==
  /\ Free("main") /\ messages # <<>> /\ Head(messages) = "show"
  /\ messages' = Tail(messages)
  /\ IF menu = "closed"
       THEN /\ menu' = IF pauseGame THEN "pausing" ELSE "open"
            /\ IF HasOwner THEN Step("main", "menu opened") ELSE UNCHANGED at
       ELSE UNCHANGED <<menu, at>>
  /\ UNCHANGED <<browsers, state, gameTasks, uiTasks, pauseGame,
                 cursor, textEntries, running, calls, late>>

FocusMenuOpened ==
  /\ at["main"].in = "menu opened"
  /\ uiTasks' = Append(uiTasks, UITaskOf("hide cursor"))
  /\ Return("main")
  /\ UNCHANGED <<browsers, state, gameTasks, messages, pauseGame, engine, calls, late>>

\* Tearing the menu down may overwrite the movement mode; then the sink is told.
HideMenu ==
  /\ Free("main") /\ messages # <<>> /\ Head(messages) = "hide"
  /\ messages' = Tail(messages)
  /\ IF menu = "closed"
       THEN UNCHANGED <<menu, running, at>>
       ELSE /\ menu' = "closed" /\ running' \in BOOLEAN
            /\ Step("main", "menu closed")
  /\ UNCHANGED <<browsers, state, gameTasks, uiTasks, pauseGame,
                 cursor, textEntries, calls, late>>

\* OnFocusMenuClosed
FocusMenuClosed ==
  /\ at["main"].in = "menu closed"
  /\ IF HasOwner THEN Return("main") ELSE Step("main", "take")
  /\ UNCHANGED <<browsers, state, queues, pauseGame, engine, calls, late>>

TakePendingRestore ==
  /\ at["main"].in = "take"
  /\ IF ~session.active /\ session.pending
       THEN /\ session' = [session EXCEPT !.pending = FALSE]
            /\ gameTasks' = Append(gameTasks, Restore)
       ELSE UNCHANGED <<session, gameTasks>>
  /\ Return("main")
  /\ UNCHANGED <<browsers, lease, uiTasks, messages, pauseGame, engine, calls, late>>

NextGameTask(do) == Free("main") /\ gameTasks # <<>> /\ Head(gameTasks).do = do

\* A restore stays at the head of the queue until it is done.
StartRestore ==
  /\ NextGameTask("restore")
  /\ Step("main", "restore")
  /\ UNCHANGED <<browsers, state, queues, pauseGame, engine, calls, late>>

DropRestore ==
  /\ gameTasks' = Tail(gameTasks)
  /\ Return("main")
  /\ UNCHANGED running

CheckRestore ==
  /\ \/ /\ at["main"].in = "restore"
        /\ IF HasOwner THEN DropRestore ELSE Step("main", "current") /\ UNCHANGED <<gameTasks, running>>
     \/ /\ at["main"].in = "current"
        /\ IF ~session.active /\ session.gen = Head(gameTasks).gen
             THEN Step("main", "write") /\ UNCHANGED <<gameTasks, running>>
             ELSE DropRestore
     \/ /\ at["main"].in = "write"
        /\ running' = Head(gameTasks).running
        /\ gameTasks' = Tail(gameTasks)
        /\ Return("main")
  /\ UNCHANGED <<browsers, state, uiTasks, messages, pauseGame,
                 menu, cursor, textEntries, calls, late>>

\* ApplyIfCurrent
Transition(task) == task.gen = lease.gen /\ lease.applied # lease.desired

ApplyText ==
  /\ NextGameTask("text")
  /\ gameTasks' = Tail(gameTasks)
  /\ \/ /\ ~Transition(Head(gameTasks))
        /\ UNCHANGED <<lease, at>>
     \/ /\ Transition(Head(gameTasks))
        /\ lease' = [lease EXCEPT !.applied = lease.desired]
        /\ Goto("main", "allow", NoBrowser, lease.desired, "idle")
  /\ UNCHANGED <<browsers, session, uiTasks, messages, pauseGame, engine, calls, late>>

\* The engine may refuse every lease; a lease it refused is not remembered,
\* except by the fault.
Remember == lease
RejectAcquire == [lease EXCEPT !.applied = FALSE]

AllowTextInput ==
  /\ at["main"].in = "allow"
  /\ \/ /\ textEntries' = IF at["main"].v THEN textEntries + 1 ELSE textEntries - 1
        /\ UNCHANGED lease
     \/ /\ at["main"].v
        /\ lease' = RejectAcquire
        /\ UNCHANGED textEntries
  /\ Return("main")
  /\ UNCHANGED <<browsers, session, queues, pauseGame, menu, cursor, running, calls, late>>

-----------------------------------------------------------------------------

CallNext ==
  \/ \E t \in Threads, b \in Browsers, v \in BOOLEAN : TryViewFocus(t, b, v)
  \/ \E b \in Browsers, v \in BOOLEAN : SetBrowserFocused(b, v) \/ SetTextInputActive(b, v)
  \/ \E b \in Browsers : RendererTerminated(b)
  \/ \E t \in Threads, b \in Browsers : BeginShutdown(t, b) \/ Destroy(t, b)

ArbiterNext ==
  \E t \in Threads : \/ Claim(t) \/ TryClaim(t) \/ Granted(t) \/ Release(t)
                     \/ TextInputChanged(t) \/ QueueTextInputDesired(t)

MainNext ==
  \/ ApplyBrowserFocused \/ Open \/ Close \/ ShowCursor \/ StartHideCursor
  \/ AdvanceMovie \/ HideCursor \/ ShowMenu \/ HideMenu
  \/ FocusMenuOpened \/ FocusMenuClosed \/ TakePendingRestore \/ StartRestore \/ CheckRestore
  \/ ApplyText \/ AllowTextInput

Next == CallNext \/ ArbiterNext \/ MainNext

Spec == Init /\ [][Next]_vars

-----------------------------------------------------------------------------
(* Properties.                                                             *)

\* However claims, releases and queued messages overtake each other, the menu
\* is open in the end exactly if a browser has the focus, and pauses the game as
\* the session asked for, unless an owner was destroyed (FocusMenu::Open, Close).
\* Nor is the vanilla cursor stranded: without a focus it ends up visible,
\* whichever of hiding and showing was asked for first (FocusMenuOpenSink,
\* OnLastRelease, CursorMenuEx::AdvanceMovie_Hook).
ScreenFollowsOwner ==
  AtRest => /\ menu = "closed" <=> ~HasOwner
            /\ HasOwner /\ alive = Browsers => (menu = "pausing" <=> pauseGame)
            /\ ~HasOwner => cursor

\* Meridian adds at most one to the engine's count of text entries, never takes
\* away what it has not added, and in the end holds nothing it does not want
\* (TextInputLeaseState, QueueTextInputDesired).
LeaseBalanced ==
  /\ textEntries \in {0, 1}
  /\ AtRest /\ ~lease.desired => textEntries = 0

\* Tearing the menu down never costs the player the movement mode, when every
\* session begins after the last one has been wound up (OnFocusMenuClosed).
MovementModeKept == AtRest /\ ~HasOwner /\ ~late => running = Chosen

\* README: the player's movement mode is restored when a focused interface
\* closes.  TLC refutes it: see "Promises the code does not keep" in the README.
MovementModeRestored == AtRest /\ ~HasOwner => running = Chosen

\* View author guide: the lease is for the focused view and is released on
\* blur, navigation, focus loss, hide, destruction or shutdown.  TLC refutes it:
\* see "Promises the code does not keep" in the README.
LeaseHasOwner == AtRest /\ textEntries = 1 => HasOwner /\ owner \in textActive
=============================================================================
