---------------------------- MODULE ControllerInput ----------------------------
(***************************************************************************)
(* Controller input: ControllerInputService routes each batch of gamepad   *)
(* events to the game or to the page of the view that owns the focus, and  *)
(* DefaultBrowser delivers what a page gets through CEF's UI thread.       *)
(*                                                                         *)
(* A call is a program of steps, each a critical section of the service or *)
(* what lies between two (todo).  The input thread routes batches, CEF's   *)
(* UI thread runs page messages, load events and the deliveries, a worker  *)
(* is any consumer thread or the thread that grants and releases focus.    *)
(***************************************************************************)
EXTENDS ControllerLedger, Sequences, FiniteSets, SequencesExt

CONSTANTS
    Views,          \* one browser each
    Starts,         \* who may have the focus and the shortcut at first
    May,            \* [threads -> the calls they may make], "ui" and "worker" among them
    Role,           \* [Controls -> roles]: what a view's bindings make of a control
    Opener,         \* the button of the one shortcut
    DefaultMode,    \* [Views -> {"navigation", "cursor"}]
    Capacity,       \* deferred deliveries of one browser (64 in the code)
    MaxEvents,      \* events of one packet (128 in the code)
    Mixes           \* bound: <<calls, batches>> that a behaviour may have; focus changes, loads
                    \* and devices that come or go count as calls

Roles == {"accept", "toggle", "direction", "stick", "other"}

ASSUME InputAssumption ==
    /\ IsFiniteSet(Controls) /\ IsFiniteSet(Views) /\ NoView \notin Views
    /\ {"ui", "worker"} \subseteq DOMAIN May /\ "input" \notin DOMAIN May
    /\ Starts \subseteq [focus : Views \cup {NoView}, opener : Views \cup {NoView}]
    /\ Role \in [Controls -> Roles] /\ \A c \in Controls : (c \in Sticks) = (Role[c] = "stick")
    /\ DefaultMode \in [Views -> {"navigation", "cursor"}]

VARIABLES
    \* ControllerInputService
    ledger, entries, shortcut, connected, gamepad, openerPending, shutdown, sequence, drawCursor,
    \* views and browsers: known to ViewAPIController, focus, page loaded, document, BeginShutdown run
    valid, focus, foreground, loaded, doc, closing,
    \* per browser: delivery epoch and slots, release task queued, left button down in CEF
    epoch, pending, releaseQueued, mouse,
    tasks,          \* CEF's UI-thread queue
    openers, admitted,  \* shortcut tasks of the game thread, and the one about to call back
    page,           \* what the current document of each view has received
    route, todo,    \* where the input thread is in Route; what each thread has left to do
    phys, game,     \* what the device holds, what the game believes held
    since,          \* history: the generation in which each control was last pressed
    lost,           \* history: views that had a state lost or overtaken by a reset
    work, batches,  \* calls and batches so far
    calm            \* nothing has changed since the last batch began

service == <<ledger, entries, shortcut, connected, gamepad, openerPending, shutdown, sequence, drawCursor>>
browser == <<valid, focus, foreground, loaded, doc, closing>>
delivery == <<epoch, pending, releaseQueued, mouse, tasks>>
opening == <<openers, admitted>>
device == <<phys, game, since>>
inputVars == <<service, browser, delivery, opening, device, page, route, todo, lost, work, batches, calm>>

Callers == DOMAIN May
InputThreads == Callers \cup {"input"}
Absent == [page |-> 0, mode |-> "none", epoch |-> 0, dirty |-> FALSE, enabled |-> FALSE]
NewEntry == [Absent EXCEPT !.mode = "navigation", !.dirty = TRUE]
NoShortcut == [id |-> 0, view |-> NoView]
NoBatch == [stage |-> "idle", epochs |-> [v \in Views |-> 0], eligible |-> NoView, connected |-> FALSE, canOpen |-> FALSE]
NewPage == [generation |-> 0, sequence |-> 0, active |-> FALSE]
Op(name, v) == [op |-> name, view |-> v]

\* The views are configured, their pages loaded and ready, and a batch has told each of
\* them where it stands; the gamepad is connected and neutral.
InputInit ==
    /\ \E start \in Starts :
        /\ focus = start.focus
        /\ shortcut = IF start.opener = NoView THEN NoShortcut ELSE [id |-> 1, view |-> start.opener]
    /\ ledger = SetOwner([NewLedger EXCEPT !.generation = 1], focus)
    /\ sequence = Cardinality(Views)
    /\ entries = [v \in Views |-> [page |-> 1, mode |-> DefaultMode[v], epoch |-> IF v = focus THEN 1 ELSE 0,
                                   dirty |-> FALSE, enabled |-> TRUE]]
    /\ page = [v \in Views |-> [generation |-> ledger.generation, sequence |-> sequence, active |-> v = focus]]
    /\ connected = TRUE /\ gamepad = FALSE /\ openerPending = FALSE /\ shutdown = FALSE /\ drawCursor = TRUE
    /\ valid = [v \in Views |-> TRUE] /\ foreground = TRUE
    /\ loaded = [v \in Views |-> TRUE] /\ doc = [v \in Views |-> 1] /\ closing = [v \in Views |-> FALSE]
    /\ epoch = [v \in Views |-> 1] /\ pending = [v \in Views |-> 0]
    /\ releaseQueued = [v \in Views |-> FALSE] /\ mouse = [v \in Views |-> FALSE] /\ tasks = <<>>
    /\ openers = <<>> /\ admitted = NoView
    /\ route = NoBatch /\ todo = [t \in InputThreads |-> <<>>]
    /\ phys = [c \in Controls |-> 0] /\ game = phys /\ since = phys
    /\ lost = {} /\ work = 0 /\ batches = 0 /\ calm = TRUE

---------------------------------------------------------------------------
\* Calls: each begins by putting down its steps.  A call about a view looks the view up
\* first (GetBrowserForInput) and is nothing if the view is gone already.

Allowed(k, n) == \E m \in Mixes : k <= m[1] /\ n <= m[2]

Begins(t, name, program) ==
    /\ todo[t] = <<>> /\ name \in May[t] /\ Allowed(work + 1, batches)
    /\ todo' = [todo EXCEPT ![t] = program]
    /\ work' = work + 1 /\ calm' = FALSE /\ batches' = batches

Lost(v, navigation) == <<Op("invalidate", v), [Op("cancel", v) EXCEPT !.op = IF navigation THEN "cancelPage" ELSE "cancel"]>>

Configure(t, v, enabled) ==
    /\ valid[v] /\ Begins(t, "configure", <<Op(IF enabled THEN "enable" ELSE "disable", v), Op("reset", v), Op("recheck", v)>>)
    /\ UNCHANGED <<service, browser, delivery, opening, device, page, route, lost>>

RegisterShortcut(t, v) ==
    /\ valid[v] /\ Begins(t, "register", <<Op("register", v), Op("recheck", v)>>)
    /\ UNCHANGED <<service, browser, delivery, opening, device, page, route, lost>>

UnregisterShortcut(t) ==
    /\ shortcut # NoShortcut /\ Begins(t, "unregister", <<>>)
    /\ shortcut' = NoShortcut
    /\ UNCHANGED <<ledger, entries, connected, gamepad, openerPending, shutdown, sequence, drawCursor,
                   browser, delivery, opening, device, page, route, lost>>

\* A message of a document, perhaps one already left behind.
PageRequest(v, request, d) ==
    /\ d \in {doc[v], doc[v] - 1} \ {0}
    /\ valid[v] /\ Begins("ui", "page", <<[op |-> request, view |-> v, page |-> d], Op("recheck", v)>>)
    /\ UNCHANGED <<service, browser, delivery, opening, device, page, route, lost>>

\* ViewAPIController::DestroyView, then the BeginShutdown of its browser.
DestroyView(t, v) ==
    /\ valid[v]
    /\ Begins(t, "destroy", <<Op("remove", v), Op("disown", v)>> \o Lost(v, TRUE) \o <<Op("close", v)>>)
    /\ valid' = [valid EXCEPT ![v] = FALSE]
    /\ UNCHANGED <<service, focus, foreground, loaded, doc, closing, delivery, opening, device, page, route, lost>>

\* FocusArbiter::Claim: the owner changes, then the one before and the new one are told.
ClaimFocus(t, v) ==
    /\ focus # v /\ loaded[v] /\ ~closing[v]
    /\ Begins(t, "claim", (IF focus = NoView THEN <<>> ELSE Lost(focus, FALSE)) \o <<Op("invalidate", v)>>)
    /\ focus' = v
    /\ UNCHANGED <<service, valid, foreground, loaded, doc, closing, delivery, opening, device, page, route, lost>>

ReleaseFocus(t) ==
    /\ focus # NoView
    /\ Begins(t, "release", Lost(focus, FALSE))
    /\ focus' = NoView
    /\ UNCHANGED <<service, valid, foreground, loaded, doc, closing, delivery, opening, device, page, route, lost>>

\* A document is left, for the next one or because its renderer crashed.
MainFrameLoadStart(v, crashed) ==
    /\ ~closing[v]
    /\ Begins("ui", "page", Lost(v, TRUE) \o (IF crashed THEN <<Op("disown", v)>> ELSE <<>>) \o <<Op("unload", v)>>)
    /\ doc' = [doc EXCEPT ![v] = @ + 1]
    /\ page' = [page EXCEPT ![v] = NewPage]
    /\ UNCHANGED <<service, valid, focus, foreground, loaded, closing, delivery, opening, device, route, lost>>

MainFrameLoadEnd(v) ==
    /\ ~loaded[v] /\ todo["ui"] = <<>> /\ ~closing[v]
    /\ loaded' = [loaded EXCEPT ![v] = TRUE] /\ calm' = FALSE
    /\ UNCHANGED <<service, valid, focus, foreground, doc, closing, delivery, opening, device, page, route, todo, lost, work, batches>>

\* The window loses the foreground, or gets it back: messages of one thread.
WindowInactive(t) ==
    /\ foreground
    /\ Begins(t, "window", FlattenSeq(SetToSeq({Lost(v, FALSE) : v \in Views})))
    /\ foreground' = FALSE
    /\ UNCHANGED <<service, valid, focus, loaded, doc, closing, delivery, opening, device, page, route, lost>>

WindowActive(t) ==
    /\ ~foreground /\ todo[t] = <<>> /\ "window" \in May[t]
    /\ foreground' = TRUE /\ calm' = FALSE
    /\ UNCHANGED <<service, valid, focus, loaded, doc, closing, delivery, opening, device, page, route, todo, lost, work, batches>>

Shutdown(t) ==
    /\ ~shutdown /\ Begins(t, "shutdown", <<>>)
    /\ shutdown' = TRUE /\ entries' = [v \in Views |-> Absent] /\ shortcut' = NoShortcut
    /\ ledger' = ResetDevice(SetOwner(ledger, NoView)) /\ drawCursor' = TRUE
    /\ UNCHANGED <<connected, gamepad, openerPending, sequence, browser, delivery, opening, device, page, route, lost>>

---------------------------------------------------------------------------
\* The steps of calls.

Doing(t, name) == todo[t] # <<>> /\ Head(todo[t]).op = name
View(t) == Head(todo[t]).view
Done(t) == todo' = [todo EXCEPT ![t] = Tail(@)]
Instead(t, program) == todo' = [todo EXCEPT ![t] = program \o Tail(@)]
Abandon(t) == todo' = [todo EXCEPT ![t] = <<>>]

Entry(v) == IF entries[v] = Absent THEN NewEntry ELSE entries[v]

\* Under the service's mutex, but the reset of the browser's delivery comes after it.
Reconfigure(t, v, e) ==
    /\ IF shutdown THEN Abandon(t) /\ entries' = entries
       ELSE entries' = [entries EXCEPT ![v] = e] /\ Done(t)

SetConfig(t) ==
    /\ \E enabled \in BOOLEAN :
        /\ Doing(t, IF enabled THEN "enable" ELSE "disable")
        /\ Reconfigure(t, View(t), [Entry(View(t)) EXCEPT !.enabled = enabled, !.mode = DefaultMode[View(t)], !.dirty = TRUE])
    /\ UNCHANGED <<ledger, shortcut, connected, gamepad, openerPending, shutdown, sequence, drawCursor,
                   browser, delivery, opening, device, page, route, lost, work, batches, calm>>

PageReady(t) ==
    /\ Doing(t, "ready")
    /\ IF shutdown THEN Abandon(t) /\ entries' = entries
       ELSE Done(t) /\ entries' = [entries EXCEPT ![View(t)] = [Entry(View(t)) EXCEPT !.page = Head(todo[t]).page, !.dirty = TRUE]]
    /\ UNCHANGED <<ledger, shortcut, connected, gamepad, openerPending, shutdown, sequence, drawCursor,
                   browser, delivery, opening, device, page, route, lost, work, batches, calm>>

PageMode(t) ==
    /\ \E m \in {"navigation", "cursor"} :
        LET v == View(t)  e == Entry(v)
        IN  /\ Doing(t, m)
            /\ \/ shutdown /\ Abandon(t) /\ entries' = entries
               \/ ~shutdown /\ e.page # Head(todo[t]).page /\ Done(t) /\ entries' = [entries EXCEPT ![v] = e]
               \/ ~shutdown /\ e.page = Head(todo[t]).page /\ ~e.enabled /\ Abandon(t) /\ entries' = entries
               \/ ~shutdown /\ e.page = Head(todo[t]).page /\ e.enabled /\ Instead(t, <<Op("reset", v)>>)
                  /\ entries' = [entries EXCEPT ![v] = [e EXCEPT !.mode = m, !.dirty = TRUE]]
    /\ UNCHANGED <<ledger, shortcut, connected, gamepad, openerPending, shutdown, sequence, drawCursor,
                   browser, delivery, opening, device, page, route, lost, work, batches, calm>>

\* A second shortcut on the same button is a conflict.
Register(t) ==
    /\ Doing(t, "register")
    /\ IF shutdown \/ shortcut # NoShortcut THEN Abandon(t) /\ shortcut' = shortcut
       ELSE Done(t) /\ shortcut' = [id |-> work + 1, view |-> View(t)]
    /\ UNCHANGED <<ledger, entries, connected, gamepad, openerPending, shutdown, sequence, drawCursor,
                   browser, delivery, opening, device, page, route, lost, work, batches, calm>>

ForgetView(v) ==
    /\ entries' = [entries EXCEPT ![v] = Absent]
    /\ shortcut' = IF shortcut.view = v THEN NoShortcut ELSE shortcut
    /\ ledger' = IF ledger.owner = v THEN SetOwner(ledger, NoView) ELSE ledger

RemoveView(t) ==
    /\ Doing(t, "remove") /\ ForgetView(View(t)) /\ Done(t)
    /\ UNCHANGED <<connected, gamepad, openerPending, shutdown, sequence, drawCursor,
                   browser, delivery, opening, device, page, route, lost, work, batches, calm>>

StaysAnyway(v) == TRUE      \* the fault "no second look"
Stays(v) == valid[v]

\* The second look: what a call put in for a view destroyed meanwhile is taken out again.
Recheck(t) ==
    /\ Doing(t, "recheck") /\ Done(t)
    /\ IF Stays(View(t)) THEN UNCHANGED <<entries, shortcut, ledger>> ELSE ForgetView(View(t))
    /\ UNCHANGED <<connected, gamepad, openerPending, shutdown, sequence, drawCursor,
                   browser, delivery, opening, device, page, route, lost, work, batches, calm>>

\* BeginShutdown ends with it, and a crash: the browser takes no more, and its focus is
\* released (FocusArbiter::Release).
GoAway(t) ==
    /\ Doing(t, "close") \/ Doing(t, "disown")
    /\ closing' = IF Doing(t, "close") THEN [closing EXCEPT ![View(t)] = TRUE] ELSE closing
    /\ IF focus = View(t) THEN focus' = NoView /\ Instead(t, Lost(View(t), FALSE)) ELSE focus' = focus /\ Done(t)
    /\ UNCHANGED <<service, valid, foreground, loaded, doc, delivery, opening, device, page, route, lost, work, batches, calm>>

Unload(t) ==
    /\ Doing(t, "unload") /\ Done(t) /\ loaded' = [loaded EXCEPT ![View(t)] = FALSE]
    /\ UNCHANGED <<service, valid, focus, foreground, doc, closing, delivery, opening, device, page, route, lost, work, batches, calm>>

---------------------------------------------------------------------------
\* Delivery: DefaultBrowser's deferred work on CEF's UI thread.

\* ReleaseControllerPointer: at most one release task is queued.
QueueRelease(v) ==
    /\ releaseQueued' = [releaseQueued EXCEPT ![v] = TRUE]
    /\ tasks' = IF releaseQueued[v] THEN tasks ELSE Append(tasks, [kind |-> "release", view |-> v])

ReleasesNever(v) == FALSE   \* the fault "the epoch alone"
ReleasesToo(v) == ~closing[v]

\* A reset comes after the mutex: a batch between the two may have sent what the request
\* wants told, under the epoch that ends now.
Overtakes(t) == Doing(t, "reset") /\ (~entries[View(t)].dirty \/ route.stage # "idle")

Invalidate(t) ==
    /\ Doing(t, "invalidate") \/ Doing(t, "reset")
    /\ epoch' = [epoch EXCEPT ![View(t)] = @ + 1]
    /\ IF ReleasesToo(View(t)) THEN QueueRelease(View(t)) ELSE UNCHANGED <<releaseQueued, tasks>>
    /\ lost' = IF Overtakes(t) THEN lost \cup {View(t)} ELSE lost
    /\ Done(t)
    /\ UNCHANGED <<service, browser, pending, mouse, opening, device, page, route, work, batches, calm>>

KeepsAddress(op, v, e) == op    \* the fault "under the epoch just ended"
Readdressed(op, v, e) == IF op.op = "post" /\ op.view = v THEN [op EXCEPT !.epoch = e] ELSE op

\* The owner that a batch finds without control: its delivery is reset, and what it is told
\* goes out under the new epoch.
Supersede ==
    /\ Doing("input", "supersede")
    /\ LET v == View("input")
       IN  /\ epoch' = [epoch EXCEPT ![v] = @ + 1]
           /\ IF ReleasesToo(v) THEN QueueRelease(v) ELSE UNCHANGED <<releaseQueued, tasks>>
           /\ todo' = [todo EXCEPT !["input"] = [i \in 1..(Len(@) - 1) |-> Readdressed(@[i + 1], v, epoch[v] + 1)]]
    /\ UNCHANGED <<service, browser, pending, mouse, opening, device, page, route, lost, work, batches, calm>>

ReleasePointer(t) ==
    /\ Doing(t, "release") /\ QueueRelease(View(t)) /\ Done(t)
    /\ UNCHANGED <<service, browser, epoch, pending, mouse, opening, device, page, route, lost, work, batches, calm>>

HasRoom(v) == pending[v] < Capacity

\* TryEnqueue and the post, or the refusal that invalidates what is queued.
Enqueue(v, task) ==
    \/ /\ HasRoom(v)
       /\ pending' = [pending EXCEPT ![v] = @ + 1] /\ tasks' = Append(tasks, task)
       /\ UNCHANGED <<epoch, releaseQueued, lost>>
    \/ /\ ~HasRoom(v)
       /\ epoch' = [epoch EXCEPT ![v] = @ + 1] /\ QueueRelease(v)
       /\ lost' = lost \cup {v} /\ pending' = pending

Send(v, task) ==
    IF closing[v] THEN UNCHANGED <<epoch, pending, releaseQueued, tasks, lost>> ELSE Enqueue(v, task)

SendControllerPacket(t) ==
    /\ Doing(t, "post") /\ Done(t)
    /\ LET op == Head(todo[t])
       IN  Send(op.view, [kind |-> "packet", view |-> op.view, epoch |-> op.epoch, packet |-> op.packet])
    /\ UNCHANGED <<service, browser, mouse, opening, device, page, route, work, batches, calm>>

ControllerPointer(t) ==
    /\ Doing(t, "pointer") /\ Done(t)
    /\ LET op == Head(todo[t])
       IN  IF epoch[op.view] # op.epoch \/ focus # op.view THEN UNCHANGED <<epoch, pending, releaseQueued, tasks, lost>>
           ELSE Enqueue(op.view, [kind |-> "pointer", view |-> op.view, epoch |-> op.epoch, button |-> op.button])
    /\ UNCHANGED <<service, browser, mouse, opening, device, page, route, work, batches, calm>>

\* CancelBrowser: the view owns nothing any more, its page is told to let everything go.
\* (The message is posted after the mutex; here, with it.)
CancelBrowser(t) ==
    /\ \E navigation \in BOOLEAN :
        LET v == View(t)  e == entries[v]
            led == IF ledger.owner = v THEN SetOwner(ledger, NoView) ELSE ledger
            packet == [page |-> e.page, generation |-> led.generation, sequence |-> sequence + 1,
                       active |-> FALSE, presses |-> {}]
        IN  /\ Doing(t, IF navigation THEN "cancelPage" ELSE "cancel")
            /\ IF e = Absent THEN UNCHANGED <<ledger, entries>>
               ELSE /\ ledger' = led
                    /\ entries' = [entries EXCEPT ![v] = [e EXCEPT !.dirty = TRUE, !.epoch = 0, !.page = IF navigation THEN 0 ELSE @]]
            /\ IF e.page = 0 THEN UNCHANGED <<sequence, epoch, pending, releaseQueued, tasks, lost>>
               ELSE sequence' = sequence + 1 /\ Send(v, [kind |-> "packet", view |-> v, epoch |-> epoch[v], packet |-> packet])
    /\ Done(t) /\ drawCursor' = TRUE
    /\ UNCHANGED <<shortcut, connected, gamepad, openerPending, shutdown,
                   browser, mouse, opening, device, page, route, work, batches, calm>>

\* meridian-input.js receive: stale and foreign packets are dropped.
Receives(p, v, packet) ==
    packet.page = doc[v] /\ packet.generation >= p.generation /\ packet.sequence > p.sequence

Current(task) == ~closing[task.view] /\ epoch[task.view] = task.epoch

RunTask ==
    /\ tasks # <<>> /\ todo["ui"] = <<>>
    /\ LET task == Head(tasks)  v == task.view
       IN  \/ /\ task.kind = "release"
              /\ releaseQueued' = [releaseQueued EXCEPT ![v] = FALSE] /\ mouse' = [mouse EXCEPT ![v] = FALSE]
              /\ UNCHANGED <<pending, page>>
           \/ /\ task.kind = "pointer"
              /\ pending' = [pending EXCEPT ![v] = @ - 1]
              /\ mouse' = IF Current(task) /\ task.button # "move" THEN [mouse EXCEPT ![v] = task.button = "down"] ELSE mouse
              /\ UNCHANGED <<releaseQueued, page>>
           \/ /\ task.kind = "packet"
              /\ pending' = [pending EXCEPT ![v] = @ - 1]
              /\ page' = IF Current(task) /\ Receives(page[v], v, task.packet)
                         THEN [page EXCEPT ![v] = [generation |-> task.packet.generation, sequence |-> task.packet.sequence,
                                                   active |-> task.packet.active]]
                         ELSE page
              /\ UNCHANGED <<releaseQueued, mouse>>
    /\ tasks' = Tail(tasks)
    /\ UNCHANGED <<service, browser, epoch, opening, device, route, todo, lost, work, batches, calm>>

---------------------------------------------------------------------------
\* Shortcuts: a task on the game thread looks the registration up, then calls back.

FireShortcut(t) ==
    /\ Doing(t, "fire") /\ Done(t) /\ openers' = Append(openers, Head(todo[t]).id)
    /\ UNCHANGED <<service, browser, delivery, admitted, device, page, route, lost, work, batches, calm>>

AdmitOpener ==
    /\ openers # <<>> /\ admitted = NoView
    /\ openerPending' = FALSE /\ openers' = Tail(openers)
    /\ admitted' = IF ~shutdown /\ connected /\ shortcut # NoShortcut /\ shortcut.id = Head(openers) THEN shortcut.view ELSE NoView
    /\ UNCHANGED <<ledger, entries, shortcut, connected, gamepad, shutdown, sequence, drawCursor,
                   browser, delivery, device, page, route, todo, lost, work, batches, calm>>

\* The consumer's function may open its view if nothing has come between.
CallOpener ==
    /\ admitted # NoView /\ admitted' = NoView
    /\ \/ UNCHANGED <<focus, todo, calm>>
       \/ /\ foreground /\ focus = NoView /\ valid[admitted] /\ loaded[admitted] /\ ~closing[admitted] /\ todo["worker"] = <<>>
          /\ focus' = admitted /\ todo' = [todo EXCEPT !["worker"] = <<Op("invalidate", admitted)>>] /\ calm' = FALSE
    /\ UNCHANGED <<service, valid, foreground, loaded, doc, closing, delivery, openers, device, page, route, lost, work, batches>>

---------------------------------------------------------------------------
\* Route: one batch of events on the input thread.

Candidates == {v \in Views : entries[v] # Absent}

\* The first section: who may be asked, and under which delivery epoch.
Snapshot ==
    /\ route.stage = "idle" /\ todo["input"] = <<>> /\ ~shutdown /\ Allowed(work, batches + 1)
    /\ route' = [NoBatch EXCEPT !.stage = "look", !.epochs = [v \in Views |-> IF v \in Candidates THEN epoch[v] ELSE 0]]
    /\ batches' = batches + 1
    /\ calm' = (\A t \in Callers : todo[t] = <<>>)
    /\ UNCHANGED <<service, browser, delivery, opening, device, page, todo, lost, work>>

\* Without the mutex: the window, the focus, the pages, the device.
Look ==
    /\ route.stage = "look"
    /\ \E c \in BOOLEAN :
        /\ c # connected => Allowed(work + 1, batches)
        /\ work' = IF c # connected THEN work + 1 ELSE work
        /\ route' = [route EXCEPT !.stage = "decide", !.connected = c, !.canOpen = foreground /\ focus = NoView,
                        !.eligible = IF foreground /\ focus # NoView /\ route.epochs[focus] # 0 /\ loaded[focus] THEN focus ELSE NoView]
    /\ UNCHANGED <<service, browser, delivery, opening, device, page, todo, lost, batches, calm>>

\* What is decided while the events of a batch are gone through, for the view "who".
Emit(b, c, phase, who, edge) ==
    IF who = NoView \/ phase = "none" THEN b
    ELSE [b EXCEPT !.events = Append(@, [control |-> c, phase |-> phase, since |-> edge[c]])]

LeaveCursor(b, mode) == [b EXCEPT !.mode = mode, !.dirty = TRUE, !.release = TRUE, !.clicks = <<>>]
Other(mode) == IF mode = "navigation" THEN "cursor" ELSE "navigation"
AcceptControls == {c \in Controls : Role[c] = "accept"}

\* What the bindings of the owner make of a transition.
Act(b, c, phase, who, edge) ==
    CASE Role[c] = "direction" ->
            LET d == IF phase = "press" /\ b.mode = "cursor" THEN LeaveCursor(b, "navigation") ELSE b
            IN  IF phase = "release" THEN Emit(d, c, phase, who, edge) ELSE d
      [] Role[c] = "toggle" /\ phase = "press" ->
            [LeaveCursor(b, Other(b.mode)) EXCEPT !.led = Capture(@, AcceptControls)]
      [] Role[c] = "accept" /\ b.mode = "cursor" ->
            [b EXCEPT !.clicks = Append(@, IF phase = "press" THEN "down" ELSE "up")]
      [] OTHER -> Emit(b, c, phase, who, edge)

OnButton(b, c, v, who, edge) ==
    LET fires == /\ v = 1 /\ ~Held(b.led, c) /\ Armed(b.led, c) /\ route.connected /\ route.canOpen
                 /\ shortcut # NoShortcut /\ c = Opener /\ ~openerPending /\ ~b.fires
        seen == Button(b.led, c, v, fires)
        wakes == seen.phase = "press" /\ ~b.pad
        d == [b EXCEPT !.led = seen.ledger, !.fires = @ \/ fires, !.pad = @ \/ wakes, !.dirty = @ \/ wakes,
                       !.consumed = IF seen.consume THEN @ \cup {c} ELSE @]
    IN  IF who = NoView \/ seen.phase = "none" THEN d ELSE Act(d, c, seen.phase, who, edge)

OnStick(b, c, v) ==
    LET seen == Stick(b.led, c, v)
        wakes == seen.phase # "none" /\ v = 1 /\ ~b.pad
    IN  [b EXCEPT !.led = seen.ledger, !.axes = @ \/ seen.phase # "none", !.pad = @ \/ wakes, !.dirty = @ \/ wakes,
                  !.consumed = IF seen.consume THEN @ \cup {c} ELSE @]

\* Real mouse or keyboard activity takes the pointer back.
OnOtherDevice(b) ==
    IF b.pad THEN [b EXCEPT !.pad = FALSE, !.dirty = TRUE, !.release = TRUE, !.clicks = <<>>] ELSE b

StickHeld(b) == \E s \in Sticks : Held(b.led, s) /\ Armed(b.led, s)
Directions == {c \in Controls : Role[c] = "direction"}
LeftStick == IF Sticks = {} THEN None ELSE CHOOSE s \in Sticks : TRUE

\* After the events: the repeat clock, the axes, and the cursor that a stick moves.
Clock(b, who, due, edge) ==
    LET r == Repeat(b.led, Directions, IF b.mode = "navigation" THEN LeftStick ELSE None, due)
        d == [b EXCEPT !.led = r.ledger]
        e == IF r.control = None THEN d ELSE Emit(d, r.control, r.phase, who, edge)
        f == IF Sticks # {} /\ (b.axes \/ StickHeld(b)) THEN Emit(e, LeftStick, "change", who, edge) ELSE e
    IN  IF who = NoView THEN b ELSE [f EXCEPT !.moves = b.mode = "cursor" /\ b.pad /\ StickHeld(b)]

\* Too many events for a packet: none, and everything must be let go first.
Overflow(b, now) ==
    IF Len(b.events) <= MaxEvents THEN b
    ELSE [b EXCEPT !.events = <<>>, !.clicks = <<>>, !.moves = FALSE, !.release = TRUE, !.reset = TRUE,
                   !.led = SeedAll(RequireNeutral(@), now)]

\* The ledger as the batch finds it: a device that came or went, a new delivery epoch.
Connected(now) ==
    IF route.connected = connected THEN ledger
    ELSE IF route.connected THEN SeedAll(ResetDevice(ledger), now) ELSE ResetDevice(ledger)

Renewed(led, who, now) ==
    IF who = NoView \/ entries[who].epoch = route.epochs[who] THEN led
    ELSE IF led.owner = who THEN SeedAll(SetOwner(led, NoView), now) ELSE SetOwner(led, NoView)

Owner ==
    LET v == route.eligible
    IN  IF v # NoView /\ route.connected /\ entries[v] # Absent /\ entries[v].enabled /\ entries[v].page # 0 THEN v ELSE NoView

\* The events of a batch: every control that is held, or was until now.
Batch(now) == SetToSeq({c \in Controls : route.connected /\ (now[c] = 1 \/ phys[c] = 1)})

OnEvent(b, c, now, who, edge) ==
    IF c \in Sticks THEN OnStick(b, c, now[c]) ELSE OnButton(b, c, now[c], who, edge)

\* The events of a batch, one after the other.
AfterEvents(start, events, now, who, edge) ==
    LET after[i \in 0..Len(events)] ==
            IF i = 0 THEN start ELSE OnEvent(after[i - 1], events[i], now, who, edge)
    IN  after[Len(events)]

Routed(now, mouseMoved, due, edge) ==
    LET who == Owner
        led == SetOwner(Renewed(Connected(now), who, now), who)
        start == [led |-> led, events |-> <<>>, clicks |-> <<>>, release |-> FALSE, moves |-> FALSE, fires |-> FALSE,
                  mode |-> IF who = NoView THEN "none" ELSE entries[who].mode, dirty |-> FALSE, pad |-> gamepad,
                  axes |-> FALSE, consumed |-> {}, reset |-> led.owner # Renewed(Connected(now), who, now).owner]
        gone == AfterEvents(start, Batch(now), now, who, edge)
    IN  Overflow(Clock(IF mouseMoved THEN OnOtherDevice(gone) ELSE gone, who, due, edge), now)

\* Who is told: whoever changed, everyone at a reset, the owner whenever there are events.
Told(b) ==
    {v \in Views : /\ route.epochs[v] # 0 /\ entries[v] # Absent /\ entries[v].page # 0
                   /\ \/ entries[v].dirty \/ route.connected # connected \/ b.reset
                      \/ v = Owner /\ (b.dirty \/ b.events # <<>> \/ entries[v].epoch # route.epochs[v])}

Packet(v, n, b) ==
    [page |-> entries[v].page, generation |-> b.led.generation, sequence |-> n, active |-> v = Owner,
     presses |-> IF v = Owner THEN {[control |-> e.control, since |-> e.since] :
                                    e \in {f \in Range(b.events) : f.phase = "press"}} ELSE {}]

Clicks(v, b) ==
    (IF b.release THEN <<Op("release", v)>> ELSE <<>>)
    \o (IF b.moves THEN <<[op |-> "pointer", view |-> v, epoch |-> route.epochs[v], button |-> "move"]>> ELSE <<>>)
    \o [i \in 1..Len(b.clicks) |-> [op |-> "pointer", view |-> v, epoch |-> route.epochs[v], button |-> b.clicks[i]]]

\* After the mutex: the view that lost control is reset, then pointer, packets, shortcut.
Afterwards(b) ==
    LET told == SetToSeq(Told(b))
        loser == ledger.owner
    IN  (IF loser # NoView /\ loser # Owner /\ route.epochs[loser] # 0 THEN <<Op("supersede", loser)>> ELSE <<>>)
        \o (IF Owner = NoView THEN <<>> ELSE Clicks(Owner, b))
        \o [i \in 1..Len(told) |-> [op |-> "post", view |-> told[i], epoch |-> route.epochs[told[i]],
                                     packet |-> Packet(told[i], sequence + i, b)]]
        \o (IF b.fires THEN <<[op |-> "fire", view |-> NoView, id |-> shortcut.id]>> ELSE <<>>)

\* What the device holds now: one control changes at a time; a device that is gone holds nothing.
Inputs ==
    IF ~route.connected THEN {[c \in Controls |-> 0]}
    ELSE {phys} \cup {[phys EXCEPT ![c] = 1 - @] : c \in Controls}

\* The second section.
Decide ==
    /\ route.stage = "decide" /\ ~shutdown
    /\ \E now \in Inputs, mouseMoved \in {FALSE, gamepad}, due \in {FALSE, ledger.repeat # None} :
        LET generation == SetOwner(Renewed(Connected(now), Owner, now), Owner).generation
            edge == [c \in Controls |-> IF now[c] = 0 THEN 0 ELSE IF phys[c] = 0 THEN generation ELSE since[c]]
            b == Routed(now, mouseMoved, due, edge)
        IN  /\ ledger' = b.led /\ gamepad' = b.pad /\ connected' = route.connected
            /\ openerPending' = (openerPending \/ b.fires)
            /\ sequence' = sequence + Cardinality(Told(b))
            /\ drawCursor' = ~(Owner # NoView /\ b.pad /\ b.mode = "navigation")
            /\ entries' = [v \in Views |->
                   IF v = Owner THEN [entries[v] EXCEPT !.mode = b.mode, !.epoch = route.epochs[v], !.dirty = FALSE]
                   ELSE IF v \in Told(b) THEN [entries[v] EXCEPT !.dirty = FALSE] ELSE entries[v]]
            /\ todo' = [todo EXCEPT !["input"] = Afterwards(b)]
            /\ phys' = now /\ since' = edge
            /\ game' = [c \in Controls |-> IF ~route.connected THEN 0 ELSE IF c \in b.consumed THEN game[c] ELSE now[c]]
    /\ route' = NoBatch
    /\ UNCHANGED <<shortcut, shutdown, browser, delivery, opening, page, lost, work, batches, calm>>

\* After the service's shutdown every event is the game's.
RoutesNothing ==
    /\ shutdown /\ todo["input"] = <<>> /\ (Allowed(work, batches + 1) \/ route.stage # "idle")
    /\ \E c \in Controls : phys' = IF connected THEN [phys EXCEPT ![c] = 1 - @] ELSE phys
    /\ game' = phys' /\ route' = NoBatch /\ batches' = IF route.stage = "idle" THEN batches + 1 ELSE batches
    /\ UNCHANGED <<service, browser, delivery, opening, since, page, todo, lost, work, calm>>

---------------------------------------------------------------------------
Calls(t) ==
    \/ \E v \in Views :
        \/ \E enabled \in BOOLEAN : Configure(t, v, enabled)
        \/ RegisterShortcut(t, v)
        \/ DestroyView(t, v)
        \/ ClaimFocus(t, v)
    \/ UnregisterShortcut(t) \/ ReleaseFocus(t) \/ WindowInactive(t) \/ WindowActive(t) \/ Shutdown(t)

PageCalls ==
    \E v \in Views :
        \/ \E request \in {"ready", "navigation", "cursor"}, d \in {doc[v], doc[v] - 1} : PageRequest(v, request, d)
        \/ \E crashed \in BOOLEAN : MainFrameLoadStart(v, crashed)
        \/ MainFrameLoadEnd(v)

CallStep(t) ==
    \/ SetConfig(t) \/ PageReady(t) \/ PageMode(t) \/ Register(t) \/ RemoveView(t) \/ Recheck(t)
    \/ CancelBrowser(t) \/ GoAway(t) \/ Unload(t)
    \/ Invalidate(t) \/ ReleasePointer(t) \/ SendControllerPacket(t) \/ ControllerPointer(t) \/ FireShortcut(t)

InputNext ==
    \/ \E t \in Callers : Calls(t)
    \/ PageCalls
    \/ \E t \in InputThreads : CallStep(t)
    \/ Supersede \/ RunTask \/ AdmitOpener \/ CallOpener
    \/ Snapshot \/ Look \/ Decide \/ RoutesNothing

InputSpec == InputInit /\ [][InputNext]_inputVars

---------------------------------------------------------------------------
\* Nothing is on its way, and a batch has been routed since anything last changed.
Settled == calm /\ route.stage = "idle" /\ tasks = <<>> /\ \A t \in InputThreads : todo[t] = <<>>

\* The records of service, browser and delivery keep their types; in particular the
\* slots of a browser stay between none and Capacity.
InputTypeOK ==
    /\ ledger \in Ledger(Views) /\ shortcut.view \in Views \cup {NoView}
    /\ \A v \in Views : entries[v].mode \in {"none", "navigation", "cursor"} /\ entries[v].page \in 0..doc[v]
    /\ <<connected, gamepad, openerPending, shutdown, drawCursor, foreground>> \in [1..6 -> BOOLEAN]
    /\ valid \in [Views -> BOOLEAN] /\ loaded \in [Views -> BOOLEAN] /\ closing \in [Views -> BOOLEAN]
    /\ focus \in Views \cup {NoView} /\ admitted \in Views \cup {NoView}
    /\ pending \in [Views -> 0..Capacity] /\ mouse \in [Views -> BOOLEAN] /\ releaseQueued \in [Views -> BOOLEAN]
    /\ phys \in [Controls -> {0, 1}] /\ game \in [Controls -> {0, 1}]

\* The game is never left believing a control held that has been let go: it gets the
\* release of every press it got, whoever takes and loses the focus in between.
GamePaired == \A c \in Controls : game[c] = 1 => phys[c] = 1

\* "The opening press cannot activate the first selected UI item": a page is shown the
\* press of a control only if it went down while that page already had control.
PressIsFresh ==
    \A i \in 1..Len(tasks) :
        tasks[i].kind = "packet" =>
            \A e \in tasks[i].packet.presses : e.since = tasks[i].packet.generation

\* Once settled, a page believes itself in control exactly if its view is, whatever
\* deliveries were invalidated on the way (a full queue excepted).
PageFollowsOwner ==
    Settled => \A v \in Views \ lost :
        entries[v].page = doc[v] /\ ~closing[v] => (page[v].active <=> ledger.owner = v)

\* Once settled, no browser is left with the mouse button down that the controller
\* pressed unless its view has control and the control is held, a full queue or not.
\* TLC refutes it: see "Promises the code does not keep" in the README.
PointerReleased ==
    Settled => \A v \in Views : mouse[v] =>
        \/ closing[v]
        \/ ledger.owner = v /\ \E c \in AcceptControls : phys[c] = 1

\* Once every call has ended, nothing of a destroyed view is left: no entry, no shortcut,
\* no ownership, although calls look the view up before they take the mutex.
NothingOfDeadViews ==
    (\A t \in InputThreads : todo[t] = <<>>) /\ route.stage = "idle" =>
        \A v \in Views : ~valid[v] => entries[v] = Absent /\ shortcut.view # v /\ ledger.owner # v
===============================================================================
