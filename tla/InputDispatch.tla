---------------------------- MODULE InputDispatch ----------------------------
(***************************************************************************)
(* Keyboard and mouse: which events a browser takes and which the game is  *)
(* left with.                                                              *)
(*                                                                         *)
(* The dispatch hook routes a batch before anyone else sees it: a toggle   *)
(* key is taken and queues a request for the focus, the browser with the   *)
(* focus takes the rest, and what nobody took is forwarded to the game.    *)
(* The release of a key the game saw pressed before a session goes to the  *)
(* game as well.  A browser that loses the focus tells Chromium that its   *)
(* keys went up.                                                           *)
(*                                                                         *)
(* The main thread polls the devices, dispatches and runs what is queued,  *)
(* one after another; the CEF thread takes, gives up and ends the focus at *)
(* any time between two of its steps.  FocusSession has what else a change *)
(* of owner does.                                                          *)
(***************************************************************************)
EXTENDS Naturals, Sequences, SequencesExt, FiniteSets

CONSTANTS Layers,    \* the browsers, the topmost first
          NoBrowser,
          Keys,
          NoKey,     \* the scan code 0
          Toggle,    \* the focus key of each browser, or NoKey
          MaxBatch,  \* bound: events of a batch
          MaxEvents, \* bound: events of all batches
          MaxCalls   \* bound: what happens to the focus besides the toggle keys

Browsers == {Layers[i] : i \in 1..Len(Layers)}
Button == "left button"
Mouse == "mouse"

ASSUME InputAssumption ==
  /\ Layers \in Seq(Browsers) /\ Layers # <<>>
  /\ NoBrowser \notin Browsers /\ NoKey \notin Keys
  /\ Button \notin Keys /\ Mouse \notin Keys
  /\ Toggle \in [Browsers -> Keys \cup {NoKey}]
  /\ MaxBatch \in Nat /\ MaxEvents \in Nat /\ MaxCalls \in Nat

VARIABLES
  cur,      \* curState: the keys, and the button, that are physically down
  batch,    \* the events of the last poll
  taken,    \* the indices of those a browser consumed
  at,       \* where the main thread is
  cef,      \* where the CEF thread is
  tasks,    \* UI tasks: requests for the focus
  owner,    \* the focus owner
  opening,  \* m_openingKeys of the active session
  hosts,    \* browsers whose client has a CEF browser
  stopped,  \* m_shutdownStarted
  off,      \* the router's m_isShuttingDown
  pressed,  \* m_pressedKeyState of each browser
  last,     \* m_lastScanCode of each browser
  held,     \* what Chromium has been told is down
  inside,   \* m_lastMouseInside
  hover,    \* Chromium has been told that the mouse is inside the page
  game,     \* what the game has been told is down
  events, calls,
  raced,    \* the CEF thread changed the owner during a dispatch, or had not yet
            \* taken it from a browser that shuts down
  strays    \* what Chromium was told of a browser's keys and mouse that no loss of the
            \* focus is sure to undo: see ConvertKey and NoteMouse

ledgers == <<pressed, last, held, inside, hover>>
focus   == <<owner, opening>>
ends    == <<hosts, stopped, off>>
vars == <<cur, batch, taken, at, cef, tasks, focus, ends, ledgers, game, events, calls, raced, strays>>

Idle == [in |-> "idle", i |-> 0, l |-> 0, b |-> NoBrowser, handled |-> FALSE]
AtRest == at = Idle /\ cef = Idle

Event == [key : Keys \cup {Button, Mouse}, act : {"down", "up", "held", "move"}, over : BOOLEAN]
\* The steps of OnFocusRevoked.
Revoking == {"revoke", "leave", "reset"}

Place == [in : {"idle", "toggle", "layer", "send", "note", "opening", "forward", "stop",
                "release", "clear"} \cup Revoking,
          i : 0..MaxBatch, l : 0..Len(Layers), b : Browsers \cup {NoBrowser}, handled : BOOLEAN]

TypeOK ==
  /\ cur \subseteq Keys \cup {Button} /\ game \subseteq Keys \cup {Button}
  /\ batch \in Seq(Event) /\ Len(batch) <= MaxBatch /\ taken \subseteq 1..Len(batch)
  /\ at \in Place /\ cef \in Place
  /\ tasks \in Seq([b : Browsers, v : BOOLEAN])
  /\ owner \in Browsers \cup {NoBrowser} /\ opening \subseteq Keys
  /\ hosts \subseteq Browsers /\ stopped \subseteq Browsers /\ off \in BOOLEAN
  /\ pressed \in [Browsers -> SUBSET Keys] /\ last \in [Browsers -> Keys \cup {NoKey}]
  /\ held \in [Browsers -> SUBSET (Keys \cup {Button})]
  /\ inside \subseteq Browsers /\ hover \subseteq Browsers
  /\ events \in 0..MaxEvents /\ calls \in 0..MaxCalls
  /\ raced \in BOOLEAN /\ strays \in [Browsers -> SUBSET (Keys \cup {Mouse})]

Init ==
  /\ cur = {} /\ game = {} /\ batch = <<>> /\ taken = {}
  /\ at = Idle /\ cef = Idle /\ tasks = <<>>
  /\ owner = NoBrowser /\ opening = {}
  /\ hosts = Browsers /\ stopped = {} /\ off = FALSE
  /\ pressed = [b \in Browsers |-> {}] /\ last = [b \in Browsers |-> NoKey]
  /\ held = [b \in Browsers |-> {}] /\ inside = {} /\ hover = {}
  /\ events = 0 /\ calls = 0 /\ raced = FALSE
  /\ strays = [b \in Browsers |-> {}]

-----------------------------------------------------------------------------
(* The focus: FocusArbiter's Claim and Release, each under its mutex.  The *)
(* first claim captures the keys that are held, the last release ends the  *)
(* session.                                                                *)

TakeFocus(b) ==
  /\ owner' = b
  /\ opening' = IF owner = NoBrowser THEN cur \cap Keys ELSE opening

GiveUpFocus == owner' = NoBrowser /\ opening' = {}

\* ReleasePressedKeys: a key-up for each key of the ledger.  SendKeyEventIfAlive
\* drops it once the browser's shutdown has started.
ReleasePressedKeys(S) ==
  /\ held' = [b \in Browsers |-> IF b \in S \ stopped THEN held[b] \ pressed[b] ELSE held[b]]
  /\ pressed' = [b \in Browsers |-> IF b \in S THEN {} ELSE pressed[b]]
  /\ last' = [b \in Browsers |-> IF b \in S THEN NoKey ELSE last[b]]
  /\ strays' = [b \in Browsers |-> IF b \in S THEN strays[b] \ pressed[b] ELSE strays[b]]

\* KeyInputConverter::Clear
ClearKeys(b) ==
  /\ pressed' = [pressed EXCEPT ![b] = {}] /\ last' = [last EXCEPT ![b] = NoKey]
  /\ UNCHANGED <<held, strays>>

KeysRevoked(b) == IF b \in hosts THEN ReleasePressedKeys({b}) ELSE ClearKeys(b)

\* Chromium is told that the mouse has left if the flag says that it is inside.
LeavePage(b) ==
  /\ hover' = hover \ (inside \cap {b})
  /\ strays' = IF b \in inside THEN [strays EXCEPT ![b] = @ \ {Mouse}] ELSE strays

\* A step of OnFocusRevoked, which runs after the mutex of the owner was left and
\* under no other: the keys, the mouse, and last the flag of the mouse.
FocusRevoked(q) ==
  \/ q.in = "revoke" /\ KeysRevoked(q.b) /\ UNCHANGED <<inside, hover>>
  \/ q.in = "leave" /\ LeavePage(q.b) /\ UNCHANGED <<pressed, last, held, inside>>
  \/ q.in = "reset" /\ inside' = inside \ {q.b} /\ UNCHANGED <<pressed, last, held, hover, strays>>

\* Without a host there is nobody to tell of the mouse.
StillRevoking(q) ==
  [q EXCEPT !.in = IF q.in = "revoke" /\ q.b \in hosts THEN "leave" ELSE "reset"]

-----------------------------------------------------------------------------
(* The batch: the state of the keyboard is that of its end.                *)

NextOf(k) == IF k \in cur THEN {"up", "held"} ELSE {"down"}

Events == {e \in Event : \/ e.key \in Keys /\ e.act \in NextOf(e.key) /\ ~e.over
                         \/ e.key = Button /\ e.act \in NextOf(Button)
                         \/ e.key = Mouse /\ e.act = "move"}

\* A batch has at most one event of each key.
Batches == {s \in UNION {[1..n -> Events] : n \in 1..MaxBatch} :
              \A i, j \in DOMAIN s : i # j => s[i].key # s[j].key}

Keyed(s, act) == {s[i].key : i \in {j \in DOMAIN s : s[j].act = act}}

\* The outermost detour; RouteBatch takes nothing once the platform shuts down.
Poll ==
  /\ at = Idle
  /\ \E s \in Batches :
       /\ events' = events + Len(s) /\ events' <= MaxEvents
       /\ batch' = s
       /\ cur' = (cur \ Keyed(s, "up")) \cup Keyed(s, "down")
  /\ taken' = {}
  /\ at' = IF off THEN [Idle EXCEPT !.in = "forward"] ELSE [Idle EXCEPT !.in = "toggle", !.i = 1]
  /\ UNCHANGED <<cef, tasks, focus, ends, ledgers, game, calls, raced, strays>>

Ev == batch[at.i]
IsKey == Ev.key \in Keys

\* On to the next event, with this one taken or not.
NextEvent(t) ==
  /\ taken' = IF t THEN taken \cup {at.i} ELSE taken
  /\ at' = IF at.i = Len(batch) THEN [Idle EXCEPT !.in = "forward"]
                                ELSE [Idle EXCEPT !.in = "toggle", !.i = at.i + 1]

\* A toggle fires at any key-down while its chord is held.
Toggled == {i \in 1..Len(Layers) : /\ Layers[i] \notin stopped
                                   /\ Toggle[Layers[i]] \in cur}

ToggleRequests ==
  SelectSeq([i \in 1..Len(Layers) |-> [b |-> Layers[i], v |-> owner # Layers[i]]],
            LAMBDA r : r.b \in {Layers[i] : i \in Toggled})

ProcessToggleKeys ==
  /\ at.in = "toggle"
  /\ IF IsKey /\ Ev.act = "down" /\ Toggled # {}
       THEN tasks' = tasks \o ToggleRequests /\ NextEvent(TRUE)
       ELSE at' = [at EXCEPT !.in = "layer", !.l = 1] /\ UNCHANGED <<tasks, taken>>
  /\ UNCHANGED <<cur, batch, cef, focus, ends, ledgers, game, events, calls, raced, strays>>

\* The layer has not taken the event: the next one, or nobody has.
NextLayer == at' = IF at.l < Len(Layers) THEN [at EXCEPT !.in = "layer", !.l = at.l + 1]
                                         ELSE [at EXCEPT !.in = "opening"]

\* The owner takes what is its to take: of the mouse's buttons a press or a release
\* over the page, and without a word to Chromium that one is held.
Offered(b) ==
  IF Ev.key = Button /\ Ev.act = "held" THEN at' = [at EXCEPT !.in = "opening", !.handled = TRUE]
  ELSE IF Ev.key = Button /\ ~Ev.over THEN NextLayer
  ELSE at' = [at EXCEPT !.in = "send", !.b = b]

\* ProcessButton and ProcessMouseMove up to the event's conversion.
Layer ==
  /\ at.in = "layer"
  /\ LET b == Layers[at.l] IN
     \/ /\ b \in stopped \/ owner # b
        /\ NextLayer /\ raced' = (raced \/ owner = b) /\ UNCHANGED focus
     \/ /\ b \notin stopped /\ owner = b /\ UNCHANGED raced
        /\ \/ b \in hosts /\ Offered(b) /\ UNCHANGED focus
           \/ b \notin hosts /\ GiveUpFocus /\ at' = [at EXCEPT !.in = "revoke", !.b = b]
  /\ UNCHANGED <<cur, batch, taken, cef, tasks, ends, ledgers, game, events, calls, strays>>

\* KeyDown and OnKeyUp, which send no more once the browser shuts down.
Send(b, k, down) ==
  held' = IF b \in stopped THEN held
          ELSE [held EXCEPT ![b] = IF down THEN @ \cup {k} ELSE @ \ {k}]

\* KeyInputConverter::ProcessButton.  A held key repeats if it was the last to go
\* down here and long enough ago.  Strays are a press that comes after the browser
\* lost the focus and a repeat of a key the ledger has not.
ConvertKey(b, k, act) ==
  \/ /\ act = "down"
     /\ pressed' = [pressed EXCEPT ![b] = @ \cup {k}] /\ last' = [last EXCEPT ![b] = k]
     /\ Send(b, k, TRUE)
     /\ strays' = [strays EXCEPT ![b] = IF owner = b THEN @ \ {k} ELSE @ \cup {k}]
  \/ /\ act = "up"
     /\ pressed' = [pressed EXCEPT ![b] = @ \ {k}] /\ UNCHANGED last
     /\ Send(b, k, FALSE) /\ strays' = [strays EXCEPT ![b] = @ \ {k}]
  \/ /\ act = "held" /\ last[b] = k
     /\ Send(b, k, TRUE)
     /\ strays' = IF k \in pressed[b] THEN strays ELSE [strays EXCEPT ![b] = @ \cup {k}]
     /\ UNCHANGED <<pressed, last>>
  \/ act = "held" /\ UNCHANGED <<pressed, last, held, strays>>

ClickMouse(b) ==
  /\ held' = [held EXCEPT ![b] = IF Ev.act = "down" THEN @ \cup {Button} ELSE @ \ {Button}]
  /\ UNCHANGED <<pressed, last, hover, strays>>

\* ProcessMouseMove sends a move over the page, and the one that leaves it.
MoveMouse(b) ==
  /\ IF Ev.over THEN hover' = hover \cup {b} /\ UNCHANGED strays ELSE LeavePage(b)
  /\ UNCHANGED <<pressed, last, held>>

\* What Chromium is sent.
ProcessEvent ==
  /\ at.in = "send"
  /\ IF IsKey THEN ConvertKey(at.b, Ev.key, Ev.act) /\ UNCHANGED hover
     ELSE IF Ev.key = Button THEN ClickMouse(at.b) ELSE MoveMouse(at.b)
  /\ at' = IF Ev.key = Mouse THEN [at EXCEPT !.in = "note"]
           ELSE [at EXCEPT !.in = "opening", !.b = NoBrowser, !.handled = TRUE]
  /\ UNCHANGED <<cur, batch, taken, cef, tasks, focus, ends, inside, game, events, calls, raced>>

\* ProcessMouseMove's flag.  The mouse strays if the browser has lost the focus
\* meanwhile, or if OnFocusRevoked has read the flag and will reset it.
NoteMouse ==
  /\ at.in = "note"
  /\ inside' = IF Ev.over THEN inside \cup {at.b} ELSE inside \ {at.b}
  /\ strays' = IF ~Ev.over THEN strays
               ELSE IF owner # at.b \/ (cef.in = "reset" /\ cef.b = at.b)
                 THEN [strays EXCEPT ![at.b] = @ \cup {Mouse}]
               ELSE [strays EXCEPT ![at.b] = @ \ {Mouse}]
  /\ at' = [at EXCEPT !.in = "opening", !.b = NoBrowser, !.handled = TRUE]
  /\ UNCHANGED <<cur, batch, taken, cef, tasks, focus, ends, pressed, last, held, hover, game,
                 events, calls, raced>>

\* A router that never asks for the opening keys.
TakeEveryRelease ==
  /\ at.in = "opening"
  /\ NextEvent(at.handled)
  /\ UNCHANGED <<cur, batch, cef, tasks, focus, ends, ledgers, game, events, calls, raced, strays>>

\* ConsumeOpeningKeyRelease: the game gets the release of what it saw pressed.
ConsumeOpeningKeyRelease ==
  /\ at.in = "opening"
  /\ IF IsKey /\ Ev.act = "up" /\ Ev.key \in opening
       THEN opening' = opening \ {Ev.key} /\ NextEvent(FALSE)
       ELSE UNCHANGED opening /\ NextEvent(at.handled)
  /\ UNCHANGED <<cur, batch, cef, tasks, owner, ends, ledgers, game, events, calls, raced, strays>>

\* ScopedInputFilter and the original chain.  The router's own sink lets the
\* forwarded events pass.
Forwarded == {i \in DOMAIN batch : i \notin taken}
Seen(act) == {batch[i].key : i \in {j \in Forwarded : batch[j].act = act}}

Forward ==
  /\ at.in = "forward"
  /\ game' = (game \ Seen("up")) \cup Seen("down")
  /\ at' = Idle /\ batch' = <<>> /\ taken' = {}
  /\ UNCHANGED <<cur, cef, tasks, focus, ends, ledgers, events, calls, raced, strays>>

\* A layer whose CEF browser is gone has given the focus up; the walk goes on.
RevokedInWalk ==
  /\ at.in \in Revoking /\ at.i > 0
  /\ FocusRevoked(at)
  /\ at' = IF at.in # "reset" THEN StillRevoking(at)
           ELSE IF at.l < Len(Layers)
             THEN [at EXCEPT !.in = "layer", !.l = at.l + 1, !.b = NoBrowser]
           ELSE [at EXCEPT !.in = "opening", !.b = NoBrowser]
  /\ UNCHANGED <<cur, batch, taken, cef, tasks, focus, ends, game, events, calls, raced>>

-----------------------------------------------------------------------------
(* The rest of the main thread.                                            *)

\* ApplyBrowserFocused
RunTask(b) ==
  /\ at = Idle /\ tasks # <<>> /\ Head(tasks).b = b /\ tasks' = Tail(tasks)
  /\ \/ /\ b \notin stopped /\ Head(tasks).v /\ owner # b
        /\ TakeFocus(b)
        /\ at' = IF owner = NoBrowser THEN Idle ELSE [Idle EXCEPT !.in = "revoke", !.b = owner]
     \/ /\ b \notin stopped /\ ~Head(tasks).v /\ owner = b
        /\ GiveUpFocus /\ at' = [Idle EXCEPT !.in = "revoke", !.b = b]
     \/ /\ b \in stopped \/ Head(tasks).v = (owner = b)
        /\ UNCHANGED <<at, focus>>
  /\ UNCHANGED <<cur, batch, taken, cef, ends, ledgers, game, events, calls, raced, strays>>

Revoked ==
  /\ at.in \in Revoking /\ at.i = 0
  /\ FocusRevoked(at)
  /\ at' = IF at.in = "reset" THEN Idle ELSE StillRevoking(at)
  /\ UNCHANGED <<cur, batch, taken, cef, tasks, focus, ends, game, events, calls, raced>>

\* ProcessAltTab of every browser: Alt and Tab go down and up again besides.
WindowInactive ==
  /\ at = Idle /\ calls < MaxCalls /\ calls' = calls + 1
  /\ ReleasePressedKeys(Browsers)
  /\ UNCHANGED <<cur, batch, taken, at, cef, tasks, focus, ends, inside, hover, game, events, raced>>

\* SetShuttingDown
SetShuttingDown ==
  /\ at = Idle /\ calls < MaxCalls /\ calls' = calls + 1
  /\ off' = TRUE
  /\ UNCHANGED <<cur, batch, taken, at, cef, tasks, focus, hosts, stopped, ledgers, game, events,
                 raced, strays>>

-----------------------------------------------------------------------------
(* The CEF thread.                                                         *)

Race == raced' = (raced \/ at # Idle)

\* TryViewFocus from a listener
TryFocus(b) ==
  /\ cef = Idle /\ calls < MaxCalls /\ calls' = calls + 1
  /\ b \notin stopped /\ owner = NoBrowser
  /\ TakeFocus(b) /\ Race
  /\ UNCHANGED <<cur, batch, taken, at, cef, tasks, ends, ledgers, game, events, strays>>

\* A renderer that terminates, BeginShutdown and OnBeforeClose release the focus.
RendererTerminated(b) ==
  /\ cef = Idle /\ calls < MaxCalls /\ calls' = calls + 1
  /\ cef' = [Idle EXCEPT !.in = "release", !.b = b]
  /\ UNCHANGED <<cur, batch, taken, at, tasks, focus, ends, ledgers, game, events, raced, strays>>

BeginShutdown(b) ==
  /\ cef = Idle /\ calls < MaxCalls /\ calls' = calls + 1
  /\ stopped' = stopped \cup {b}
  /\ cef' = [Idle EXCEPT !.in = "release", !.b = b]
  /\ UNCHANGED <<cur, batch, taken, at, tasks, focus, hosts, off, ledgers, game, events, raced, strays>>

\* The client forgets the CEF browser before it tells DefaultBrowser.
BeforeClose(b) ==
  /\ cef = Idle /\ b \in hosts /\ calls < MaxCalls /\ calls' = calls + 1
  /\ hosts' = hosts \ {b}
  /\ cef' = [Idle EXCEPT !.in = "stop", !.b = b]
  /\ UNCHANGED <<cur, batch, taken, at, tasks, focus, stopped, off, ledgers, game, events, raced, strays>>

CefBrowserBeforeClose ==
  /\ cef.in = "stop"
  /\ stopped' = stopped \cup {cef.b}
  /\ cef' = [cef EXCEPT !.in = "release", !.handled = TRUE]
  /\ UNCHANGED <<cur, batch, taken, at, tasks, focus, hosts, off, ledgers, game, events, calls, raced, strays>>

AfterRelease == cef' = IF cef.handled THEN [cef EXCEPT !.in = "clear"] ELSE Idle

Release ==
  /\ cef.in = "release"
  /\ IF owner = cef.b THEN GiveUpFocus /\ Race /\ cef' = [cef EXCEPT !.in = "revoke"]
                      ELSE AfterRelease /\ UNCHANGED <<focus, raced>>
  /\ UNCHANGED <<cur, batch, taken, at, tasks, ends, ledgers, game, events, calls, strays>>

CefRevoked ==
  /\ cef.in \in Revoking
  /\ FocusRevoked(cef)
  /\ IF cef.in = "reset" THEN AfterRelease ELSE cef' = StillRevoking(cef)
  /\ UNCHANGED <<cur, batch, taken, at, tasks, focus, ends, game, events, calls, raced>>

\* The flag of the mouse is reset here as well, after the keys.
Clear ==
  /\ cef.in = "clear"
  /\ ClearKeys(cef.b)
  /\ cef' = [cef EXCEPT !.in = "reset", !.handled = FALSE]
  /\ UNCHANGED <<cur, batch, taken, at, tasks, focus, ends, inside, hover, game, events, calls, raced>>

-----------------------------------------------------------------------------
Next ==
  \/ Poll \/ ProcessToggleKeys \/ Layer \/ ProcessEvent \/ NoteMouse \/ ConsumeOpeningKeyRelease
  \/ Forward \/ RevokedInWalk
  \/ Revoked \/ WindowInactive \/ SetShuttingDown
  \/ \E b \in Browsers :
       RunTask(b) \/ TryFocus(b) \/ RendererTerminated(b) \/ BeginShutdown(b) \/ BeforeClose(b)
  \/ CefBrowserBeforeClose \/ Release \/ CefRevoked \/ Clear

Spec == Init /\ [][Next]_vars

-----------------------------------------------------------------------------
(* Safety.                                                                 *)

\* Between two dispatches Chromium holds no key of a live browser that is not both
\* held by the player and in the browser that has the focus, nor has it the mouse
\* in a page without the focus, whichever thread took the focus and wherever in a
\* dispatch: DefaultBrowser.cpp's OnFocusRevoked balances what the focus cut short.
\* Left out are the strays, which nothing balances.
ChromiumKeysBalanced ==
  AtRest /\ ~off =>
    \A b \in hosts \ stopped :
      /\ (held[b] \cap Keys) \ strays[b] \subseteq (IF owner = b THEN cur ELSE {})
      /\ owner # b /\ Mouse \notin strays[b] => b \notin hover

\* The same of everything Chromium was told: false of the code, which sends what it
\* has begun to send to a browser that has lost the focus since, repeats a key that
\* no ledger has, and forgets a mouse that comes back while the loss is delivered.
NoStraysEither ==
  AtRest /\ ~off =>
    \A b \in hosts \ stopped :
      /\ held[b] \cap Keys \subseteq (IF owner = b THEN cur ELSE {})
      /\ owner # b => b \notin hover

\* Between two dispatches the game holds no key the player has let go: whatever
\* browser took the press or the focus meanwhile, the release of a key the game
\* saw pressed has reached it (FocusSessionState's opening keys).
GameKeysReleased == AtRest /\ ~raced => game \cap Keys \subseteq cur
=============================================================================
