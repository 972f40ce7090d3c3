----------------------------- MODULE LayerList -----------------------------
(***************************************************************************)
(* RenderHost's list of layers (Compositor), and the frames of the threads *)
(* that work on it through the three API controllers.                      *)
(*                                                                         *)
(* A step is one critical section, or what a thread does between two.  A   *)
(* call that creates something has a number: the menu and the handles it   *)
(* may bring about are known by it.  To shut a menu down is one step here; *)
(* what it waits for is the matter of JsCallbacks and RenderLoop.          *)
(***************************************************************************)
EXTENDS Naturals, FiniteSets

CONSTANTS Main,          \* the application thread: game tasks and shutdown
          UI,            \* CEF's UI thread, inside a consumer's callback
          Workers,       \* other consumer threads
          PlainNames,    \* browser names that consumers choose
          ViewNames,     \* browser names "Meridian.View/owner/view"
          SurfaceNames,  \* layer names "Meridian.RenderLayer/owner/surface"
          MaxCalls,      \* bound: calls that create something
          None           \* no name, layer or handle; a free lock

Threads      == {Main, UI} \cup Workers
BrowserNames == PlainNames \cup ViewNames
Names        == BrowserNames \cup SurfaceNames
Calls        == 1..MaxCalls

ASSUME NamesAssumption ==
  /\ Main # UI /\ Main \notin Workers /\ UI \notin Workers
  /\ PlainNames \cap ViewNames = {} /\ BrowserNames \cap SurfaceNames = {}
  /\ MaxCalls \in Nat
  /\ None \notin Names \cup Calls \cup Threads

VARIABLES
  layers,         \* Compositor::m_entries, by name
  running,        \* menus that were listed, each with its name, and whose
                  \* BeginShutdown has not been called since
  renderClosing,  \* RenderHost::m_isShuttingDown
  made,           \* how many numbered calls have begun
  frame           \* per thread: the call it is in

list == <<layers, running, renderClosing>>

Labels ==
  {"idle", "acquire", "build", "release", "remove", "shut", "forget",
   "reserve", "publish", "unreserve", "drop",
   "check", "add", "publishSurface", "freeName",
   "sweepFlag", "sweep", "sweepAgain", "sweepLast", "closeViews", "clearViews",
   "closeSurfaces", "takeSurfaces", "swap", "tell", "clearBook", "done"}

\* Where a thread is, the call's number and name, the handle it has got, the
\* menus it has to shut down and where it goes after that.
Frames == [at : Labels, call : Calls \cup {None}, name : Names \cup {None},
           handle : Calls \cup {None}, menus : SUBSET Calls, next : Labels]

Idle == [at |-> "idle", call |-> None, name |-> None, handle |-> None,
         menus |-> {}, next |-> "idle"]

ListTypeOK == /\ layers \in [Names -> Calls \cup {None}]
              /\ running \subseteq Calls \X Names
              /\ renderClosing \in BOOLEAN
              /\ made \in 0..MaxCalls
              /\ frame \in [Threads -> Frames]

ListInit == /\ layers = [n \in Names |-> None]
            /\ running = {}
            /\ renderClosing = FALSE
            /\ made = 0
            /\ frame = [t \in Threads |-> Idle]

At(t, label)   == frame[t].at = label
Goto(t, label) == frame' = [frame EXCEPT ![t].at = label]
Leave(t)       == frame' = [frame EXCEPT ![t] = Idle]

\* A numbered call for name n begins.
Begin(t, label, n) ==
  /\ At(t, "idle")
  /\ made < MaxCalls
  /\ made' = made + 1
  /\ frame' = [frame EXCEPT ![t] = [Idle EXCEPT !.at = label, !.call = made + 1, !.name = n]]

\* The thread returns to its caller, a consumer or a call further out, with
\* browser handle h (or none).
Obtain(t, h) ==
  IF frame[t].next = "idle"
    THEN Leave(t)
    ELSE frame' = [frame EXCEPT ![t].at = frame[t].next, ![t].handle = h, ![t].menus = {}]
Return(t) == Obtain(t, frame[t].handle)

Remover(t, own, next) ==
  [frame[t] EXCEPT !.at = "remove", !.menus = own, !.next = next]

-----------------------------------------------------------------------------
Listed(L) == {layers[n] : n \in L} \ {None}

\* Compositor::Add of menu m under a name that is free.
List(n, m) == /\ layers' = [layers EXCEPT ![n] = m]
              /\ running' = running \cup {<<m, n>>}

\* RenderHost::RemoveSubMenu takes whatever bears the name off the list.  The
\* thread then shuts it down, and the menu whose last reference it drops.
RemoveSubMenu(t) ==
  LET n == frame[t].name
  IN /\ At(t, "remove")
     /\ layers' = [layers EXCEPT ![n] = None]
     /\ frame' = [frame EXCEPT ![t].at = "shut", ![t].menus = @ \cup Listed({n})]
     /\ UNCHANGED <<running, renderClosing, made>>

ShutMenus(t) ==
  /\ At(t, "shut")
  /\ running' = {m \in running : m[1] \notin frame[t].menus}
  /\ Return(t)
  /\ UNCHANGED <<layers, renderClosing, made>>

\* RenderHost::BeginShutdown: first the flag, then the layers.  The second
\* time, from UIPlatformService::Shutdown, ClearAllSubMenu follows.
SweepFlag(t) ==
  /\ At(t, "sweepFlag")
  /\ renderClosing' = TRUE
  /\ Goto(t, "sweep")
  /\ UNCHANGED <<layers, running, made>>

AfterSweep == [sweep |-> "closeViews", sweepAgain |-> "sweepLast", sweepLast |-> "done"]

Sweep(t) ==
  /\ frame[t].at \in DOMAIN AfterSweep
  /\ layers' = [n \in Names |-> None]
  /\ frame' = [frame EXCEPT ![t].at = "shut", ![t].menus = Listed(Names),
                            ![t].next = AfterSweep[frame[t].at]]
  /\ UNCHANGED <<running, renderClosing, made>>
=============================================================================
