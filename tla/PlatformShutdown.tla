-------------------------- MODULE PlatformShutdown --------------------------
(***************************************************************************)
(* PublicAPIController::Shutdown, on the application thread, against calls *)
(* of consumers under way on every other thread: the gates, the sweeps of  *)
(* RenderHost, the closing of the books of views and surfaces, the         *)
(* consumers' own shutdown callbacks, and the second and third sweep.      *)
(*                                                                         *)
(* Left out: m_initPlatformServiceMutex (the platform is initialised), the *)
(* NIF controllers, the input services and the drain of CEF, which is the  *)
(* matter of CefLifecycle.  What a consumer's shutdown callback calls is   *)
(* what other threads call at the same time.                               *)
(***************************************************************************)
EXTENDS BrowserHandles, Surfaces

CONSTANT Callbacks  \* consumers' shutdown functions

VARIABLES registered,  \* m_onShutdownFuncs
          pending,     \* Shutdown's own queue after the swap
          asked,       \* history: the functions RegisterOnShutdown was given
          told         \* how often each was called

notices == <<registered, pending, asked, told>>
vars == <<list, made, frame, handles, viewBook, surfaceBook, notices>>

TypeOK == /\ ListTypeOK /\ HandlesTypeOK /\ SurfacesTypeOK
          /\ registered \subseteq Callbacks
          /\ pending \subseteq Callbacks
          /\ asked \subseteq Callbacks
          /\ told \in [Callbacks -> Nat]

Init == /\ ListInit /\ HandlesInit /\ SurfacesInit
        /\ registered = {} /\ pending = {} /\ asked = {}
        /\ told = [k \in Callbacks |-> 0]

-----------------------------------------------------------------------------
(* RegisterOnShutdown.  The call of the function after the section meets   *)
(* nobody and is one step with it.                                         *)

Tell(k) == told' = [told EXCEPT ![k] = @ + 1]
Enqueue(k) == registered' = registered \cup {k}

\* A section that tells and enters the function all the same.
RegistersToo(k) == /\ IF publicClosing THEN Tell(k) ELSE UNCHANGED told
                   /\ Enqueue(k)

Register(k) == \/ /\ publicClosing
                  /\ Tell(k)
                  /\ UNCHANGED registered
               \/ /\ ~publicClosing
                  /\ Enqueue(k)
                  /\ UNCHANGED told

\* A consumer registers its function once.
RegisterOnShutdown(t, k) ==
  /\ At(t, "idle")
  /\ k \notin asked /\ asked' = asked \cup {k}
  /\ Register(k)
  /\ UNCHANGED <<list, made, frame, handles, viewBook, surfaceBook, pending>>

-----------------------------------------------------------------------------
(* Shutdown.                                                               *)

CloseAdmission ==
  /\ At(Main, "idle")
  /\ admission = None
  /\ ~publicClosing
  /\ publicClosing' = TRUE
  /\ Goto(Main, "sweepFlag")
  /\ UNCHANGED <<list, made, admission, mapLock, refs, browser, closing,
                 viewBook, surfaceBook, notices>>

\* ViewAPIController::BeginShutdown: the flag, then the section.
CloseViews ==
  /\ At(Main, "closeViews")
  /\ viewClosing' = TRUE
  /\ Goto(Main, "clearViews")
  /\ UNCHANGED <<list, made, handles, viewLock, viewNames, views, tasks,
                 surfaceBook, notices>>

ClearViews ==
  /\ At(Main, "clearViews")
  /\ viewLock = None
  /\ views' = {} /\ viewNames' = {}
  /\ Goto(Main, "closeSurfaces")
  /\ UNCHANGED <<list, made, handles, viewClosing, viewLock, tasks, surfaceBook, notices>>

\* RenderLayerAPIController::BeginShutdown: the flag, then the section, whose
\* entries it shuts down itself.
CloseSurfaces ==
  /\ At(Main, "closeSurfaces")
  /\ surfClosing' = TRUE
  /\ Goto(Main, "takeSurfaces")
  /\ UNCHANGED <<list, made, handles, viewBook, surfNames, surfaces, notices>>

TakeSurfaces ==
  /\ At(Main, "takeSurfaces")
  /\ surfaces' = {} /\ surfNames' = {}
  /\ frame' = [frame EXCEPT ![Main].at = "shut", ![Main].next = "swap",
                            ![Main].menus = {s.surface : s \in surfaces}]
  /\ UNCHANGED <<list, made, handles, viewBook, surfClosing, notices>>

SwapCallbacks ==
  /\ At(Main, "swap")
  /\ pending' = registered /\ registered' = {}
  /\ Goto(Main, "tell")
  /\ UNCHANGED <<list, made, handles, viewBook, surfaceBook, asked, told>>

\* Each function is called; then it is UIPlatformService::Shutdown's turn.
TellNext ==
  /\ At(Main, "tell")
  /\ \/ \E k \in pending : /\ Tell(k)
                           /\ pending' = pending \ {k}
                           /\ UNCHANGED frame
     \/ /\ pending = {}
        /\ Goto(Main, "clearBook")
        /\ UNCHANGED <<pending, told>>
  /\ UNCHANGED <<list, made, handles, viewBook, surfaceBook, registered, asked>>

ClearBook ==
  /\ At(Main, "clearBook")
  /\ mapLock = None
  /\ refs' = [n \in BrowserNames |-> {}]
  /\ browser' = [n \in BrowserNames |-> None]
  /\ closing' = {}
  /\ Goto(Main, "sweepAgain")
  /\ UNCHANGED <<list, made, publicClosing, admission, mapLock, viewBook,
                 surfaceBook, notices>>

ShutdownStep == \/ CloseAdmission \/ CloseViews \/ ClearViews \/ CloseSurfaces
                \/ TakeSurfaces \/ SwapCallbacks \/ TellNext \/ ClearBook

-----------------------------------------------------------------------------
ListStep(t) == /\ RemoveSubMenu(t) \/ ShutMenus(t) \/ SweepFlag(t) \/ Sweep(t)
               /\ UNCHANGED <<handles, viewBook, surfaceBook, notices>>

\* Consumers release the handles they were given; a view's is not theirs.
HandleStep(t) ==
  /\ \/ \E n \in BrowserNames : AddOrGetBrowser(t, n)
     \/ \E n \in PlainNames : \E h \in refs[n] : ReleaseBrowserHandle(t, n, h)
     \/ \E n \in ViewNames : CreateView(t, n)
     \/ \E v \in views : DestroyView(t, v)
     \/ Acquire(t) \/ Build(t) \/ DropHandle(t) \/ ForgetClosing(t)
     \/ Reserve(t) \/ Unreserve(t) \/ Publish(t) \/ ReleaseBrowser(t)
  /\ UNCHANGED <<surfaceBook, notices>>

TaskStep == /\ \E task \in tasks : RunTask(task)
            /\ UNCHANGED <<surfaceBook, notices>>

Resting(t) == frame[t].at \in {"idle", "done"}

\* Nothing is under way.  Every other state without a step is a deadlock.
Rest == (\A t \in Threads : Resting(t)) /\ UNCHANGED vars

Next == \/ \E t \in Threads : \/ ListStep(t) \/ HandleStep(t)
                              \/ SurfaceStep(t) /\ UNCHANGED <<handles, viewBook, notices>>
                              \/ \E k \in Callbacks : RegisterOnShutdown(t, k)
        \/ TaskStep \/ ShutdownStep \/ Rest

Spec == Init /\ [][Next]_vars

-----------------------------------------------------------------------------
(* Properties.                                                             *)

Running(n) == {m[1] : m \in {m \in running : m[2] = n}}

\* As long as the platform is not being shut down, what a consumer holds is
\* there: a browser handle, a view and a surface each stand for the very layer
\* listed under their name, no such layer has been shut, and no name has two
\* browsers.
HeldLayersLive ==
  ~publicClosing =>
    /\ \A n \in BrowserNames : refs[n] # {} => layers[n] = browser[n] /\ browser[n] \in Running(n)
    /\ \A v \in views : v.view \in refs[v.name] /\ v.menu = browser[v.name]
    /\ \A s \in surfaces : layers[s.name] = s.surface /\ s.surface \in Running(s.name)
    /\ \A n \in BrowserNames : Cardinality(Running(n)) <= 1

\* When no call is under way, every name that is refused to consumers is one
\* they use, and the list has no layer that nobody holds.
NamesComeBack ==
  ~publicClosing /\ tasks = {} /\ (\A t \in Threads : At(t, "idle")) =>
    /\ closing = {}
    /\ viewNames = {v.name : v \in views}
    /\ surfNames = {s.name : s \in surfaces}
    /\ {n \in Names : layers[n] # None} = {n \in BrowserNames : refs[n] # {}} \cup surfNames

\* After the shutdown, once the calls it ran into have returned, no layer is
\* listed or left running, no handle, view or surface is valid and no name is
\* taken; every function that RegisterOnShutdown was given, before the shutdown or
\* while it went on, was called once, and no other.
ShutdownLeavesNothing ==
  At(Main, "done") /\ (\A t \in Threads : Resting(t)) =>
    /\ \A n \in Names : layers[n] = None /\ Running(n) = {}
    /\ \A n \in BrowserNames : refs[n] = {}
    /\ views = {} /\ viewNames = {} /\ closing = {}
    /\ surfaces = {} /\ surfNames = {}
    /\ registered = {} /\ pending = {}
    /\ \A k \in Callbacks : told[k] = IF k \in asked THEN 1 ELSE 0

\* "After this callback, you should stop using any browser" (API.h): until the
\* registered functions have been called, a browser that a consumer holds a
\* handle of has not been shut down.  TLC refutes it: see "Promises the code does
\* not keep" in the README.
UsableUntilTold ==
  registered \cup pending # {} => \A n \in PlainNames : refs[n] # {} => browser[n] \in Running(n)
=============================================================================
