---------------------------- MODULE CefLifecycle ----------------------------
(***************************************************************************)
(* Birth, close and final drain of the off-screen browsers:                *)
(*   - CEFService, the process-wide book of clients and browsers;          *)
(*   - the gate of MeridianCefClient in front of consumer callbacks;       *)
(*   - DefaultBrowser::RequestClose / BeginShutdown, which shut the gate;  *)
(*   - UIPlatformService::Shutdown, which drains and stops CEF.            *)
(*                                                                         *)
(* A client owns at most one browser (CEFMenu::m_started), so a client     *)
(* names its browser.  The constructor of a CEFMenu makes client, browser  *)
(* object and gate together; it needs no step of its own.                  *)
(*                                                                         *)
(* Granularity: a step is one critical section of s_lifecycleMutex or of   *)
(* m_browserStateMutex, one call into CEF made outside them, or the wait   *)
(* for m_callbackDispatchMutex.  CEF itself is external: it accepts or     *)
(* refuses a creation, calls OnAfterCreated and OnBeforeClose once per     *)
(* browser on its UI thread, and runs posted tasks there between           *)
(* callbacks.                                                              *)
(***************************************************************************)
CONSTANTS Clients,   \* MeridianCefClient objects
          Workers,   \* consumer threads other than the two below
          Main,      \* the application thread: initializes and shuts CEF down
          UI,        \* CEF's browser-process UI thread, TID_UI
          NoClient   \* "no client" in a thread's frame

ASSUME ThreadAssumption == /\ Main \notin Workers
                           /\ UI \notin Workers
                           /\ Main # UI
                           /\ NoClient \notin Clients

Threads == Workers \cup {Main, UI}

VARIABLES
  \* CEFService.  A client has an entry in s_clients iff it is in
  \* pending \cup registered; the maps of the entry are these sets.
  state,          \* s_lifecycleState
  pending,        \* ClientState::creationPending
  closeReq,       \* ClientState::closeRequested
  registered,     \* clients whose ClientState::browsers is not empty
  barrierPosted,  \* s_drainBarrierPosted
  \* MeridianCefClient and DefaultBrowser
  quiesced,       \* m_quiesceRequested
  closeGate,      \* MeridianCefClient::m_closeRequested
  held,           \* clients whose m_cefBrowser is set
  closeOnce,      \* DefaultBrowser::m_closeRequested
  \* CEF (external)
  cef,            \* what CEF has done with the client's browser
  barrierTask,    \* a DrainBarrierTask is queued on TID_UI
  \* control
  ui, uiClient,   \* the callback the UI thread is in, and its client
  at, on,         \* per thread: the call it is inside, and on which client
  toClose         \* CloseAllBrowsersAndWait: browsersToClose

book  == <<state, pending, closeReq, registered, barrierPosted>>
gate  == <<quiesced, closeGate, held, closeOnce>>
frame == <<ui, uiClient>>
calls == <<at, on, toClose>>
vars  == <<book, gate, cef, barrierTask, frame, calls>>

LifecycleState ==
  {"Uninitialized", "Initializing", "Running", "ClosingBrowsers", "BrowsersClosed",
   "ShuttingDown", "Stopped", "Failed", "InitializationFailed"}

BrowserState == {"none", "requested", "live", "closing", "destroying", "closed"}

UIFrame == {"idle", "createdKeep", "closeNew", "dispatch",
            "beforeClose", "postBarrier", "closeReturn"}

CallLabel ==
  {"idle", "create", "refused", "post", "stop", "stopWait",
   "close", "closeWait", "shutGate", "closeService", "hostClose",
   "initialize", "closeAll", "postAll", "wait", "drained", "cefShutdown", "done"}

TypeOK ==
  /\ state \in LifecycleState
  /\ pending \subseteq Clients /\ closeReq \subseteq Clients /\ registered \subseteq Clients
  /\ quiesced \subseteq Clients /\ closeGate \subseteq Clients
  /\ held \subseteq Clients /\ closeOnce \subseteq Clients /\ toClose \subseteq Clients
  /\ barrierPosted \in BOOLEAN /\ barrierTask \in BOOLEAN
  /\ cef \in [Clients -> BrowserState]
  /\ ui \in UIFrame /\ uiClient \in Clients \cup {NoClient}
  /\ at \in [Threads -> CallLabel]
  /\ on \in [Threads -> Clients \cup {NoClient}]

Init ==
  /\ state = "Uninitialized" /\ barrierPosted = FALSE
  /\ pending = {} /\ closeReq = {} /\ registered = {}
  /\ quiesced = {} /\ closeGate = {} /\ held = {} /\ closeOnce = {}
  /\ cef = [c \in Clients |-> "none"]
  /\ barrierTask = FALSE
  /\ ui = "idle" /\ uiClient = NoClient
  /\ at = [t \in Threads |-> "idle"]
  /\ on = [t \in Threads |-> NoClient]
  /\ toClose = {}

-----------------------------------------------------------------------------
(* Helpers of CEFService and of CEF.                                       *)

\* HasOutstandingBrowsersLocked over the given books.  The fault forgets
\* browsers whose creation CEF has accepted but not yet finished.
OutstandingForgetsPending(p, r) == r # {}
Outstanding(p, r) == p # {} \/ r # {}

\* ArmDrainBarrierIfNeededLocked, evaluated on the books after the update.
ArmsBarrier(s, p, r) == /\ s = "ClosingBrowsers"
                        /\ ~barrierPosted
                        /\ ~Outstanding(p, r)

\* CefPostTask of the barrier: CEF queues it, or refuses and the service fails
\* (PostDrainBarrier, FailDrainBarrierPost).
PostBarrier == \/ /\ barrierTask' = TRUE
                  /\ UNCHANGED <<state, barrierPosted>>
               \/ /\ state' = "Failed"
                  /\ barrierPosted' = FALSE
                  /\ UNCHANGED barrierTask

\* browser->GetHost()->CloseBrowser(true): CEF starts to close a live browser
\* and ignores a second request.
CloseBrowser(c) == cef' = [cef EXCEPT ![c] = IF @ = "live" THEN "closing" ELSE @]

\* Consumer code runs on its own threads, and on the UI thread only inside a
\* dispatched callback.
CanCall(t) == /\ at[t] = "idle"
              /\ t = UI => ui = "dispatch"

Enter(t, label, c) == /\ at' = [at EXCEPT ![t] = label]
                      /\ on' = [on EXCEPT ![t] = c]
                      /\ UNCHANGED toClose

\* Move on inside a call, or leave it.
Goto(t, label) ==
  /\ at' = [at EXCEPT ![t] = label]
  /\ on' = IF label = "idle" THEN [on EXCEPT ![t] = NoClient] ELSE on

\* The UI thread is in callback f of client c, or in none.
InCallback(f, c) == /\ ui' = f
                    /\ uiClient' = IF f = "idle" THEN NoClient ELSE c

-----------------------------------------------------------------------------
(* CEFInitialize.                                                          *)

BeginInitialize ==
  /\ at[Main] = "idle"
  /\ state = "Uninitialized"
  /\ state' = "Initializing"
  /\ Goto(Main, "initialize")
  /\ UNCHANGED <<pending, closeReq, registered, barrierPosted,
                 gate, cef, barrierTask, frame, toClose>>

\* CefInitialize returns; a failure is final (no retry, no CefShutdown).
EndInitialize ==
  /\ at[Main] = "initialize"
  /\ state' \in {"Running", "InitializationFailed"}
  /\ Goto(Main, "idle")
  /\ UNCHANGED <<pending, closeReq, registered, barrierPosted,
                 gate, cef, barrierTask, frame, toClose>>

-----------------------------------------------------------------------------
(* CreateBrowser, called by CEFMenu::LoadBrowser.                          *)

\* The menu still exists, has not started a browser (m_started), and no other
\* thread is loading it (m_startBrowserMutex).
CanLoad(c) == /\ c \notin closeOnce
              /\ cef[c] = "none"
              /\ \A t \in Threads : on[t] = c => at[t] \notin {"create", "refused"}

CreationAdmittedAnytime(c) == c \notin pending \cup closeReq \cup registered
CreationAdmitted(c) == /\ state = "Running"
                       /\ c \notin pending \cup closeReq \cup registered

\* First critical section; a creation that is not admitted changes nothing.
CreateBrowser(t, c) ==
  /\ CanCall(t)
  /\ CanLoad(c)
  /\ CreationAdmitted(c)
  /\ pending' = pending \cup {c}
  /\ Enter(t, "create", c)
  /\ UNCHANGED <<state, closeReq, registered, barrierPosted, gate, cef, barrierTask, frame>>

\* CefBrowserHost::CreateBrowser: CEF accepts and will create the browser on
\* its UI thread, or refuses at once.
HostCreate(t) ==
  /\ at[t] = "create"
  /\ \/ /\ cef' = [cef EXCEPT ![on[t]] = "requested"]
        /\ Goto(t, "idle")
     \/ /\ Goto(t, "refused")
        /\ UNCHANGED cef
  /\ UNCHANGED <<book, gate, barrierTask, frame, toClose>>

\* The critical section after a refusal: the entry goes unless a browser is
\* in it, and the last outstanding creation arms the barrier.
CreationRefused(t) ==
  /\ at[t] = "refused"
  /\ pending' = pending \ {on[t]}
  /\ closeReq' = IF on[t] \in registered THEN closeReq ELSE closeReq \ {on[t]}
  /\ LET armed == ArmsBarrier(state, pending', registered)
     IN /\ barrierPosted' = IF armed THEN TRUE ELSE barrierPosted
        /\ Goto(t, IF armed THEN "post" ELSE "idle")
  /\ UNCHANGED <<state, registered, gate, cef, barrierTask, frame, toClose>>

FlagWithoutPost(t) ==
  /\ at[t] = "post"
  /\ Goto(t, "idle")
  /\ UNCHANGED <<book, gate, cef, barrierTask, frame, toClose>>
PostAfterRefusal(t) ==
  /\ at[t] = "post"
  /\ PostBarrier
  /\ Goto(t, "idle")
  /\ UNCHANGED <<pending, closeReq, registered, gate, cef, frame, toClose>>

-----------------------------------------------------------------------------
(* BeginShutdown and RequestClose of one browser.                          *)

\* DefaultBrowser::BeginShutdown: RenderHost drops the layer.
BeginShutdown(t, c) ==
  /\ CanCall(t)
  /\ c \notin quiesced
  /\ Enter(t, "stop", c)
  /\ UNCHANGED <<book, gate, cef, barrierTask, frame>>

\* DefaultBrowser::RequestClose: the destructor of the menu, which no thread
\* is loading any more.  m_closeRequested.exchange lets one caller through.
RequestClose(t, c) ==
  /\ CanCall(t)
  /\ c \notin closeOnce
  /\ \A u \in Threads : on[u] = c => at[u] \notin {"create", "refused"}
  /\ closeOnce' = closeOnce \cup {c}
  /\ Enter(t, "close", c)
  /\ UNCHANGED <<book, quiesced, closeGate, held, cef, barrierTask, frame>>

\* MeridianCefClient::BeginShutdown, the section under m_browserStateMutex.
Quiesce(t) ==
  /\ at[t] \in {"stop", "close"}
  /\ quiesced' = quiesced \cup {on[t]}
  /\ Goto(t, IF at[t] = "stop" THEN "stopWait" ELSE "closeWait")
  /\ UNCHANGED <<book, closeGate, held, closeOnce, cef, barrierTask, frame, toClose>>

\* m_callbackDispatchMutex is free for t: it is recursive, so a callback does
\* not wait for itself.  The fault drops the wait.
DispatchNeverWaits(t, c) == TRUE
DispatchFree(t, c) == t = UI \/ ~(ui = "dispatch" /\ uiClient = c)

\* The wait of BeginShutdown for a callback that was admitted before.
PassGate(t) ==
  /\ at[t] \in {"stopWait", "closeWait"}
  /\ DispatchFree(t, on[t])
  /\ Goto(t, IF at[t] = "stopWait" THEN "idle" ELSE "shutGate")
  /\ UNCHANGED <<book, gate, cef, barrierTask, frame, toClose>>

\* MeridianCefClient::RequestClose, its section under m_browserStateMutex.
\* The BeginShutdown it repeats finds the client quiesced and waits for none.
ShutGate(t) ==
  /\ at[t] = "shutGate"
  /\ closeGate' = closeGate \cup {on[t]}
  /\ Goto(t, "closeService")
  /\ UNCHANGED <<book, quiesced, held, closeOnce, cef, barrierTask, frame, toClose>>

\* The browser RequestClientClose finds in the entry, if it has been created.
FindsNone(c) == FALSE
Finds(c) == c \in registered

\* RequestClientClose: mark the entry, if there is one, and collect its browser.
RequestClientClose(t) ==
  /\ at[t] = "closeService"
  /\ closeReq' = closeReq \cup ({on[t]} \cap (pending \cup registered))
  /\ Goto(t, IF Finds(on[t]) THEN "hostClose" ELSE "idle")
  /\ UNCHANGED <<state, pending, registered, barrierPosted,
                 gate, cef, barrierTask, frame, toClose>>

HostClose(t) ==
  /\ at[t] = "hostClose"
  /\ CloseBrowser(on[t])
  /\ Goto(t, "idle")
  /\ UNCHANGED <<book, gate, barrierTask, frame, toClose>>

-----------------------------------------------------------------------------
(* Callbacks of MeridianCefClient on the UI thread.                        *)

\* OnBrowserCreated's verdict.
KeepsOpen(c) == c \notin closeReq /\ state = "Running"

\* OnAfterCreated as far as CEFService::OnBrowserCreated.
AfterCreated(c) ==
  /\ ui = "idle"
  /\ cef[c] = "requested"
  /\ cef' = [cef EXCEPT ![c] = "live"]
  /\ pending' = pending \ {c}
  /\ registered' = registered \cup {c}
  /\ InCallback(IF KeepsOpen(c) THEN "createdKeep" ELSE "closeNew", c)
  /\ UNCHANGED <<state, closeReq, barrierPosted, gate, barrierTask, calls>>

\* Its section under m_browserStateMutex.  A browser whose client is closing is
\* not stored; one created while quiesced is stored but announced to nobody.
Adopt ==
  /\ ui = "createdKeep"
  /\ \/ /\ uiClient \in closeGate
        /\ InCallback("closeNew", uiClient)
        /\ UNCHANGED held
     \/ /\ uiClient \notin closeGate
        /\ held' = held \cup {uiClient}
        /\ InCallback(IF uiClient \in quiesced THEN "idle" ELSE "dispatch", uiClient)
  /\ UNCHANGED <<book, quiesced, closeGate, closeOnce, cef, barrierTask, calls>>

CloseNew ==
  /\ ui = "closeNew"
  /\ CloseBrowser(uiClient)
  /\ InCallback("idle", uiClient)
  /\ UNCHANGED <<book, gate, barrierTask, calls>>

\* A process message, load start, load end or renderer loss that the gate lets
\* through: consumer code runs while the UI thread holds the dispatch mutex.
Dispatch(c) ==
  /\ ui = "idle"
  /\ cef[c] \in {"live", "closing"}
  /\ c \notin quiesced \cup closeGate
  /\ InCallback("dispatch", c)
  /\ UNCHANGED <<book, gate, cef, barrierTask, calls>>

EndDispatch ==
  /\ ui = "dispatch"
  /\ at[UI] = "idle"
  /\ InCallback("idle", uiClient)
  /\ UNCHANGED <<book, gate, cef, barrierTask, calls>>

\* m_cefBrowser is cleared when it is the browser that closes.
DropHandle(c) == held' = held \ {c}

\* OnBeforeClose under both client mutexes.  CEF destroys a browser it was
\* asked to close, or one whose page closed itself.  A client not yet quiesced
\* reports it (OnCefBrowserBeforeClose), which uses up RequestClose.
BeforeClose(c) ==
  /\ ui = "idle"
  /\ cef[c] \in {"live", "closing"}
  /\ cef' = [cef EXCEPT ![c] = "destroying"]
  /\ quiesced' = quiesced \cup {c}
  /\ closeGate' = closeGate \cup {c}
  /\ DropHandle(c)
  /\ closeOnce' = IF c \in quiesced THEN closeOnce ELSE closeOnce \cup {c}
  /\ InCallback("beforeClose", c)
  /\ UNCHANGED <<book, barrierTask, calls>>

\* The last browser posts the barrier behind the callback that is running.
\* The fault ends the drain inside the callback.
DrainInside(armed) ==
  /\ state' = IF armed THEN "BrowsersClosed" ELSE state
  /\ InCallback("closeReturn", uiClient)
  /\ UNCHANGED barrierPosted
DrainBehind(armed) ==
  /\ barrierPosted' = IF armed THEN TRUE ELSE barrierPosted
  /\ InCallback(IF armed THEN "postBarrier" ELSE "closeReturn", uiClient)
  /\ UNCHANGED state

\* CEFService::OnBrowserBeforeClose.
OnBrowserBeforeClose ==
  /\ ui = "beforeClose"
  /\ registered' = registered \ {uiClient}
  /\ closeReq' = IF uiClient \in pending THEN closeReq ELSE closeReq \ {uiClient}
  /\ DrainBehind(ArmsBarrier(state, pending, registered'))
  /\ UNCHANGED <<pending, gate, cef, barrierTask, calls>>

PostFromCallback ==
  /\ ui = "postBarrier"
  /\ PostBarrier
  /\ InCallback("closeReturn", uiClient)
  /\ UNCHANGED <<pending, closeReq, registered, gate, cef, calls>>

\* The callback stack unwinds into CEF: the browser is gone.
BeforeCloseReturn ==
  /\ ui = "closeReturn"
  /\ cef' = [cef EXCEPT ![uiClient] = "closed"]
  /\ InCallback("idle", uiClient)
  /\ UNCHANGED <<book, gate, barrierTask, calls>>

\* DrainBarrierTask::Execute -> CompleteDrainBarrier, between callbacks.
CompleteDrainBarrier ==
  /\ ui = "idle"
  /\ barrierTask
  /\ barrierTask' = FALSE
  /\ barrierPosted' = FALSE
  /\ state' = IF state = "ClosingBrowsers" /\ ~Outstanding(pending, registered)
              THEN "BrowsersClosed" ELSE state
  /\ UNCHANGED <<pending, closeReq, registered, gate, cef, frame, calls>>

-----------------------------------------------------------------------------
(* UIPlatformService::Shutdown on the application thread: once.            *)

\* browsersToClose: the browsers in the books, without null references.
Collect(r) == r

\* CloseAllBrowsersAndWait as far as the end of its critical section.  When the
\* barrier is armed there is no browser to close.
BeginCloseAll ==
  /\ at[Main] = "idle"
  /\ \/ /\ state \in {"Uninitialized", "InitializationFailed"}
        /\ Goto(Main, "done")
        /\ UNCHANGED <<book, toClose>>
     \/ /\ state = "Running"
        /\ state' = "ClosingBrowsers"
        /\ closeReq' = closeReq \cup pending \cup registered
        /\ toClose' = Collect(registered)
        /\ LET armed == ArmsBarrier("ClosingBrowsers", pending, registered)
           IN /\ barrierPosted' = IF armed THEN TRUE ELSE barrierPosted
              /\ Goto(Main, IF armed THEN "postAll" ELSE "closeAll")
        /\ UNCHANGED <<pending, registered>>
  /\ UNCHANGED <<gate, cef, barrierTask, frame>>

CloseNext ==
  /\ at[Main] = "closeAll"
  /\ \/ \E c \in toClose : /\ CloseBrowser(c)
                           /\ toClose' = toClose \ {c}
                           /\ UNCHANGED <<at, on>>
     \/ /\ toClose = {}
        /\ Goto(Main, "wait")
        /\ UNCHANGED <<cef, toClose>>
  /\ UNCHANGED <<book, gate, barrierTask, frame>>

PostFromCloseAll ==
  /\ at[Main] = "postAll"
  /\ PostBarrier
  /\ Goto(Main, "wait")
  /\ UNCHANGED <<pending, closeReq, registered, gate, cef, frame, toClose>>

\* s_lifecycleCondition.wait_for: the drain ended, or the time did.  Only a
\* successful drain goes on to CEFShutdown.
WaitEnds ==
  /\ at[Main] = "wait"
  /\ state \in {"BrowsersClosed", "Failed"}
  /\ Goto(Main, IF state = "BrowsersClosed" THEN "drained" ELSE "done")
  /\ UNCHANGED <<book, gate, cef, barrierTask, frame, toClose>>

WaitTimesOut ==
  /\ at[Main] = "wait"
  /\ state = "ClosingBrowsers"
  /\ Goto(Main, "done")
  /\ UNCHANGED <<book, gate, cef, barrierTask, frame, toClose>>

\* CEFShutdown around ::CefShutdown.
BeginCefShutdown ==
  /\ at[Main] = "drained"
  /\ state = "BrowsersClosed"
  /\ state' = "ShuttingDown"
  /\ Goto(Main, "cefShutdown")
  /\ UNCHANGED <<pending, closeReq, registered, barrierPosted,
                 gate, cef, barrierTask, frame, toClose>>

EndCefShutdown ==
  /\ at[Main] = "cefShutdown"
  /\ state' = "Stopped"
  /\ pending' = {} /\ closeReq' = {} /\ registered' = {}
  /\ barrierPosted' = FALSE
  /\ Goto(Main, "done")
  /\ UNCHANGED <<gate, cef, barrierTask, frame, toClose>>

-----------------------------------------------------------------------------
\* A step of a call that is under way on thread t.
CallStep(t) == \/ HostCreate(t) \/ CreationRefused(t) \/ PostAfterRefusal(t)
               \/ Quiesce(t) \/ PassGate(t) \/ ShutGate(t)
               \/ RequestClientClose(t) \/ HostClose(t)

\* A step of UIPlatformService::Shutdown after it began, or of CEFInitialize.
MainStep == \/ EndInitialize \/ CloseNext \/ PostFromCloseAll \/ WaitEnds
            \/ BeginCefShutdown \/ EndCefShutdown

\* The rest of a callback that CEF began.
UIStep == \/ Adopt \/ CloseNew \/ OnBrowserBeforeClose
          \/ PostFromCallback \/ BeforeCloseReturn

NewCall(t, c) == CreateBrowser(t, c) \/ BeginShutdown(t, c) \/ RequestClose(t, c)

\* Nothing is under way: the program may rest here.  Every other state without
\* a step is a deadlock.
Rest == /\ \A t \in Threads : at[t] \in {"idle", "done"}
        /\ ui = "idle"
        /\ ~barrierTask
        /\ UNCHANGED vars

Next == \/ BeginInitialize \/ BeginCloseAll \/ WaitTimesOut \/ MainStep
        \/ \E t \in Threads : CallStep(t) \/ \E c \in Clients : NewCall(t, c)
        \/ \E c \in Clients : AfterCreated(c) \/ Dispatch(c) \/ BeforeClose(c)
        \/ EndDispatch \/ UIStep \/ CompleteDrainBarrier
        \/ Rest

Spec == Init /\ [][Next]_vars

\* Work that CEF has queued for its UI thread; each item comes once.
QueuedOnUI == \/ \E c \in Clients : AfterCreated(c)
              \/ \E c \in Clients : cef[c] = "closing" /\ BeforeClose(c)
              \/ CompleteDrainBarrier

(* A thread inside a call takes its next step.  CEF finishes the creations *)
(* it accepted and the closes it was asked for, and runs its task queue in *)
(* order, so page messages cannot keep it from them for ever; a consumer   *)
(* callback makes finitely many calls and returns.  No fairness for new    *)
(* calls, page messages, pages that close themselves or the time-out.      *)
Fairness == /\ \A t \in Threads : WF_vars(CallStep(t))
            /\ WF_vars(MainStep)
            /\ WF_vars(UIStep)
            /\ SF_vars(EndDispatch)
            /\ SF_vars(QueuedOnUI)

FairSpec == Spec /\ Fairness

-----------------------------------------------------------------------------
(* Safety.                                                                 *)

\* CefShutdown never overlaps CEF's work for a browser: from BrowsersClosed on
\* every browser is gone, no OnBeforeClose is on the UI thread's stack (the
\* comment in CEFService::OnBrowserBeforeClose) and no barrier is in flight.
NoBrowserOutlivesDrain ==
  state \in {"BrowsersClosed", "ShuttingDown", "Stopped"} =>
    /\ \A c \in Clients : cef[c] \in {"none", "closed"}
    /\ ui = "idle"
    /\ ~barrierTask

\* The books of CEFService agree with what CEF has done for each client, at
\* every point between two critical sections: this is what makes the drain
\* count complete.
BooksMatchCef ==
  \A c \in Clients :
    /\ cef[c] = "requested" => c \in pending
    /\ c \in pending => \/ cef[c] = "requested"
                        \/ \E t \in Threads : on[t] = c /\ at[t] \in {"create", "refused"}
    /\ cef[c] \in {"live", "closing"} => c \in registered
    /\ c \in registered => cef[c] \in {"live", "closing", "destroying"}
    /\ c \in closeReq => c \in pending \cup registered

\* At most one barrier is in flight, and the flag says exactly when: a second
\* one would let a stale task end a later drain, a lost one would end none.
Posters == {t \in Threads : at[t] \in {"post", "postAll"}}
BarrierIsAccounted ==
  /\ barrierPosted <=> barrierTask \/ Posters # {} \/ ui = "postBarrier"
  /\ barrierTask => Posters = {} /\ ui # "postBarrier"
  /\ ui = "postBarrier" => Posters = {}
  /\ \A t, u \in Posters : t = u

\* Once a thread has come through BeginShutdown's wait, no consumer callback
\* of that client is running, except one that is closing its own client
\* (comments in MeridianCefClient::BeginShutdown and OnProcessMessageReceived).
CallbackFence ==
  \A t \in Threads \ {UI} :
    at[t] \in {"shutGate", "closeService", "hostClose"} =>
      ~(ui = "dispatch" /\ uiClient = on[t])

\* GetBrowser never hands out a browser that CEF is destroying, nor one whose
\* client was told to close before the browser existed.
HeldBrowserIsOpen ==
  \A c \in held : cef[c] \in {"live", "closing"}

-----------------------------------------------------------------------------
(* Liveness.                                                               *)

\* The shutdown drain reaches a verdict: no browser, pending creation or lost
\* barrier leaves the service in ClosingBrowsers.
DrainReachesVerdict ==
  state = "ClosingBrowsers" ~> state \in {"BrowsersClosed", "ShuttingDown", "Stopped", "Failed"}

\* A client that was told to close loses its browser whenever the browser
\* appears: before, during or after OnAfterCreated.
CloseIsHonoured ==
  \A c \in Clients :
    (c \in closeGate /\ cef[c] \in {"requested", "live", "closing"}) ~> cef[c] = "closed"

-----------------------------------------------------------------------------
(* Refinement.                                                             *)

phaseBar ==
  CASE state \in {"Uninitialized", "Initializing"}  -> "off"
    [] state = "Running"                            -> "running"
    [] state = "ClosingBrowsers"                    -> "closing"
    [] state \in {"BrowsersClosed", "ShuttingDown"} -> "drained"
    [] state = "Stopped"                            -> "down"
    [] state = "Failed"                             -> "failed"
    [] OTHER                                        -> "unavailable"

openBar == {c \in Clients : c \in pending \/ cef[c] \notin {"none", "closed"}}

Drain == INSTANCE BrowserDrain WITH Browsers <- Clients, phase <- phaseBar, open <- openBar

\* The service implements the promise: browsers open only while it runs, and it
\* stops CEF only when every browser it opened has gone.
ImplementsBrowserDrain == Drain!Spec
=============================================================================
