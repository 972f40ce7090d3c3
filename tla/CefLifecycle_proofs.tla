------------------------ MODULE CefLifecycle_proofs ------------------------
(***************************************************************************)
(* For every set of clients and worker threads: CefLifecycle keeps its     *)
(* types, drains before it stops CEF, fences consumer callbacks, and       *)
(* implements BrowserDrain.                                                *)
(***************************************************************************)
EXTENDS CefLifecycle, TLAPS

Open == {"live", "closing"}
BeforeCloseFrame == {"beforeClose", "postBarrier", "closeReturn"}
Loading(t, c) == on[t] = c /\ at[t] \in {"create", "refused"}
DrainedState == {"BrowsersClosed", "ShuttingDown", "Stopped"}

(***************************************************************************)
(* The inductive invariant, in named parts.                                *)
(***************************************************************************)

\* A call that is under way names its client; Main's own labels do not.
CallsOnClients ==
  \A t \in Threads :
    at[t] \in {"create", "refused", "stop", "stopWait", "close", "closeWait",
               "shutGate", "closeService", "hostClose"} => on[t] \in Clients

\* The books, client by client: which of them holds it follows from what CEF
\* has done and from the call that is creating it.
Books ==
  /\ \A c \in Clients :
       /\ cef[c] = "requested" => c \in pending
       /\ cef[c] \in Open => c \in registered
       /\ c \in registered => cef[c] \in Open \cup {"destroying"}
       /\ c \in pending => \/ cef[c] = "requested"
                           \/ cef[c] = "none" /\ \E t \in Threads : Loading(t, c)
       /\ c \in closeReq => c \in pending \cup registered
  /\ \A t \in Threads : at[t] \in {"create", "refused"} =>
       on[t] \in pending /\ cef[on[t]] = "none"
  /\ \A t, u \in Threads : /\ at[t] \in {"create", "refused"}
                           /\ at[u] \in {"create", "refused"}
                           /\ on[t] = on[u]
                           => t = u

\* A browser is being destroyed exactly while its OnBeforeClose is on the UI
\* thread's stack, and stays in the books for the first part of it.
Frames ==
  /\ ui = "idle" <=> uiClient = NoClient
  /\ ui \in {"createdKeep", "closeNew", "dispatch"} => cef[uiClient] \in Open
  /\ \A c \in Clients :
       cef[c] = "destroying" <=> ui \in BeforeCloseFrame /\ uiClient = c
  /\ ui = "beforeClose" => uiClient \in registered
  /\ ui \in {"postBarrier", "closeReturn"} => uiClient \notin registered

\* While a barrier is in flight nothing is outstanding, so nothing else can
\* end or fail the drain.
Barrier ==
  /\ BarrierIsAccounted
  /\ barrierPosted => state = "ClosingBrowsers" /\ pending = {} /\ registered = {}

\* After the drain nothing is left that CEF could still call back for.
Drained ==
  state \in DrainedState => pending = {} /\ registered = {} /\ ui = "idle"

\* Where the application thread is decides what may happen to the state.
MainPhase ==
  /\ at[Main] = "initialize" => state = "Initializing"
  /\ at[Main] = "cefShutdown" => state = "ShuttingDown"

\* A closing thread has quiesced its client, and beyond the wait no callback
\* of that client is left.
Fence ==
  \A t \in Threads :
    /\ at[t] \in {"stopWait", "closeWait", "shutGate", "closeService", "hostClose"} =>
         on[t] \in quiesced
    /\ t # UI /\ at[t] \in {"shutGate", "closeService", "hostClose"} =>
         ~(ui = "dispatch" /\ uiClient = on[t])

IInv == /\ TypeOK
        /\ CallsOnClients
        /\ Books
        /\ Frames
        /\ Barrier
        /\ Drained
        /\ MainPhase
        /\ Fence
        /\ HeldBrowserIsOpen

-----------------------------------------------------------------------------
(***************************************************************************)
(* Lemmas.                                                                 *)
(***************************************************************************)

\* Posting the barrier queues it and changes nothing else, or fails the
\* service and takes the flag back (PostDrainBarrier, FailDrainBarrierPost).
LEMMA PostOutcome ==
  ASSUME TypeOK, PostBarrier
  PROVE  /\ barrierTask' \in BOOLEAN /\ barrierPosted' \in BOOLEAN
         /\ state' \in LifecycleState
         /\ \/ barrierTask' /\ state' = state /\ (barrierPosted' <=> barrierPosted)
            \/ (barrierTask' <=> barrierTask) /\ state' = "Failed" /\ ~barrierPosted'
  <1>1. CASE /\ barrierTask' = TRUE
             /\ state' = state
             /\ barrierPosted' = barrierPosted
    <2>1. barrierTask' /\ barrierTask' \in BOOLEAN
      BY <1>1, Zenon
    <2> QED BY <1>1, <2>1, SMT DEF TypeOK
  <1>2. CASE /\ state' = "Failed"
             /\ barrierPosted' = FALSE
             /\ barrierTask' = barrierTask
    <2>1. ~barrierPosted' /\ barrierPosted' \in BOOLEAN
      BY <1>2, Zenon
    <2> QED BY <1>2, <2>1, SMT DEF TypeOK, LifecycleState
  <1> QED BY <1>1, <1>2 DEF PostBarrier

\* The invariant holds of the initial states.
LEMMA InitIInv == Init => IInv
  <1> SUFFICES ASSUME Init PROVE IInv
    OBVIOUS
  <1>1. /\ ~barrierPosted /\ barrierPosted \in BOOLEAN
        /\ ~barrierTask /\ barrierTask \in BOOLEAN
    BY Zenon DEF Init
  <1> QED
    BY <1>1, ThreadAssumption, SMT
    DEF Init, IInv, TypeOK, CallsOnClients, Books, Frames, Barrier, BarrierIsAccounted,
        Drained, MainPhase, Fence, HeldBrowserIsOpen, Posters, Threads, Open, BeforeCloseFrame, Loading,
        DrainedState, LifecycleState, BrowserState, UIFrame, CallLabel

\* A step of a call under way keeps the invariant.
LEMMA CallStepIInv ==
  ASSUME IInv, NEW t \in Threads, CallStep(t)
  PROVE  IInv'
  <1> USE ThreadAssumption
      DEF IInv, TypeOK, CallsOnClients, Books, Frames, Barrier,
              BarrierIsAccounted, Drained, MainPhase, Fence, HeldBrowserIsOpen,
              Threads, Posters, Open, BeforeCloseFrame, Loading,
              DrainedState, LifecycleState, BrowserState, UIFrame, CallLabel,
              Goto, Enter, InCallback, CanCall, CloseBrowser,
              book, gate, frame, calls
  <1>1. CASE HostCreate(t)
    BY <1>1, SMTT(30) DEF HostCreate
  <1>2. CASE CreationRefused(t)
    <2>1. TypeOK'
      <3>1. barrierPosted' \in BOOLEAN
        BY <1>2, Zenon DEF CreationRefused
      <3>2. at' \in [Threads -> CallLabel]
        <4>1. \/ at' = [at EXCEPT ![t] = "post"]
              \/ at' = [at EXCEPT ![t] = "idle"]
          BY <1>2, Zenon DEF CreationRefused
        <4> QED BY <4>1, SMT
      <3>3. on' \in [Threads -> Clients \cup {NoClient}]
        BY <1>2, Zenon DEF CreationRefused
      <3>4. /\ closeReq' \subseteq Clients /\ pending' \subseteq Clients
            /\ UNCHANGED <<state, registered, gate, cef, barrierTask, frame, toClose>>
        BY <1>2, Zenon DEF CreationRefused
      <3> QED BY <3>1, <3>2, <3>3, <3>4, Zenon
    <2>2. (CallsOnClients /\ MainPhase /\ Drained)'
      BY <1>2, SMTT(30) DEF CreationRefused
    <2>3. Books'
      BY <1>2, SMTT(30) DEF CreationRefused
    <2>4. (Frames /\ Fence /\ HeldBrowserIsOpen)'
      BY <1>2, SMTT(30) DEF CreationRefused
    <2>5. Barrier'
      BY <1>2, SMTT(30) DEF CreationRefused, ArmsBarrier, Outstanding
    <2> QED BY <2>1, <2>2, <2>3, <2>4, <2>5
  <1>3. CASE PostAfterRefusal(t)
    <2>1. PostBarrier /\ TypeOK
      BY <1>3 DEF PostAfterRefusal
    <2>2. (TypeOK /\ CallsOnClients /\ MainPhase)'
      BY <1>3, <2>1, PostOutcome, SMTT(30) DEF PostAfterRefusal
    <2>3. (Books /\ Frames /\ Fence /\ HeldBrowserIsOpen)'
      BY <1>3, SMTT(30) DEF PostAfterRefusal
    <2>4. (Barrier /\ Drained)'
      BY <1>3, <2>1, PostOutcome, SMTT(30) DEF PostAfterRefusal
    <2> QED BY <2>2, <2>3, <2>4
  <1>4. CASE Quiesce(t)
    BY <1>4, SMTT(30) DEF Quiesce
  <1>5. CASE PassGate(t)
    BY <1>5, SMTT(30) DEF PassGate, DispatchFree
  <1>6. CASE ShutGate(t)
    BY <1>6, SMTT(30) DEF ShutGate
  <1>7. CASE RequestClientClose(t)
    BY <1>7, SMTT(30) DEF RequestClientClose, Finds
  <1>8. CASE HostClose(t)
    BY <1>8, SMTT(30) DEF HostClose
  <1> QED
    BY <1>1, <1>2, <1>3, <1>4, <1>5, <1>6, <1>7, <1>8 DEF CallStep

\* So does the start of a call.
LEMMA NewCallIInv ==
  ASSUME IInv, NEW t \in Threads, NEW c \in Clients, NewCall(t, c)
  PROVE  IInv'
  <1> USE ThreadAssumption
      DEF IInv, TypeOK, CallsOnClients, Books, Frames, Barrier,
              BarrierIsAccounted, Drained, MainPhase, Fence, HeldBrowserIsOpen,
              Threads, Posters, Open, BeforeCloseFrame, Loading,
              DrainedState, LifecycleState, BrowserState, UIFrame, CallLabel,
              Goto, Enter, InCallback, CanCall, CloseBrowser,
              book, gate, frame, calls
  <1>1. CASE CreateBrowser(t, c)
    BY <1>1, SMTT(30) DEF CreateBrowser, CanLoad, CreationAdmitted
  <1>2. CASE BeginShutdown(t, c)
    BY <1>2, SMTT(30) DEF BeginShutdown
  <1>3. CASE RequestClose(t, c)
    BY <1>3, SMTT(30) DEF RequestClose
  <1> QED
    BY <1>1, <1>2, <1>3 DEF NewCall

\* So does what the UI thread does inside a callback.
LEMMA UIStepIInv ==
  ASSUME IInv, UIStep
  PROVE  IInv'
  <1> USE ThreadAssumption
      DEF IInv, TypeOK, CallsOnClients, Books, Frames, Barrier,
              BarrierIsAccounted, Drained, MainPhase, Fence, HeldBrowserIsOpen,
              Threads, Posters, Open, BeforeCloseFrame, Loading,
              DrainedState, LifecycleState, BrowserState, UIFrame, CallLabel,
              Goto, Enter, InCallback, CanCall, CloseBrowser,
              book, gate, frame, calls
  <1>1. CASE Adopt
    BY <1>1, SMTT(30) DEF Adopt
  <1>2. CASE CloseNew
    BY <1>2, SMTT(30) DEF CloseNew
  <1>3. CASE OnBrowserBeforeClose
    <2>1. barrierPosted' \in BOOLEAN
      BY <1>3, Zenon DEF OnBrowserBeforeClose, DrainBehind
    <2>2. (TypeOK /\ CallsOnClients /\ MainPhase)'
      <3>1. ui' \in UIFrame /\ uiClient' = uiClient
        <4>1. \/ ui' = "postBarrier"
              \/ ui' = "closeReturn"
          BY <1>3, Zenon DEF OnBrowserBeforeClose, DrainBehind
        <4>2. uiClient' = uiClient
          BY <1>3, SMT DEF OnBrowserBeforeClose, DrainBehind
        <4> QED BY <4>1, <4>2, SMT
      <3>2. /\ registered' \subseteq Clients /\ closeReq' \subseteq Clients
            /\ UNCHANGED <<state, pending, gate, cef, barrierTask, calls>>
        BY <1>3, Zenon DEF OnBrowserBeforeClose, DrainBehind
      <3> QED BY <2>1, <3>1, <3>2, Zenon
    <2>3. (Books /\ Frames /\ Drained /\ Fence /\ HeldBrowserIsOpen)'
      BY <1>3, SMTT(30) DEF OnBrowserBeforeClose, DrainBehind
    <2>4. Barrier'
      BY <1>3, SMTT(30) DEF OnBrowserBeforeClose, DrainBehind, ArmsBarrier, Outstanding
    <2> QED BY <2>2, <2>3, <2>4
  <1>4. CASE PostFromCallback
    <2>1. PostBarrier /\ TypeOK
      BY <1>4 DEF PostFromCallback
    <2>2. (TypeOK /\ CallsOnClients /\ MainPhase)'
      BY <1>4, <2>1, PostOutcome, SMTT(30) DEF PostFromCallback
    <2>3. (Books /\ Frames /\ Fence /\ HeldBrowserIsOpen)'
      BY <1>4, SMTT(30) DEF PostFromCallback
    <2>4. (Barrier /\ Drained)'
      BY <1>4, <2>1, PostOutcome, SMTT(30) DEF PostFromCallback
    <2> QED BY <2>2, <2>3, <2>4
  <1>5. CASE BeforeCloseReturn
    BY <1>5, SMTT(30) DEF BeforeCloseReturn
  <1> QED
    BY <1>1, <1>2, <1>3, <1>4, <1>5 DEF UIStep

\* So do the callbacks that CEF begins, their ends, and the barrier task.
LEMMA CallbackIInv ==
  ASSUME IInv,
         \/ \E c \in Clients : AfterCreated(c) \/ Dispatch(c) \/ BeforeClose(c)
         \/ EndDispatch
         \/ CompleteDrainBarrier
  PROVE  IInv'
  <1> USE ThreadAssumption
      DEF IInv, TypeOK, CallsOnClients, Books, Frames, Barrier,
              BarrierIsAccounted, Drained, MainPhase, Fence, HeldBrowserIsOpen,
              Threads, Posters, Open, BeforeCloseFrame, Loading,
              DrainedState, LifecycleState, BrowserState, UIFrame, CallLabel,
              Goto, Enter, InCallback, CanCall, CloseBrowser,
              book, gate, frame, calls
  <1>1. ASSUME NEW c \in Clients, AfterCreated(c) PROVE IInv'
    BY <1>1, SMTT(30) DEF AfterCreated, KeepsOpen
  <1>2. ASSUME NEW c \in Clients, Dispatch(c) PROVE IInv'
    BY <1>2, SMTT(30) DEF Dispatch
  <1>3. ASSUME NEW c \in Clients, BeforeClose(c) PROVE IInv'
    BY <1>3, SMTT(30) DEF BeforeClose, DropHandle
  <1>4. CASE EndDispatch
    BY <1>4, SMTT(30) DEF EndDispatch
  <1>5. CASE CompleteDrainBarrier
    <2>1. /\ ~barrierTask' /\ barrierTask' \in BOOLEAN
          /\ ~barrierPosted' /\ barrierPosted' \in BOOLEAN
      BY <1>5, Zenon DEF CompleteDrainBarrier
    <2> QED BY <1>5, <2>1, SMTT(30) DEF CompleteDrainBarrier, Outstanding
  <1> QED
    BY <1>1, <1>2, <1>3, <1>4, <1>5

\* So do the application thread's initialization and shutdown.
LEMMA MainIInv ==
  ASSUME IInv, BeginInitialize \/ BeginCloseAll \/ WaitTimesOut \/ MainStep
  PROVE  IInv'
  <1> USE ThreadAssumption
      DEF IInv, TypeOK, CallsOnClients, Books, Frames, Barrier,
              BarrierIsAccounted, Drained, MainPhase, Fence, HeldBrowserIsOpen,
              Threads, Posters, Open, BeforeCloseFrame, Loading,
              DrainedState, LifecycleState, BrowserState, UIFrame, CallLabel,
              Goto, Enter, InCallback, CanCall, CloseBrowser,
              book, gate, frame, calls
  <1>1. CASE BeginInitialize
    BY <1>1, SMTT(30) DEF BeginInitialize
  <1>2. CASE EndInitialize
    BY <1>2, SMTT(30) DEF EndInitialize
  <1>3. CASE BeginCloseAll
    <2>1. CASE /\ Goto(Main, "done")
               /\ UNCHANGED <<book, toClose>>
               /\ UNCHANGED <<gate, cef, barrierTask, frame>>
      BY <2>1, <1>3, SMTT(30) DEF BeginCloseAll
    <2>2. CASE /\ state = "Running" /\ state' = "ClosingBrowsers"
               /\ closeReq' = closeReq \cup pending \cup registered
               /\ toClose' = registered
               /\ ArmsBarrier("ClosingBrowsers", pending, registered)
               /\ barrierPosted' = TRUE
               /\ Goto(Main, "postAll")
               /\ UNCHANGED <<pending, registered, gate, cef, barrierTask, frame>>
      <3>1. barrierPosted' /\ barrierPosted' \in BOOLEAN
        BY <2>2, Zenon
      <3> QED BY <1>3, <2>2, <3>1, SMTT(30) DEF ArmsBarrier, Outstanding, BeginCloseAll
    <2>3. CASE /\ state = "Running" /\ state' = "ClosingBrowsers"
               /\ closeReq' = closeReq \cup pending \cup registered
               /\ toClose' = registered
               /\ ~ArmsBarrier("ClosingBrowsers", pending, registered)
               /\ barrierPosted' = barrierPosted
               /\ Goto(Main, "closeAll")
               /\ UNCHANGED <<pending, registered, gate, cef, barrierTask, frame>>
      <3>1. ~barrierPosted /\ barrierPosted' \in BOOLEAN /\ ~barrierPosted'
        BY <2>3, Zenon
      <3> QED BY <1>3, <2>3, <3>1, SMTT(30) DEF BeginCloseAll
    <2> QED
      BY <1>3, <2>1, <2>2, <2>3, Zenon DEF BeginCloseAll, Collect
  <1>4. CASE CloseNext
    BY <1>4, SMTT(30) DEF CloseNext
  <1>5. CASE PostFromCloseAll
    <2>1. PostBarrier /\ TypeOK
      BY <1>5 DEF PostFromCloseAll
    <2>2. (TypeOK /\ CallsOnClients /\ MainPhase)'
      BY <1>5, <2>1, PostOutcome, SMTT(30) DEF PostFromCloseAll
    <2>3. (Books /\ Frames /\ Fence /\ HeldBrowserIsOpen)'
      BY <1>5, SMTT(30) DEF PostFromCloseAll
    <2>4. (Barrier /\ Drained)'
      BY <1>5, <2>1, PostOutcome, SMTT(30) DEF PostFromCloseAll
    <2> QED BY <2>2, <2>3, <2>4
  <1>6. CASE WaitEnds
    BY <1>6, SMTT(30) DEF WaitEnds
  <1>7. CASE WaitTimesOut
    BY <1>7, SMTT(30) DEF WaitTimesOut
  <1>8. CASE BeginCefShutdown
    BY <1>8, SMTT(30) DEF BeginCefShutdown
  <1>9. CASE EndCefShutdown
    <2>1. ~barrierPosted' /\ barrierPosted' \in BOOLEAN
      BY <1>9, Zenon DEF EndCefShutdown
    <2> QED BY <1>9, <2>1, SMTT(30) DEF EndCefShutdown
  <1> QED
    BY <1>1, <1>2, <1>3, <1>4, <1>5, <1>6, <1>7, <1>8, <1>9 DEF MainStep

-----------------------------------------------------------------------------
(***************************************************************************)
(* The safety theorems.                                                    *)
(***************************************************************************)

\* Every step of the service, of a consumer thread or of CEF keeps the
\* invariant.
LEMMA StepIInv == IInv /\ [Next]_vars => IInv'
  <1> SUFFICES ASSUME IInv, [Next]_vars PROVE IInv'
    OBVIOUS
  <1>1. CASE BeginInitialize \/ BeginCloseAll \/ WaitTimesOut \/ MainStep
    BY <1>1, MainIInv
  <1>2. CASE \E t \in Threads : CallStep(t) \/ \E c \in Clients : NewCall(t, c)
    BY <1>2, CallStepIInv, NewCallIInv
  <1>3. CASE \/ \E c \in Clients : AfterCreated(c) \/ Dispatch(c) \/ BeforeClose(c)
             \/ EndDispatch
             \/ CompleteDrainBarrier
    BY <1>3, CallbackIInv
  <1>4. CASE UIStep
    BY <1>4, UIStepIInv
  <1>5. CASE UNCHANGED vars
    <2> USE <1>5 DEF vars, book, gate, frame, calls
    <2>1. TypeOK'
      BY SMT DEF IInv, TypeOK
    <2>2. (CallsOnClients /\ MainPhase /\ Drained /\ HeldBrowserIsOpen)'
      BY SMT DEF IInv, CallsOnClients, MainPhase, Drained, HeldBrowserIsOpen
    <2>3. Books'
      BY SMT DEF IInv, Books, Loading
    <2>4. (Frames /\ Fence)'
      BY SMT DEF IInv, Frames, Fence
    <2>5. Barrier'
      BY SMT DEF IInv, Barrier, BarrierIsAccounted, Posters
    <2> QED BY <2>1, <2>2, <2>3, <2>4, <2>5 DEF IInv
  <1> QED
    BY <1>1, <1>2, <1>3, <1>4, <1>5 DEF Next, Rest

\* The invariant holds throughout.
LEMMA Invariance == Spec => []IInv
  BY InitIInv, StepIInv, PTL DEF Spec

\* The variables keep their types, for every set of clients and threads.
THEOREM TypeCorrect == Spec => []TypeOK
  <1>1. IInv => TypeOK
    BY DEF IInv
  <1> QED BY Invariance, <1>1, PTL

\* CefShutdown never runs while CEF has a browser, an OnBeforeClose on its
\* stack or a barrier in its queue.
THEOREM DrainIsComplete == Spec => []NoBrowserOutlivesDrain
  <1>1. IInv => NoBrowserOutlivesDrain
    <2> SUFFICES ASSUME IInv, state \in DrainedState PROVE NoBrowserOutlivesDrain
      BY DEF NoBrowserOutlivesDrain, DrainedState
    <2>1. pending = {} /\ registered = {} /\ ui = "idle"
      BY DEF IInv, Drained
    <2>2. ~barrierTask
      BY DEF IInv, Barrier, BarrierIsAccounted, DrainedState
    <2>3. ASSUME NEW c \in Clients PROVE cef[c] \in {"none", "closed"}
      BY <2>1 DEF IInv, TypeOK, Books, Frames, Open, BeforeCloseFrame, BrowserState
    <2> QED BY <2>1, <2>2, <2>3 DEF NoBrowserOutlivesDrain
  <1> QED BY Invariance, <1>1, PTL

\* The books of CEFService agree with CEF between any two critical sections.
THEOREM BooksAgree == Spec => []BooksMatchCef
  <1>1. IInv => BooksMatchCef
    <2> SUFFICES ASSUME Books, NEW c \in Clients
                 PROVE  BooksMatchCef!(c)
      BY Zenon DEF IInv, BooksMatchCef
    <2> QED BY Zenon DEF Books, Loading, Open
  <1> QED BY Invariance, <1>1, PTL

\* The drain barrier is in flight exactly when its flag says so, and once.
THEOREM OneBarrier == Spec => []BarrierIsAccounted
  <1>1. IInv => BarrierIsAccounted
    BY DEF IInv, Barrier
  <1> QED BY Invariance, <1>1, PTL

\* A thread that has come through BeginShutdown's wait shares no moment with a
\* consumer callback of that client.
THEOREM FenceHolds == Spec => []CallbackFence
  <1>1. IInv => CallbackFence
    BY DEF IInv, Fence, CallbackFence
  <1> QED BY Invariance, <1>1, PTL

\* The browser handed to callers is one that CEF has not begun to destroy.
THEOREM HandleIsOpen == Spec => []HeldBrowserIsOpen
  <1>1. IInv => HeldBrowserIsOpen
    BY DEF IInv
  <1> QED BY Invariance, <1>1, PTL

-----------------------------------------------------------------------------
(***************************************************************************)
(* Refinement.                                                             *)
(***************************************************************************)

AbstractStep == Drain!Next \/ UNCHANGED <<phaseBar, openBar>>

\* A step that leaves the phase, the pending creations and the life of every
\* browser as they are is a stutter of the promise.
LEMMA StutterStep ==
  ASSUME UNCHANGED <<state, pending, cef>>
  PROVE  AbstractStep
  BY DEF AbstractStep, phaseBar, openBar

\* Posting the barrier is a stutter, or the service gives up the drain.
LEMMA PostStep ==
  ASSUME IInv, PostBarrier, barrierPosted, UNCHANGED <<pending, cef>>
  PROVE  AbstractStep
  <1>1. state = "ClosingBrowsers" /\ TypeOK
    BY DEF IInv, Barrier
  <1>2. CASE state' = state
    BY <1>2, StutterStep
  <1>3. CASE state' = "Failed"
    <2>1. phaseBar = "closing" /\ phaseBar' = "failed"
      BY <1>1, <1>3, SMT DEF phaseBar
    <2>2. openBar' = openBar
      BY DEF openBar
    <2> QED BY <2>1, <2>2 DEF AbstractStep, Drain!Next, Drain!GiveUp
  <1> QED BY <1>1, <1>2, <1>3, PostOutcome

\* A step of a call under way opens nothing; a refused creation closes again.
LEMMA CallStepRefines ==
  ASSUME IInv, NEW t \in Threads, CallStep(t)
  PROVE  AbstractStep
  <1> USE DEF book, gate, frame, calls
  <1>1. CASE HostCreate(t)
    <2>1. phaseBar' = phaseBar
      BY <1>1 DEF HostCreate, phaseBar
    <2>2. openBar' = openBar
      BY <1>1, SMT DEF HostCreate, openBar, IInv, Books, CallsOnClients, TypeOK
    <2> QED BY <2>1, <2>2 DEF AbstractStep
  <1>2. CASE CreationRefused(t)
    <2>1. phaseBar' = phaseBar
      BY <1>2 DEF CreationRefused, phaseBar
    <2>2. on[t] \in Clients /\ on[t] \in openBar
      BY <1>2, SMT DEF CreationRefused, openBar, IInv, Books, CallsOnClients
    <2>3. cef' = cef /\ pending' = pending \ {on[t]} /\ cef[on[t]] = "none"
      BY <1>2, SMT DEF CreationRefused, IInv, Books
    <2>4. openBar' = openBar \ {on[t]}
      BY <2>3 DEF openBar
    <2> QED BY <2>1, <2>2, <2>4 DEF AbstractStep, Drain!Next, Drain!Close
  <1>3. CASE PostAfterRefusal(t)
    <2>1. t \in Posters
      BY <1>3 DEF PostAfterRefusal, Posters
    <2>2. barrierPosted
      BY <2>1 DEF IInv, Barrier, BarrierIsAccounted
    <2> QED BY <1>3, <2>2, PostStep DEF PostAfterRefusal
  <1>4. CASE Quiesce(t) \/ PassGate(t) \/ ShutGate(t) \/ RequestClientClose(t)
    BY <1>4, StutterStep DEF Quiesce, PassGate, ShutGate, RequestClientClose
  <1>5. CASE HostClose(t)
    <2>1. phaseBar' = phaseBar
      BY <1>5 DEF HostClose, phaseBar
    <2>2. openBar' = openBar
      BY <1>5, SMT DEF HostClose, CloseBrowser, openBar, IInv, TypeOK, CallsOnClients
    <2> QED BY <2>1, <2>2 DEF AbstractStep
  <1> QED
    BY <1>1, <1>2, <1>3, <1>4, <1>5 DEF CallStep

\* A new call opens a browser, in the running phase only, or changes nothing.
LEMMA NewCallRefines ==
  ASSUME IInv, NEW t \in Threads, NEW c \in Clients, NewCall(t, c)
  PROVE  AbstractStep
  <1> USE DEF book, gate, frame, calls
  <1>1. CASE CreateBrowser(t, c)
    <2>1. phaseBar = "running" /\ phaseBar' = phaseBar
      BY <1>1, SMT DEF CreateBrowser, CreationAdmitted, phaseBar
    <2>2. c \notin openBar /\ openBar' = openBar \cup {c}
      BY <1>1, SMT DEF CreateBrowser, CreationAdmitted, CanLoad, openBar
    <2> QED BY <2>1, <2>2 DEF AbstractStep, Drain!Next, Drain!Open
  <1>2. CASE BeginShutdown(t, c) \/ RequestClose(t, c)
    BY <1>2, StutterStep DEF BeginShutdown, RequestClose
  <1> QED BY <1>1, <1>2 DEF NewCall

\* A callback that returns from OnBeforeClose closes its browser; the barrier
\* task ends the drain.  The rest of what the UI thread does is a stutter.
LEMMA UIRefines ==
  ASSUME IInv,
         \/ \E c \in Clients : AfterCreated(c) \/ Dispatch(c) \/ BeforeClose(c)
         \/ EndDispatch \/ UIStep \/ CompleteDrainBarrier
  PROVE  AbstractStep
  <1> USE DEF book, gate, frame, calls
  <1>1. ASSUME NEW c \in Clients, AfterCreated(c) \/ BeforeClose(c) PROVE AbstractStep
    <2>1. phaseBar' = phaseBar
      BY <1>1 DEF AfterCreated, BeforeClose, phaseBar
    <2>2. openBar' = openBar
      BY <1>1, SMT DEF AfterCreated, BeforeClose, openBar, IInv, TypeOK
    <2> QED BY <2>1, <2>2 DEF AbstractStep
  <1>2. ASSUME NEW c \in Clients, Dispatch(c) PROVE AbstractStep
    BY <1>2, StutterStep DEF Dispatch
  <1>3. CASE EndDispatch \/ Adopt \/ OnBrowserBeforeClose
    BY <1>3, StutterStep DEF EndDispatch, Adopt, OnBrowserBeforeClose, DrainBehind
  <1>4. CASE CloseNew
    <2>1. phaseBar' = phaseBar
      BY <1>4 DEF CloseNew, phaseBar
    <2>2. openBar' = openBar
      BY <1>4, SMT DEF CloseNew, CloseBrowser, openBar, IInv, TypeOK
    <2> QED BY <2>1, <2>2 DEF AbstractStep
  <1>5. CASE PostFromCallback
    <2>1. barrierPosted
      BY <1>5 DEF PostFromCallback, IInv, Barrier, BarrierIsAccounted
    <2> QED BY <1>5, <2>1, PostStep DEF PostFromCallback
  <1>6. CASE BeforeCloseReturn
    <2>1. phaseBar' = phaseBar
      BY <1>6 DEF BeforeCloseReturn, phaseBar
    <2>2. /\ uiClient \in Clients /\ cef[uiClient] = "destroying"
          /\ uiClient \notin pending
      BY <1>6, ThreadAssumption, SMT
      DEF BeforeCloseReturn, IInv, TypeOK, Frames, BeforeCloseFrame, Books
    <2>3. uiClient \in openBar /\ openBar' = openBar \ {uiClient}
      BY <1>6, <2>2, SMT DEF BeforeCloseReturn, openBar, IInv, TypeOK
    <2> QED BY <2>1, <2>2, <2>3 DEF AbstractStep, Drain!Next, Drain!Close
  <1>7. CASE CompleteDrainBarrier
    <2>1. openBar' = openBar
      BY <1>7 DEF CompleteDrainBarrier, openBar
    <2>2. CASE state' = state
      BY <1>7, <2>2, StutterStep DEF CompleteDrainBarrier
    <2>3. CASE state = "ClosingBrowsers" /\ ~Outstanding(pending, registered)
      <3>1. phaseBar = "closing" /\ phaseBar' = "drained"
        BY <1>7, <2>3, SMT DEF CompleteDrainBarrier, phaseBar
      <3>2. \A c \in Clients : c \notin pending /\ cef[c] \in {"none", "closed"}
        BY <1>7, <2>3, SMT
        DEF CompleteDrainBarrier, Outstanding, IInv, TypeOK, Books, Frames, Open,
            BeforeCloseFrame, BrowserState
      <3>3. openBar = {}
        BY <3>2 DEF openBar
      <3> QED BY <2>1, <3>1, <3>3 DEF AbstractStep, Drain!Next, Drain!Drain
    <2> QED BY <1>7, <2>2, <2>3 DEF CompleteDrainBarrier
  <1> QED
    BY <1>1, <1>2, <1>3, <1>4, <1>5, <1>6, <1>7 DEF UIStep

\* The application thread starts the platform, stops it opening browsers,
\* gives up, or finishes after the drain.
LEMMA MainRefines ==
  ASSUME IInv, BeginInitialize \/ BeginCloseAll \/ WaitTimesOut \/ MainStep
  PROVE  AbstractStep
  <1> USE DEF book, gate, frame, calls
  <1>1. CASE BeginInitialize
    <2>1. phaseBar' = phaseBar
      BY <1>1, SMT DEF BeginInitialize, phaseBar
    <2>2. openBar' = openBar
      BY <1>1 DEF BeginInitialize, openBar
    <2> QED BY <2>1, <2>2 DEF AbstractStep
  <1>2. CASE EndInitialize
    <2>1. phaseBar = "off" /\ phaseBar' \in {"running", "unavailable"}
      BY <1>2, SMT DEF EndInitialize, phaseBar, IInv, MainPhase
    <2>2. openBar' = openBar
      BY <1>2 DEF EndInitialize, openBar
    <2> QED BY <2>1, <2>2 DEF AbstractStep, Drain!Next, Drain!Start
  <1>3. CASE BeginCloseAll
    <2>1. openBar' = openBar
      BY <1>3, Zenon DEF BeginCloseAll, openBar
    <2>2. CASE UNCHANGED state
      BY <2>1, <2>2 DEF AbstractStep, phaseBar
    <2>3. CASE state = "Running" /\ state' = "ClosingBrowsers"
      <3>1. phaseBar = "running" /\ phaseBar' = "closing"
        BY <2>3, SMT DEF phaseBar
      <3> QED BY <2>1, <3>1 DEF AbstractStep, Drain!Next, Drain!StopOpening
    <2> QED BY <1>3, <2>2, <2>3, Zenon DEF BeginCloseAll
  <1>4. CASE CloseNext
    <2>1. phaseBar' = phaseBar
      BY <1>4 DEF CloseNext, phaseBar
    <2>2. openBar' = openBar
      BY <1>4, SMT DEF CloseNext, CloseBrowser, openBar, IInv, TypeOK
    <2> QED BY <2>1, <2>2 DEF AbstractStep
  <1>5. CASE PostFromCloseAll
    <2>1. Main \in Posters
      BY <1>5 DEF PostFromCloseAll, Posters, Threads
    <2>2. barrierPosted
      BY <2>1 DEF IInv, Barrier, BarrierIsAccounted
    <2> QED BY <1>5, <2>2, PostStep DEF PostFromCloseAll
  <1>6. CASE WaitEnds \/ WaitTimesOut
    BY <1>6, StutterStep DEF WaitEnds, WaitTimesOut
  <1>7. CASE BeginCefShutdown
    <2>1. phaseBar' = phaseBar
      BY <1>7, SMT DEF BeginCefShutdown, phaseBar
    <2>2. openBar' = openBar
      BY <1>7 DEF BeginCefShutdown, openBar
    <2> QED BY <2>1, <2>2 DEF AbstractStep
  <1>8. CASE EndCefShutdown
    <2>1. state = "ShuttingDown" /\ pending = {}
      BY <1>8, SMT DEF EndCefShutdown, IInv, MainPhase, Drained, DrainedState
    <2>2. phaseBar = "drained" /\ phaseBar' = "down"
      BY <1>8, <2>1, SMT DEF EndCefShutdown, phaseBar
    <2>3. openBar' = openBar
      BY <1>8, <2>1 DEF EndCefShutdown, openBar
    <2> QED BY <2>2, <2>3 DEF AbstractStep, Drain!Next, Drain!Finish
  <1> QED
    BY <1>1, <1>2, <1>3, <1>4, <1>5, <1>6, <1>7, <1>8 DEF MainStep

\* CEFService with its locks, threads and callbacks implements BrowserDrain:
\* browsers open only while it runs, and CEF goes down only when the last one
\* has gone.
THEOREM Implements == Spec => ImplementsBrowserDrain
  <1>1. Init => Drain!Init
    <2> SUFFICES ASSUME Init PROVE Drain!Init
      OBVIOUS
    <2>1. phaseBar = "off"
      BY SMT DEF Init, phaseBar
    <2>2. openBar = {}
      BY DEF Init, openBar
    <2> QED BY <2>1, <2>2 DEF Drain!Init
  <1>2. IInv /\ [Next]_vars => [Drain!Next]_(Drain!vars)
    <2> SUFFICES ASSUME IInv, [Next]_vars PROVE AbstractStep
      BY DEF AbstractStep, Drain!vars
    <2>1. CASE BeginInitialize \/ BeginCloseAll \/ WaitTimesOut \/ MainStep
      BY <2>1, MainRefines
    <2>2. CASE \E t \in Threads : CallStep(t) \/ \E c \in Clients : NewCall(t, c)
      BY <2>2, CallStepRefines, NewCallRefines
    <2>3. CASE \/ \E c \in Clients : AfterCreated(c) \/ Dispatch(c) \/ BeforeClose(c)
               \/ EndDispatch \/ UIStep \/ CompleteDrainBarrier
      BY <2>3, UIRefines
    <2>4. CASE UNCHANGED vars
      BY <2>4, StutterStep DEF vars, book
    <2> QED BY <2>1, <2>2, <2>3, <2>4 DEF Next, Rest
  <1> QED
    BY <1>1, <1>2, Invariance, PTL DEF Spec, ImplementsBrowserDrain, Drain!Spec

=============================================================================
