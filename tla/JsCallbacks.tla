---------------------------- MODULE JsCallbacks ----------------------------
(***************************************************************************)
(* Functions that pages call, and the shutdown of the browsers they belong *)
(* to:                                                                     *)
(*   - JSFunctionStorage admits, counts and drains the callbacks of one    *)
(*     browser; the drain does not wait for its own caller's callback;     *)
(*   - MeridianCefClient holds its dispatch mutex while a page message is  *)
(*     handled, and its BeginShutdown waits for that mutex;                *)
(*   - RenderHost hands the menu of a browser to the one thread that shuts *)
(*     it down; its destructor shuts it down once more, on whichever       *)
(*     thread drops the last reference: the render thread also holds some. *)
(*                                                                         *)
(* A page sends messages only through CEF's UI thread, which handles one   *)
(* at a time, and SKSE runs one task at a time: a thread has at most one   *)
(* callback on its stack, so s_callbackDepth is 0 or 1.  The destructor    *)
(* calls BeginShutdown more than once in a row; the later calls find what  *)
(* the first has left and are one with it.                                 *)
(***************************************************************************)
EXTENDS Naturals, Sequences

CONSTANTS Browsers,    \* menus, with their storage and client
          Game,        \* the application thread: SKSE tasks, releases
          UI,          \* CEF's UI thread: page messages
          Render,      \* the render thread: Present
          Compositor,  \* the list of layers, as an owner of menus
          Inline,      \* functions that run on CEF's UI thread
          Queued,      \* functions with executeInGameThread
          NoBrowser,   \* "no browser" in a thread's frame
          NoFunc,      \* "no function" there
          MayRelease,  \* the consumers' discipline: <<thread, the browser
                       \* whose callback it is in, the browser released>>
          Rebound,     \* bound: the <<browser, function>> that consumers
                       \* remove and add again
          MaxTasks     \* bound: calls waiting in SKSE's task queue

Threads == {Game, UI, Render}
Funcs == Inline \cup Queued

ASSUME CallbackAssumption ==
  /\ Game # UI /\ Game # Render /\ UI # Render /\ Compositor \notin Threads
  /\ Inline \cap Queued = {} /\ NoFunc \notin Funcs
  /\ NoBrowser \notin Browsers
  /\ MayRelease \subseteq {Game, UI} \X (Browsers \cup {NoBrowser}) \X Browsers
  /\ Rebound \subseteq Browsers \X Funcs
  /\ MaxTasks \in Nat

VARIABLES
  \* JSFunctionStorage
  funcs,     \* m_funcCallbackMap
  drain,     \* m_callbackDrainState
  cleared,   \* m_callbackMapClearedForDrain
  active,    \* m_activeCallbackCount
  \* MeridianCefClient
  quiesced,  \* m_quiesceRequested
  \* owners
  holders,   \* who holds a shared_ptr to the menu
  toShut,    \* menus a thread took from the compositor and has yet to shut
  \* control
  tasks,     \* SKSE's task queue: calls of queued functions
  inside, fn, stage,  \* per thread: the callback on its stack
  at, on,    \* per thread: where in BeginShutdown, and of which browser
  fenced     \* history: the threads on which BeginShutdown has returned

storage == <<funcs, drain, cleared, active>>
owners  == <<holders, toShut>>
stack   == <<inside, fn, stage>>
call    == <<at, on, fenced>>
vars    == <<storage, quiesced, owners, tasks, stack, call>>

TypeOK ==
  /\ funcs \in [Browsers -> SUBSET Funcs]
  /\ drain \in [Browsers -> {"accepting", "draining", "drained"}]
  /\ cleared \in [Browsers -> BOOLEAN]
  /\ active \in [Browsers -> Nat]
  /\ quiesced \subseteq Browsers
  /\ holders \in [Browsers -> SUBSET (Threads \cup {Compositor})]
  /\ toShut \in [Threads -> SUBSET Browsers]
  /\ tasks \in Seq(Browsers \X Queued) /\ Len(tasks) <= MaxTasks
  /\ inside \in [Threads -> Browsers \cup {NoBrowser}]
  /\ fn \in [Threads -> Funcs \cup {NoFunc}]
  /\ stage \in [Threads -> {"none", "begin", "admitted", "run"}]
  /\ at \in [Threads -> {"idle", "gate", "drain", "waitActive", "waitDrained"}]
  /\ on \in [Threads -> Browsers \cup {NoBrowser}]
  /\ fenced \in [Browsers -> SUBSET Threads]

\* Every browser has been created with its functions and is in the compositor.
Init ==
  /\ funcs = [b \in Browsers |-> Funcs]
  /\ drain = [b \in Browsers |-> "accepting"]
  /\ cleared = [b \in Browsers |-> FALSE]
  /\ active = [b \in Browsers |-> 0]
  /\ quiesced = {}
  /\ holders = [b \in Browsers |-> {Compositor}]
  /\ toShut = [t \in Threads |-> {}]
  /\ tasks = <<>>
  /\ inside = [t \in Threads |-> NoBrowser]
  /\ fn = [t \in Threads |-> NoFunc]
  /\ stage = [t \in Threads |-> "none"]
  /\ at = [t \in Threads |-> "idle"]
  /\ on = [t \in Threads |-> NoBrowser]
  /\ fenced = [b \in Browsers |-> {}]

-----------------------------------------------------------------------------
(* A call of a page.                                                       *)

\* s_callbackDepth of the calling thread.
Depth(t, b) == IF inside[t] = b /\ stage[t] \in {"admitted", "run"} THEN 1 ELSE 0

Frame(t, b, f, s) == /\ inside' = [inside EXCEPT ![t] = b]
                     /\ fn' = [fn EXCEPT ![t] = f]
                     /\ stage' = [stage EXCEPT ![t] = s]
Pop(t) == Frame(t, NoBrowser, NoFunc, "none")

\* A thread that is shutting browsers down, or has yet to drop one it shut.
Busy(t) == \/ at[t] # "idle"
           \/ toShut[t] # {}
           \/ t # Render /\ \E b \in Browsers : t \in holders[b]

\* OnProcessMessageReceived lets the message through and DefaultBrowser finds
\* the function.  A queued one becomes a task of the game; an inline one is
\* called while the UI thread keeps the dispatch mutex.
Receive(b, f) ==
  /\ stage[UI] = "none" /\ ~Busy(UI)
  /\ b \notin quiesced
  /\ f \in funcs[b]
  /\ \/ /\ f \in Queued
        /\ Len(tasks) < MaxTasks
        /\ tasks' = Append(tasks, <<b, f>>)
        /\ UNCHANGED stack
     \/ /\ f \in Inline
        /\ Frame(UI, b, f, "begin")
        /\ UNCHANGED tasks
  /\ UNCHANGED <<storage, quiesced, owners, call>>

\* SKSE runs the next task.
StartTask ==
  /\ stage[Game] = "none" /\ ~Busy(Game)
  /\ tasks # <<>>
  /\ Frame(Game, Head(tasks)[1], Head(tasks)[2], "begin")
  /\ tasks' = Tail(tasks)
  /\ UNCHANGED <<storage, quiesced, owners, call>>

\* TryBeginFunctionCallback
Refused(t) == UNCHANGED active /\ Pop(t)
Admits(b) == drain[b] = "accepting"
TryBegin(t) ==
  /\ stage[t] = "begin"
  /\ \/ /\ Admits(inside[t])
        /\ active' = [active EXCEPT ![inside[t]] = @ + 1]
        /\ stage' = [stage EXCEPT ![t] = "admitted"]
        /\ UNCHANGED <<inside, fn>>
     \/ /\ ~Admits(inside[t])
        /\ Refused(t)
  /\ UNCHANGED <<funcs, drain, cleared, quiesced, owners, tasks, call>>

\* EndFunctionCallback: the last callback out ends a drain that its own
\* callback began.  The fault leaves the drain to somebody else.
LeaveDraining(b) == UNCHANGED drain
LastOutDrains(b) ==
  drain' = [drain EXCEPT ![b] =
              IF @ = "draining" /\ cleared[b] /\ active[b] = 1 THEN "drained" ELSE @]
EndCallback(t) == /\ active' = [active EXCEPT ![inside[t]] = @ - 1]
                  /\ LastOutDrains(inside[t])
                  /\ Pop(t)

\* GetFunctionCallbackData after admission: the binding may have gone.
Lookup(t) ==
  /\ stage[t] = "admitted"
  /\ \/ /\ fn[t] \in funcs[inside[t]]
        /\ stage' = [stage EXCEPT ![t] = "run"]
        /\ UNCHANGED <<active, drain, inside, fn>>
     \/ /\ fn[t] \notin funcs[inside[t]]
        /\ EndCallback(t)
  /\ UNCHANGED <<funcs, cleared, quiesced, owners, tasks, call>>

\* The consumer's function returns.
Return(t) ==
  /\ stage[t] = "run" /\ ~Busy(t)
  /\ EndCallback(t)
  /\ UNCHANGED <<funcs, cleared, quiesced, owners, tasks, call>>

\* AddFunctionCallback and RemoveFunctionCallback: any thread, until the menu
\* is gone.  After a drain they only change the map.
AddFunction(b, f) ==
  /\ <<b, f>> \in Rebound
  /\ holders[b] # {}
  /\ f \notin funcs[b]
  /\ funcs' = [funcs EXCEPT ![b] = @ \cup {f}]
  /\ UNCHANGED <<drain, cleared, active, quiesced, owners, tasks, stack, call>>

RemoveFunction(b, f) ==
  /\ <<b, f>> \in Rebound
  /\ holders[b] # {}
  /\ f \in funcs[b]
  /\ funcs' = [funcs EXCEPT ![b] = @ \ {f}]
  /\ UNCHANGED <<drain, cleared, active, quiesced, owners, tasks, stack, call>>

-----------------------------------------------------------------------------
(* Owners of a menu.                                                       *)

Listed == {b \in Browsers : Compositor \in holders[b]}

\* Compositor::Remove or Clear: the caller is now an owner, the list is not.
Take(t, B) ==
  /\ holders' = [b \in Browsers |-> IF b \in B THEN (holders[b] \ {Compositor}) \cup {t}
                                              ELSE holders[b]]
  /\ toShut' = [toShut EXCEPT ![t] = B]

\* The last handle is released: RenderHost::RemoveSubMenu.
RemoveSubMenu(t, b) ==
  /\ ~Busy(t)
  /\ stage[t] \in {"none", "run"}
  /\ <<t, inside[t], b>> \in MayRelease
  /\ b \in Listed
  /\ Take(t, {b})
  /\ UNCHANGED <<storage, quiesced, tasks, stack, call>>

\* RenderHost::BeginShutdown, from PublicAPIController::Shutdown.
Sweep ==
  /\ ~Busy(Game) /\ stage[Game] = "none"
  /\ Listed # {}
  /\ Take(Game, Listed)
  /\ UNCHANGED <<storage, quiesced, tasks, stack, call>>

\* OnPresent copies the list and with it the references.
Snapshot ==
  /\ at[Render] = "idle"
  /\ \A b \in Browsers : Render \notin holders[b]
  /\ Listed # {}
  /\ holders' = [b \in Browsers |-> IF b \in Listed THEN holders[b] \cup {Render} ELSE holders[b]]
  /\ UNCHANGED <<storage, quiesced, toShut, tasks, stack, call>>

-----------------------------------------------------------------------------
(* BeginShutdown of a browser.                                             *)

\* MeridianCefClient::BeginShutdown, its section under m_browserStateMutex.
Quiesce(t, b) == /\ quiesced' = quiesced \cup {b}
                 /\ at' = [at EXCEPT ![t] = "gate"]
                 /\ on' = [on EXCEPT ![t] = b]
                 /\ UNCHANGED fenced

BeginShutdown(t, b) ==
  /\ at[t] = "idle"
  /\ b \in toShut[t]
  /\ toShut' = [toShut EXCEPT ![t] = @ \ {b}]
  /\ Quiesce(t, b)
  /\ UNCHANGED <<storage, holders, tasks, stack>>

\* A reference goes; the last one takes the menu with it, and ~CEFMenu shuts
\* the browser down once more.
DropReference(t, b) ==
  /\ at[t] = "idle" /\ toShut[t] = {}
  /\ t \in holders[b]
  /\ holders' = [holders EXCEPT ![b] = @ \ {t}]
  /\ \/ /\ holders[b] = {t}
        /\ Quiesce(t, b)
     \/ /\ holders[b] # {t}
        /\ UNCHANGED <<quiesced, call>>
  /\ UNCHANGED <<storage, toShut, tasks, stack>>

\* m_callbackDispatchMutex is free, or is the caller's own (it is recursive).
DispatchFree(t, b) == t = UI \/ inside[UI] # b

PassGate(t) ==
  /\ at[t] = "gate"
  /\ DispatchFree(t, on[t])
  /\ at' = [at EXCEPT ![t] = "drain"]
  /\ UNCHANGED <<storage, quiesced, owners, tasks, stack, on, fenced>>

EndShutdown(t) == /\ at' = [at EXCEPT ![t] = "idle"]
                  /\ on' = [on EXCEPT ![t] = NoBrowser]
                  /\ fenced' = [fenced EXCEPT ![on[t]] = @ \cup {t}]

ClearMap(b) == funcs' = [funcs EXCEPT ![b] = {}]

\* DrainAndClearFunctionCallbacks as far as its first wait.
BeginDrain(t) ==
  LET b == on[t]
  IN /\ at[t] = "drain"
     /\ \/ /\ drain[b] = "draining" /\ Depth(t, b) > 0
           /\ EndShutdown(t)
           /\ UNCHANGED storage
        \/ /\ drain[b] = "draining" /\ Depth(t, b) = 0
           /\ at' = [at EXCEPT ![t] = "waitDrained"]
           /\ UNCHANGED <<storage, on, fenced>>
        \/ /\ drain[b] = "drained"
           /\ ClearMap(b)
           /\ EndShutdown(t)
           /\ UNCHANGED <<drain, cleared, active>>
        \/ /\ drain[b] = "accepting"
           /\ drain' = [drain EXCEPT ![b] = "draining"]
           /\ cleared' = [cleared EXCEPT ![b] = FALSE]
           /\ at' = [at EXCEPT ![t] = "waitActive"]
           /\ UNCHANGED <<funcs, active, on, fenced>>
     /\ UNCHANGED <<quiesced, owners, tasks, stack>>

\* The drain's owner has waited for all callbacks but its own.  The fault does
\* not wait.
WaitsForNone(t, b) == TRUE
OthersAreOut(t, b) == active[b] <= Depth(t, b)

FinishDrain(t) ==
  LET b == on[t]
  IN /\ at[t] = "waitActive"
     /\ OthersAreOut(t, b)
     /\ ClearMap(b)
     /\ cleared' = [cleared EXCEPT ![b] = TRUE]
     /\ drain' = [drain EXCEPT ![b] = IF active[b] = 0 THEN "drained" ELSE @]
     /\ EndShutdown(t)
     /\ UNCHANGED <<active, quiesced, owners, tasks, stack>>

\* A later caller, not in a callback, has waited for the drain to end.
AwaitDrained(t) ==
  /\ at[t] = "waitDrained"
  /\ drain[on[t]] = "drained"
  /\ ClearMap(on[t])
  /\ EndShutdown(t)
  /\ UNCHANGED <<drain, cleared, active, quiesced, owners, tasks, stack>>

-----------------------------------------------------------------------------
CallbackStep(t) == TryBegin(t) \/ Lookup(t) \/ Return(t)

ShutdownStep(t) == \/ PassGate(t) \/ BeginDrain(t) \/ FinishDrain(t) \/ AwaitDrained(t)
                   \/ \E b \in Browsers : BeginShutdown(t, b) \/ DropReference(t, b)

\* Nothing is under way.  Every other state without a step is a deadlock.
Rest == /\ \A t \in Threads : ~Busy(t) /\ stage[t] = "none"
        /\ tasks = <<>>
        /\ UNCHANGED vars

Next == \/ \E b \in Browsers, f \in Funcs : \/ Receive(b, f)
                                            \/ AddFunction(b, f)
                                            \/ RemoveFunction(b, f)
        \/ StartTask \/ Sweep \/ Snapshot
        \/ \E t \in Threads : \/ CallbackStep(t) \/ ShutdownStep(t)
                              \/ \E b \in Browsers : RemoveSubMenu(t, b)
        \/ Rest

Spec == Init /\ [][Next]_vars

(* A thread goes on with what it is in; a consumer's function makes        *)
(* finitely many calls and returns; OnPresent lets its snapshot go.  No    *)
(* fairness for page messages, tasks, new releases, changes of bindings.   *)
FairSpec == Spec /\ \A t \in Threads : WF_vars(CallbackStep(t)) /\ WF_vars(ShutdownStep(t))

-----------------------------------------------------------------------------
(* Properties.                                                             *)

\* Once BeginShutdown of a browser has returned on some thread, no function of
\* that browser runs or will run, save one that shut its own browser down and
\* has yet to return: an author may then unload what the callbacks use.  It
\* covers tasks that were queued before the release.
CallbacksQuiet ==
  \A b \in Browsers, t \in Threads :
    Depth(t, b) > 0 /\ fenced[b] # {} => t \in fenced[b]

\* Every release and every destructor gets through the gate and the drain, as
\* long as consumers keep the discipline MayRelease.
EveryShutdownReturns ==
  \A t \in Threads : at[t] # "idle" ~> at[t] = "idle"
=============================================================================
