--------------------------- MODULE PromiseRouting ---------------------------
(***************************************************************************)
(* A page calls a native function that returns a promise:                  *)
(*   - the renderer's PromiseRegistry numbers the call and keeps the       *)
(*     promise until a result arrives or its context is released;          *)
(*   - DefaultBrowser, on CEF's UI thread, routes the call and hands the   *)
(*     consumer a one-shot resolver (PromiseRouter, PromiseResolver);      *)
(*   - the consumer settles it from any of its threads, at any time;       *)
(*   - meanwhile the browser may be released, which shuts the gate of      *)
(*     MeridianCefClient three times before it asks CEF to close; or it    *)
(*     closes unasked: by its page, or by CloseAllBrowsersAndWait.         *)
(*                                                                         *)
(* Payloads do not matter: a result is known by the call it was computed   *)
(* for and by who settled it.  No call of this code loads a page in a      *)
(* browser whose renderer died, so a dead renderer is not replaced.        *)
(***************************************************************************)
EXTENDS Naturals, Sequences

CONSTANTS Browsers,   \* browsers, by CefBrowser::GetIdentifier
          Renderers,  \* renderer processes
          Mortal,     \* bound: the processes that may die
          Host,       \* the process that runs a browser's pages
          MaxCalls,   \* bound: how many promise calls the pages make
          Authors,    \* consumer threads that settle
          Released,   \* browsers whose owner may release them
          Overlap,    \* those whose release and unasked close may overlap
          NoCall,     \* "no call" in the hands of a thread
          Platform    \* the platform itself, which rejects unbound calls

Calls == 1..MaxCalls   \* in the order they are made

ASSUME PartiesAssumption == /\ Overlap \subseteq Released /\ Released \subseteq Browsers
                            /\ Host \in [Browsers -> Renderers]
                            /\ Mortal \subseteq Renderers
                            /\ MaxCalls \in Nat
                            /\ NoCall \notin Calls
                            /\ Platform \notin Authors

Nobody == "nobody"
ASSUME NobodyAssumption == Nobody \notin Browsers \cup Authors \cup {Platform}

VARIABLES
  \* renderers
  nextId,     \* PromiseRegistry::m_nextId, per process
  of,         \* the browser whose page made the call
  id,         \* callId
  page,       \* what the page's promise has come to
  answer,     \* the result the promise was settled with
  \* messages
  inbox,      \* IPC_JS_PROMISE_CALL on the way, per browser, in order
  results,    \* IPC_JS_PROMISE_RESULT on the way
  \* browser process
  ui,         \* the call TID_UI is dispatching under m_callbackDispatchMutex
  quiesced,   \* m_quiesceRequested
  held,       \* m_cefBrowser is set
  cef,        \* what CEF has done with the browser
  release,    \* how far the release of the browser has come
  routes,     \* PromiseRouter::m_routes, by its keys
  resolver,   \* PromiseResolver of the call
  first,      \* who settled the call first
  at, on      \* per author: the step of Settle it is in, and its call

renderer == <<nextId, of, id, page, answer>>
messages == <<inbox, results>>
browser  == <<quiesced, held, cef, release>>
router   == <<routes, resolver, first>>
vars     == <<renderer, messages, ui, browser, router, at, on>>

PageState == {"unused", "waiting", "answered", "drained", "lost"}

\* RenderHost::RemoveSubMenu shuts the menu down; its destructor does so
\* again, and so does DefaultBrowser::RequestClose.  (The destructor of
\* DefaultBrowser does so once more after the close has been asked for; the
\* gate has long been shut and passed, so it finds no route the third missed.)
Rounds == 3
ReleaseState == [stage : {"gate", "wait"}, round : 1..Rounds] \cup
                [stage : {"owned", "close", "done"}, round : {0}]

Results == (Calls \cup {NoCall}) \X (Authors \cup {Platform, Nobody})
NoResult == <<NoCall, Nobody>>

TypeOK ==
  /\ nextId \in [Renderers -> Nat]
  /\ of \in [Calls -> Browsers \cup {Nobody}]
  /\ id \in [Calls -> Nat]
  /\ page \in [Calls -> PageState]
  /\ answer \in [Calls -> Results]
  /\ inbox \in [Browsers -> Seq(Calls)]
  /\ results \subseteq [to : Renderers, id : Nat, what : Results]
  /\ ui \in Calls \cup {NoCall}
  /\ quiesced \subseteq Browsers /\ held \subseteq Browsers
  /\ cef \in [Browsers -> {"live", "closing", "closed"}]
  /\ release \in [Browsers -> ReleaseState]
  /\ routes \subseteq Browsers \X Nat
  /\ resolver \in [Calls -> {"none", "open", "settled"}]
  /\ first \in [Calls -> Authors \cup {Platform, Nobody}]
  /\ at \in [Authors -> {"idle", "take", "send"}]
  /\ on \in [Authors -> Calls \cup {NoCall}]

\* Every browser has been created and has a page; nothing has been called.
Init ==
  /\ nextId = [r \in Renderers |-> 1]
  /\ of = [k \in Calls |-> Nobody] /\ id = [k \in Calls |-> 0]
  /\ page = [k \in Calls |-> "unused"] /\ answer = [k \in Calls |-> NoResult]
  /\ inbox = [b \in Browsers |-> <<>>] /\ results = {}
  /\ ui = NoCall
  /\ quiesced = {} /\ held = Browsers
  /\ cef = [b \in Browsers |-> "live"]
  /\ release = [b \in Browsers |-> [stage |-> "owned", round |-> 0]]
  /\ routes = {}
  /\ resolver = [k \in Calls |-> "none"] /\ first = [k \in Calls |-> Nobody]
  /\ at = [t \in Authors |-> "idle"] /\ on = [t \in Authors |-> NoCall]

-----------------------------------------------------------------------------
(* Renderer processes.                                                     *)

\* CEFPromiseFunctionHandler::Execute: Register, then send the call.
MakeCall(k, b) ==
  /\ page[k] = "unused" /\ \A j \in 1..(k - 1) : page[j] # "unused"
  /\ cef[b] # "closed"
  /\ LET r == Host[b] IN
       /\ nextId[r] # 0     \* the process is alive
       /\ id' = [id EXCEPT ![k] = nextId[r]]
       /\ nextId' = [nextId EXCEPT ![r] = @ + 1]
  /\ of' = [of EXCEPT ![k] = b]
  /\ page' = [page EXCEPT ![k] = "waiting"]
  /\ inbox' = [inbox EXCEPT ![b] = Append(@, k)]
  /\ UNCHANGED <<answer, results, ui, browser, router, at, on>>

\* DrainContext: every promise of the frame is rejected, whatever its id.
\* The fault looks for another frame and finds none.
DrainNothing(b, verdict) == page
Drain(b, verdict) ==
  [k \in Calls |-> IF of[k] = b /\ page[k] = "waiting" THEN verdict ELSE page[k]]

\* OnContextReleased: the browser's page goes away for another one.
ContextReleased(b) ==
  /\ \E k \in Calls : of[k] = b /\ page[k] = "waiting"
  /\ cef[b] # "closed"
  /\ page' = Drain(b, "drained")
  /\ UNCHANGED <<nextId, of, id, answer, messages, ui, browser, router, at, on>>

\* A renderer process dies with every page and promise in it.  An id of 0
\* marks it dead; OnRenderProcessTerminated leaves the routes alone.
RendererDies(r) ==
  /\ r \in Mortal /\ nextId[r] # 0
  /\ nextId' = [nextId EXCEPT ![r] = 0]
  /\ page' = [k \in Calls |->
               IF page[k] = "waiting" /\ Host[of[k]] = r THEN "lost" ELSE page[k]]
  /\ UNCHANGED <<of, id, answer, messages, ui, browser, router, at, on>>

\* PromiseRegistry::Take for a result of the process: the pending promise of
\* that id, if there still is one.
Takes(m, k) == page[k] = "waiting" /\ Host[of[k]] = m.to /\ id[k] = m.id

\* OnProcessMessageReceived, IPC_JS_PROMISE_RESULT.
ReceiveResult(m) ==
  /\ m \in results
  /\ results' = results \ {m}
  /\ \/ \E k \in Calls : /\ Takes(m, k)
                         /\ page' = [page EXCEPT ![k] = "answered"]
                         /\ answer' = [answer EXCEPT ![k] = m.what]
     \/ /\ \A k \in Calls : ~Takes(m, k)
        /\ UNCHANGED <<page, answer>>
  /\ UNCHANGED <<nextId, of, id, inbox, ui, browser, router, at, on>>

-----------------------------------------------------------------------------
(* CEF's UI thread.                                                        *)

\* frame->SendProcessMessage to the browser's main frame, if it has one.
SendResult(b, i, what) ==
  results' = IF cef[b] = "closed" THEN results
             ELSE results \cup {[to |-> Host[b], id |-> i, what |-> what]}

\* OnProcessMessageReceived: the gate admits the call, or it is dropped.
AdmitCall(b) ==
  /\ ui = NoCall /\ inbox[b] # <<>> /\ cef[b] # "closed"
  /\ inbox' = [inbox EXCEPT ![b] = Tail(@)]
  /\ ui' = IF b \in quiesced THEN NoCall ELSE Head(inbox[b])
  /\ UNCHANGED <<renderer, results, browser, router, at, on>>

\* IPC_JS_PROMISE_CALL without a binding of that name: rejected at once.
RejectUnbound(k) ==
  /\ ui = k /\ k # NoCall
  /\ first' = [first EXCEPT ![k] = Platform]
  /\ SendResult(of[k], id[k], <<k, Platform>>)
  /\ ui' = NoCall
  /\ UNCHANGED <<renderer, inbox, browser, routes, resolver, at, on>>

\* IPC_JS_PROMISE_CALL with a binding: AddRoute and CreatePromiseResolver.
\* From here on the consumer has the resolver, be it in the callback or in
\* the game-thread task that runs it.
RouteCall(k) ==
  /\ ui = k /\ k # NoCall
  /\ routes' = routes \cup {<<of[k], id[k]>>}
  /\ resolver' = [resolver EXCEPT ![k] = "open"]
  /\ ui' = NoCall
  /\ UNCHANGED <<renderer, messages, browser, first, at, on>>

RoutesOf(b) == {r \in routes : r[1] = b}

\* OnBeforeClose: consumers hear of it, and DefaultBrowser drops the routes,
\* only if no shutdown has quiesced the client.  The page is gone by then.
BeforeClose(b) ==
  /\ ui = NoCall /\ cef[b] = "closing"
  /\ cef' = [cef EXCEPT ![b] = "closed"]
  /\ quiesced' = quiesced \cup {b}
  /\ held' = held \ {b}
  /\ routes' = IF b \in quiesced THEN routes ELSE routes \ RoutesOf(b)
  /\ page' = Drain(b, "drained")
  /\ UNCHANGED <<nextId, of, id, answer, messages, ui, release, resolver, first, at, on>>

\* CloseBrowser(true) from CloseAllBrowsersAndWait, or window.close() of the
\* page.
CloseUnasked(b) ==
  /\ cef[b] = "live"
  /\ b \in Overlap \/ release[b].stage = "owned"
  /\ cef' = [cef EXCEPT ![b] = "closing"]
  /\ UNCHANGED <<renderer, messages, ui, quiesced, held, release, router, at, on>>

-----------------------------------------------------------------------------
(* The release of a browser, on a thread other than TID_UI.                *)

To(b, stage, round) == release' = [release EXCEPT ![b] = [stage |-> stage, round |-> round]]
In(b, stage) == release[b].stage = stage

\* DefaultBrowser::BeginShutdown drops the routes of a browser it still has.
\* The fault drops them in the first round only.
DropsRoutesOnce(b, round) == b \in held /\ round = 1
DropsRoutes(b, round) == b \in held

DropBrowserRoutes(b, round) ==
  /\ routes' = IF DropsRoutes(b, round) THEN routes \ RoutesOf(b) ELSE routes
  /\ To(b, "gate", round)

\* ReleaseBrowserHandle with the last handle.
BeginRelease(b) ==
  /\ In(b, "owned") /\ b \in Released
  /\ b \in Overlap \/ cef[b] # "closing"
  /\ DropBrowserRoutes(b, 1)
  /\ UNCHANGED <<renderer, messages, ui, quiesced, held, cef, resolver, first, at, on>>

\* MeridianCefClient::BeginShutdown: shut the gate, then wait for the
\* dispatch under way.
ShutGate(b) ==
  /\ In(b, "gate")
  /\ quiesced' = quiesced \cup {b}
  /\ To(b, "wait", release[b].round)
  /\ UNCHANGED <<renderer, messages, ui, held, cef, router, at, on>>

DispatchEnded(b) == ui # NoCall => of[ui] # b

\* The wait is over: the next BeginShutdown, or on to the close.
MoreRounds(round) == round < Rounds

PassGate(b) ==
  /\ In(b, "wait") /\ DispatchEnded(b)
  /\ IF MoreRounds(release[b].round)
       THEN DropBrowserRoutes(b, release[b].round + 1)
       ELSE To(b, "close", 0) /\ UNCHANGED routes
  /\ UNCHANGED <<renderer, messages, ui, quiesced, held, cef, resolver, first, at, on>>

\* CEFService::RequestClientClose.
CloseBrowser(b) ==
  /\ In(b, "close")
  /\ cef' = [cef EXCEPT ![b] = IF @ = "live" THEN "closing" ELSE @]
  /\ To(b, "done", 0)
  /\ UNCHANGED <<renderer, messages, ui, quiesced, held, router, at, on>>

-----------------------------------------------------------------------------
(* PromiseResolver::Settle.                                                *)

\* m_settled.exchange(true).  A later call does nothing, and is no step.  The
\* fault goes ahead with every call.
SettlesUnguarded(k) == resolver[k] # "none"
SettlesFirst(k) == resolver[k] = "open"

BeginSettle(t, k) ==
  /\ at[t] = "idle" /\ SettlesFirst(k)
  /\ resolver' = [resolver EXCEPT ![k] = "settled"]
  /\ first' = [first EXCEPT ![k] = IF @ = Nobody THEN t ELSE @]
  /\ at' = [at EXCEPT ![t] = "take"] /\ on' = [on EXCEPT ![t] = k]
  /\ UNCHANGED <<renderer, messages, ui, browser, routes>>

Leave(t) == at' = [at EXCEPT ![t] = "idle"] /\ on' = [on EXCEPT ![t] = NoCall]

\* TakeRoute: no route, no result.
TakeRoute(t) ==
  /\ at[t] = "take"
  /\ LET route == <<of[on[t]], id[on[t]]>> IN
       /\ routes' = routes \ {route}
       /\ IF route \in routes THEN at' = [at EXCEPT ![t] = "send"] /\ UNCHANGED on
                              ELSE Leave(t)
  /\ UNCHANGED <<renderer, messages, ui, browser, resolver, first>>

Send(t) ==
  /\ at[t] = "send"
  /\ SendResult(of[on[t]], id[on[t]], <<on[t], t>>)
  /\ Leave(t)
  /\ UNCHANGED <<renderer, inbox, ui, browser, router>>

-----------------------------------------------------------------------------

RendererStep ==
  \/ \E k \in Calls, b \in Browsers : MakeCall(k, b)
  \/ \E b \in Browsers : ContextReleased(b)
  \/ \E r \in Renderers : RendererDies(r)
  \/ \E m \in results : ReceiveResult(m)

UIStep ==
  \/ \E b \in Browsers : AdmitCall(b) \/ BeforeClose(b) \/ CloseUnasked(b)
  \/ \E k \in Calls : RejectUnbound(k) \/ RouteCall(k)

ReleaseStep(b) ==
  ShutGate(b) \/ PassGate(b) \/ CloseBrowser(b)

SettleStep(t) == TakeRoute(t) \/ Send(t)

Next == \/ RendererStep
        \/ UIStep
        \/ \E b \in Browsers : BeginRelease(b) \/ ReleaseStep(b)
        \/ \E t \in Authors : SettleStep(t) \/ \E k \in Calls : BeginSettle(t, k)

Spec == Init /\ [][Next]_vars

\* Threads that have begun go on, CEF delivers what was sent and finishes a
\* close; nobody has to call, settle, navigate or release.
Fairness ==
  /\ WF_vars(\E m \in results : ReceiveResult(m))
  /\ WF_vars(\E b \in Browsers : AdmitCall(b) \/ BeforeClose(b))
  /\ WF_vars(\E k \in Calls : RejectUnbound(k) \/ RouteCall(k))
  /\ \A b \in Browsers : WF_vars(ReleaseStep(b))
  /\ \A t \in Authors : WF_vars(SettleStep(t))

FairSpec == Spec /\ Fairness

-----------------------------------------------------------------------------
(* Properties.                                                             *)

\* A promise is settled with the result computed for its own call, by the
\* first Resolve or Reject of that call's resolver, although ids repeat
\* across processes and authors race (IJSPromiseResolver, "One-shot").
AnswersMatch ==
  \A k \in Calls : page[k] = "answered" => answer[k] = <<k, first[k]>>

\* No route to a browser outlives it: a browser that is closed and released
\* has none, so a settle after the close finds nothing (PromiseRouter.h, "A
\* browser's routes are dropped at its shutdown").
NoRouteOutlivesBrowser ==
  \A b \in Browsers : In(b, "done") /\ cef[b] = "closed" => RoutesOf(b) = {}

\* A settle reaches the page: once a call's resolver has been used, its
\* promise does not wait for ever, whatever is released in between.
SettleReachesPage ==
  \A k \in Calls : first[k] # Nobody ~> page[k] # "waiting"
=============================================================================
