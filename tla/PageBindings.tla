---------------------------- MODULE PageBindings ----------------------------
(***************************************************************************)
(* What a consumer registers on one DefaultBrowser and what its page gets: *)
(* functions and promise functions bound by name, scripts to run, and URLs *)
(* to load, before the browser exists, while a page loads and afterwards.  *)
(*                                                                         *)
(* Every operation is one critical section of m_urlMutex, and so is the    *)
(* part of OnLoadStart and OnLoadEnd that matters here.  The renderer is   *)
(* external: it commits documents, tells of the start and the end of their *)
(* load, and receives messages in the order they were sent; those under    *)
(* way when it commits another document may be lost.                       *)
(***************************************************************************)
EXTENDS Naturals, Sequences, SequencesExt

CONSTANTS Names,         \* functions a consumer binds
          PromiseNames,  \* those of them that return promises
          Habits,        \* what consumer and page are given to: see PageInit
          MaxCalls,      \* bound: calls of the consumer
          MaxDocuments   \* bound: documents the renderer commits

ASSUME BindingsAssumption == /\ PromiseNames \subseteq Names
                             /\ Habits \subseteq SUBSET {"clear", "navigate"}
                             /\ MaxCalls \in Nat /\ MaxDocuments \in Nat

VARIABLES
  created,      \* m_cefClient->GetBrowser() is not null
  loaded,       \* m_isPageLoaded
  urlCached,    \* m_isUrlCached
  clear,        \* m_clearJSFunctions
  stored,       \* the names in m_jsFuncStorage and m_jsPromiseFuncCallbackMap
  addCache,     \* m_jsFuncCallbackInfoCache, m_jsPromiseFuncCallbackInfoCache
  removeCache,  \* m_jsFuncRemoveCache
  execCache,    \* m_jsExecCache
  \* renderer (external)
  request,      \* a navigation has been asked for
  document,     \* documents committed so far
  load,         \* how much of its load the browser process has been told
  channel,      \* messages to the main frame
  bound,        \* functions the document has
  ran,          \* scripts the document has run
  \* consumer
  habit,        \* whether clearing loads, page navigations are made
  called,       \* calls made
  owed          \* bindings registered and neither removed nor cleared

native == <<created, loaded, urlCached, clear, stored, addCache, removeCache, execCache>>
page   == <<request, document, load, channel, bound, ran>>
pageVars == <<native, page, habit, called, owed>>

Scripts == 1..MaxCalls
Message == [op : {"add", "remove"}, names : SUBSET Names, script : {0}] \cup
           [op : {"run"}, names : {{}}, script : Scripts]

PageTypeOK ==
  /\ created \in BOOLEAN /\ loaded \in BOOLEAN
  /\ urlCached \in BOOLEAN /\ clear \in BOOLEAN
  /\ stored \subseteq Names /\ addCache \subseteq Names
  /\ removeCache \subseteq Names \ PromiseNames
  /\ execCache \in Seq(Scripts)
  /\ request \in BOOLEAN /\ document \in 0..MaxDocuments
  /\ load \in {"none", "committed", "started", "ended"}
  /\ channel \in Seq(Message)
  /\ bound \subseteq Names /\ ran \in Seq(Scripts)
  /\ habit \in Habits /\ called \in 0..MaxCalls /\ owed \subseteq Names

\* AddOrGetBrowser has stored the functions given with the request; the
\* browser is being created with its start URL.
PageInit ==
  /\ created = FALSE /\ loaded = FALSE /\ urlCached = FALSE /\ clear = FALSE
  /\ stored \in SUBSET (Names \ PromiseNames)
  /\ addCache = {} /\ removeCache = {} /\ execCache = <<>>
  /\ request = TRUE /\ document = 0 /\ load = "none"
  /\ channel = <<>> /\ bound = {} /\ ran = <<>>
  /\ habit \in Habits /\ called = 0 /\ owed = stored

-----------------------------------------------------------------------------
(* The consumer's calls.                                                   *)

Call == called < MaxCalls /\ called' = called + 1

Binding(op, names) == [op |-> op, names |-> names, script |-> 0]
Run(script) == [op |-> "run", names |-> {}, script |-> script]

\* SendProcessMessage of one message per name is one message of all of them.
Send(messages) == channel' = channel \o messages
Nonempty(op, names) == IF names = {} THEN <<>> ELSE <<Binding(op, names)>>

\* AddFunctionCallback, AddPromiseFunctionCallback.  The fault leaves an
\* earlier removal waiting behind the new registration.
StillRemoved(n) == removeCache
NotRemoved(n) == removeCache \ {n}

AddCallback(n) ==
  /\ Call
  /\ owed' = owed \cup {n}
  /\ IF loaded
       THEN /\ stored' = stored \cup {n}
            /\ Send(<<Binding("add", {n})>>)
            /\ UNCHANGED <<addCache, removeCache>>
       ELSE /\ addCache' = addCache \cup {n}
            /\ removeCache' = NotRemoved(n)
            /\ UNCHANGED <<stored, channel>>
  /\ UNCHANGED <<created, loaded, urlCached, clear, execCache,
                 request, document, load, bound, ran, habit>>

\* Promise functions cannot be removed.
Removable(n) == n \notin PromiseNames

RemoveFunctionCallback(n) ==
  /\ Removable(n) /\ Call
  /\ owed' = owed \ {n}
  /\ stored' = stored \ {n}
  /\ IF loaded
       THEN /\ Send(<<Binding("remove", {n})>>)
            /\ UNCHANGED <<addCache, removeCache>>
       ELSE /\ addCache' = addCache \ {n}
            /\ removeCache' = IF n \in stored THEN removeCache ELSE removeCache \cup {n}
            /\ UNCHANGED channel
  /\ UNCHANGED <<created, loaded, urlCached, clear, execCache,
                 request, document, load, bound, ran, habit>>

\* ExecuteJavaScript: what was cached goes first.
ExecuteJavaScript ==
  /\ Call
  /\ IF loaded
       THEN /\ Send(<<Run(called')>>)
            /\ UNCHANGED execCache
       ELSE /\ execCache' = Append(execCache, called')
            /\ UNCHANGED channel
  /\ UNCHANGED <<created, loaded, urlCached, clear, stored, addCache, removeCache,
                 request, document, load, bound, ran, habit, owed>>

\* LoadBrowserURL: the flag is set at once, the URL waits if no page is loaded.
NavigateTo(clearing) ==
  /\ clear' = clearing
  /\ IF loaded
       THEN loaded' = FALSE /\ request' = TRUE /\ urlCached' = FALSE
       ELSE urlCached' = TRUE /\ UNCHANGED <<loaded, request>>

LoadBrowserURL(clearing) ==
  /\ clearing => "clear" \in habit
  /\ Call
  /\ NavigateTo(clearing)
  /\ owed' = IF clearing THEN {} ELSE owed
  /\ UNCHANGED <<created, stored, addCache, removeCache, execCache,
                 document, load, channel, bound, ran, habit>>

-----------------------------------------------------------------------------
(* Callbacks on CEF's UI thread.                                           *)

\* onAfterBrowserCreated: load the URL that was asked for meanwhile.
AfterCreated ==
  /\ ~created /\ created' = TRUE
  /\ IF urlCached THEN NavigateTo(clear) ELSE UNCHANGED <<clear, loaded, urlCached, request>>
  /\ UNCHANGED <<stored, addCache, removeCache, execCache,
                 document, load, channel, bound, ran, habit, called, owed>>

\* onMainFrameLoadStart: clear what was sent, or send it again to the new
\* document; then the registrations, then the removals that had to wait.
Resends == IF clear THEN {} ELSE stored

OnLoadStart ==
  /\ load = "committed" /\ load' = "started"
  /\ loaded' = FALSE
  /\ stored' = ((IF clear THEN {} ELSE stored) \cup addCache) \ removeCache
  /\ Send(Nonempty("add", Resends \cup addCache) \o Nonempty("remove", removeCache))
  /\ addCache' = {} /\ removeCache' = {}
  /\ UNCHANGED <<created, urlCached, clear, execCache, request, document, bound, ran,
                 habit, called, owed>>

\* onMainFrameLoadEnd: what was registered since the load started, and the
\* scripts, in the order of the calls.  The fault runs the last call first.
Backwards(scripts) == Reverse(scripts)
InOrder(scripts) == scripts

OnLoadEnd ==
  /\ load = "started" /\ load' = "ended"
  /\ loaded' = TRUE
  /\ stored' = (stored \cup addCache) \ removeCache
  /\ Send(Nonempty("add", addCache) \o Nonempty("remove", removeCache) \o
          [i \in 1..Len(execCache) |-> Run(InOrder(execCache)[i])])
  /\ addCache' = {} /\ removeCache' = {} /\ execCache' = <<>>
  /\ UNCHANGED <<created, urlCached, clear, request, document, bound, ran,
                 habit, called, owed>>

-----------------------------------------------------------------------------
(* The renderer.                                                           *)

\* A document is committed because the consumer or the page asked for it.
Commit ==
  /\ created /\ document < MaxDocuments
  /\ request \/ ("navigate" \in habit /\ load \in {"started", "ended"})
  /\ load # "committed"
  /\ document' = document + 1 /\ load' = "committed" /\ request' = FALSE
  /\ bound' = {} /\ ran' = <<>>
  /\ channel' \in {channel, <<>>}
  /\ UNCHANGED <<native, habit, called, owed>>

\* OnProcessMessageReceived: AddFunctionHandlers, AddPromiseFunctionHandlers,
\* RemoveFunctionHandlers, or a script.
ReceiveMessage ==
  /\ channel # <<>> /\ channel' = Tail(channel)
  /\ LET m == Head(channel) IN
       /\ bound' = CASE m.op = "add"    -> bound \cup m.names
                     [] m.op = "remove" -> bound \ m.names
                     [] m.op = "run"    -> bound
       /\ ran' = IF m.op = "run" THEN Append(ran, m.script) ELSE ran
  /\ UNCHANGED <<native, request, document, load, habit, called, owed>>

-----------------------------------------------------------------------------

ConsumerStep ==
  \/ \E n \in Names : AddCallback(n) \/ RemoveFunctionCallback(n)
  \/ ExecuteJavaScript
  \/ \E clearing \in BOOLEAN : LoadBrowserURL(clearing)

PageNext == \/ ConsumerStep
            \/ AfterCreated \/ OnLoadStart \/ OnLoadEnd
            \/ Commit \/ ReceiveMessage

PageSpec == PageInit /\ [][PageNext]_pageVars

-----------------------------------------------------------------------------
(* Properties.                                                             *)

Settled == loaded /\ channel = <<>> /\ load = "ended"

\* A binding survives until it is removed or a clearing LoadBrowserURL is
\* called after it (IBrowser.h, "Bindings survive navigation and reload"),
\* whether it came before creation, during a load or after it; and the page of a
\* settled browser has every function whose callback is stored.
BindingsSurvive == Settled => owed \subseteq stored /\ stored \subseteq bound

\* A document runs scripts in the order of the ExecuteJavaScript calls, the
\* cached ones first, and none twice.
ScriptsRunInOrder == \A i, j \in 1..Len(ran) : i < j => ran[i] < ran[j]

\* A URL that had to wait for a page is asked for once a page has loaded
\* (author guide, "all cache their work while the page is unloaded and replay
\* it at the next load").  TLC refutes it: see "Promises the code does not keep"
\* in the README.
CachedUrlIsLoaded == Settled => ~urlCached
=============================================================================
