--------------------------- MODULE BrowserHandles ---------------------------
(***************************************************************************)
(* PublicAPIController's book of browsers and the references to them, and  *)
(* ViewAPIController's book of views, each of which owns one reference.    *)
(*                                                                         *)
(* A handle is in m_browserHandleMap under a name exactly while it is among*)
(* that name's references, and the name has an entry exactly while there   *)
(* are some: both maps change together.  Tokens come and go with views.    *)
(* Refusals that change nothing are not steps of their own.                *)
(***************************************************************************)
EXTENDS LayerList

VARIABLES
  \* PublicAPIController
  publicClosing,  \* m_isShuttingDown
  admission,      \* m_lifecycleAdmissionMutex: the thread that holds it
  mapLock,        \* m_mapMutex, while it is held over several steps
  refs,           \* m_browserNameMap[name].refHandles
  browser,        \* m_browserNameMap[name].browser
  closing,        \* m_closingBrowserNames
  \* ViewAPIController
  viewClosing,    \* m_isShuttingDown
  viewLock,       \* m_mutex, while it is held over several steps
  viewNames,      \* m_ownedBrowserNames
  views,          \* m_views
  tasks           \* SKSE tasks that release a view's browser

handles == <<publicClosing, admission, mapLock, refs, browser, closing>>
viewBook == <<viewClosing, viewLock, viewNames, views, tasks>>

Views == [view : Calls, name : ViewNames, menu : Calls]

HandlesTypeOK ==
  /\ publicClosing \in BOOLEAN /\ viewClosing \in BOOLEAN
  /\ {admission, mapLock, viewLock} \subseteq Threads \cup {None}
  /\ refs \in [BrowserNames -> SUBSET Calls]
  /\ browser \in [BrowserNames -> Calls \cup {None}]
  /\ closing \subseteq BrowserNames
  /\ viewNames \subseteq ViewNames
  /\ views \subseteq Views
  /\ tasks \subseteq Calls \X ViewNames

HandlesInit ==
  /\ publicClosing = FALSE /\ viewClosing = FALSE
  /\ admission = None /\ mapLock = None /\ viewLock = None
  /\ refs = [n \in BrowserNames |-> {}]
  /\ browser = [n \in BrowserNames |-> None]
  /\ closing = {}
  /\ viewNames = {} /\ views = {} /\ tasks = {}

-----------------------------------------------------------------------------
(* AddOrGetBrowser.                                                        *)

\* A consumer asks for a browser of its own.
AddOrGetBrowser(t, n) ==
  /\ Begin(t, "acquire", n)
  /\ UNCHANGED <<list, handles, viewBook>>

\* A request that is refused under the locks.  The fault takes a browser whose
\* last handle is just being released.
RefusesLate(n) == publicClosing
Refuses(n) == publicClosing \/ n \in closing

\* Both locks are taken: a name in use gives a new handle to its browser, a new
\* name a new browser, for which the locks are kept.
Acquire(t) ==
  LET n == frame[t].name
      h == frame[t].call
  IN /\ At(t, "acquire")
     /\ admission = None /\ mapLock = None
     /\ \/ /\ Refuses(n)
           /\ Obtain(t, None)
           /\ UNCHANGED <<admission, mapLock, refs>>
        \/ /\ ~Refuses(n) /\ refs[n] # {}
           /\ refs' = [refs EXCEPT ![n] = @ \cup {h}]
           /\ Obtain(t, h)
           /\ UNCHANGED <<admission, mapLock>>
        \/ /\ ~Refuses(n) /\ refs[n] = {}
           /\ admission' = t /\ mapLock' = t
           /\ Goto(t, "build")
           /\ UNCHANGED refs
     /\ UNCHANGED <<list, made, publicClosing, browser, closing, viewBook>>

\* A menu that is already listed is used; otherwise one is made, loaded and
\* listed.  If its page is refused the menu is destroyed at once.
Build(t) ==
  LET n == frame[t].name
      c == frame[t].call
  IN /\ At(t, "build")
     /\ admission' = None /\ mapLock' = None
     /\ \/ /\ IF layers[n] = None THEN List(n, c) ELSE UNCHANGED <<layers, running>>
           /\ browser' = [browser EXCEPT ![n] = layers'[n]]
           /\ refs' = [refs EXCEPT ![n] = {c}]
           /\ Obtain(t, c)
        \/ /\ layers[n] = None
           /\ Obtain(t, None)
           /\ UNCHANGED <<layers, running, browser, refs>>
     /\ UNCHANGED <<renderClosing, made, publicClosing, closing, viewBook>>

-----------------------------------------------------------------------------
(* ReleaseBrowserHandle.                                                   *)

\* A consumer gives a handle of its own back.
ReleaseBrowserHandle(t, n, h) ==
  /\ At(t, "idle")
  /\ h \in refs[n]
  /\ frame' = [frame EXCEPT ![t] = [Idle EXCEPT !.at = "release", !.name = n, !.handle = h]]
  /\ UNCHANGED <<list, made, handles, viewBook>>

\* The call ends.  A view whose publication failed made it under m_mutex.
EndRelease(t) == /\ Leave(t)
                 /\ viewLock' = IF viewLock = t THEN None ELSE viewLock

\* The section under m_mapMutex; the last reference takes the name with it.
DropHandle(t) ==
  LET n == frame[t].name
      h == frame[t].handle
  IN /\ At(t, "release")
     /\ mapLock = None
     /\ refs' = [refs EXCEPT ![n] = @ \ {h}]
     /\ \/ /\ refs[n] = {h}
           /\ browser' = [browser EXCEPT ![n] = None]
           /\ closing' = closing \cup {n}
           /\ frame' = [frame EXCEPT ![t] = Remover(t, {}, "forget")]
           /\ UNCHANGED viewLock
        \/ /\ refs[n] # {h}
           /\ EndRelease(t)
           /\ UNCHANGED <<browser, closing>>
     /\ UNCHANGED <<list, made, publicClosing, admission, mapLock,
                    viewClosing, viewNames, views, tasks>>

\* The section after RemoveSubMenu.
ForgetClosing(t) ==
  /\ At(t, "forget")
  /\ mapLock = None
  /\ closing' = closing \ {frame[t].name}
  /\ EndRelease(t)
  /\ UNCHANGED <<list, made, publicClosing, admission, mapLock, refs, browser,
                 viewClosing, viewNames, views, tasks>>

-----------------------------------------------------------------------------
(* Views.                                                                  *)

\* CreateView reads the flag before it takes the lock.
CreateView(t, n) ==
  /\ ~viewClosing
  /\ Begin(t, "reserve", n)
  /\ UNCHANGED <<list, handles, viewBook>>

\* The name is taken; the system may then have no random number for the token.
Reserve(t) ==
  /\ At(t, "reserve")
  /\ viewLock = None
  /\ \/ /\ frame[t].name \in viewNames
        /\ Leave(t)
        /\ UNCHANGED viewNames
     \/ /\ frame[t].name \notin viewNames
        /\ viewNames' = viewNames \cup {frame[t].name}
        /\ \/ Goto(t, "unreserve")
           \/ frame' = [frame EXCEPT ![t].at = "acquire", ![t].next = "publish"]
  /\ UNCHANGED <<list, made, handles, viewClosing, viewLock, views, tasks>>

\* The name of a view that came to nothing is given back.  The fault keeps it.
KeepName(n) == UNCHANGED viewNames
GiveName(n) == viewNames' = viewNames \ {n}

Unreserve(t) ==
  /\ At(t, "unreserve")
  /\ viewLock = None
  /\ GiveName(frame[t].name)
  /\ Leave(t)
  /\ UNCHANGED <<list, made, handles, viewClosing, viewLock, views, tasks>>

\* With a browser, the view is entered in the books, unless they have been
\* closed meanwhile: then the browser is released before m_mutex is.
Publish(t) ==
  LET n == frame[t].name
      h == frame[t].handle
  IN /\ At(t, "publish")
     /\ \/ /\ h = None
           /\ Goto(t, "unreserve")
           /\ UNCHANGED <<viewLock, viewNames, views>>
        \/ /\ h # None /\ viewLock = None /\ viewClosing
           /\ viewNames' = viewNames \ {n}
           /\ viewLock' = t
           /\ Goto(t, "release")
           /\ UNCHANGED views
        \/ /\ h # None /\ viewLock = None /\ ~viewClosing
           /\ views' = views \cup {[view |-> h, name |-> n, menu |-> browser[n]]}
           /\ Leave(t)
           /\ UNCHANGED <<viewLock, viewNames>>
     /\ UNCHANGED <<list, made, handles, viewClosing, tasks>>

\* DestroyView: the view and its name leave the books, then its browser goes.
DestroyView(t, v) ==
  /\ At(t, "idle")
  /\ viewLock = None
  /\ views' = views \ {v}
  /\ viewNames' = viewNames \ {v.name}
  /\ frame' = [frame EXCEPT ![t] = [Idle EXCEPT !.at = "drop", !.name = v.name, !.handle = v.view]]
  /\ UNCHANGED <<list, made, handles, viewClosing, viewLock, tasks>>

\* ReleaseBrowser: at once, or by a game task from inside a view's listener
\* (s_inDispatch), which runs on the UI thread.
ReleaseBrowser(t) ==
  /\ At(t, "drop")
  /\ \/ /\ Goto(t, "release")
        /\ UNCHANGED tasks
     \/ /\ t = UI
        /\ tasks' = tasks \cup {<<frame[t].handle, frame[t].name>>}
        /\ Leave(t)
  /\ UNCHANGED <<list, made, handles, viewClosing, viewLock, viewNames, views>>

RunTask(task) ==
  /\ At(Main, "idle")
  /\ task \in tasks
  /\ tasks' = tasks \ {task}
  /\ frame' = [frame EXCEPT ![Main] = [Idle EXCEPT !.at = "release",
                                                   !.handle = task[1], !.name = task[2]]]
  /\ UNCHANGED <<list, made, handles, viewClosing, viewLock, viewNames, views>>
=============================================================================
