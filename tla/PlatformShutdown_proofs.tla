----------------------- MODULE PlatformShutdown_proofs -----------------------
(***************************************************************************)
(* A shutdown of the platform against calls under way, for any number of   *)
(* threads, calls, names and consumers' functions: what a consumer holds   *)
(* is there until the shutdown begins, names come back on every way a call *)
(* can end, and a shutdown leaves nothing.                                 *)
(*                                                                         *)
(* A thread is where its frame says, and each step replaces one frame      *)
(* (Becomes); Kinds is the type of the state and what a frame has at each  *)
(* place.  Throughout holds always: who has the locks, which thread shuts  *)
(* down and how far it is, whose hands a layer that runs is in, what each  *)
(* part of the shutdown has emptied and keeps empty, and that the number   *)
(* of a call which has made nothing yet is nothing's.  ViewBook and Book   *)
(* tie the books of views, of browsers and of surfaces to the list of      *)
(* layers until the shutdown gets to them.                                 *)
(*                                                                         *)
(* There is a lemma for each way each action can end; it has one step for  *)
(* each part of the invariant.  The last section draws what the runs       *)
(* check from it.                                                          *)
(***************************************************************************)
EXTENDS PlatformShutdown, FiniteSetTheorems, TLAPS

-----------------------------------------------------------------------------
(* What the steps make of a thread's frame.                                *)

\* What thread t becomes, while the others stay where they are.
Becomes(t, at, call, name, handle, menus, next) ==
  /\ frame' \in [Threads -> Frames]
  /\ frame'[t].at = at /\ frame'[t].call = call /\ frame'[t].name = name
  /\ frame'[t].handle = handle /\ frame'[t].menus = menus /\ frame'[t].next = next
  /\ \A u \in Threads : u # t => frame'[u] = frame[u]

LEMMA Put ==
  ASSUME frame \in [Threads -> Frames], NEW t \in Threads, NEW f \in Frames,
         frame' = [frame EXCEPT ![t] = f]
  PROVE  Becomes(t, f.at, f.call, f.name, f.handle, f.menus, f.next)
  BY DEF Becomes

\* What the parts of a frame are.
LEMMA Fields ==
  ASSUME NEW f \in Frames
  PROVE  /\ f.at \in Labels /\ f.call \in Calls \cup {None} /\ f.name \in Names \cup {None}
         /\ f.handle \in Calls \cup {None} /\ f.menus \subseteq Calls /\ f.next \in Labels
  BY DEF Frames

LEMMA IdleIs ==
  /\ Idle \in Frames /\ Idle.at = "idle" /\ Idle.call = None /\ Idle.name = None
  /\ Idle.handle = None /\ Idle.menus = {} /\ Idle.next = "idle"
  BY DEF Idle, Frames, Labels

LEMMA GotoIs ==
  ASSUME frame \in [Threads -> Frames], NEW t \in Threads, NEW label \in Labels, Goto(t, label)
  PROVE  Becomes(t, label, frame[t].call, frame[t].name, frame[t].handle, frame[t].menus, frame[t].next)
  <1>1. PICK f : f = [frame[t] EXCEPT !.at = label]
    OBVIOUS
  <1>2. frame[t] \in Frames
    OBVIOUS
  <1>3. /\ f \in Frames /\ f.at = label /\ f.call = frame[t].call /\ f.name = frame[t].name
        /\ f.handle = frame[t].handle /\ f.menus = frame[t].menus /\ f.next = frame[t].next
    BY <1>1, <1>2 DEF Frames
  <1>4. frame' = [frame EXCEPT ![t] = f]
    BY <1>1 DEF Goto
  <1> QED BY <1>3, <1>4, Put

\* A call that ends leaves its thread idle.
LEMMA LeaveIs ==
  ASSUME frame \in [Threads -> Frames], NEW t \in Threads, Leave(t)
  PROVE  Becomes(t, "idle", None, None, None, {}, "idle")
  <1>1. frame' = [frame EXCEPT ![t] = Idle]
    BY DEF Leave
  <1> QED BY <1>1, IdleIs, Put

\* A call that begins takes the next number.
LEMMA BeginIs ==
  ASSUME frame \in [Threads -> Frames], made \in 0..MaxCalls, NEW t \in Threads,
         NEW label \in Labels, NEW n \in Names, Begin(t, label, n)
  PROVE  /\ Becomes(t, label, made + 1, n, None, {}, "idle")
         /\ made + 1 \in Calls /\ made' = made + 1 /\ At(t, "idle")
  <1>1. PICK f : f = [Idle EXCEPT !.at = label, !.call = made + 1, !.name = n]
    OBVIOUS
  <1>2. made + 1 \in Calls
    BY NamesAssumption DEF Begin, Calls
  <1>3. /\ f \in Frames /\ f.at = label /\ f.call = made + 1 /\ f.name = n
        /\ f.handle = None /\ f.menus = {} /\ f.next = "idle"
    BY <1>1, <1>2 DEF Frames, Idle, Labels
  <1>4. frame' = [frame EXCEPT ![t] = f]
    BY <1>1 DEF Begin
  <1>5. Becomes(t, label, made + 1, n, None, {}, "idle")
    BY <1>3, <1>4, Put
  <1> QED BY <1>2, <1>5 DEF Begin

\* AddOrGetBrowserInternal returns: to the consumer, or to CreateView.
LEMMA ObtainIs ==
  ASSUME frame \in [Threads -> Frames], NEW t \in Threads, NEW h \in Calls \cup {None}, Obtain(t, h)
  PROVE  IF frame[t].next = "idle" THEN Becomes(t, "idle", None, None, None, {}, "idle")
         ELSE Becomes(t, frame[t].next, frame[t].call, frame[t].name, h, {}, frame[t].next)
  <1>1. CASE frame[t].next = "idle"
    BY <1>1, LeaveIs DEF Obtain
  <1>2. CASE frame[t].next # "idle"
    <2>1. PICK f : f = [frame[t] EXCEPT !.at = frame[t].next, !.handle = h, !.menus = {}]
      OBVIOUS
    <2>2. frame[t] \in Frames
      OBVIOUS
    <2>3. /\ f \in Frames /\ f.at = frame[t].next /\ f.call = frame[t].call /\ f.name = frame[t].name
          /\ f.handle = h /\ f.menus = {} /\ f.next = frame[t].next
      BY <2>1, <2>2 DEF Frames
    <2>4. frame' = [frame EXCEPT ![t] = f]
      BY <1>2, <2>1 DEF Obtain
    <2> QED BY <1>2, <2>3, <2>4, Put
  <1> QED BY <1>1, <1>2

LEMMA ReturnIs ==
  ASSUME frame \in [Threads -> Frames], NEW t \in Threads, Return(t)
  PROVE  IF frame[t].next = "idle" THEN Becomes(t, "idle", None, None, None, {}, "idle")
         ELSE Becomes(t, frame[t].next, frame[t].call, frame[t].name, frame[t].handle, {}, frame[t].next)
  <1>1. frame[t].handle \in Calls \cup {None}
    BY Fields
  <1> QED BY <1>1, ObtainIs DEF Return

\* A thread goes to take a layer off the list.
LEMMA RemoverIs ==
  ASSUME frame \in [Threads -> Frames], NEW t \in Threads, NEW own \in SUBSET Calls,
         NEW next \in Labels, frame' = [frame EXCEPT ![t] = Remover(t, own, next)]
  PROVE  Becomes(t, "remove", frame[t].call, frame[t].name, frame[t].handle, own, next)
  <1>1. PICK f : f = Remover(t, own, next)
    OBVIOUS
  <1>2. frame[t] \in Frames
    OBVIOUS
  <1>3. /\ f \in Frames /\ f.at = "remove" /\ f.call = frame[t].call /\ f.name = frame[t].name
        /\ f.handle = frame[t].handle /\ f.menus = own /\ f.next = next
    BY <1>1, <1>2 DEF Frames, Remover, Labels
  <1> QED BY <1>1, <1>3, Put

\* A thread that takes layers off the list and goes on to shut them down.
LEMMA TakesIs ==
  ASSUME frame \in [Threads -> Frames], NEW t \in Threads, NEW taken \in SUBSET Calls,
         NEW next \in Labels,
         frame' = [frame EXCEPT ![t].at = "shut", ![t].menus = taken, ![t].next = next]
  PROVE  Becomes(t, "shut", frame[t].call, frame[t].name, frame[t].handle, taken, next)
  <1>1. PICK f : f = [frame[t] EXCEPT !.at = "shut", !.menus = taken, !.next = next]
    OBVIOUS
  <1>2. frame[t] \in Frames
    OBVIOUS
  <1>3. /\ f \in Frames /\ f.at = "shut" /\ f.call = frame[t].call /\ f.name = frame[t].name
        /\ f.handle = frame[t].handle /\ f.menus = taken /\ f.next = next
    BY <1>1, <1>2 DEF Frames, Labels
  <1>4. frame' = [frame EXCEPT ![t] = f]
    BY <1>1
  <1>5. Becomes(t, f.at, f.call, f.name, f.handle, f.menus, f.next)
    BY <1>3, <1>4, Put
  <1> QED BY <1>3, <1>5, Zenon

LEMMA RemoveIs ==
  ASSUME frame \in [Threads -> Frames], NEW t \in Threads, NEW taken \in SUBSET Calls,
         frame' = [frame EXCEPT ![t].at = "shut", ![t].menus = @ \cup taken]
  PROVE  Becomes(t, "shut", frame[t].call, frame[t].name, frame[t].handle,
                 frame[t].menus \cup taken, frame[t].next)
  <1>1. PICK f : f = [frame[t] EXCEPT !.at = "shut", !.menus = @ \cup taken]
    OBVIOUS
  <1>2. frame[t] \in Frames
    OBVIOUS
  <1>3. /\ f \in Frames /\ f.at = "shut" /\ f.call = frame[t].call /\ f.name = frame[t].name
        /\ f.handle = frame[t].handle /\ f.menus = frame[t].menus \cup taken /\ f.next = frame[t].next
    BY <1>1, <1>2 DEF Frames, Labels
  <1>4. frame' = [frame EXCEPT ![t] = f]
    BY <1>1
  <1>5. Becomes(t, f.at, f.call, f.name, f.handle, f.menus, f.next)
    BY <1>3, <1>4, Put
  <1> QED BY <1>3, <1>5, Zenon

\* A thread that begins a call about a handle.
\* A thread goes to give a handle back.
LEMMA HandlesIs ==
  ASSUME frame \in [Threads -> Frames], NEW t \in Threads, NEW label \in Labels,
         NEW n \in Names, NEW h \in Calls,
         frame' = [frame EXCEPT ![t] = [Idle EXCEPT !.at = label, !.name = n, !.handle = h]]
  PROVE  Becomes(t, label, None, n, h, {}, "idle")
  <1>1. PICK f : f = [Idle EXCEPT !.at = label, !.name = n, !.handle = h]
    OBVIOUS
  <1>2. /\ f \in Frames /\ f.at = label /\ f.call = None /\ f.name = n
        /\ f.handle = h /\ f.menus = {} /\ f.next = "idle"
    BY <1>1 DEF Frames, Idle, Labels
  <1> QED BY <1>1, <1>2, Put

LEMMA ReservesIs ==
  ASSUME frame \in [Threads -> Frames], NEW t \in Threads,
         frame' = [frame EXCEPT ![t].at = "acquire", ![t].next = "publish"]
  PROVE  Becomes(t, "acquire", frame[t].call, frame[t].name, frame[t].handle, frame[t].menus, "publish")
  <1>1. PICK f : f = [frame[t] EXCEPT !.at = "acquire", !.next = "publish"]
    OBVIOUS
  <1>2. frame[t] \in Frames
    OBVIOUS
  <1>3. /\ f \in Frames /\ f.at = "acquire" /\ f.call = frame[t].call /\ f.name = frame[t].name
        /\ f.handle = frame[t].handle /\ f.menus = frame[t].menus /\ f.next = "publish"
    BY <1>1, <1>2 DEF Frames, Labels
  <1>4. frame' = [frame EXCEPT ![t] = f]
    BY <1>1
  <1>5. Becomes(t, f.at, f.call, f.name, f.handle, f.menus, f.next)
    BY <1>3, <1>4, Put
  <1> QED BY <1>3, <1>5, Zenon

LEMMA DestroysIs ==
  ASSUME frame \in [Threads -> Frames], NEW t \in Threads, NEW n \in Names, NEW m \in Calls,
         frame' = [frame EXCEPT ![t] = Remover(t, {m}, "idle"), ![t].name = n]
  PROVE  Becomes(t, "remove", frame[t].call, n, frame[t].handle, {m}, "idle")
  <1>1. PICK f : f = [Remover(t, {m}, "idle") EXCEPT !.name = n]
    OBVIOUS
  <1>2. frame[t] \in Frames
    OBVIOUS
  <1>3. /\ f \in Frames /\ f.at = "remove" /\ f.call = frame[t].call /\ f.name = n
        /\ f.handle = frame[t].handle /\ f.menus = {m} /\ f.next = "idle"
    BY <1>1, <1>2 DEF Frames, Remover, Labels
  <1>4. frame' = [frame EXCEPT ![t] = f]
    BY <1>1
  <1>5. Becomes(t, f.at, f.call, f.name, f.handle, f.menus, f.next)
    BY <1>3, <1>4, Put
  <1> QED BY <1>3, <1>5, Zenon
-----------------------------------------------------------------------------
(* Where a thread is.                                                      *)

\* What a frame has, by where its thread is.
Shape(f) ==
  /\ f.at = "shut" => f.next \in {"forget", "freeName", "idle", "closeViews", "swap", "sweepLast", "done"}
  /\ f.at = "remove" => f.next \in {"forget", "freeName", "idle"}
  /\ f.at = "forget" => f.next = "forget"
  /\ f.at \in {"acquire", "build"} =>
       f.call \in Calls /\ f.name \in BrowserNames
         /\ (f.next = "idle" \/ (f.next = "publish" /\ f.name \in ViewNames))
  /\ f.at \in {"reserve", "unreserve", "publish", "drop"} => f.name \in ViewNames
  /\ f.at \in {"check", "add", "publishSurface", "freeName"} => f.name \in SurfaceNames
  /\ f.at \in {"reserve", "check", "add", "publishSurface"} => f.call \in Calls
  /\ f.at \in {"release", "forget"} => f.name \in BrowserNames
  /\ f.at \in {"release", "drop"} => f.handle \in Calls
  /\ f.at \in {"remove", "shut"} /\ f.next = "forget" => f.name \in BrowserNames
  /\ f.at \in {"remove", "shut"} /\ f.next \in {"freeName", "idle"} => f.name \in SurfaceNames

Kinds == TypeOK /\ \A t \in Threads : Shape(frame[t])

Rests(t)     == Becomes(t, "idle", None, None, None, {}, "idle")
Turns(t, at) == Becomes(t, at, frame[t].call, frame[t].name, frame[t].handle, frame[t].menus, frame[t].next)

\* A call for a browser ends: with handle h (or none) where a view is made of it.
Back(t, h) ==
  \/ frame[t].next = "idle" /\ Rests(t)
  \/ frame[t].next = "publish" /\ Becomes(t, "publish", frame[t].call, frame[t].name, h, {}, "publish")

\* No layer is None, and no call, name or thread is.
LEMMA Nobody == None \notin Calls /\ None \notin Names /\ None \notin Threads /\ Main \in Threads
  BY NamesAssumption DEF Threads

LEMMA FramesAre == ASSUME Kinds PROVE frame \in [Threads -> Frames] /\ made \in 0..MaxCalls
  BY DEF Kinds, TypeOK, ListTypeOK

LEMMA AcquireIs ==
  ASSUME Kinds, NEW t \in Threads, Acquire(t)
  PROVE  LET n == frame[t].name
         IN  /\ frame[t].at = "acquire" /\ n \in BrowserNames /\ frame[t].call \in Calls
             /\ frame[t].next = "publish" => n \in ViewNames
             /\ \/ Refuses(n) /\ Back(t, None) /\ UNCHANGED <<admission, mapLock, refs>>
                \/ /\ ~Refuses(n) /\ refs[n] # {} /\ Back(t, frame[t].call)
                   /\ refs' = [refs EXCEPT ![n] = @ \cup {frame[t].call}]
                   /\ UNCHANGED <<admission, mapLock>>
                \/ /\ ~Refuses(n) /\ refs[n] = {} /\ Turns(t, "build")
                   /\ admission' = t /\ mapLock' = t /\ UNCHANGED refs
  <1>1. frame \in [Threads -> Frames]
    BY FramesAre
  <1>2. frame[t].at = "acquire" /\ Shape(frame[t])
    BY DEF Acquire, At, Kinds
  <1>3. ASSUME NEW h \in {None, frame[t].call}, Obtain(t, h) PROVE Back(t, h)
    <2>1. h \in Calls \cup {None}
      BY <1>2 DEF Shape
    <2>2. IF frame[t].next = "idle" THEN Rests(t)
          ELSE Becomes(t, frame[t].next, frame[t].call, frame[t].name, h, {}, frame[t].next)
      BY <1>1, <1>3, <2>1, ObtainIs DEF Rests
    <2> QED BY <1>2, <2>2 DEF Back, Shape
  <1>4. Goto(t, "build") => Turns(t, "build")
    BY <1>1, GotoIs DEF Labels, Turns
  <1> QED BY <1>2, <1>3, <1>4 DEF Acquire, Shape

LEMMA BuildIs ==
  ASSUME Kinds, NEW t \in Threads, Build(t)
  PROVE  LET n == frame[t].name
             c == frame[t].call
         IN  /\ frame[t].at = "build" /\ n \in BrowserNames /\ c \in Calls
             /\ frame[t].next = "publish" => n \in ViewNames
             /\ \/ /\ Back(t, c)
                   /\ IF layers[n] = None THEN List(n, c) ELSE UNCHANGED <<layers, running>>
                   /\ browser' = [browser EXCEPT ![n] = layers'[n]] /\ refs' = [refs EXCEPT ![n] = {c}]
                \/ Back(t, None) /\ layers[n] = None /\ UNCHANGED <<layers, running, browser, refs>>
  <1>1. frame \in [Threads -> Frames]
    BY FramesAre
  <1>2. frame[t].at = "build" /\ Shape(frame[t])
    BY DEF Build, At, Kinds
  <1>3. ASSUME NEW h \in {None, frame[t].call}, Obtain(t, h) PROVE Back(t, h)
    <2>1. h \in Calls \cup {None}
      BY <1>2 DEF Shape
    <2>2. IF frame[t].next = "idle" THEN Rests(t)
          ELSE Becomes(t, frame[t].next, frame[t].call, frame[t].name, h, {}, frame[t].next)
      BY <1>1, <1>3, <2>1, ObtainIs DEF Rests
    <2> QED BY <1>2, <2>2 DEF Back, Shape
  <1>4. \/ Build(t) /\ Obtain(t, frame[t].call) /\ browser' = [browser EXCEPT ![frame[t].name] = layers'[frame[t].name]]
           /\ refs' = [refs EXCEPT ![frame[t].name] = {frame[t].call}]
           /\ IF layers[frame[t].name] = None THEN List(frame[t].name, frame[t].call) ELSE UNCHANGED <<layers, running>>
        \/ Obtain(t, None) /\ layers[frame[t].name] = None /\ UNCHANGED <<layers, running, browser, refs>>
    BY DEF Build
  <1> QED BY <1>2, <1>3, <1>4 DEF Shape

LEMMA DropIs ==
  ASSUME Kinds, NEW t \in Threads, DropHandle(t)
  PROVE  LET n == frame[t].name
             h == frame[t].handle
         IN  /\ frame[t].at = "release" /\ n \in BrowserNames /\ h \in Calls
             /\ refs' = [refs EXCEPT ![n] = @ \ {h}]
             /\ \/ /\ refs[n] = {h} /\ browser' = [browser EXCEPT ![n] = None] /\ closing' = closing \cup {n}
                   /\ Becomes(t, "remove", frame[t].call, n, h, {}, "forget")
                \/ refs[n] # {h} /\ Rests(t) /\ UNCHANGED <<browser, closing>>
  <1>1. frame \in [Threads -> Frames]
    BY FramesAre
  <1>2. frame[t].at = "release" /\ Shape(frame[t])
    BY DEF DropHandle, At, Kinds
  <1>3. EndRelease(t) => Rests(t)
    BY <1>1, LeaveIs DEF EndRelease, Rests
  <1>4. frame' = [frame EXCEPT ![t] = Remover(t, {}, "forget")] =>
          Becomes(t, "remove", frame[t].call, frame[t].name, frame[t].handle, {}, "forget")
    BY <1>1, RemoverIs DEF Labels
  <1> QED BY <1>2, <1>3, <1>4 DEF DropHandle, Shape

LEMMA PublishIs ==
  ASSUME Kinds, NEW t \in Threads, Publish(t)
  PROVE  LET n == frame[t].name
             h == frame[t].handle
         IN  /\ frame[t].at = "publish" /\ n \in ViewNames /\ h \in Calls \cup {None}
             /\ \/ h = None /\ Turns(t, "unreserve") /\ UNCHANGED <<viewNames, views>>
                \/ /\ h # None /\ viewClosing /\ Turns(t, "release")
                   /\ viewNames' = viewNames \ {n} /\ UNCHANGED views
                \/ /\ h # None /\ ~viewClosing /\ Rests(t) /\ UNCHANGED viewNames
                   /\ views' = views \cup {[view |-> h, name |-> n, menu |-> browser[n]]}
  <1>1. frame \in [Threads -> Frames]
    BY FramesAre
  <1>2. frame[t].at = "publish" /\ Shape(frame[t]) /\ frame[t].handle \in Calls \cup {None}
    BY <1>1, Fields DEF Publish, At, Kinds
  <1>3. Leave(t) => Rests(t)
    BY <1>1, LeaveIs DEF Rests
  <1>4. (Goto(t, "unreserve") => Turns(t, "unreserve")) /\ (Goto(t, "release") => Turns(t, "release"))
    BY <1>1, GotoIs DEF Labels, Turns
  <1> QED BY <1>2, <1>3, <1>4 DEF Publish, Shape

LEMMA AskIs ==
  ASSUME Kinds, NEW t \in Threads, NEW n \in BrowserNames, AddOrGetBrowser(t, n)
  PROVE  /\ frame[t].at = "idle" /\ Becomes(t, "acquire", made + 1, n, None, {}, "idle")
         /\ made' = made + 1 /\ made + 1 \in Calls
  <1>1. n \in Names /\ "acquire" \in Labels
    BY DEF Names, Labels
  <1> QED BY <1>1, FramesAre, BeginIs DEF AddOrGetBrowser, At

LEMMA AskViewIs ==
  ASSUME Kinds, NEW t \in Threads, NEW n \in ViewNames, CreateView(t, n)
  PROVE  /\ frame[t].at = "idle" /\ Becomes(t, "reserve", made + 1, n, None, {}, "idle")
         /\ made' = made + 1 /\ made + 1 \in Calls
  <1>1. n \in Names /\ "reserve" \in Labels
    BY DEF Names, BrowserNames, Labels
  <1> QED BY <1>1, FramesAre, BeginIs DEF CreateView, At

LEMMA AskSurfaceIs ==
  ASSUME Kinds, NEW t \in Threads, NEW n \in SurfaceNames, CreateSurface(t, n)
  PROVE  /\ frame[t].at = "idle" /\ Becomes(t, "check", made + 1, n, None, {}, "idle")
         /\ made' = made + 1 /\ made + 1 \in Calls
         /\ n \notin surfNames /\ surfNames' = surfNames \cup {n}
  <1>1. n \in Names /\ "check" \in Labels
    BY DEF Names, Labels
  <1> QED BY <1>1, FramesAre, BeginIs DEF CreateSurface, At

LEMMA GiveBackIs ==
  ASSUME Kinds, NEW t \in Threads, NEW n \in BrowserNames, NEW h \in refs[n], ReleaseBrowserHandle(t, n, h)
  PROVE  frame[t].at = "idle" /\ Becomes(t, "release", None, n, h, {}, "idle") /\ h \in Calls
  <1>1. n \in Names /\ h \in Calls /\ "release" \in Labels
    BY DEF Names, Labels, Kinds, TypeOK, HandlesTypeOK
  <1> QED BY <1>1, FramesAre, HandlesIs DEF ReleaseBrowserHandle, At

LEMMA DestroyViewIs ==
  ASSUME Kinds, NEW t \in Threads, NEW v \in views, DestroyView(t, v)
  PROVE  /\ frame[t].at = "idle" /\ Becomes(t, "drop", None, v.name, v.view, {}, "idle")
         /\ v.name \in ViewNames /\ v.view \in Calls
         /\ views' = views \ {v} /\ viewNames' = viewNames \ {v.name}
  <1>1. v.name \in ViewNames /\ v.view \in Calls
    BY DEF Kinds, TypeOK, HandlesTypeOK, Views
  <1>2. v.name \in Names /\ "drop" \in Labels
    BY <1>1 DEF Names, BrowserNames, Labels
  <1> QED BY <1>1, <1>2, FramesAre, HandlesIs DEF DestroyView, At

LEMMA RunTaskIs ==
  ASSUME Kinds, NEW task \in tasks, RunTask(task)
  PROVE  /\ frame[Main].at = "idle" /\ Becomes(Main, "release", None, task[2], task[1], {}, "idle")
         /\ task[2] \in ViewNames /\ task[1] \in Calls /\ tasks' = tasks \ {task}
  <1>1. task[2] \in ViewNames /\ task[1] \in Calls
    BY DEF Kinds, TypeOK, HandlesTypeOK
  <1>2. task[2] \in Names /\ "release" \in Labels
    BY <1>1 DEF Names, BrowserNames, Labels
  <1>3. frame' = [frame EXCEPT ![Main] = [Idle EXCEPT !.at = "release", !.name = task[2], !.handle = task[1]]]
    BY DEF RunTask, Idle
  <1> QED BY <1>1, <1>2, <1>3, Nobody, FramesAre, HandlesIs DEF RunTask, At

LEMMA ReserveIs ==
  ASSUME Kinds, NEW t \in Threads, Reserve(t)
  PROVE  LET n == frame[t].name
         IN  /\ frame[t].at = "reserve" /\ n \in ViewNames /\ frame[t].call \in Calls
             /\ \/ Rests(t) /\ UNCHANGED viewNames
                \/ /\ n \notin viewNames /\ viewNames' = viewNames \cup {n}
                   /\ \/ Turns(t, "unreserve")
                      \/ Becomes(t, "acquire", frame[t].call, n, frame[t].handle, frame[t].menus, "publish")
  <1>1. frame \in [Threads -> Frames]
    BY FramesAre
  <1>2. frame[t].at = "reserve" /\ Shape(frame[t])
    BY DEF Reserve, At, Kinds
  <1>3. (Leave(t) => Rests(t)) /\ (Goto(t, "unreserve") => Turns(t, "unreserve"))
    BY <1>1, LeaveIs, GotoIs DEF Rests, Turns, Labels
  <1> QED BY <1>1, <1>2, <1>3, ReservesIs DEF Reserve, Shape

LEMMA UnreserveIs ==
  ASSUME Kinds, NEW t \in Threads, Unreserve(t)
  PROVE  /\ frame[t].at = "unreserve" /\ frame[t].name \in ViewNames
         /\ Rests(t) /\ viewNames' = viewNames \ {frame[t].name}
  BY FramesAre, LeaveIs DEF Unreserve, GiveName, At, Kinds, Shape, Rests

LEMMA ForgetIs ==
  ASSUME Kinds, NEW t \in Threads, ForgetClosing(t)
  PROVE  /\ frame[t].at = "forget" /\ frame[t].name \in BrowserNames
         /\ Rests(t) /\ closing' = closing \ {frame[t].name}
  BY FramesAre, LeaveIs DEF ForgetClosing, EndRelease, At, Kinds, Shape, Rests

LEMMA ReleaseViewIs ==
  ASSUME Kinds, NEW t \in Threads, ReleaseBrowser(t)
  PROVE  LET n == frame[t].name
             h == frame[t].handle
         IN  /\ frame[t].at = "drop" /\ n \in ViewNames /\ h \in Calls
             /\ \/ Turns(t, "release") /\ UNCHANGED tasks
                \/ Rests(t) /\ tasks' = tasks \cup {<<h, n>>}
  <1>1. frame \in [Threads -> Frames]
    BY FramesAre
  <1>2. frame[t].at = "drop" /\ Shape(frame[t])
    BY DEF ReleaseBrowser, At, Kinds
  <1>3. (Leave(t) => Rests(t)) /\ (Goto(t, "release") => Turns(t, "release"))
    BY <1>1, LeaveIs, GotoIs DEF Rests, Turns, Labels
  <1> QED BY <1>2, <1>3 DEF ReleaseBrowser, Shape

LEMMA RemoveSubMenuIs ==
  ASSUME Kinds, NEW t \in Threads, RemoveSubMenu(t)
  PROVE  LET n == frame[t].name
         IN  /\ frame[t].at = "remove" /\ frame[t].next \in {"forget", "freeName", "idle"}
             /\ n \in Names /\ frame[t].menus \subseteq Calls
             /\ Becomes(t, "shut", frame[t].call, n, frame[t].handle,
                        frame[t].menus \cup ({layers[n]} \ {None}), frame[t].next)
             /\ layers' = [layers EXCEPT ![n] = None]
  <1>1. frame \in [Threads -> Frames]
    BY FramesAre
  <1>2. frame[t].at = "remove" /\ Shape(frame[t]) /\ frame[t].menus \subseteq Calls
    BY <1>1, Fields DEF RemoveSubMenu, At, Kinds
  <1>3. frame[t].next \in {"forget", "freeName", "idle"} /\ frame[t].name \in Names
    BY <1>2 DEF Shape, Names
  <1>4. Listed({frame[t].name}) = {layers[frame[t].name]} \ {None} /\ Listed({frame[t].name}) \in SUBSET Calls
    BY <1>3 DEF Listed, Kinds, TypeOK, ListTypeOK
  <1>5. frame' = [frame EXCEPT ![t].at = "shut", ![t].menus = @ \cup Listed({frame[t].name})]
    BY DEF RemoveSubMenu
  <1>6. Becomes(t, "shut", frame[t].call, frame[t].name, frame[t].handle,
                frame[t].menus \cup Listed({frame[t].name}), frame[t].next)
    BY <1>1, <1>4, <1>5, RemoveIs
  <1>7. layers' = [layers EXCEPT ![frame[t].name] = None]
    BY DEF RemoveSubMenu
  <1> QED BY <1>2, <1>3, <1>4, <1>6, <1>7, Zenon

LEMMA ShutMenusIs ==
  ASSUME Kinds, NEW t \in Threads, ShutMenus(t)
  PROVE  /\ frame[t].at = "shut" /\ Shape(frame[t])
         /\ running' = {m \in running : m[1] \notin frame[t].menus}
         /\ \/ frame[t].next = "idle" /\ Rests(t)
            \/ /\ frame[t].next # "idle"
               /\ Becomes(t, frame[t].next, frame[t].call, frame[t].name, frame[t].handle, {}, frame[t].next)
  BY FramesAre, ReturnIs DEF ShutMenus, At, Kinds, Rests

LEMMA CheckIs ==
  ASSUME Kinds, NEW t \in Threads, CheckOpen(t)
  PROVE  /\ frame[t].at = "check" /\ frame[t].name \in SurfaceNames /\ frame[t].call \in Calls
         /\ \/ Rests(t) /\ surfNames' = surfNames \ {frame[t].name}
            \/ Turns(t, "add") /\ UNCHANGED surfNames
  <1>1. (Leave(t) => Rests(t)) /\ (Goto(t, "add") => Turns(t, "add"))
    BY FramesAre, LeaveIs, GotoIs DEF Rests, Turns, Labels
  <1>2. frame[t].at = "check" /\ Shape(frame[t])
    BY DEF CheckOpen, At, Kinds
  <1> QED BY <1>1, <1>2 DEF CheckOpen, Discard, Shape

LEMMA AddIs ==
  ASSUME Kinds, NEW t \in Threads, Add(t)
  PROVE  LET n == frame[t].name
             c == frame[t].call
         IN  /\ frame[t].at = "add" /\ n \in SurfaceNames /\ c \in Calls
             /\ \/ Rests(t) /\ surfNames' = surfNames \ {n} /\ UNCHANGED <<layers, running>>
                \/ /\ layers[n] = None /\ List(n, c) /\ UNCHANGED surfNames
                   /\ \/ Turns(t, "publishSurface")
                      \/ Becomes(t, "remove", c, n, frame[t].handle, {c}, "freeName")
  <1>1. (Leave(t) => Rests(t)) /\ (Goto(t, "publishSurface") => Turns(t, "publishSurface"))
    BY FramesAre, LeaveIs, GotoIs DEF Rests, Turns, Labels
  <1>2. frame[t].at = "add" /\ Shape(frame[t])
    BY DEF Add, At, Kinds
  <1>3. frame[t].name \in SurfaceNames /\ frame[t].call \in Calls
    BY <1>2 DEF Shape
  <1>4. ASSUME frame' = [frame EXCEPT ![t] = Remover(t, {frame[t].call}, "freeName")]
        PROVE  Becomes(t, "remove", frame[t].call, frame[t].name, frame[t].handle, {frame[t].call}, "freeName")
    <2>1. {frame[t].call} \in SUBSET Calls /\ "freeName" \in Labels
      BY <1>3 DEF Labels
    <2> QED BY <1>4, <2>1, FramesAre, RemoverIs
  <1> QED BY <1>1, <1>2, <1>3, <1>4 DEF Add, Discard

LEMMA FreeNameIs ==
  ASSUME Kinds, NEW t \in Threads, FreeName(t)
  PROVE  /\ frame[t].at = "freeName" /\ frame[t].name \in SurfaceNames
         /\ Rests(t) /\ surfNames' = surfNames \ {frame[t].name}
  BY FramesAre, LeaveIs DEF FreeName, At, Kinds, Shape, Rests

LEMMA PublishSurfaceIs ==
  ASSUME Kinds, NEW t \in Threads, PublishSurface(t)
  PROVE  LET n == frame[t].name
             c == frame[t].call
         IN  /\ frame[t].at = "publishSurface" /\ n \in SurfaceNames /\ c \in Calls
             /\ \/ /\ ~surfClosing /\ Rests(t) /\ UNCHANGED surfNames
                   /\ surfaces' = surfaces \cup {[surface |-> c, name |-> n]}
                \/ /\ surfClosing /\ surfNames' = surfNames \ {n} /\ UNCHANGED surfaces
                   /\ Becomes(t, "remove", c, n, frame[t].handle, {c}, "idle")
  <1>1. Leave(t) => Rests(t)
    BY FramesAre, LeaveIs DEF Rests
  <1>2. frame[t].at = "publishSurface" /\ Shape(frame[t])
    BY DEF PublishSurface, At, Kinds
  <1>3. frame[t].name \in SurfaceNames /\ frame[t].call \in Calls
    BY <1>2 DEF Shape
  <1>4. ASSUME frame' = [frame EXCEPT ![t] = Remover(t, {frame[t].call}, "idle")]
        PROVE  Becomes(t, "remove", frame[t].call, frame[t].name, frame[t].handle, {frame[t].call}, "idle")
    <2>1. {frame[t].call} \in SUBSET Calls /\ "idle" \in Labels
      BY <1>3 DEF Labels
    <2> QED BY <1>4, <2>1, FramesAre, RemoverIs
  <1> QED BY <1>1, <1>2, <1>3, <1>4 DEF PublishSurface, Publishes

LEMMA DestroySurfaceIs ==
  ASSUME Kinds, NEW t \in Threads, NEW s \in surfaces, DestroySurface(t, s)
  PROVE  /\ frame[t].at = "idle" /\ s.name \in SurfaceNames /\ s.surface \in Calls
         /\ Becomes(t, "remove", frame[t].call, s.name, frame[t].handle, {s.surface}, "idle")
         /\ surfaces' = surfaces \ {s} /\ surfNames' = surfNames \ {s.name}
  <1>1. s.name \in SurfaceNames /\ s.surface \in Calls
    BY DEF Kinds, TypeOK, SurfacesTypeOK
  <1>2. s.name \in Names
    BY <1>1 DEF Names
  <1> QED BY <1>1, <1>2, FramesAre, DestroysIs DEF DestroySurface, At

LEMMA SweepIs ==
  ASSUME Kinds, NEW t \in Threads, Sweep(t)
  PROVE  \E next \in {"closeViews", "sweepLast", "done"} :
           /\ \/ frame[t].at = "sweep" /\ next = "closeViews"
              \/ frame[t].at = "sweepAgain" /\ next = "sweepLast"
              \/ frame[t].at = "sweepLast" /\ next = "done"
           /\ layers' = [n \in Names |-> None] /\ Listed(Names) \in SUBSET Calls
           /\ Becomes(t, "shut", frame[t].call, frame[t].name, frame[t].handle, Listed(Names), next)
  <1>1. PICK next : next = AfterSweep[frame[t].at]
    OBVIOUS
  <1>2. /\ next \in {"closeViews", "sweepLast", "done"}
        /\ (frame[t].at = "sweep" /\ next = "closeViews")
              \/ (frame[t].at = "sweepAgain" /\ next = "sweepLast")
              \/ (frame[t].at = "sweepLast" /\ next = "done")
    BY <1>1 DEF Sweep, AfterSweep
  <1>3. Listed(Names) \in SUBSET Calls
    BY DEF Listed, Kinds, TypeOK, ListTypeOK
  <1>4. frame' = [frame EXCEPT ![t].at = "shut", ![t].menus = Listed(Names), ![t].next = next]
    BY <1>1 DEF Sweep
  <1>5. Becomes(t, "shut", frame[t].call, frame[t].name, frame[t].handle, Listed(Names), next)
    BY <1>2, <1>3, <1>4, FramesAre, TakesIs DEF Labels
  <1>6. layers' = [n \in Names |-> None]
    BY DEF Sweep
  <1> QED BY <1>2, <1>3, <1>5, <1>6

LEMMA SweepFlagIs ==
  ASSUME Kinds, NEW t \in Threads, SweepFlag(t)
  PROVE  frame[t].at = "sweepFlag" /\ Turns(t, "sweep")
  BY FramesAre, GotoIs DEF SweepFlag, At, Turns, Labels

LEMMA TakeSurfacesIs ==
  ASSUME Kinds, TakeSurfaces
  PROVE  /\ frame[Main].at = "takeSurfaces" /\ {s.surface : s \in surfaces} \in SUBSET Calls
         /\ Becomes(Main, "shut", frame[Main].call, frame[Main].name, frame[Main].handle,
                    {s.surface : s \in surfaces}, "swap")
  <1>1. {s.surface : s \in surfaces} \in SUBSET Calls /\ "swap" \in Labels
    BY DEF Kinds, TypeOK, SurfacesTypeOK, Labels
  <1>2. frame' = [frame EXCEPT ![Main].at = "shut", ![Main].next = "swap",
                               ![Main].menus = {s.surface : s \in surfaces}]
    BY DEF TakeSurfaces
  <1>3. frame' = [frame EXCEPT ![Main].at = "shut", ![Main].menus = {s.surface : s \in surfaces},
                               ![Main].next = "swap"]
    BY <1>2
  <1>4. Becomes(Main, "shut", frame[Main].call, frame[Main].name, frame[Main].handle,
                {s.surface : s \in surfaces}, "swap")
    BY <1>1, <1>3, FramesAre, Nobody, TakesIs
  <1> QED BY <1>1, <1>4 DEF TakeSurfaces, At

\* The steps of the shutdown that only go on.
LEMMA ShutdownIs ==
  ASSUME Kinds
  PROVE  /\ CloseAdmission => frame[Main].at = "idle" /\ Turns(Main, "sweepFlag")
         /\ CloseViews => frame[Main].at = "closeViews" /\ Turns(Main, "clearViews")
         /\ ClearViews => frame[Main].at = "clearViews" /\ Turns(Main, "closeSurfaces")
         /\ CloseSurfaces => frame[Main].at = "closeSurfaces" /\ Turns(Main, "takeSurfaces")
         /\ SwapCallbacks => frame[Main].at = "swap" /\ Turns(Main, "tell")
         /\ TellNext => frame[Main].at = "tell"
         /\ ClearBook => frame[Main].at = "clearBook" /\ Turns(Main, "sweepAgain")
  <1>1. \A label \in {"sweepFlag", "clearViews", "closeSurfaces", "takeSurfaces", "tell", "sweepAgain"} :
          Goto(Main, label) => Turns(Main, label)
    BY FramesAre, Nobody, GotoIs DEF Turns, Labels
  <1> QED BY <1>1 DEF CloseAdmission, CloseViews, ClearViews, CloseSurfaces, SwapCallbacks,
                      TellNext, ClearBook, At

LEMMA TellIs ==
  ASSUME Kinds, TellNext
  PROVE  \/ \E k \in pending : Tell(k) /\ pending' = pending \ {k} /\ UNCHANGED frame
         \/ pending = {} /\ Turns(Main, "clearBook") /\ UNCHANGED <<pending, told>>
  <1>1. Goto(Main, "clearBook") => Turns(Main, "clearBook")
    BY FramesAre, Nobody, GotoIs DEF Turns, Labels
  <1> QED BY <1>1 DEF TellNext
-----------------------------------------------------------------------------
(* The invariants that hold throughout.                                    *)

\* The stages of a shutdown, on the application thread, and how far it is.
Sweeping == {"sweepFlag", "sweep", "closeViews", "clearViews", "closeSurfaces", "takeSurfaces",
             "swap", "tell", "clearBook", "sweepAgain", "sweepLast", "done"}
AfterSurfaces == {"swap", "tell", "clearBook", "sweepAgain", "sweepLast", "done"}
AfterViews    == {"closeSurfaces", "takeSurfaces"} \cup AfterSurfaces
AfterBook     == {"sweepAgain", "sweepLast", "done"}
Stage(t) == IF frame[t].at = "shut" THEN frame[t].next ELSE frame[t].at

\* Who makes a browser has both locks, and its name is nobody's.
Locks ==
  \A t \in Threads : frame[t].at = "build" =>
    /\ mapLock = t /\ admission = t /\ ~publicClosing
    /\ refs[frame[t].name] = {} /\ frame[t].name \notin closing

MainIs == /\ \A t \in Threads : Stage(t) \in Sweeping => t = Main
          /\ publicClosing <=> Stage(Main) \in Sweeping
          /\ viewClosing => publicClosing

\* A menu that runs is listed, or some thread has it in its hands to shut it.
Hands == \A m \in Calls, n \in Names : <<m, n>> \in running =>
  layers[n] = m \/ \E t \in Threads : frame[t].at \in {"remove", "shut"} /\ m \in frame[t].menus

\* A view's name is taken by a view or by a thread that is making one.
Reserving(t, n) ==
  /\ frame[t].name = n
  /\ \/ frame[t].at \in {"publish", "unreserve"}
     \/ frame[t].at \in {"acquire", "build"} /\ frame[t].next = "publish"
Reserved == \A n \in viewNames : (\E v \in views : v.name = n) \/ \E t \in Threads : Reserving(t, n)

\* A function that is still to be called was given to RegisterOnShutdown and has
\* not been called; every other that was given has been, once.
Waits    == registered \cup pending
Notified == /\ registered \cap pending = {} /\ Waits \subseteq asked
            /\ \A k \in Callbacks : told[k] = IF k \in asked \ Waits THEN 1 ELSE 0

\* A browser that somebody holds a handle of is entered in the book.
Known == \A n \in BrowserNames : refs[n] # {} => browser[n] # None

\* A layer that a thread lists or unlists is in good hands until that is over.
Held(n) == \E t \in Threads : frame[t].at \in {"publishSurface", "remove"} /\ frame[t].name = n

\* What each part of the shutdown has emptied stays empty.
Ended ==
  /\ Stage(Main) \in AfterViews \cup {"clearViews"} => viewClosing
  /\ Stage(Main) \in AfterViews => views = {}
  /\ Stage(Main) \in AfterSurfaces \cup {"takeSurfaces"} => surfClosing
  /\ Stage(Main) \in AfterSurfaces => surfaces = {} /\ surfNames = {}
  /\ Stage(Main) \in AfterSurfaces \ {"swap"} => registered = {}
  /\ Stage(Main) # "tell" => pending = {}
  /\ Stage(Main) \in AfterBook => closing = {} /\ \A n \in BrowserNames : refs[n] = {}
  /\ Stage(Main) = "done" => \A n \in Names : layers[n] # None => Held(n)
-----------------------------------------------------------------------------
(* What holds until the shutdown begins, or gets to the views.             *)

\* A call has a number of its own, and until it has made something that number
\* is nothing's.
Beginning == {"reserve", "acquire", "build", "check", "add"}
Numbered  == Beginning \cup {"publish", "publishSurface"}
Unused(c) ==
  /\ \A n \in BrowserNames : c \notin refs[n]
  /\ \A n \in Names : layers[n] # c /\ <<c, n>> \notin running
  /\ \A t \in Threads : /\ frame[t].at \in {"remove", "shut"} => c \notin frame[t].menus
                        /\ frame[t].at \in {"publish", "drop", "release"} => frame[t].handle # c
  /\ \A k \in tasks : k[1] # c
  /\ \A s \in surfaces : s.surface # c
  /\ \A v \in views : v.view # c
Ahead    == \A c \in Calls : c > made => Unused(c)
Counted  == \A t \in Threads : frame[t].at \in Numbered => frame[t].call \in 1..made
Waiting  == \A t \in Threads : frame[t].at \in Beginning => Unused(frame[t].call)
Distinct == \A t, u \in Threads : frame[t].at \in Numbered /\ frame[u].at \in Numbered
                                     /\ frame[t].call = frame[u].call => t = u
Fresh == Ahead /\ Counted /\ Waiting /\ Distinct

\* A view, or the thread that is about to publish one, owns its handle: nobody
\* gives it back.  A name that a thread reserves is that thread's.
Owns(h, n) ==
  /\ h \in refs[n]
  /\ \A t \in Threads : frame[t].at \in {"drop", "release"} => ~(frame[t].handle = h /\ frame[t].name = n)
  /\ <<h, n>> \notin tasks
ViewsOwn    == \A v \in views : Owns(v.view, v.name) /\ v.menu = browser[v.name] /\ v.name \in viewNames
ViewsDiffer == \A v, w \in views : v.name = w.name => v = w
MakersOwn   == \A t \in Threads : frame[t].at = "publish" /\ frame[t].handle # None =>
                 Owns(frame[t].handle, frame[t].name)
OneReserves == \A t, u \in Threads, n \in ViewNames : Reserving(t, n) =>
                 n \in viewNames /\ (\A v \in views : v.name # n) /\ (Reserving(u, n) => t = u)
ViewBook == ViewsOwn /\ ViewsDiffer /\ MakersOwn /\ OneReserves

\* A listed layer runs under no other name, and only who removes it by its name
\* has it in hand; no name has two browsers, and what a thread has in hand is of
\* the name it works on.
Named == \A n \in Names : layers[n] # None =>
  /\ <<layers[n], n>> \in running
  /\ \A x \in Names : <<layers[n], x>> \in running => x = n
  /\ \A t \in Threads : frame[t].at \in {"remove", "shut"} /\ layers[n] \in frame[t].menus =>
        frame[t].at = "remove" /\ frame[t].name = n
OneEach  == \A n \in BrowserNames, l, m \in Calls : <<l, n>> \in running /\ <<m, n>> \in running => l = m
MenusOwn == \A t \in Threads : frame[t].at \in {"remove", "shut"} =>
              \A m \in frame[t].menus, x \in Names : <<m, x>> \in running => x = frame[t].name

\* A name is closing while one thread ends its browser; a name with handles has
\* its browser listed, and one without has none left, listed or running.
Ending(t, n) == /\ frame[t].at \in {"remove", "shut", "forget"}
                /\ frame[t].next = "forget" /\ frame[t].name = n
Gone(n) == \A m \in Calls : <<m, n>> \notin running
ClosingEnds  == \A n \in BrowserNames : n \in closing => refs[n] = {} /\ \E t \in Threads : Ending(t, n)
EndingCloses == \A t, u \in Threads, n \in BrowserNames :
                  Ending(t, n) => n \in closing /\ (Ending(u, n) => t = u)
UsedIsListed == \A n \in BrowserNames : refs[n] # {} => layers[n] = browser[n]
UnusedIsGone == \A n \in BrowserNames : refs[n] = {} /\ n \notin closing => layers[n] = None /\ Gone(n)
EndingGoesOn == \A t \in Threads, n \in BrowserNames : Ending(t, n) =>
  /\ frame[t].at = "remove" => frame[t].menus = {}
  /\ frame[t].at # "remove" => layers[n] = None
  /\ frame[t].at = "shut" => \A m \in Calls : <<m, n>> \in running => m \in frame[t].menus
  /\ frame[t].at = "forget" => Gone(n)
Browsers == ClosingEnds /\ EndingCloses /\ UsedIsListed /\ UnusedIsGone /\ EndingGoesOn

\* A surface's name is taken by a surface or by one thread that makes or unmakes
\* one; a surface's layer is listed, and no thread removes it.
Making(t, n) ==
  /\ frame[t].name = n
  /\ \/ frame[t].at \in {"check", "add", "publishSurface", "freeName"}
     \/ frame[t].at \in {"remove", "shut"} /\ frame[t].next = "freeName"
Removing(t, n) == frame[t].at = "remove" /\ frame[t].name = n
SurfacesListed == \A s \in surfaces : /\ layers[s.name] = s.surface /\ s.name \in surfNames
                                       /\ \A t \in Threads : ~Removing(t, s.name)
TakenAreUsed == \A n \in surfNames : (\E s \in surfaces : s.name = n) \/ \E t \in Threads : Making(t, n)
OneMakes     == \A t, u \in Threads, n \in SurfaceNames : Making(t, n) =>
                  n \in surfNames /\ (\A s \in surfaces : s.name # n) /\ (Making(u, n) => t = u)
MadeAreListed == \A t \in Threads : frame[t].at = "publishSurface" =>
                   layers[frame[t].name] = frame[t].call /\ \A u \in Threads : ~Removing(u, frame[t].name)
OneRemoves == \A t, u \in Threads, n \in SurfaceNames : Removing(t, n) =>
                layers[n] # None /\ frame[t].menus = {layers[n]} /\ (Removing(u, n) => t = u)
ListedAreHeld == \A n \in SurfaceNames : layers[n] # None => (\E s \in surfaces : s.name = n) \/ Held(n)
SurfaceBook == SurfacesListed /\ TakenAreUsed /\ OneMakes /\ MadeAreListed /\ OneRemoves /\ ListedAreHeld

Book == Named /\ OneEach /\ MenusOwn /\ Browsers /\ SurfaceBook

Throughout == Locks /\ MainIs /\ Hands /\ Reserved /\ Notified /\ Known /\ Ended /\ Fresh
Rules == Throughout /\ (~viewClosing => ViewBook) /\ (~publicClosing => Book)
Inv == Kinds /\ Rules
-----------------------------------------------------------------------------
(* Types are kept.                                                         *)

\* A step of one thread keeps the kinds of the others.
LEMMA FramesKept ==
  ASSUME Kinds, NEW t \in Threads, NEW at, NEW call, NEW name, NEW handle, NEW menus, NEW next,
         Becomes(t, at, call, name, handle, menus, next), Shape(frame'[t])
  PROVE  frame' \in [Threads -> Frames] /\ \A u \in Threads : Shape(frame'[u])
  BY DEF Becomes, Kinds

LEMMA RestsKept ==
  ASSUME Kinds, NEW t \in Threads, Rests(t)
  PROVE  frame' \in [Threads -> Frames] /\ \A u \in Threads : Shape(frame'[u])
  <1>1. Shape(frame'[t])
    BY DEF Rests, Becomes, Shape
  <1> QED BY <1>1, FramesKept DEF Rests

LEMMA TurnsKept ==
  ASSUME Kinds, NEW t \in Threads, NEW at, Turns(t, at), Shape(frame'[t])
  PROVE  frame' \in [Threads -> Frames] /\ \A u \in Threads : Shape(frame'[u])
  BY FramesKept DEF Turns

LEMMA BackKept ==
  ASSUME Kinds, NEW t \in Threads, NEW h, Back(t, h), frame[t].at \in {"acquire", "build"}
  PROVE  frame' \in [Threads -> Frames] /\ \A u \in Threads : Shape(frame'[u])
  <1>1. ASSUME Becomes(t, "publish", frame[t].call, frame[t].name, h, {}, "publish"), frame[t].next = "publish"
        PROVE  Shape(frame'[t])
    BY <1>1 DEF Becomes, Shape, Kinds
  <1> QED BY <1>1, RestsKept, FramesKept DEF Back

LEMMA ListKinds ==
  ASSUME Kinds, NEW t \in Threads, ListStep(t)
  PROVE  Kinds'
  <1>1. CASE RemoveSubMenu(t)
    <2>1. Shape(frame'[t])
      BY <1>1, RemoveSubMenuIs DEF Becomes, Shape, Kinds
    <2>2. frame' \in [Threads -> Frames] /\ \A u \in Threads : Shape(frame'[u])
      BY <1>1, <2>1, RemoveSubMenuIs, FramesKept
    <2>3. layers' \in [Names -> Calls \cup {None}]
      BY <1>1, RemoveSubMenuIs DEF Kinds, TypeOK, ListTypeOK
    <2> QED BY <1>1, <2>2, <2>3 DEF Kinds, TypeOK, ListTypeOK, HandlesTypeOK, SurfacesTypeOK,
                 RemoveSubMenu, ListStep, handles, viewBook, surfaceBook, notices
  <1>2. CASE ShutMenus(t)
    <2>1. frame' \in [Threads -> Frames] /\ \A u \in Threads : Shape(frame'[u])
      <3>1. ASSUME Becomes(t, frame[t].next, frame[t].call, frame[t].name, frame[t].handle, {}, frame[t].next)
            PROVE  Shape(frame'[t])
        BY <1>2, <3>1, ShutMenusIs DEF Becomes, Shape
      <3> QED BY <1>2, <3>1, ShutMenusIs, RestsKept, FramesKept
    <2>2. running' \subseteq Calls \X Names
      BY <1>2, ShutMenusIs DEF Kinds, TypeOK, ListTypeOK
    <2> QED BY <1>2, <2>1, <2>2 DEF Kinds, TypeOK, ListTypeOK, HandlesTypeOK, SurfacesTypeOK,
                 ShutMenus, ListStep, handles, viewBook, surfaceBook, notices
  <1>3. CASE SweepFlag(t)
    <2>1. Shape(frame'[t])
      BY <1>3, SweepFlagIs DEF Turns, Becomes, Shape, Kinds
    <2>2. frame' \in [Threads -> Frames] /\ \A u \in Threads : Shape(frame'[u])
      BY <1>3, <2>1, SweepFlagIs, TurnsKept
    <2> QED BY <1>3, <2>2 DEF Kinds, TypeOK, ListTypeOK, HandlesTypeOK, SurfacesTypeOK,
                 SweepFlag, ListStep, handles, viewBook, surfaceBook, notices
  <1>4. CASE Sweep(t)
    <2>1. PICK next \in {"closeViews", "sweepLast", "done"} :
            Becomes(t, "shut", frame[t].call, frame[t].name, frame[t].handle, Listed(Names), next)
      BY <1>4, SweepIs
    <2>2. Shape(frame'[t])
      BY <2>1 DEF Becomes, Shape
    <2>3. frame' \in [Threads -> Frames] /\ \A u \in Threads : Shape(frame'[u])
      BY <2>1, <2>2, FramesKept
    <2>4. layers' \in [Names -> Calls \cup {None}]
      BY <1>4, SweepIs
    <2> QED BY <1>4, <2>3, <2>4 DEF Kinds, TypeOK, ListTypeOK, HandlesTypeOK, SurfacesTypeOK,
                 Sweep, ListStep, handles, viewBook, surfaceBook, notices
  <1> QED BY <1>1, <1>2, <1>3, <1>4 DEF ListStep

\* Calls of consumers about browsers.
LEMMA BrowserKinds ==
  ASSUME Kinds, NEW t \in Threads, UNCHANGED <<surfaceBook, notices>>
  PROVE  /\ \A n \in BrowserNames : AddOrGetBrowser(t, n) => Kinds'
         /\ \A n \in BrowserNames : \A h \in refs[n] : ReleaseBrowserHandle(t, n, h) => Kinds'
         /\ Acquire(t) => Kinds'
         /\ Build(t) => Kinds'
         /\ DropHandle(t) => Kinds'
         /\ ForgetClosing(t) => Kinds'
  <1>1. ASSUME NEW n \in BrowserNames, AddOrGetBrowser(t, n) PROVE Kinds'
    <2>1. Shape(frame'[t])
      BY <1>1, AskIs DEF Becomes, Shape
    <2>2. frame' \in [Threads -> Frames] /\ \A u \in Threads : Shape(frame'[u])
      BY <1>1, <2>1, AskIs, FramesKept
    <2>3. made' \in 0..MaxCalls
      BY <1>1, AskIs, NamesAssumption DEF Calls
    <2> QED BY <1>1, <2>2, <2>3 DEF Kinds, TypeOK, ListTypeOK, HandlesTypeOK, SurfacesTypeOK,
                 AddOrGetBrowser, list, handles, viewBook, surfaceBook, notices
  <1>2. ASSUME NEW n \in BrowserNames, NEW h \in refs[n], ReleaseBrowserHandle(t, n, h) PROVE Kinds'
    <2>1. Shape(frame'[t])
      BY <1>2, GiveBackIs DEF Becomes, Shape
    <2>2. frame' \in [Threads -> Frames] /\ \A u \in Threads : Shape(frame'[u])
      BY <1>2, <2>1, GiveBackIs, FramesKept
    <2> QED BY <1>2, <2>2 DEF Kinds, TypeOK, ListTypeOK, HandlesTypeOK, SurfacesTypeOK,
                 ReleaseBrowserHandle, list, handles, viewBook, surfaceBook, notices
  <1>3. ASSUME Acquire(t) PROVE Kinds'
    <2>1. frame' \in [Threads -> Frames] /\ \A u \in Threads : Shape(frame'[u])
      <3>1. ASSUME Turns(t, "build") PROVE Shape(frame'[t])
        BY <1>3, <3>1, AcquireIs DEF Turns, Becomes, Shape, Kinds
      <3> QED BY <1>3, <3>1, AcquireIs, TurnsKept, BackKept
    <2>2. refs' \in [BrowserNames -> SUBSET Calls] /\ {admission', mapLock'} \subseteq Threads \cup {None}
      BY <1>3, AcquireIs DEF Kinds, TypeOK, HandlesTypeOK
    <2> QED BY <1>3, <2>1, <2>2 DEF Kinds, TypeOK, ListTypeOK, HandlesTypeOK, SurfacesTypeOK,
                 Acquire, list, viewBook, surfaceBook, notices
  <1>4. ASSUME Build(t) PROVE Kinds'
    <2>1. frame' \in [Threads -> Frames] /\ \A u \in Threads : Shape(frame'[u])
      BY <1>4, BuildIs, BackKept
    <2>2. frame[t].name \in BrowserNames /\ frame[t].name \in Names /\ frame[t].call \in Calls
      BY <1>4, BuildIs DEF Names
    <2>3. layers' \in [Names -> Calls \cup {None}] /\ running' \subseteq Calls \X Names
      BY <1>4, <2>2, BuildIs DEF List, Kinds, TypeOK, ListTypeOK
    <2>4. refs' \in [BrowserNames -> SUBSET Calls] /\ browser' \in [BrowserNames -> Calls \cup {None}]
      BY <1>4, <2>2, <2>3, BuildIs DEF Kinds, TypeOK, HandlesTypeOK
    <2> QED BY <1>4, <2>1, <2>3, <2>4 DEF Kinds, TypeOK, ListTypeOK, HandlesTypeOK, SurfacesTypeOK,
                 Build, viewBook, surfaceBook, notices
  <1>5. ASSUME DropHandle(t) PROVE Kinds'
    <2>1. frame' \in [Threads -> Frames] /\ \A u \in Threads : Shape(frame'[u])
      <3>1. ASSUME Becomes(t, "remove", frame[t].call, frame[t].name, frame[t].handle, {}, "forget")
            PROVE  Shape(frame'[t])
        BY <1>5, <3>1, DropIs DEF Becomes, Shape
      <3> QED BY <1>5, <3>1, DropIs, FramesKept, RestsKept
    <2>2. /\ refs' \in [BrowserNames -> SUBSET Calls] /\ browser' \in [BrowserNames -> Calls \cup {None}]
          /\ closing' \subseteq BrowserNames
      BY <1>5, DropIs DEF Kinds, TypeOK, HandlesTypeOK
    <2>3. viewLock' \in Threads \cup {None}
      BY <1>5 DEF DropHandle, EndRelease, Kinds, TypeOK, HandlesTypeOK
    <2> QED BY <1>5, <2>1, <2>2, <2>3 DEF Kinds, TypeOK, ListTypeOK, HandlesTypeOK, SurfacesTypeOK,
                 DropHandle, list, surfaceBook, notices
  <1>6. ASSUME ForgetClosing(t) PROVE Kinds'
    <2>1. frame' \in [Threads -> Frames] /\ \A u \in Threads : Shape(frame'[u])
      BY <1>6, ForgetIs, RestsKept
    <2>2. closing' \subseteq BrowserNames
      BY <1>6, ForgetIs DEF Kinds, TypeOK, HandlesTypeOK
    <2>3. viewLock' \in Threads \cup {None}
      BY <1>6 DEF ForgetClosing, EndRelease, Kinds, TypeOK, HandlesTypeOK
    <2> QED BY <1>6, <2>1, <2>2, <2>3 DEF Kinds, TypeOK, ListTypeOK, HandlesTypeOK, SurfacesTypeOK,
                 ForgetClosing, list, surfaceBook, notices
  <1> QED BY <1>1, <1>2, <1>3, <1>4, <1>5, <1>6

\* Calls of consumers about views.
LEMMA ViewKinds ==
  ASSUME Kinds, Known, ~viewClosing => ViewBook, NEW t \in Threads, UNCHANGED <<surfaceBook, notices>>
  PROVE  /\ \A n \in ViewNames : CreateView(t, n) => Kinds'
         /\ \A v \in views : DestroyView(t, v) => Kinds'
         /\ \A task \in tasks : RunTask(task) => Kinds'
         /\ Reserve(t) => Kinds'
         /\ Unreserve(t) => Kinds'
         /\ Publish(t) => Kinds'
         /\ ReleaseBrowser(t) => Kinds'
  <1>1. ASSUME NEW n \in ViewNames, CreateView(t, n) PROVE Kinds'
    <2>1. Shape(frame'[t])
      BY <1>1, AskViewIs DEF Becomes, Shape
    <2>2. frame' \in [Threads -> Frames] /\ \A u \in Threads : Shape(frame'[u])
      BY <1>1, <2>1, AskViewIs, FramesKept
    <2>3. made' \in 0..MaxCalls
      BY <1>1, AskViewIs, NamesAssumption DEF Calls
    <2> QED BY <1>1, <2>2, <2>3 DEF Kinds, TypeOK, ListTypeOK, HandlesTypeOK, SurfacesTypeOK,
                 CreateView, list, handles, viewBook, surfaceBook, notices
  <1>2. ASSUME NEW v \in views, DestroyView(t, v) PROVE Kinds'
    <2>1. Shape(frame'[t])
      BY <1>2, DestroyViewIs DEF Becomes, Shape
    <2>2. frame' \in [Threads -> Frames] /\ \A u \in Threads : Shape(frame'[u])
      BY <1>2, <2>1, DestroyViewIs, FramesKept
    <2>3. views' \subseteq Views /\ viewNames' \subseteq ViewNames
      BY <1>2, DestroyViewIs DEF Kinds, TypeOK, HandlesTypeOK
    <2> QED BY <1>2, <2>2, <2>3 DEF Kinds, TypeOK, ListTypeOK, HandlesTypeOK, SurfacesTypeOK,
                 DestroyView, list, handles, surfaceBook, notices
  <1>3. ASSUME NEW task \in tasks, RunTask(task) PROVE Kinds'
    <2>1. Shape(frame'[Main])
      BY <1>3, RunTaskIs DEF Becomes, Shape, BrowserNames
    <2>2. frame' \in [Threads -> Frames] /\ \A u \in Threads : Shape(frame'[u])
      BY <1>3, <2>1, RunTaskIs, Nobody, FramesKept
    <2>3. tasks' \subseteq Calls \X ViewNames
      BY <1>3, RunTaskIs DEF Kinds, TypeOK, HandlesTypeOK
    <2> QED BY <1>3, <2>2, <2>3 DEF Kinds, TypeOK, ListTypeOK, HandlesTypeOK, SurfacesTypeOK,
                 RunTask, list, handles, surfaceBook, notices
  <1>4. ASSUME Reserve(t) PROVE Kinds'
    <2>1. frame' \in [Threads -> Frames] /\ \A u \in Threads : Shape(frame'[u])
      <3>1. ASSUME Turns(t, "unreserve") PROVE Shape(frame'[t])
        BY <1>4, <3>1, ReserveIs DEF Turns, Becomes, Shape
      <3>2. ASSUME Becomes(t, "acquire", frame[t].call, frame[t].name, frame[t].handle, frame[t].menus, "publish")
            PROVE  Shape(frame'[t])
        BY <1>4, <3>2, ReserveIs DEF Becomes, Shape, BrowserNames
      <3> QED BY <1>4, <3>1, <3>2, ReserveIs, TurnsKept, FramesKept, RestsKept
    <2>2. viewNames' \subseteq ViewNames
      BY <1>4, ReserveIs DEF Kinds, TypeOK, HandlesTypeOK
    <2> QED BY <1>4, <2>1, <2>2 DEF Kinds, TypeOK, ListTypeOK, HandlesTypeOK, SurfacesTypeOK,
                 Reserve, list, handles, surfaceBook, notices
  <1>5. ASSUME Unreserve(t) PROVE Kinds'
    <2>1. frame' \in [Threads -> Frames] /\ \A u \in Threads : Shape(frame'[u])
      BY <1>5, UnreserveIs, RestsKept
    <2>2. viewNames' \subseteq ViewNames
      BY <1>5, UnreserveIs DEF Kinds, TypeOK, HandlesTypeOK
    <2> QED BY <1>5, <2>1, <2>2 DEF Kinds, TypeOK, ListTypeOK, HandlesTypeOK, SurfacesTypeOK,
                 Unreserve, list, handles, surfaceBook, notices
  <1>6. ASSUME Publish(t) PROVE Kinds'
    <2>1. frame' \in [Threads -> Frames] /\ \A u \in Threads : Shape(frame'[u])
      <3>1. ASSUME Turns(t, "unreserve") PROVE Shape(frame'[t])
        BY <1>6, <3>1, PublishIs DEF Turns, Becomes, Shape
      <3>2. ASSUME Turns(t, "release"), frame[t].handle # None PROVE Shape(frame'[t])
        BY <1>6, <3>2, PublishIs DEF Turns, Becomes, Shape, BrowserNames
      <3> QED BY <1>6, <3>1, <3>2, PublishIs, TurnsKept, RestsKept
    <2>2. viewNames' \subseteq ViewNames /\ views' \subseteq Views /\ viewLock' \in Threads \cup {None}
      <3>1. frame[t].name \in BrowserNames
        BY <1>6, PublishIs DEF BrowserNames
      <3>2. ~viewClosing /\ frame[t].handle # None => browser[frame[t].name] \in Calls
        BY <1>6, <3>1, PublishIs DEF ViewBook, MakersOwn, Owns, Known, Kinds, TypeOK, HandlesTypeOK
      <3>3. ~viewClosing /\ frame[t].handle # None =>
              [view |-> frame[t].handle, name |-> frame[t].name, menu |-> browser[frame[t].name]] \in Views
        BY <1>6, <3>2, PublishIs DEF Views
      <3>4. viewNames' \subseteq ViewNames /\ views' \subseteq Views
        BY <1>6, <3>3, PublishIs DEF Kinds, TypeOK, HandlesTypeOK
      <3>5. viewLock' \in Threads \cup {None}
        BY <1>6 DEF Publish, Kinds, TypeOK, HandlesTypeOK
      <3> QED BY <3>4, <3>5
    <2> QED BY <1>6, <2>1, <2>2 DEF Kinds, TypeOK, ListTypeOK, HandlesTypeOK, SurfacesTypeOK,
                 Publish, list, handles, surfaceBook, notices
  <1>7. ASSUME ReleaseBrowser(t) PROVE Kinds'
    <2>1. frame' \in [Threads -> Frames] /\ \A u \in Threads : Shape(frame'[u])
      <3>1. ASSUME Turns(t, "release") PROVE Shape(frame'[t])
        BY <1>7, <3>1, ReleaseViewIs DEF Turns, Becomes, Shape, BrowserNames
      <3> QED BY <1>7, <3>1, ReleaseViewIs, TurnsKept, RestsKept
    <2>2. tasks' \subseteq Calls \X ViewNames
      BY <1>7, ReleaseViewIs DEF Kinds, TypeOK, HandlesTypeOK
    <2> QED BY <1>7, <2>1, <2>2 DEF Kinds, TypeOK, ListTypeOK, HandlesTypeOK, SurfacesTypeOK,
                 ReleaseBrowser, list, handles, surfaceBook, notices
  <1> QED BY <1>1, <1>2, <1>3, <1>4, <1>5, <1>6, <1>7

LEMMA SurfaceKinds ==
  ASSUME Kinds, NEW t \in Threads, SurfaceStep(t), UNCHANGED <<handles, viewBook, notices>>
  PROVE  Kinds'
  <1>1. ASSUME NEW n \in SurfaceNames, CreateSurface(t, n) PROVE Kinds'
    <2>1. Shape(frame'[t])
      BY <1>1, AskSurfaceIs DEF Becomes, Shape
    <2>2. frame' \in [Threads -> Frames] /\ \A u \in Threads : Shape(frame'[u])
      BY <1>1, <2>1, AskSurfaceIs, FramesKept
    <2>3. made' \in 0..MaxCalls /\ surfNames' \subseteq SurfaceNames
      BY <1>1, AskSurfaceIs, NamesAssumption DEF Calls, Kinds, TypeOK, SurfacesTypeOK
    <2> QED BY <1>1, <2>2, <2>3 DEF Kinds, TypeOK, ListTypeOK, HandlesTypeOK, SurfacesTypeOK,
                 CreateSurface, list, handles, viewBook, notices
  <1>2. ASSUME NEW s \in surfaces, DestroySurface(t, s) PROVE Kinds'
    <2>1. Shape(frame'[t])
      BY <1>2, DestroySurfaceIs DEF Becomes, Shape
    <2>2. frame' \in [Threads -> Frames] /\ \A u \in Threads : Shape(frame'[u])
      BY <1>2, <2>1, DestroySurfaceIs, FramesKept
    <2> QED BY <1>2, <2>2 DEF Kinds, TypeOK, ListTypeOK, HandlesTypeOK, SurfacesTypeOK,
                 DestroySurface, list, handles, viewBook, notices
  <1>3. CASE CheckOpen(t)
    <2>1. frame' \in [Threads -> Frames] /\ \A u \in Threads : Shape(frame'[u])
      <3>1. ASSUME Turns(t, "add") PROVE Shape(frame'[t])
        BY <1>3, <3>1, CheckIs DEF Turns, Becomes, Shape
      <3> QED BY <1>3, <3>1, CheckIs, TurnsKept, RestsKept
    <2>2. surfNames' \subseteq SurfaceNames
      BY <1>3, CheckIs DEF Kinds, TypeOK, SurfacesTypeOK
    <2> QED BY <1>3, <2>1, <2>2 DEF Kinds, TypeOK, ListTypeOK, HandlesTypeOK, SurfacesTypeOK,
                 CheckOpen, list, handles, viewBook, notices
  <1>4. CASE Add(t)
    <2>1. frame' \in [Threads -> Frames] /\ \A u \in Threads : Shape(frame'[u])
      <3>1. ASSUME Turns(t, "publishSurface") PROVE Shape(frame'[t])
        BY <1>4, <3>1, AddIs DEF Turns, Becomes, Shape
      <3>2. ASSUME Becomes(t, "remove", frame[t].call, frame[t].name, frame[t].handle, {frame[t].call}, "freeName")
            PROVE  Shape(frame'[t])
        BY <1>4, <3>2, AddIs DEF Becomes, Shape
      <3> QED BY <1>4, <3>1, <3>2, AddIs, TurnsKept, FramesKept, RestsKept
    <2>2. surfNames' \subseteq SurfaceNames
      BY <1>4, AddIs DEF Kinds, TypeOK, SurfacesTypeOK
    <2>3. layers' \in [Names -> Calls \cup {None}] /\ running' \subseteq Calls \X Names
      <3>1. frame[t].name \in Names /\ <<frame[t].call, frame[t].name>> \in Calls \X Names
        BY <1>4, AddIs DEF Names
      <3>2. List(frame[t].name, frame[t].call) => layers' \in [Names -> Calls \cup {None}] /\ running' \subseteq Calls \X Names
        BY <1>4, <3>1, AddIs DEF List, Kinds, TypeOK, ListTypeOK
      <3> QED BY <1>4, <3>2, AddIs DEF Kinds, TypeOK, ListTypeOK
    <2> QED BY <1>4, <2>1, <2>2, <2>3 DEF Kinds, TypeOK, ListTypeOK, HandlesTypeOK, SurfacesTypeOK,
                 Add, list, handles, viewBook, notices
  <1>5. CASE FreeName(t)
    <2>1. frame' \in [Threads -> Frames] /\ \A u \in Threads : Shape(frame'[u])
      BY <1>5, FreeNameIs, RestsKept
    <2> QED BY <1>5, <2>1, FreeNameIs DEF Kinds, TypeOK, ListTypeOK, HandlesTypeOK, SurfacesTypeOK,
                 FreeName, list, handles, viewBook, notices
  <1>6. CASE PublishSurface(t)
    <2>1. frame' \in [Threads -> Frames] /\ \A u \in Threads : Shape(frame'[u])
      <3>1. ASSUME Becomes(t, "remove", frame[t].call, frame[t].name, frame[t].handle, {frame[t].call}, "idle")
            PROVE  Shape(frame'[t])
        BY <1>6, <3>1, PublishSurfaceIs DEF Becomes, Shape
      <3> QED BY <1>6, <3>1, PublishSurfaceIs, FramesKept, RestsKept
    <2>2. surfNames' \subseteq SurfaceNames /\ surfaces' \subseteq [surface : Calls, name : SurfaceNames]
      <3>1. [surface |-> frame[t].call, name |-> frame[t].name] \in [surface : Calls, name : SurfaceNames]
        BY <1>6, PublishSurfaceIs
      <3> QED BY <1>6, <3>1, PublishSurfaceIs DEF Kinds, TypeOK, SurfacesTypeOK
    <2> QED BY <1>6, <2>1, <2>2 DEF Kinds, TypeOK, ListTypeOK, HandlesTypeOK, SurfacesTypeOK,
                 PublishSurface, list, handles, viewBook, notices
  <1> QED BY <1>1, <1>2, <1>3, <1>4, <1>5, <1>6 DEF SurfaceStep

LEMMA ShutdownKinds ==
  ASSUME Kinds, Notified, ShutdownStep
  PROVE  Kinds'
  <1>1. ASSUME NEW at \in {"sweepFlag", "clearViews", "closeSurfaces", "takeSurfaces", "tell", "clearBook", "sweepAgain"},
               Turns(Main, at)
        PROVE  frame' \in [Threads -> Frames] /\ \A u \in Threads : Shape(frame'[u])
    <2>1. Shape(frame'[Main])
      BY <1>1, Nobody DEF Turns, Becomes, Shape
    <2> QED BY <1>1, <2>1, Nobody, TurnsKept
  <1>2. CASE CloseAdmission
    BY <1>1, <1>2, ShutdownIs DEF Kinds, TypeOK, ListTypeOK, HandlesTypeOK, SurfacesTypeOK,
         CloseAdmission, list, viewBook, surfaceBook, notices
  <1>3. CASE CloseViews
    BY <1>1, <1>3, ShutdownIs DEF Kinds, TypeOK, ListTypeOK, HandlesTypeOK, SurfacesTypeOK,
         CloseViews, list, handles, surfaceBook, notices
  <1>4. CASE ClearViews
    BY <1>1, <1>4, ShutdownIs DEF Kinds, TypeOK, ListTypeOK, HandlesTypeOK, SurfacesTypeOK,
         ClearViews, list, handles, surfaceBook, notices
  <1>5. CASE CloseSurfaces
    BY <1>1, <1>5, ShutdownIs DEF Kinds, TypeOK, ListTypeOK, HandlesTypeOK, SurfacesTypeOK,
         CloseSurfaces, list, handles, viewBook, notices
  <1>6. CASE TakeSurfaces
    <2>1. Shape(frame'[Main])
      BY <1>6, TakeSurfacesIs DEF Becomes, Shape
    <2>2. frame' \in [Threads -> Frames] /\ \A u \in Threads : Shape(frame'[u])
      BY <1>6, <2>1, TakeSurfacesIs, Nobody, FramesKept
    <2> QED BY <1>6, <2>2 DEF Kinds, TypeOK, ListTypeOK, HandlesTypeOK, SurfacesTypeOK,
                 TakeSurfaces, list, handles, viewBook, notices
  <1>7. CASE SwapCallbacks
    BY <1>1, <1>7, ShutdownIs DEF Kinds, TypeOK, ListTypeOK, HandlesTypeOK, SurfacesTypeOK,
         SwapCallbacks, list, handles, viewBook, surfaceBook
  <1>8. CASE TellNext
    <2>1. frame' \in [Threads -> Frames] /\ \A u \in Threads : Shape(frame'[u])
      BY <1>1, <1>8, TellIs DEF Kinds, TypeOK, ListTypeOK
    <2>2. told' \in [Callbacks -> Nat] /\ pending' \subseteq Callbacks
      <3>1. ASSUME NEW k \in pending, Tell(k) PROVE told' \in [Callbacks -> Nat]
        BY <3>1 DEF Tell, Notified, Kinds, TypeOK
      <3> QED BY <1>8, <3>1, TellIs DEF Kinds, TypeOK
    <2> QED BY <1>8, <2>1, <2>2 DEF Kinds, TypeOK, ListTypeOK, HandlesTypeOK, SurfacesTypeOK,
                 TellNext, list, handles, viewBook, surfaceBook
  <1>9. CASE ClearBook
    BY <1>1, <1>9, ShutdownIs DEF Kinds, TypeOK, ListTypeOK, HandlesTypeOK, SurfacesTypeOK,
         ClearBook, list, viewBook, surfaceBook, notices
  <1> QED BY <1>2, <1>3, <1>4, <1>5, <1>6, <1>7, <1>8, <1>9 DEF ShutdownStep

LEMMA RegisterKinds ==
  ASSUME Kinds, NEW t \in Threads, NEW k \in Callbacks, RegisterOnShutdown(t, k)
  PROVE  Kinds'
  <1>1. registered' \subseteq Callbacks /\ asked' \subseteq Callbacks /\ told' \in [Callbacks -> Nat]
    BY DEF RegisterOnShutdown, Register, Tell, Enqueue, Kinds, TypeOK
  <1> QED BY <1>1 DEF RegisterOnShutdown, Kinds, TypeOK, ListTypeOK, HandlesTypeOK, SurfacesTypeOK,
                      list, handles, viewBook, surfaceBook

\* What the books and the tasks are made of.
LEMMA BooksAre ==
  ASSUME Kinds
  PROVE  /\ \A v \in views : v.view \in Calls /\ v.name \in ViewNames
         /\ \A s \in surfaces : s.surface \in Calls /\ s.name \in SurfaceNames
         /\ \A k \in tasks : k = <<k[1], k[2]>> /\ k[1] \in Calls /\ k[2] \in ViewNames
         /\ \A t \in Threads : frame[t].at \in {"publish", "unreserve"} => frame[t].name \in ViewNames
         /\ \A t \in Threads : frame[t].at = "publishSurface" => frame[t].name \in SurfaceNames
  BY DEF Kinds, TypeOK, HandlesTypeOK, SurfacesTypeOK, Views, Shape

-----------------------------------------------------------------------------
(* Steps about browsers and views keep the rules.                          *)

\* A call for a browser begins.
LEMMA AskKept ==
  ASSUME Inv, NEW t \in Threads, NEW n \in BrowserNames, AddOrGetBrowser(t, n),
         UNCHANGED <<surfaceBook, notices>>
  PROVE  Rules'
  <1>1. /\ frame[t].at = "idle" /\ Becomes(t, "acquire", made + 1, n, None, {}, "idle")
        /\ made' = made + 1 /\ made + 1 \in Calls
    BY AskIs DEF Inv, Rules, AddOrGetBrowser, list, handles, viewBook, surfaceBook, notices
  <1>2. UNCHANGED <<layers, running, renderClosing, publicClosing, admission, mapLock, refs,
    browser, closing, viewClosing, viewLock, viewNames, views, tasks, surfClosing, surfNames,
    surfaces, registered, pending, asked, told>>
    BY AskIs DEF Inv, Rules, AddOrGetBrowser, list, handles, viewBook, surfaceBook, notices
  <1>3. Main \in Threads /\ None \notin Calls /\ None \notin Names /\ None \notin Threads /\ made \in Nat
    BY Nobody, FramesAre DEF Inv, Rules
  <1>4. Locks'
    BY <1>1, <1>2, <1>3 DEF Locks, Inv, Rules, Throughout, Becomes
  <1>5. MainIs'
    BY <1>1, <1>2, <1>3 DEF MainIs, Stage, Sweeping, Inv, Rules, Throughout, Becomes
  <1>6. Hands'
    BY <1>1, <1>2, <1>3 DEF Hands, Inv, Rules, Throughout, Becomes
  <1>7. Reserved'
    BY <1>1, <1>2, <1>3 DEF Reserved, Reserving, Inv, Rules, Throughout, Becomes
  <1>8. Notified'
    BY <1>1, <1>2, <1>3 DEF Notified, Waits, Inv, Rules, Throughout, Becomes
  <1>9. Known'
    BY <1>1, <1>2, <1>3 DEF Known, Inv, Rules, Throughout, Becomes
  <1>10. Ended'
    BY <1>1, <1>2, <1>3 DEF Ended, Held, Stage, Sweeping, AfterViews, AfterSurfaces, AfterBook,
      MainIs, Inv, Rules, Throughout, Becomes
  <1>11. Ahead'
    BY <1>1, <1>2, <1>3 DEF Ahead, Unused, Fresh, Calls, Inv, Rules, Throughout, Becomes
  <1>12. Counted'
    BY <1>1, <1>2, <1>3 DEF Counted, Numbered, Beginning, Fresh, Calls, Inv, Rules, Throughout,
      Becomes
  <1>13. Waiting'
    BY <1>1, <1>2, <1>3 DEF Ahead, Counted, Distinct, Waiting, Beginning, Numbered, Unused, Fresh,
      Calls, Inv, Rules, Throughout, Becomes
  <1>14. Distinct'
    BY <1>1, <1>2, <1>3 DEF Distinct, Counted, Numbered, Beginning, Fresh, Calls, Inv, Rules,
      Throughout, Becomes
  <1>15. ASSUME ~viewClosing' PROVE ViewBook'
    <2>0. ViewBook
      BY <1>1, <1>2, <1>15 DEF Inv, Rules
    <2>1. ViewsOwn'
      <3>1. ASSUME NEW h, NEW x, Owns(h, x) PROVE Owns(h, x)'
        BY <1>1, <1>2, <3>1 DEF Owns, Becomes
      <3> QED BY <1>2, <2>0, <3>1 DEF ViewBook, ViewsOwn
    <2>2. ViewsDiffer'
      BY <1>1, <1>2, <1>3, <2>0 DEF ViewsDiffer, OneReserves, Reserving, ViewBook, Becomes
    <2>3. MakersOwn'
      BY <1>1, <1>2, <1>3, <2>0 DEF MakersOwn, Owns, ViewBook, Becomes
    <2>4. OneReserves'
      BY <1>1, <1>2, <1>3, <2>0 DEF OneReserves, Reserving, ViewBook, Becomes
    <2> QED BY <2>1, <2>2, <2>3, <2>4 DEF ViewBook
  <1>16. ASSUME ~publicClosing' PROVE Book'
    <2>0. Book
      BY <1>1, <1>2, <1>16 DEF Inv, Rules
    <2>1. Named'
      BY <1>1, <1>2, <1>3, <2>0 DEF Named, Book, Browsers, SurfaceBook, Becomes
    <2>2. OneEach'
      BY <1>1, <1>2, <1>3, <2>0 DEF OneEach, Book, Browsers, SurfaceBook, Becomes
    <2>3. MenusOwn'
      BY <1>1, <1>2, <1>3, <2>0 DEF MenusOwn, Book, Browsers, SurfaceBook, Becomes
    <2>4. ClosingEnds'
      BY <1>1, <1>2, <1>3, <2>0 DEF ClosingEnds, Ending, Book, Browsers, SurfaceBook, Becomes
    <2>5. EndingCloses'
      BY <1>1, <1>2, <1>3, <2>0 DEF EndingCloses, Ending, Book, Browsers, SurfaceBook, Becomes
    <2>6. UsedIsListed'
      BY <1>1, <1>2, <1>3, <2>0 DEF UsedIsListed, Book, Browsers, SurfaceBook, Becomes
    <2>7. UnusedIsGone'
      BY <1>1, <1>2, <1>3, <2>0 DEF UnusedIsGone, Gone, Book, Browsers, SurfaceBook, Becomes
    <2>8. EndingGoesOn'
      BY <1>1, <1>2, <1>3, <2>0 DEF EndingGoesOn, Ending, Gone, EndingCloses, Book, Browsers,
        SurfaceBook, Becomes
    <2>9. SurfacesListed'
      BY <1>1, <1>2, <1>3, <2>0 DEF SurfacesListed, Removing, Book, Browsers, SurfaceBook, Becomes
    <2>10. TakenAreUsed'
      BY <1>1, <1>2, <1>3, <2>0 DEF TakenAreUsed, Making, Book, Browsers, SurfaceBook, Becomes
    <2>11. OneMakes'
      BY <1>1, <1>2, <1>3, <2>0 DEF OneMakes, Making, Book, Browsers, SurfaceBook, Becomes
    <2>12. MadeAreListed'
      BY <1>1, <1>2, <1>3, <2>0 DEF MadeAreListed, Removing, Book, Browsers, SurfaceBook, Becomes
    <2>13. OneRemoves'
      BY <1>1, <1>2, <1>3, <2>0 DEF OneRemoves, Removing, Book, Browsers, SurfaceBook, Becomes
    <2>14. ListedAreHeld'
      BY <1>1, <1>2, <1>3, <2>0 DEF ListedAreHeld, Held, Book, Browsers, SurfaceBook, Becomes
    <2> QED BY <2>1, <2>2, <2>3, <2>4, <2>5, <2>6, <2>7, <2>8, <2>9, <2>10, <2>11, <2>12, <2>13,
          <2>14 DEF Book, Browsers, SurfaceBook
  <1> QED BY <1>4, <1>5, <1>6, <1>7, <1>8, <1>9, <1>10, <1>11, <1>12, <1>13, <1>14, <1>15, <1>16
      DEF Rules, Throughout, Fresh

\* A call for a view begins.
LEMMA AskViewKept ==
  ASSUME Inv, NEW t \in Threads, NEW n \in ViewNames, CreateView(t, n),
         UNCHANGED <<surfaceBook, notices>>
  PROVE  Rules'
  <1>1. /\ frame[t].at = "idle" /\ Becomes(t, "reserve", made + 1, n, None, {}, "idle")
        /\ made' = made + 1 /\ made + 1 \in Calls
    BY AskViewIs DEF Inv, Rules, CreateView, list, handles, viewBook, surfaceBook, notices
  <1>2. UNCHANGED <<layers, running, renderClosing, publicClosing, admission, mapLock, refs,
    browser, closing, viewClosing, viewLock, viewNames, views, tasks, surfClosing, surfNames,
    surfaces, registered, pending, asked, told>>
    BY AskViewIs DEF Inv, Rules, CreateView, list, handles, viewBook, surfaceBook, notices
  <1>3. Main \in Threads /\ None \notin Calls /\ None \notin Names /\ None \notin Threads /\ made \in Nat
    BY Nobody, FramesAre DEF Inv, Rules
  <1>4. Locks'
    BY <1>1, <1>2, <1>3 DEF Locks, Inv, Rules, Throughout, Becomes
  <1>5. MainIs'
    BY <1>1, <1>2, <1>3 DEF MainIs, Stage, Sweeping, Inv, Rules, Throughout, Becomes
  <1>6. Hands'
    BY <1>1, <1>2, <1>3 DEF Hands, Inv, Rules, Throughout, Becomes
  <1>7. Reserved'
    BY <1>1, <1>2, <1>3 DEF Reserved, Reserving, Inv, Rules, Throughout, Becomes
  <1>8. Notified'
    BY <1>1, <1>2, <1>3 DEF Notified, Waits, Inv, Rules, Throughout, Becomes
  <1>9. Known'
    BY <1>1, <1>2, <1>3 DEF Known, Inv, Rules, Throughout, Becomes
  <1>10. Ended'
    BY <1>1, <1>2, <1>3 DEF Ended, Held, Stage, Sweeping, AfterViews, AfterSurfaces, AfterBook,
      MainIs, Inv, Rules, Throughout, Becomes
  <1>11. Ahead'
    BY <1>1, <1>2, <1>3 DEF Ahead, Unused, Fresh, Calls, Inv, Rules, Throughout, Becomes
  <1>12. Counted'
    BY <1>1, <1>2, <1>3 DEF Counted, Numbered, Beginning, Fresh, Calls, Inv, Rules, Throughout,
      Becomes
  <1>13. Waiting'
    BY <1>1, <1>2, <1>3 DEF Ahead, Counted, Distinct, Waiting, Beginning, Numbered, Unused, Fresh,
      Calls, Inv, Rules, Throughout, Becomes
  <1>14. Distinct'
    BY <1>1, <1>2, <1>3 DEF Distinct, Counted, Numbered, Beginning, Fresh, Calls, Inv, Rules,
      Throughout, Becomes
  <1>15. ASSUME ~viewClosing' PROVE ViewBook'
    <2>0. ViewBook
      BY <1>1, <1>2, <1>15 DEF Inv, Rules
    <2>1. ViewsOwn'
      <3>1. ASSUME NEW h, NEW x, Owns(h, x) PROVE Owns(h, x)'
        BY <1>1, <1>2, <3>1 DEF Owns, Becomes
      <3> QED BY <1>2, <2>0, <3>1 DEF ViewBook, ViewsOwn
    <2>2. ViewsDiffer'
      BY <1>1, <1>2, <1>3, <2>0 DEF ViewsDiffer, OneReserves, Reserving, ViewBook, Becomes
    <2>3. MakersOwn'
      BY <1>1, <1>2, <1>3, <2>0 DEF MakersOwn, Owns, ViewBook, Becomes
    <2>4. OneReserves'
      BY <1>1, <1>2, <1>3, <2>0 DEF OneReserves, Reserving, ViewBook, Becomes
    <2> QED BY <2>1, <2>2, <2>3, <2>4 DEF ViewBook
  <1>16. ASSUME ~publicClosing' PROVE Book'
    <2>0. Book
      BY <1>1, <1>2, <1>16 DEF Inv, Rules
    <2>1. Named'
      BY <1>1, <1>2, <1>3, <2>0 DEF Named, Book, Browsers, SurfaceBook, Becomes
    <2>2. OneEach'
      BY <1>1, <1>2, <1>3, <2>0 DEF OneEach, Book, Browsers, SurfaceBook, Becomes
    <2>3. MenusOwn'
      BY <1>1, <1>2, <1>3, <2>0 DEF MenusOwn, Book, Browsers, SurfaceBook, Becomes
    <2>4. ClosingEnds'
      BY <1>1, <1>2, <1>3, <2>0 DEF ClosingEnds, Ending, Book, Browsers, SurfaceBook, Becomes
    <2>5. EndingCloses'
      BY <1>1, <1>2, <1>3, <2>0 DEF EndingCloses, Ending, Book, Browsers, SurfaceBook, Becomes
    <2>6. UsedIsListed'
      BY <1>1, <1>2, <1>3, <2>0 DEF UsedIsListed, Book, Browsers, SurfaceBook, Becomes
    <2>7. UnusedIsGone'
      BY <1>1, <1>2, <1>3, <2>0 DEF UnusedIsGone, Gone, Book, Browsers, SurfaceBook, Becomes
    <2>8. EndingGoesOn'
      BY <1>1, <1>2, <1>3, <2>0 DEF EndingGoesOn, Ending, Gone, EndingCloses, Book, Browsers,
        SurfaceBook, Becomes
    <2>9. SurfacesListed'
      BY <1>1, <1>2, <1>3, <2>0 DEF SurfacesListed, Removing, Book, Browsers, SurfaceBook, Becomes
    <2>10. TakenAreUsed'
      BY <1>1, <1>2, <1>3, <2>0 DEF TakenAreUsed, Making, Book, Browsers, SurfaceBook, Becomes
    <2>11. OneMakes'
      BY <1>1, <1>2, <1>3, <2>0 DEF OneMakes, Making, Book, Browsers, SurfaceBook, Becomes
    <2>12. MadeAreListed'
      BY <1>1, <1>2, <1>3, <2>0 DEF MadeAreListed, Removing, Book, Browsers, SurfaceBook, Becomes
    <2>13. OneRemoves'
      BY <1>1, <1>2, <1>3, <2>0 DEF OneRemoves, Removing, Book, Browsers, SurfaceBook, Becomes
    <2>14. ListedAreHeld'
      BY <1>1, <1>2, <1>3, <2>0 DEF ListedAreHeld, Held, Book, Browsers, SurfaceBook, Becomes
    <2> QED BY <2>1, <2>2, <2>3, <2>4, <2>5, <2>6, <2>7, <2>8, <2>9, <2>10, <2>11, <2>12, <2>13,
          <2>14 DEF Book, Browsers, SurfaceBook
  <1> QED BY <1>4, <1>5, <1>6, <1>7, <1>8, <1>9, <1>10, <1>11, <1>12, <1>13, <1>14, <1>15, <1>16
      DEF Rules, Throughout, Fresh

\* A consumer gives its handle back.
LEMMA GiveBackKept ==
  ASSUME Inv, NEW t \in Threads, NEW n \in PlainNames, NEW h \in refs[n],
         ReleaseBrowserHandle(t, n, h), UNCHANGED <<surfaceBook, notices>>
  PROVE  Rules'
  <1>1. /\ n \in BrowserNames /\ n \notin ViewNames /\ h \in refs[n] /\ h \in Calls
        /\ frame[t].at = "idle" /\ Becomes(t, "release", None, n, h, {}, "idle")
    BY GiveBackIs, NamesAssumption DEF Inv, Rules, BrowserNames, ReleaseBrowserHandle, list,
      handles, viewBook, surfaceBook, notices
  <1>2. UNCHANGED <<layers, running, renderClosing, made, publicClosing, admission, mapLock, refs,
    browser, closing, viewClosing, viewLock, viewNames, views, tasks, surfClosing, surfNames,
    surfaces, registered, pending, asked, told>>
    BY GiveBackIs, NamesAssumption DEF Inv, Rules, BrowserNames, ReleaseBrowserHandle, list,
      handles, viewBook, surfaceBook, notices
  <1>3. Main \in Threads /\ None \notin Calls /\ None \notin Names /\ None \notin Threads /\ made \in Nat
    BY Nobody, FramesAre DEF Inv, Rules
  <1>4. Locks'
    BY <1>1, <1>2, <1>3 DEF Locks, Inv, Rules, Throughout, Becomes
  <1>5. MainIs'
    BY <1>1, <1>2, <1>3 DEF MainIs, Stage, Sweeping, Inv, Rules, Throughout, Becomes
  <1>6. Hands'
    BY <1>1, <1>2, <1>3 DEF Hands, Inv, Rules, Throughout, Becomes
  <1>7. Reserved'
    BY <1>1, <1>2, <1>3 DEF Reserved, Reserving, Inv, Rules, Throughout, Becomes
  <1>8. Notified'
    BY <1>1, <1>2, <1>3 DEF Notified, Waits, Inv, Rules, Throughout, Becomes
  <1>9. Known'
    BY <1>1, <1>2, <1>3 DEF Known, Inv, Rules, Throughout, Becomes
  <1>10. Ended'
    BY <1>1, <1>2, <1>3 DEF Ended, Held, Stage, Sweeping, AfterViews, AfterSurfaces, AfterBook,
      MainIs, Inv, Rules, Throughout, Becomes
  <1>11. Ahead'
    BY <1>1, <1>2, <1>3 DEF Ahead, Unused, Fresh, Calls, Inv, Rules, Throughout, Becomes
  <1>12. Counted'
    BY <1>1, <1>2, <1>3 DEF Counted, Numbered, Beginning, Fresh, Calls, Inv, Rules, Throughout,
      Becomes
  <1>13. Waiting'
    BY <1>1, <1>2, <1>3 DEF Ahead, Counted, Distinct, Waiting, Beginning, Numbered, Unused, Fresh,
      Calls, Inv, Rules, Throughout, Becomes
  <1>14. Distinct'
    BY <1>1, <1>2, <1>3 DEF Distinct, Counted, Numbered, Beginning, Fresh, Calls, Inv, Rules,
      Throughout, Becomes
  <1>15. ASSUME ~viewClosing' PROVE ViewBook'
    <2>0. ViewBook
      BY <1>1, <1>2, <1>15 DEF Inv, Rules
    <2>1. ViewsOwn'
      <3>1. ASSUME NEW g, NEW x \in ViewNames, Owns(g, x) PROVE Owns(g, x)'
        BY <1>1, <1>2, <3>1 DEF Owns, Becomes
      <3> QED BY <1>2, <2>0, <3>1, BooksAre DEF ViewBook, ViewsOwn, Inv, Rules
    <2>2. ViewsDiffer'
      BY <1>1, <1>2, <1>3, <2>0 DEF ViewsDiffer, OneReserves, Reserving, ViewBook, Becomes
    <2>3. MakersOwn'
      <3>1. ASSUME NEW g, NEW x \in ViewNames, Owns(g, x) PROVE Owns(g, x)'
        BY <1>1, <1>2, <3>1 DEF Owns, Becomes
      <3> QED BY <1>1, <2>0, <3>1, BooksAre DEF ViewBook, MakersOwn, Inv, Rules, Becomes
    <2>4. OneReserves'
      BY <1>1, <1>2, <1>3, <2>0 DEF OneReserves, Reserving, ViewBook, Becomes
    <2> QED BY <2>1, <2>2, <2>3, <2>4 DEF ViewBook
  <1>16. ASSUME ~publicClosing' PROVE Book'
    <2>0. Book
      BY <1>1, <1>2, <1>16 DEF Inv, Rules
    <2>1. Named'
      BY <1>1, <1>2, <1>3, <2>0 DEF Named, Book, Browsers, SurfaceBook, Becomes
    <2>2. OneEach'
      BY <1>1, <1>2, <1>3, <2>0 DEF OneEach, Book, Browsers, SurfaceBook, Becomes
    <2>3. MenusOwn'
      BY <1>1, <1>2, <1>3, <2>0 DEF MenusOwn, Book, Browsers, SurfaceBook, Becomes
    <2>4. ClosingEnds'
      BY <1>1, <1>2, <1>3, <2>0 DEF ClosingEnds, Ending, Book, Browsers, SurfaceBook, Becomes
    <2>5. EndingCloses'
      BY <1>1, <1>2, <1>3, <2>0 DEF EndingCloses, Ending, Book, Browsers, SurfaceBook, Becomes
    <2>6. UsedIsListed'
      BY <1>1, <1>2, <1>3, <2>0 DEF UsedIsListed, Book, Browsers, SurfaceBook, Becomes
    <2>7. UnusedIsGone'
      BY <1>1, <1>2, <1>3, <2>0 DEF UnusedIsGone, Gone, Book, Browsers, SurfaceBook, Becomes
    <2>8. EndingGoesOn'
      BY <1>1, <1>2, <1>3, <2>0 DEF EndingGoesOn, Ending, Gone, EndingCloses, Book, Browsers,
        SurfaceBook, Becomes
    <2>9. SurfacesListed'
      BY <1>1, <1>2, <1>3, <2>0 DEF SurfacesListed, Removing, Book, Browsers, SurfaceBook, Becomes
    <2>10. TakenAreUsed'
      BY <1>1, <1>2, <1>3, <2>0 DEF TakenAreUsed, Making, Book, Browsers, SurfaceBook, Becomes
    <2>11. OneMakes'
      BY <1>1, <1>2, <1>3, <2>0 DEF OneMakes, Making, Book, Browsers, SurfaceBook, Becomes
    <2>12. MadeAreListed'
      BY <1>1, <1>2, <1>3, <2>0 DEF MadeAreListed, Removing, Book, Browsers, SurfaceBook, Becomes
    <2>13. OneRemoves'
      BY <1>1, <1>2, <1>3, <2>0 DEF OneRemoves, Removing, Book, Browsers, SurfaceBook, Becomes
    <2>14. ListedAreHeld'
      BY <1>1, <1>2, <1>3, <2>0 DEF ListedAreHeld, Held, Book, Browsers, SurfaceBook, Becomes
    <2> QED BY <2>1, <2>2, <2>3, <2>4, <2>5, <2>6, <2>7, <2>8, <2>9, <2>10, <2>11, <2>12, <2>13,
          <2>14 DEF Book, Browsers, SurfaceBook
  <1> QED BY <1>4, <1>5, <1>6, <1>7, <1>8, <1>9, <1>10, <1>11, <1>12, <1>13, <1>14, <1>15, <1>16
      DEF Rules, Throughout, Fresh

\* A view leaves the book; its handle is still to be given back.
LEMMA DestroyViewKept ==
  ASSUME Inv, NEW t \in Threads, NEW v \in views, DestroyView(t, v),
         UNCHANGED <<surfaceBook, notices>>
  PROVE  Rules'
  <1>1. /\ frame[t].at = "idle" /\ Becomes(t, "drop", None, v.name, v.view, {}, "idle")
        /\ v.name \in ViewNames /\ v.view \in Calls /\ v \in views
        /\ views' = views \ {v} /\ viewNames' = viewNames \ {v.name}
    BY DestroyViewIs DEF Inv, Rules, DestroyView, list, handles, viewBook, surfaceBook, notices
  <1>2. UNCHANGED <<layers, running, renderClosing, made, publicClosing, admission, mapLock, refs,
    browser, closing, viewClosing, viewLock, tasks, surfClosing, surfNames, surfaces, registered,
    pending, asked, told>>
    BY DestroyViewIs DEF Inv, Rules, DestroyView, list, handles, viewBook, surfaceBook, notices
  <1>3. Main \in Threads /\ None \notin Calls /\ None \notin Names /\ None \notin Threads /\ made \in Nat
    BY Nobody, FramesAre DEF Inv, Rules
  <1>4. Locks'
    BY <1>1, <1>2, <1>3 DEF Locks, Inv, Rules, Throughout, Becomes
  <1>5. MainIs'
    BY <1>1, <1>2, <1>3 DEF MainIs, Stage, Sweeping, Inv, Rules, Throughout, Becomes
  <1>6. Hands'
    BY <1>1, <1>2, <1>3 DEF Hands, Inv, Rules, Throughout, Becomes
  <1>7. Reserved'
    BY <1>1, <1>2, <1>3 DEF Reserved, Reserving, Inv, Rules, Throughout, Becomes
  <1>8. Notified'
    BY <1>1, <1>2, <1>3 DEF Notified, Waits, Inv, Rules, Throughout, Becomes
  <1>9. Known'
    BY <1>1, <1>2, <1>3 DEF Known, Inv, Rules, Throughout, Becomes
  <1>10. Ended'
    BY <1>1, <1>2, <1>3 DEF Ended, Held, Stage, Sweeping, AfterViews, AfterSurfaces, AfterBook,
      MainIs, Inv, Rules, Throughout, Becomes
  <1>11. Ahead'
    BY <1>1, <1>2, <1>3 DEF Ahead, Unused, Fresh, Calls, Inv, Rules, Throughout, Becomes
  <1>12. Counted'
    BY <1>1, <1>2, <1>3 DEF Counted, Numbered, Beginning, Fresh, Calls, Inv, Rules, Throughout,
      Becomes
  <1>13. Waiting'
    BY <1>1, <1>2, <1>3 DEF Ahead, Counted, Distinct, Waiting, Beginning, Numbered, Unused, Fresh,
      Calls, Inv, Rules, Throughout, Becomes
  <1>14. Distinct'
    BY <1>1, <1>2, <1>3 DEF Distinct, Counted, Numbered, Beginning, Fresh, Calls, Inv, Rules,
      Throughout, Becomes
  <1>15. ASSUME ~viewClosing' PROVE ViewBook'
    <2>0. ViewBook
      BY <1>1, <1>2, <1>15 DEF Inv, Rules
    <2>1. ViewsOwn'
      <3>1. ASSUME NEW g, NEW x, x # v.name, Owns(g, x) PROVE Owns(g, x)'
        BY <1>1, <1>2, <3>1 DEF Owns, Becomes
      <3>2. \A w \in views' : w \in views /\ w.name # v.name
        BY <1>1, <2>0 DEF ViewBook, ViewsDiffer
      <3> QED BY <1>1, <1>2, <2>0, <3>1, <3>2 DEF ViewBook, ViewsOwn
    <2>2. ViewsDiffer'
      BY <1>1, <1>2, <1>3, <2>0 DEF ViewsDiffer, OneReserves, Reserving, ViewBook, Becomes
    <2>3. MakersOwn'
      <3>1. ASSUME NEW g, NEW x, x # v.name, Owns(g, x) PROVE Owns(g, x)'
        BY <1>1, <1>2, <3>1 DEF Owns, Becomes
      <3>2. \A u \in Threads : frame[u].at = "publish" => frame[u].name # v.name
        BY <1>1, <2>0, BooksAre DEF ViewBook, OneReserves, Reserving, Inv, Rules
      <3> QED BY <1>1, <2>0, <3>1, <3>2 DEF ViewBook, MakersOwn, Becomes
    <2>4. OneReserves'
      BY <1>1, <1>2, <1>3, <2>0 DEF OneReserves, Reserving, ViewBook, Becomes
    <2> QED BY <2>1, <2>2, <2>3, <2>4 DEF ViewBook
  <1>16. ASSUME ~publicClosing' PROVE Book'
    <2>0. Book
      BY <1>1, <1>2, <1>16 DEF Inv, Rules
    <2>1. Named'
      BY <1>1, <1>2, <1>3, <2>0 DEF Named, Book, Browsers, SurfaceBook, Becomes
    <2>2. OneEach'
      BY <1>1, <1>2, <1>3, <2>0 DEF OneEach, Book, Browsers, SurfaceBook, Becomes
    <2>3. MenusOwn'
      BY <1>1, <1>2, <1>3, <2>0 DEF MenusOwn, Book, Browsers, SurfaceBook, Becomes
    <2>4. ClosingEnds'
      BY <1>1, <1>2, <1>3, <2>0 DEF ClosingEnds, Ending, Book, Browsers, SurfaceBook, Becomes
    <2>5. EndingCloses'
      BY <1>1, <1>2, <1>3, <2>0 DEF EndingCloses, Ending, Book, Browsers, SurfaceBook, Becomes
    <2>6. UsedIsListed'
      BY <1>1, <1>2, <1>3, <2>0 DEF UsedIsListed, Book, Browsers, SurfaceBook, Becomes
    <2>7. UnusedIsGone'
      BY <1>1, <1>2, <1>3, <2>0 DEF UnusedIsGone, Gone, Book, Browsers, SurfaceBook, Becomes
    <2>8. EndingGoesOn'
      BY <1>1, <1>2, <1>3, <2>0 DEF EndingGoesOn, Ending, Gone, EndingCloses, Book, Browsers,
        SurfaceBook, Becomes
    <2>9. SurfacesListed'
      BY <1>1, <1>2, <1>3, <2>0 DEF SurfacesListed, Removing, Book, Browsers, SurfaceBook, Becomes
    <2>10. TakenAreUsed'
      BY <1>1, <1>2, <1>3, <2>0 DEF TakenAreUsed, Making, Book, Browsers, SurfaceBook, Becomes
    <2>11. OneMakes'
      BY <1>1, <1>2, <1>3, <2>0 DEF OneMakes, Making, Book, Browsers, SurfaceBook, Becomes
    <2>12. MadeAreListed'
      BY <1>1, <1>2, <1>3, <2>0 DEF MadeAreListed, Removing, Book, Browsers, SurfaceBook, Becomes
    <2>13. OneRemoves'
      BY <1>1, <1>2, <1>3, <2>0 DEF OneRemoves, Removing, Book, Browsers, SurfaceBook, Becomes
    <2>14. ListedAreHeld'
      BY <1>1, <1>2, <1>3, <2>0 DEF ListedAreHeld, Held, Book, Browsers, SurfaceBook, Becomes
    <2> QED BY <2>1, <2>2, <2>3, <2>4, <2>5, <2>6, <2>7, <2>8, <2>9, <2>10, <2>11, <2>12, <2>13,
          <2>14 DEF Book, Browsers, SurfaceBook
  <1> QED BY <1>4, <1>5, <1>6, <1>7, <1>8, <1>9, <1>10, <1>11, <1>12, <1>13, <1>14, <1>15, <1>16
      DEF Rules, Throughout, Fresh

\* A posted task gives a handle back.
LEMMA RunTaskKept ==
  ASSUME Inv, NEW task \in tasks, RunTask(task), UNCHANGED <<surfaceBook, notices>>
  PROVE  Rules'
  <1>1. /\ frame[Main].at = "idle" /\ Becomes(Main, "release", None, task[2], task[1], {}, "idle")
        /\ task[2] \in ViewNames /\ task[1] \in Calls /\ task \in tasks /\ task = <<task[1], task[2]>>
        /\ tasks' = tasks \ {task}
    BY RunTaskIs, BooksAre DEF Inv, Rules
  <1>2. UNCHANGED <<layers, running, renderClosing, made, publicClosing, admission, mapLock, refs,
    browser, closing, viewClosing, viewLock, viewNames, views, surfClosing, surfNames, surfaces,
    registered, pending, asked, told>>
    BY DEF RunTask, list, handles, viewBook, surfaceBook, notices
  <1>3. Main \in Threads /\ None \notin Calls /\ None \notin Names /\ None \notin Threads /\ made \in Nat
    BY Nobody, FramesAre DEF Inv, Rules
  <1>4. Locks'
    BY <1>1, <1>2, <1>3 DEF Locks, Inv, Rules, Throughout, Becomes
  <1>5. MainIs'
    BY <1>1, <1>2, <1>3 DEF MainIs, Stage, Sweeping, Inv, Rules, Throughout, Becomes
  <1>6. Hands'
    BY <1>1, <1>2, <1>3 DEF Hands, Inv, Rules, Throughout, Becomes
  <1>7. Reserved'
    BY <1>1, <1>2, <1>3 DEF Reserved, Reserving, Inv, Rules, Throughout, Becomes
  <1>8. Notified'
    BY <1>1, <1>2, <1>3 DEF Notified, Waits, Inv, Rules, Throughout, Becomes
  <1>9. Known'
    BY <1>1, <1>2, <1>3 DEF Known, Inv, Rules, Throughout, Becomes
  <1>10. Ended'
    BY <1>1, <1>2, <1>3 DEF Ended, Held, Stage, Sweeping, AfterViews, AfterSurfaces, AfterBook,
      MainIs, Inv, Rules, Throughout, Becomes
  <1>11. Ahead'
    BY <1>1, <1>2, <1>3 DEF Ahead, Unused, Fresh, Calls, Inv, Rules, Throughout, Becomes
  <1>12. Counted'
    BY <1>1, <1>2, <1>3 DEF Counted, Numbered, Beginning, Fresh, Calls, Inv, Rules, Throughout,
      Becomes
  <1>13. Waiting'
    BY <1>1, <1>2, <1>3 DEF Ahead, Counted, Distinct, Waiting, Beginning, Numbered, Unused, Fresh,
      Calls, Inv, Rules, Throughout, Becomes
  <1>14. Distinct'
    BY <1>1, <1>2, <1>3 DEF Distinct, Counted, Numbered, Beginning, Fresh, Calls, Inv, Rules,
      Throughout, Becomes
  <1>15. ASSUME ~viewClosing' PROVE ViewBook'
    <2>0. ViewBook
      BY <1>1, <1>2, <1>15 DEF Inv, Rules
    <2>1. ViewsOwn'
      <3>1. ASSUME NEW h, NEW x, Owns(h, x) PROVE Owns(h, x)'
        BY <1>1, <1>2, <3>1 DEF Owns, Becomes
      <3> QED BY <1>2, <2>0, <3>1 DEF ViewBook, ViewsOwn
    <2>2. ViewsDiffer'
      BY <1>1, <1>2, <1>3, <2>0 DEF ViewsDiffer, OneReserves, Reserving, ViewBook, Becomes
    <2>3. MakersOwn'
      BY <1>1, <1>2, <1>3, <2>0 DEF MakersOwn, Owns, ViewBook, Becomes
    <2>4. OneReserves'
      BY <1>1, <1>2, <1>3, <2>0 DEF OneReserves, Reserving, ViewBook, Becomes
    <2> QED BY <2>1, <2>2, <2>3, <2>4 DEF ViewBook
  <1>16. ASSUME ~publicClosing' PROVE Book'
    <2>0. Book
      BY <1>1, <1>2, <1>16 DEF Inv, Rules
    <2>1. Named'
      BY <1>1, <1>2, <1>3, <2>0 DEF Named, Book, Browsers, SurfaceBook, Becomes
    <2>2. OneEach'
      BY <1>1, <1>2, <1>3, <2>0 DEF OneEach, Book, Browsers, SurfaceBook, Becomes
    <2>3. MenusOwn'
      BY <1>1, <1>2, <1>3, <2>0 DEF MenusOwn, Book, Browsers, SurfaceBook, Becomes
    <2>4. ClosingEnds'
      BY <1>1, <1>2, <1>3, <2>0 DEF ClosingEnds, Ending, Book, Browsers, SurfaceBook, Becomes
    <2>5. EndingCloses'
      BY <1>1, <1>2, <1>3, <2>0 DEF EndingCloses, Ending, Book, Browsers, SurfaceBook, Becomes
    <2>6. UsedIsListed'
      BY <1>1, <1>2, <1>3, <2>0 DEF UsedIsListed, Book, Browsers, SurfaceBook, Becomes
    <2>7. UnusedIsGone'
      BY <1>1, <1>2, <1>3, <2>0 DEF UnusedIsGone, Gone, Book, Browsers, SurfaceBook, Becomes
    <2>8. EndingGoesOn'
      BY <1>1, <1>2, <1>3, <2>0 DEF EndingGoesOn, Ending, Gone, EndingCloses, Book, Browsers,
        SurfaceBook, Becomes
    <2>9. SurfacesListed'
      BY <1>1, <1>2, <1>3, <2>0 DEF SurfacesListed, Removing, Book, Browsers, SurfaceBook, Becomes
    <2>10. TakenAreUsed'
      BY <1>1, <1>2, <1>3, <2>0 DEF TakenAreUsed, Making, Book, Browsers, SurfaceBook, Becomes
    <2>11. OneMakes'
      BY <1>1, <1>2, <1>3, <2>0 DEF OneMakes, Making, Book, Browsers, SurfaceBook, Becomes
    <2>12. MadeAreListed'
      BY <1>1, <1>2, <1>3, <2>0 DEF MadeAreListed, Removing, Book, Browsers, SurfaceBook, Becomes
    <2>13. OneRemoves'
      BY <1>1, <1>2, <1>3, <2>0 DEF OneRemoves, Removing, Book, Browsers, SurfaceBook, Becomes
    <2>14. ListedAreHeld'
      BY <1>1, <1>2, <1>3, <2>0 DEF ListedAreHeld, Held, Book, Browsers, SurfaceBook, Becomes
    <2> QED BY <2>1, <2>2, <2>3, <2>4, <2>5, <2>6, <2>7, <2>8, <2>9, <2>10, <2>11, <2>12, <2>13,
          <2>14 DEF Book, Browsers, SurfaceBook
  <1> QED BY <1>4, <1>5, <1>6, <1>7, <1>8, <1>9, <1>10, <1>11, <1>12, <1>13, <1>14, <1>15, <1>16
      DEF Rules, Throughout, Fresh

\* CreateView takes its name, or ends.
LEMMA ReserveKept ==
  ASSUME Inv, NEW t \in Threads, Reserve(t), UNCHANGED <<surfaceBook, notices>>
  PROVE  Rules'
  <1>1. /\ frame[t].at = "reserve" /\ frame[t].name \in ViewNames /\ frame[t].call \in Calls
        /\ \/ Rests(t) /\ UNCHANGED viewNames
           \/ /\ frame[t].name \notin viewNames /\ viewNames' = viewNames \cup {frame[t].name}
              /\ \/ Turns(t, "unreserve")
                 \/ Becomes(t, "acquire", frame[t].call, frame[t].name, frame[t].handle, frame[t].menus, "publish")
    BY ReserveIs DEF Inv, Rules, Reserve, list, handles, viewBook, surfaceBook, notices
  <1>2. UNCHANGED <<layers, running, renderClosing, made, publicClosing, admission, mapLock, refs,
    browser, closing, viewClosing, viewLock, views, tasks, surfClosing, surfNames, surfaces,
    registered, pending, asked, told>>
    BY ReserveIs DEF Inv, Rules, Reserve, list, handles, viewBook, surfaceBook, notices
  <1>3. Main \in Threads /\ None \notin Calls /\ None \notin Names /\ None \notin Threads /\ made \in Nat
    BY Nobody, FramesAre DEF Inv, Rules
  <1>4. Locks'
    BY <1>1, <1>2, <1>3 DEF Locks, Inv, Rules, Throughout, Rests, Turns, Becomes
  <1>5. MainIs'
    BY <1>1, <1>2, <1>3 DEF MainIs, Stage, Sweeping, Inv, Rules, Throughout, Rests, Turns, Becomes
  <1>6. Hands'
    BY <1>1, <1>2, <1>3 DEF Hands, Inv, Rules, Throughout, Rests, Turns, Becomes
  <1>7. Reserved'
    BY <1>1, <1>2, <1>3 DEF Reserved, Reserving, Inv, Rules, Throughout, Rests, Turns, Becomes
  <1>8. Notified'
    BY <1>1, <1>2, <1>3 DEF Notified, Waits, Inv, Rules, Throughout, Rests, Turns, Becomes
  <1>9. Known'
    BY <1>1, <1>2, <1>3 DEF Known, Inv, Rules, Throughout, Rests, Turns, Becomes
  <1>10. Ended'
    BY <1>1, <1>2, <1>3 DEF Ended, Held, Stage, Sweeping, AfterViews, AfterSurfaces, AfterBook,
      MainIs, Inv, Rules, Throughout, Rests, Turns, Becomes
  <1>11. Ahead'
    BY <1>1, <1>2, <1>3 DEF Ahead, Unused, Fresh, Calls, Inv, Rules, Throughout, Rests, Turns,
      Becomes
  <1>12. Counted'
    BY <1>1, <1>2, <1>3 DEF Counted, Numbered, Beginning, Fresh, Calls, Inv, Rules, Throughout,
      Rests, Turns, Becomes
  <1>13. Waiting'
    BY <1>1, <1>2, <1>3 DEF Ahead, Counted, Distinct, Waiting, Beginning, Numbered, Unused, Fresh,
      Calls, Inv, Rules, Throughout, Rests, Turns, Becomes
  <1>14. Distinct'
    BY <1>1, <1>2, <1>3 DEF Distinct, Counted, Numbered, Beginning, Fresh, Calls, Inv, Rules,
      Throughout, Rests, Turns, Becomes
  <1>15. ASSUME ~viewClosing' PROVE ViewBook'
    <2>0. ViewBook
      BY <1>1, <1>2, <1>15 DEF Inv, Rules
    <2>1. ViewsOwn'
      <3>1. ASSUME NEW h, NEW x, Owns(h, x) PROVE Owns(h, x)'
        BY <1>1, <1>2, <3>1 DEF Owns, Rests, Turns, Becomes
      <3> QED BY <1>1, <1>2, <2>0, <3>1 DEF ViewBook, ViewsOwn
    <2>2. ViewsDiffer'
      BY <1>1, <1>2, <1>3, <2>0 DEF ViewsDiffer, OneReserves, Reserving, ViewBook, Rests, Turns,
        Becomes
    <2>3. MakersOwn'
      BY <1>1, <1>2, <1>3, <2>0 DEF MakersOwn, Owns, ViewBook, Rests, Turns, Becomes
    <2>4. OneReserves'
      <3>1. \A n \in viewNames : n \in viewNames'
        BY <1>1
      <3>2. ASSUME NEW u \in Threads, NEW n \in ViewNames, Reserving(u, n)'
            PROVE  Reserving(u, n) \/ (u = t /\ n = frame[t].name /\ n \notin viewNames /\ n \in viewNames')
        BY <1>1, <3>2 DEF Reserving, Rests, Turns, Becomes
      <3>3. \A v \in views : v.name \in viewNames
        BY <2>0 DEF ViewBook, ViewsOwn
      <3>4. ~Reserving(t, frame[t].name)
        BY <1>1 DEF Reserving
      <3> QED BY <1>2, <2>0, <3>1, <3>2, <3>3, <3>4 DEF ViewBook, OneReserves
    <2> QED BY <2>1, <2>2, <2>3, <2>4 DEF ViewBook
  <1>16. ASSUME ~publicClosing' PROVE Book'
    <2>0. Book
      BY <1>1, <1>2, <1>16 DEF Inv, Rules
    <2>1. Named'
      BY <1>1, <1>2, <1>3, <2>0 DEF Named, Book, Browsers, SurfaceBook, Rests, Turns, Becomes
    <2>2. OneEach'
      BY <1>1, <1>2, <1>3, <2>0 DEF OneEach, Book, Browsers, SurfaceBook, Rests, Turns, Becomes
    <2>3. MenusOwn'
      BY <1>1, <1>2, <1>3, <2>0 DEF MenusOwn, Book, Browsers, SurfaceBook, Rests, Turns, Becomes
    <2>4. ClosingEnds'
      BY <1>1, <1>2, <1>3, <2>0 DEF ClosingEnds, Ending, Book, Browsers, SurfaceBook, Rests, Turns,
        Becomes
    <2>5. EndingCloses'
      BY <1>1, <1>2, <1>3, <2>0 DEF EndingCloses, Ending, Book, Browsers, SurfaceBook, Rests, Turns,
        Becomes
    <2>6. UsedIsListed'
      BY <1>1, <1>2, <1>3, <2>0 DEF UsedIsListed, Book, Browsers, SurfaceBook, Rests, Turns, Becomes
    <2>7. UnusedIsGone'
      BY <1>1, <1>2, <1>3, <2>0 DEF UnusedIsGone, Gone, Book, Browsers, SurfaceBook, Rests, Turns,
        Becomes
    <2>8. EndingGoesOn'
      BY <1>1, <1>2, <1>3, <2>0 DEF EndingGoesOn, Ending, Gone, EndingCloses, Book, Browsers,
        SurfaceBook, Rests, Turns, Becomes
    <2>9. SurfacesListed'
      BY <1>1, <1>2, <1>3, <2>0 DEF SurfacesListed, Removing, Book, Browsers, SurfaceBook, Rests,
        Turns, Becomes
    <2>10. TakenAreUsed'
      BY <1>1, <1>2, <1>3, <2>0 DEF TakenAreUsed, Making, Book, Browsers, SurfaceBook, Rests, Turns,
        Becomes
    <2>11. OneMakes'
      BY <1>1, <1>2, <1>3, <2>0 DEF OneMakes, Making, Book, Browsers, SurfaceBook, Rests, Turns,
        Becomes
    <2>12. MadeAreListed'
      BY <1>1, <1>2, <1>3, <2>0 DEF MadeAreListed, Removing, Book, Browsers, SurfaceBook, Rests,
        Turns, Becomes
    <2>13. OneRemoves'
      BY <1>1, <1>2, <1>3, <2>0 DEF OneRemoves, Removing, Book, Browsers, SurfaceBook, Rests, Turns,
        Becomes
    <2>14. ListedAreHeld'
      BY <1>1, <1>2, <1>3, <2>0 DEF ListedAreHeld, Held, Book, Browsers, SurfaceBook, Rests, Turns,
        Becomes
    <2> QED BY <2>1, <2>2, <2>3, <2>4, <2>5, <2>6, <2>7, <2>8, <2>9, <2>10, <2>11, <2>12, <2>13,
          <2>14 DEF Book, Browsers, SurfaceBook
  <1> QED BY <1>4, <1>5, <1>6, <1>7, <1>8, <1>9, <1>10, <1>11, <1>12, <1>13, <1>14, <1>15, <1>16
      DEF Rules, Throughout, Fresh

\* CreateView gives its name back.
LEMMA UnreserveKept ==
  ASSUME Inv, NEW t \in Threads, Unreserve(t), UNCHANGED <<surfaceBook, notices>>
  PROVE  Rules'
  <1>1. /\ frame[t].at = "unreserve" /\ frame[t].name \in ViewNames /\ Rests(t)
        /\ viewNames' = viewNames \ {frame[t].name}
    BY UnreserveIs DEF Inv, Rules, Unreserve, list, handles, viewBook, surfaceBook, notices
  <1>2. UNCHANGED <<layers, running, renderClosing, made, publicClosing, admission, mapLock, refs,
    browser, closing, viewClosing, viewLock, views, tasks, surfClosing, surfNames, surfaces,
    registered, pending, asked, told>>
    BY UnreserveIs DEF Inv, Rules, Unreserve, list, handles, viewBook, surfaceBook, notices
  <1>3. Main \in Threads /\ None \notin Calls /\ None \notin Names /\ None \notin Threads /\ made \in Nat
    BY Nobody, FramesAre DEF Inv, Rules
  <1>4. Locks'
    BY <1>1, <1>2, <1>3 DEF Locks, Inv, Rules, Throughout, Rests, Becomes
  <1>5. MainIs'
    BY <1>1, <1>2, <1>3 DEF MainIs, Stage, Sweeping, Inv, Rules, Throughout, Rests, Becomes
  <1>6. Hands'
    BY <1>1, <1>2, <1>3 DEF Hands, Inv, Rules, Throughout, Rests, Becomes
  <1>7. Reserved'
    BY <1>1, <1>2, <1>3 DEF Reserved, Reserving, Inv, Rules, Throughout, Rests, Becomes
  <1>8. Notified'
    BY <1>1, <1>2, <1>3 DEF Notified, Waits, Inv, Rules, Throughout, Rests, Becomes
  <1>9. Known'
    BY <1>1, <1>2, <1>3 DEF Known, Inv, Rules, Throughout, Rests, Becomes
  <1>10. Ended'
    BY <1>1, <1>2, <1>3 DEF Ended, Held, Stage, Sweeping, AfterViews, AfterSurfaces, AfterBook,
      MainIs, Inv, Rules, Throughout, Rests, Becomes
  <1>11. Ahead'
    BY <1>1, <1>2, <1>3 DEF Ahead, Unused, Fresh, Calls, Inv, Rules, Throughout, Rests, Becomes
  <1>12. Counted'
    BY <1>1, <1>2, <1>3 DEF Counted, Numbered, Beginning, Fresh, Calls, Inv, Rules, Throughout,
      Rests, Becomes
  <1>13. Waiting'
    BY <1>1, <1>2, <1>3 DEF Ahead, Counted, Distinct, Waiting, Beginning, Numbered, Unused, Fresh,
      Calls, Inv, Rules, Throughout, Rests, Becomes
  <1>14. Distinct'
    BY <1>1, <1>2, <1>3 DEF Distinct, Counted, Numbered, Beginning, Fresh, Calls, Inv, Rules,
      Throughout, Rests, Becomes
  <1>15. ASSUME ~viewClosing' PROVE ViewBook'
    <2>0. ViewBook
      BY <1>1, <1>2, <1>15 DEF Inv, Rules
    <2>1. ViewsOwn'
      <3>1. ASSUME NEW h, NEW x, Owns(h, x) PROVE Owns(h, x)'
        BY <1>1, <1>2, <3>1 DEF Owns, Rests, Becomes
      <3>2. \A v \in views : v.name # frame[t].name
        BY <1>1, <2>0 DEF ViewBook, OneReserves, Reserving
      <3> QED BY <1>1, <1>2, <2>0, <3>1, <3>2 DEF ViewBook, ViewsOwn
    <2>2. ViewsDiffer'
      BY <1>1, <1>2, <1>3, <2>0 DEF ViewsDiffer, OneReserves, Reserving, ViewBook, Rests, Becomes
    <2>3. MakersOwn'
      BY <1>1, <1>2, <1>3, <2>0 DEF MakersOwn, Owns, ViewBook, Rests, Becomes
    <2>4. OneReserves'
      BY <1>1, <1>2, <1>3, <2>0 DEF OneReserves, Reserving, ViewBook, Rests, Becomes
    <2> QED BY <2>1, <2>2, <2>3, <2>4 DEF ViewBook
  <1>16. ASSUME ~publicClosing' PROVE Book'
    <2>0. Book
      BY <1>1, <1>2, <1>16 DEF Inv, Rules
    <2>1. Named'
      BY <1>1, <1>2, <1>3, <2>0 DEF Named, Book, Browsers, SurfaceBook, Rests, Becomes
    <2>2. OneEach'
      BY <1>1, <1>2, <1>3, <2>0 DEF OneEach, Book, Browsers, SurfaceBook, Rests, Becomes
    <2>3. MenusOwn'
      BY <1>1, <1>2, <1>3, <2>0 DEF MenusOwn, Book, Browsers, SurfaceBook, Rests, Becomes
    <2>4. ClosingEnds'
      BY <1>1, <1>2, <1>3, <2>0 DEF ClosingEnds, Ending, Book, Browsers, SurfaceBook, Rests, Becomes
    <2>5. EndingCloses'
      BY <1>1, <1>2, <1>3, <2>0 DEF EndingCloses, Ending, Book, Browsers, SurfaceBook, Rests,
        Becomes
    <2>6. UsedIsListed'
      BY <1>1, <1>2, <1>3, <2>0 DEF UsedIsListed, Book, Browsers, SurfaceBook, Rests, Becomes
    <2>7. UnusedIsGone'
      BY <1>1, <1>2, <1>3, <2>0 DEF UnusedIsGone, Gone, Book, Browsers, SurfaceBook, Rests, Becomes
    <2>8. EndingGoesOn'
      BY <1>1, <1>2, <1>3, <2>0 DEF EndingGoesOn, Ending, Gone, EndingCloses, Book, Browsers,
        SurfaceBook, Rests, Becomes
    <2>9. SurfacesListed'
      BY <1>1, <1>2, <1>3, <2>0 DEF SurfacesListed, Removing, Book, Browsers, SurfaceBook, Rests,
        Becomes
    <2>10. TakenAreUsed'
      BY <1>1, <1>2, <1>3, <2>0 DEF TakenAreUsed, Making, Book, Browsers, SurfaceBook, Rests,
        Becomes
    <2>11. OneMakes'
      BY <1>1, <1>2, <1>3, <2>0 DEF OneMakes, Making, Book, Browsers, SurfaceBook, Rests, Becomes
    <2>12. MadeAreListed'
      BY <1>1, <1>2, <1>3, <2>0 DEF MadeAreListed, Removing, Book, Browsers, SurfaceBook, Rests,
        Becomes
    <2>13. OneRemoves'
      BY <1>1, <1>2, <1>3, <2>0 DEF OneRemoves, Removing, Book, Browsers, SurfaceBook, Rests,
        Becomes
    <2>14. ListedAreHeld'
      BY <1>1, <1>2, <1>3, <2>0 DEF ListedAreHeld, Held, Book, Browsers, SurfaceBook, Rests, Becomes
    <2> QED BY <2>1, <2>2, <2>3, <2>4, <2>5, <2>6, <2>7, <2>8, <2>9, <2>10, <2>11, <2>12, <2>13,
          <2>14 DEF Book, Browsers, SurfaceBook
  <1> QED BY <1>4, <1>5, <1>6, <1>7, <1>8, <1>9, <1>10, <1>11, <1>12, <1>13, <1>14, <1>15, <1>16
      DEF Rules, Throughout, Fresh

\* A handle that is owned stays so, and a number unused, unless the thread that
\* moves sees to it.
\* What a step of one thread must leave for an owner to own its handle still.
LEMMA OwnsStays ==
  ASSUME NEW t \in Threads, \A u \in Threads : u # t => frame'[u] = frame[u],
         NEW h, NEW n, Owns(h, n), h \in refs'[n], <<h, n>> \notin tasks',
         frame'[t].at \in {"drop", "release"} => frame'[t].handle # h \/ frame'[t].name # n
  PROVE  Owns(h, n)'
  BY DEF Owns

\* What a step of one thread must leave for a number to be unused still.
LEMMA UnusedStays ==
  ASSUME NEW t \in Threads, \A u \in Threads : u # t => frame'[u] = frame[u],
         NEW c, Unused(c),
         \A n \in BrowserNames : c \notin refs'[n],
         \A n \in Names : layers'[n] # c /\ <<c, n>> \notin running',
         frame'[t].at \in {"remove", "shut"} => c \notin frame'[t].menus,
         frame'[t].at \in {"publish", "drop", "release"} => frame'[t].handle # c,
         \A k \in tasks' : k[1] # c,
         \A s \in surfaces' : s.surface # c,
         \A v \in views' : v.view # c
  PROVE  Unused(c)'
  BY DEF Unused

\* A call for a browser that returns.
LEMMA BackIs ==
  ASSUME Kinds, NEW t \in Threads, NEW h, Back(t, h), frame[t].at \in {"acquire", "build"}
  PROVE  /\ frame' \in [Threads -> Frames] /\ \A u \in Threads : u # t => frame'[u] = frame[u]
         /\ frame'[t].at = IF frame[t].next = "publish" THEN "publish" ELSE "idle"
         /\ frame'[t].at = "publish" => /\ frame'[t].call = frame[t].call /\ frame'[t].handle = h
                                        /\ frame'[t].name = frame[t].name /\ frame[t].name \in ViewNames
  BY DEF Back, Rests, Becomes, Kinds, Shape

\* A call for a browser ends with none.
LEMMA EmptyKept ==
  ASSUME Inv, NEW t \in Threads, NEW n, NEW c, n = frame[t].name, c = frame[t].call,
         frame[t].at \in {"acquire", "build"}, Back(t, None),
         UNCHANGED <<layers, running, renderClosing, made, publicClosing, refs, browser, closing,
           viewBook, surfaceBook, notices>>,
         (UNCHANGED <<admission, mapLock>>) \/ frame[t].at = "build"
  PROVE  Rules'
  <1>1. /\ frame[t].at \in {"acquire", "build"} /\ n = frame[t].name /\ c = frame[t].call
        /\ frame' \in [Threads -> Frames] /\ \A u \in Threads : u # t => frame'[u] = frame[u]
        /\ frame'[t].at = IF frame[t].next = "publish" THEN "publish" ELSE "idle"
        /\ frame'[t].at = "publish" => frame'[t].call = frame[t].call /\ frame'[t].handle = None
        /\ frame'[t].at = "publish" => frame'[t].name = frame[t].name /\ frame[t].name \in ViewNames
        /\ (UNCHANGED mapLock /\ UNCHANGED admission) \/ mapLock = t
        /\ UNCHANGED publicClosing
    BY BackIs DEF Inv, Rules, Throughout, Locks
  <1>2. UNCHANGED <<layers, running, renderClosing, made, publicClosing, refs, browser, closing,
    viewClosing, viewLock, viewNames, views, tasks, surfClosing, surfNames, surfaces, registered,
    pending, asked, told>>
    BY DEF viewBook, surfaceBook, notices
  <1>3. Main \in Threads /\ None \notin Calls /\ None \notin Names /\ None \notin Threads /\ made \in Nat
    BY Nobody, FramesAre DEF Inv, Rules
  <1>4. Locks'
    BY <1>1, <1>2, <1>3 DEF Locks, Inv, Rules, Throughout
  <1>5. MainIs'
    BY <1>1, <1>2, <1>3 DEF MainIs, Stage, Sweeping, Inv, Rules, Throughout
  <1>6. Hands'
    BY <1>1, <1>2, <1>3 DEF Hands, Inv, Rules, Throughout
  <1>7. Reserved'
    BY <1>1, <1>2, <1>3 DEF Reserved, Reserving, Inv, Rules, Throughout
  <1>8. Notified'
    BY <1>1, <1>2, <1>3 DEF Notified, Waits, Inv, Rules, Throughout
  <1>9. Known'
    BY <1>1, <1>2, <1>3 DEF Known, Inv, Rules, Throughout
  <1>10. Ended'
    BY <1>1, <1>2, <1>3 DEF Ended, Held, Stage, Sweeping, AfterViews, AfterSurfaces, AfterBook,
      MainIs, Inv, Rules, Throughout
  <1>11. Ahead'
    BY <1>1, <1>2, <1>3 DEF Ahead, Unused, Fresh, Calls, Inv, Rules, Throughout
  <1>12. Counted'
    BY <1>1, <1>2, <1>3 DEF Counted, Numbered, Beginning, Fresh, Calls, Inv, Rules, Throughout
  <1>13. Waiting'
    <2>1. ASSUME NEW d \in Calls, Unused(d) PROVE Unused(d)'
      BY <1>1, <1>2, <1>3, <2>1 DEF Unused
    <2>2. \A u \in Threads : frame'[u].at \in Beginning => frame'[u].call \in Calls /\ Unused(frame'[u].call)
      BY <1>1 DEF Inv, Rules, Throughout, Fresh, Waiting, Beginning, Kinds, Shape
    <2> QED BY <2>1, <2>2 DEF Waiting
  <1>14. Distinct'
    BY <1>1, <1>2, <1>3 DEF Distinct, Counted, Numbered, Beginning, Fresh, Calls, Inv, Rules,
      Throughout
  <1>15. ASSUME ~viewClosing' PROVE ViewBook'
    <2>0. ViewBook
      BY <1>1, <1>2, <1>15 DEF Inv, Rules
    <2>1. ViewsOwn'
      <3>1. ASSUME NEW h, NEW x, Owns(h, x) PROVE Owns(h, x)'
        BY <1>1, <1>2, <3>1 DEF Owns
      <3> QED BY <1>2, <2>0, <3>1 DEF ViewBook, ViewsOwn
    <2>2. ViewsDiffer'
      BY <1>1, <1>2, <1>3, <2>0 DEF ViewsDiffer, OneReserves, Reserving, ViewBook
    <2>3. MakersOwn'
      BY <1>1, <1>2, <1>3, <2>0 DEF MakersOwn, Owns, ViewBook
    <2>4. OneReserves'
      BY <1>1, <1>2, <1>3, <2>0 DEF OneReserves, Reserving, ViewBook
    <2> QED BY <2>1, <2>2, <2>3, <2>4 DEF ViewBook
  <1>16. ASSUME ~publicClosing' PROVE Book'
    <2>0. Book
      BY <1>1, <1>2, <1>16 DEF Inv, Rules
    <2>1. Named'
      BY <1>1, <1>2, <1>3, <2>0 DEF Named, Book, Browsers, SurfaceBook
    <2>2. OneEach'
      BY <1>1, <1>2, <1>3, <2>0 DEF OneEach, Book, Browsers, SurfaceBook
    <2>3. MenusOwn'
      BY <1>1, <1>2, <1>3, <2>0 DEF MenusOwn, Book, Browsers, SurfaceBook
    <2>4. ClosingEnds'
      BY <1>1, <1>2, <1>3, <2>0 DEF ClosingEnds, Ending, Book, Browsers, SurfaceBook
    <2>5. EndingCloses'
      BY <1>1, <1>2, <1>3, <2>0 DEF EndingCloses, Ending, Book, Browsers, SurfaceBook
    <2>6. UsedIsListed'
      BY <1>1, <1>2, <1>3, <2>0 DEF UsedIsListed, Book, Browsers, SurfaceBook
    <2>7. UnusedIsGone'
      BY <1>1, <1>2, <1>3, <2>0 DEF UnusedIsGone, Gone, Book, Browsers, SurfaceBook
    <2>8. EndingGoesOn'
      BY <1>1, <1>2, <1>3, <2>0 DEF EndingGoesOn, Ending, Gone, EndingCloses, Book, Browsers,
        SurfaceBook
    <2>9. SurfacesListed'
      BY <1>1, <1>2, <1>3, <2>0 DEF SurfacesListed, Removing, Book, Browsers, SurfaceBook
    <2>10. TakenAreUsed'
      BY <1>1, <1>2, <1>3, <2>0 DEF TakenAreUsed, Making, Book, Browsers, SurfaceBook
    <2>11. OneMakes'
      BY <1>1, <1>2, <1>3, <2>0 DEF OneMakes, Making, Book, Browsers, SurfaceBook
    <2>12. MadeAreListed'
      BY <1>1, <1>2, <1>3, <2>0 DEF MadeAreListed, Removing, Book, Browsers, SurfaceBook
    <2>13. OneRemoves'
      BY <1>1, <1>2, <1>3, <2>0 DEF OneRemoves, Removing, Book, Browsers, SurfaceBook
    <2>14. ListedAreHeld'
      BY <1>1, <1>2, <1>3, <2>0 DEF ListedAreHeld, Held, Book, Browsers, SurfaceBook
    <2> QED BY <2>1, <2>2, <2>3, <2>4, <2>5, <2>6, <2>7, <2>8, <2>9, <2>10, <2>11, <2>12, <2>13,
          <2>14 DEF Book, Browsers, SurfaceBook
  <1> QED BY <1>4, <1>5, <1>6, <1>7, <1>8, <1>9, <1>10, <1>11, <1>12, <1>13, <1>14, <1>15, <1>16
      DEF Rules, Throughout, Fresh

\* A call gets a handle of the browser there is.
LEMMA SharesKept ==
  ASSUME Inv, NEW t \in Threads, NEW n, NEW c, n = frame[t].name, c = frame[t].call, Acquire(t),
         Back(t, c), n \notin closing, refs[n] # {}, refs' = [refs EXCEPT ![n] = @ \cup {c}],
         UNCHANGED <<admission, mapLock>>, UNCHANGED <<surfaceBook, notices>>
  PROVE  Rules'
  <1>1. /\ frame[t].at = "acquire" /\ n = frame[t].name /\ c = frame[t].call
        /\ n \in BrowserNames /\ c \in Calls /\ Unused(c)
        /\ frame' \in [Threads -> Frames] /\ \A u \in Threads : u # t => frame'[u] = frame[u]
        /\ frame'[t].at = IF frame[t].next = "publish" THEN "publish" ELSE "idle"
        /\ frame'[t].at = "publish" => frame'[t].call = frame[t].call /\ frame'[t].handle = c
        /\ frame'[t].at = "publish" => frame'[t].name = frame[t].name /\ frame[t].name \in ViewNames
        /\ n \notin closing /\ refs[n] # {}
        /\ refs'[n] = refs[n] \cup {c} /\ \A x \in BrowserNames : x # n => refs'[x] = refs[x]
    BY BackIs, AcquireIs DEF Inv, Rules, Throughout, Fresh, Waiting, Beginning, Kinds, TypeOK,
      HandlesTypeOK
  <1>2. UNCHANGED <<layers, running, renderClosing, made, publicClosing, admission, mapLock,
    browser, closing, viewClosing, viewLock, viewNames, views, tasks, surfClosing, surfNames,
    surfaces, registered, pending, asked, told>>
    BY DEF Acquire, list, handles, viewBook, surfaceBook, notices
  <1>3. Main \in Threads /\ None \notin Calls /\ None \notin Names /\ None \notin Threads /\ made \in Nat
    BY Nobody, FramesAre DEF Inv, Rules
  <1>4. Locks'
    BY <1>1, <1>2, <1>3 DEF Locks, Inv, Rules, Throughout
  <1>5. MainIs'
    BY <1>1, <1>2, <1>3 DEF MainIs, Stage, Sweeping, Inv, Rules, Throughout
  <1>6. Hands'
    BY <1>1, <1>2, <1>3 DEF Hands, Inv, Rules, Throughout
  <1>7. Reserved'
    BY <1>1, <1>2, <1>3 DEF Reserved, Reserving, Inv, Rules, Throughout
  <1>8. Notified'
    BY <1>1, <1>2, <1>3 DEF Notified, Waits, Inv, Rules, Throughout
  <1>9. Known'
    BY <1>1, <1>2, <1>3 DEF Known, Inv, Rules, Throughout
  <1>10. Ended'
    BY <1>1, <1>2, <1>3 DEF Ended, Held, Stage, Sweeping, AfterViews, AfterSurfaces, AfterBook,
      MainIs, Inv, Rules, Throughout
  <1>11. Ahead'
    <2>1. ASSUME NEW d \in Calls, d # c, Unused(d) PROVE Unused(d)'
      <3>1. \A x \in BrowserNames : d \notin refs'[x]
        BY <1>1, <2>1 DEF Unused
      <3>2. \A x \in Names : layers'[x] # d /\ <<d, x>> \notin running'
        BY <1>2, <2>1 DEF Unused
      <3> QED BY <1>1, <1>2, <2>1, <3>1, <3>2, UnusedStays DEF Unused
    <2>2. c \in 1..made
      BY <1>1 DEF Inv, Rules, Throughout, Fresh, Counted, Numbered, Beginning
    <2> QED BY <1>2, <1>3, <2>1, <2>2 DEF Ahead, Inv, Rules, Throughout, Fresh, Calls
  <1>12. Counted'
    BY <1>1, <1>2, <1>3 DEF Counted, Numbered, Beginning, Fresh, Calls, Inv, Rules, Throughout
  <1>13. Waiting'
    <2>1. ASSUME NEW d \in Calls, d # c, Unused(d) PROVE Unused(d)'
      <3>1. \A x \in BrowserNames : d \notin refs'[x]
        BY <1>1, <2>1 DEF Unused
      <3>2. \A x \in Names : layers'[x] # d /\ <<d, x>> \notin running'
        BY <1>2, <2>1 DEF Unused
      <3> QED BY <1>1, <1>2, <2>1, <3>1, <3>2, UnusedStays DEF Unused
    <2>2. \A u \in Threads : frame'[u].at \in Beginning =>
             u # t /\ frame'[u].call \in Calls /\ frame'[u].call # c /\ Unused(frame'[u].call)
      BY <1>1, <1>3
          DEF Inv, Rules, Throughout, Fresh, Waiting, Counted, Distinct, Numbered, Beginning,
              Kinds, Shape
    <2> QED BY <2>1, <2>2 DEF Waiting
  <1>14. Distinct'
    BY <1>1, <1>2, <1>3 DEF Distinct, Counted, Numbered, Beginning, Fresh, Calls, Inv, Rules,
      Throughout
  <1>15. ASSUME ~viewClosing' PROVE ViewBook'
    <2>0. ViewBook
      BY <1>1, <1>2, <1>15 DEF Inv, Rules
    <2>1. ViewsOwn'
      <3>1. ASSUME NEW h, NEW x, Owns(h, x) PROVE Owns(h, x)'
        BY <1>1, <1>2, <3>1 DEF Owns
      <3> QED BY <1>2, <2>0, <3>1 DEF ViewBook, ViewsOwn
    <2>2. ViewsDiffer'
      BY <1>1, <1>2, <1>3, <2>0 DEF ViewsDiffer, OneReserves, Reserving, ViewBook
    <2>3. MakersOwn'
      <3>1. Owns(c, n)'
        BY <1>1, <1>2 DEF Owns, Unused
      <3>2. ASSUME NEW h, NEW x \in ViewNames, Owns(h, x) PROVE Owns(h, x)'
        BY <1>1, <1>2, <3>2 DEF Owns, BrowserNames
      <3> QED BY <1>1, <2>0, <3>1, <3>2, BooksAre DEF ViewBook, MakersOwn, Inv, Rules
    <2>4. OneReserves'
      BY <1>1, <1>2, <1>3, <2>0 DEF OneReserves, Reserving, ViewBook
    <2> QED BY <2>1, <2>2, <2>3, <2>4 DEF ViewBook
  <1>16. ASSUME ~publicClosing' PROVE Book'
    <2>0. Book
      BY <1>1, <1>2, <1>16 DEF Inv, Rules
    <2>1. Named'
      BY <1>1, <1>2, <1>3, <2>0 DEF Named, Book, Browsers, SurfaceBook
    <2>2. OneEach'
      BY <1>1, <1>2, <1>3, <2>0 DEF OneEach, Book, Browsers, SurfaceBook
    <2>3. MenusOwn'
      BY <1>1, <1>2, <1>3, <2>0 DEF MenusOwn, Book, Browsers, SurfaceBook
    <2>4. ClosingEnds'
      BY <1>1, <1>2, <1>3, <2>0 DEF ClosingEnds, Ending, Book, Browsers, SurfaceBook
    <2>5. EndingCloses'
      BY <1>1, <1>2, <1>3, <2>0 DEF EndingCloses, Ending, Book, Browsers, SurfaceBook
    <2>6. UsedIsListed'
      BY <1>1, <1>2, <1>3, <2>0 DEF UsedIsListed, Book, Browsers, SurfaceBook
    <2>7. UnusedIsGone'
      BY <1>1, <1>2, <1>3, <2>0 DEF UnusedIsGone, Gone, Book, Browsers, SurfaceBook
    <2>8. EndingGoesOn'
      BY <1>1, <1>2, <1>3, <2>0 DEF EndingGoesOn, Ending, Gone, EndingCloses, Book, Browsers,
        SurfaceBook
    <2>9. SurfacesListed'
      BY <1>1, <1>2, <1>3, <2>0 DEF SurfacesListed, Removing, Book, Browsers, SurfaceBook
    <2>10. TakenAreUsed'
      BY <1>1, <1>2, <1>3, <2>0 DEF TakenAreUsed, Making, Book, Browsers, SurfaceBook
    <2>11. OneMakes'
      BY <1>1, <1>2, <1>3, <2>0 DEF OneMakes, Making, Book, Browsers, SurfaceBook
    <2>12. MadeAreListed'
      BY <1>1, <1>2, <1>3, <2>0 DEF MadeAreListed, Removing, Book, Browsers, SurfaceBook
    <2>13. OneRemoves'
      BY <1>1, <1>2, <1>3, <2>0 DEF OneRemoves, Removing, Book, Browsers, SurfaceBook
    <2>14. ListedAreHeld'
      BY <1>1, <1>2, <1>3, <2>0 DEF ListedAreHeld, Held, Book, Browsers, SurfaceBook
    <2> QED BY <2>1, <2>2, <2>3, <2>4, <2>5, <2>6, <2>7, <2>8, <2>9, <2>10, <2>11, <2>12, <2>13,
          <2>14 DEF Book, Browsers, SurfaceBook
  <1> QED BY <1>4, <1>5, <1>6, <1>7, <1>8, <1>9, <1>10, <1>11, <1>12, <1>13, <1>14, <1>15, <1>16
      DEF Rules, Throughout, Fresh

\* A call goes to build the browser of a name nobody has.
LEMMA EntersKept ==
  ASSUME Inv, NEW t \in Threads, NEW n, NEW c, n = frame[t].name, c = frame[t].call, Acquire(t),
         ~publicClosing, n \notin closing, refs[n] = {}, Turns(t, "build"), admission' = t,
         mapLock' = t, UNCHANGED refs, UNCHANGED <<surfaceBook, notices>>
  PROVE  Rules'
  <1>1. /\ frame[t].at = "acquire" /\ n = frame[t].name /\ c = frame[t].call
        /\ ~publicClosing /\ n \notin closing /\ refs[n] = {} /\ mapLock = None
        /\ mapLock' = t /\ admission' = t /\ Turns(t, "build")
    BY AcquireIs DEF Inv, Rules, Acquire
  <1>2. UNCHANGED <<layers, running, renderClosing, made, publicClosing, refs, browser, closing,
    viewClosing, viewLock, viewNames, views, tasks, surfClosing, surfNames, surfaces, registered,
    pending, asked, told>>
    BY DEF Acquire, list, handles, viewBook, surfaceBook, notices
  <1>3. Main \in Threads /\ None \notin Calls /\ None \notin Names /\ None \notin Threads /\ made \in Nat
    BY Nobody, FramesAre DEF Inv, Rules
  <1>4. Locks'
    BY <1>1, <1>2, <1>3 DEF Locks, Inv, Rules, Throughout, Turns, Becomes
  <1>5. MainIs'
    BY <1>1, <1>2, <1>3 DEF MainIs, Stage, Sweeping, Inv, Rules, Throughout, Turns, Becomes
  <1>6. Hands'
    BY <1>1, <1>2, <1>3 DEF Hands, Inv, Rules, Throughout, Turns, Becomes
  <1>7. Reserved'
    BY <1>1, <1>2, <1>3 DEF Reserved, Reserving, Inv, Rules, Throughout, Turns, Becomes
  <1>8. Notified'
    BY <1>1, <1>2, <1>3 DEF Notified, Waits, Inv, Rules, Throughout, Turns, Becomes
  <1>9. Known'
    BY <1>1, <1>2, <1>3 DEF Known, Inv, Rules, Throughout, Turns, Becomes
  <1>10. Ended'
    BY <1>1, <1>2, <1>3 DEF Ended, Held, Stage, Sweeping, AfterViews, AfterSurfaces, AfterBook,
      MainIs, Inv, Rules, Throughout, Turns, Becomes
  <1>11. Ahead'
    BY <1>1, <1>2, <1>3 DEF Ahead, Unused, Fresh, Calls, Inv, Rules, Throughout, Turns, Becomes
  <1>12. Counted'
    BY <1>1, <1>2, <1>3 DEF Counted, Numbered, Beginning, Fresh, Calls, Inv, Rules, Throughout,
      Turns, Becomes
  <1>13. Waiting'
    BY <1>1, <1>2, <1>3 DEF Ahead, Counted, Distinct, Waiting, Beginning, Numbered, Unused, Fresh,
      Calls, Inv, Rules, Throughout, Turns, Becomes
  <1>14. Distinct'
    BY <1>1, <1>2, <1>3 DEF Distinct, Counted, Numbered, Beginning, Fresh, Calls, Inv, Rules,
      Throughout, Turns, Becomes
  <1>15. ASSUME ~viewClosing' PROVE ViewBook'
    <2>0. ViewBook
      BY <1>1, <1>2, <1>15 DEF Inv, Rules
    <2>1. ViewsOwn'
      <3>1. ASSUME NEW h, NEW x, Owns(h, x) PROVE Owns(h, x)'
        BY <1>1, <1>2, <3>1 DEF Owns, Turns, Becomes
      <3> QED BY <1>2, <2>0, <3>1 DEF ViewBook, ViewsOwn
    <2>2. ViewsDiffer'
      BY <1>1, <1>2, <1>3, <2>0 DEF ViewsDiffer, OneReserves, Reserving, ViewBook, Turns, Becomes
    <2>3. MakersOwn'
      BY <1>1, <1>2, <1>3, <2>0 DEF MakersOwn, Owns, ViewBook, Turns, Becomes
    <2>4. OneReserves'
      BY <1>1, <1>2, <1>3, <2>0 DEF OneReserves, Reserving, ViewBook, Turns, Becomes
    <2> QED BY <2>1, <2>2, <2>3, <2>4 DEF ViewBook
  <1>16. ASSUME ~publicClosing' PROVE Book'
    <2>0. Book
      BY <1>1, <1>2, <1>16 DEF Inv, Rules
    <2>1. Named'
      BY <1>1, <1>2, <1>3, <2>0 DEF Named, Book, Browsers, SurfaceBook, Turns, Becomes
    <2>2. OneEach'
      BY <1>1, <1>2, <1>3, <2>0 DEF OneEach, Book, Browsers, SurfaceBook, Turns, Becomes
    <2>3. MenusOwn'
      BY <1>1, <1>2, <1>3, <2>0 DEF MenusOwn, Book, Browsers, SurfaceBook, Turns, Becomes
    <2>4. ClosingEnds'
      BY <1>1, <1>2, <1>3, <2>0 DEF ClosingEnds, Ending, Book, Browsers, SurfaceBook, Turns, Becomes
    <2>5. EndingCloses'
      BY <1>1, <1>2, <1>3, <2>0 DEF EndingCloses, Ending, Book, Browsers, SurfaceBook, Turns,
        Becomes
    <2>6. UsedIsListed'
      BY <1>1, <1>2, <1>3, <2>0 DEF UsedIsListed, Book, Browsers, SurfaceBook, Turns, Becomes
    <2>7. UnusedIsGone'
      BY <1>1, <1>2, <1>3, <2>0 DEF UnusedIsGone, Gone, Book, Browsers, SurfaceBook, Turns, Becomes
    <2>8. EndingGoesOn'
      BY <1>1, <1>2, <1>3, <2>0 DEF EndingGoesOn, Ending, Gone, EndingCloses, Book, Browsers,
        SurfaceBook, Turns, Becomes
    <2>9. SurfacesListed'
      BY <1>1, <1>2, <1>3, <2>0 DEF SurfacesListed, Removing, Book, Browsers, SurfaceBook, Turns,
        Becomes
    <2>10. TakenAreUsed'
      BY <1>1, <1>2, <1>3, <2>0 DEF TakenAreUsed, Making, Book, Browsers, SurfaceBook, Turns,
        Becomes
    <2>11. OneMakes'
      BY <1>1, <1>2, <1>3, <2>0 DEF OneMakes, Making, Book, Browsers, SurfaceBook, Turns, Becomes
    <2>12. MadeAreListed'
      BY <1>1, <1>2, <1>3, <2>0 DEF MadeAreListed, Removing, Book, Browsers, SurfaceBook, Turns,
        Becomes
    <2>13. OneRemoves'
      BY <1>1, <1>2, <1>3, <2>0 DEF OneRemoves, Removing, Book, Browsers, SurfaceBook, Turns,
        Becomes
    <2>14. ListedAreHeld'
      BY <1>1, <1>2, <1>3, <2>0 DEF ListedAreHeld, Held, Book, Browsers, SurfaceBook, Turns, Becomes
    <2> QED BY <2>1, <2>2, <2>3, <2>4, <2>5, <2>6, <2>7, <2>8, <2>9, <2>10, <2>11, <2>12, <2>13,
          <2>14 DEF Book, Browsers, SurfaceBook
  <1> QED BY <1>4, <1>5, <1>6, <1>7, <1>8, <1>9, <1>10, <1>11, <1>12, <1>13, <1>14, <1>15, <1>16
      DEF Rules, Throughout, Fresh

\* The browser is built, listed and entered in the book.
LEMMA BuiltKept ==
  ASSUME Inv, NEW t \in Threads, NEW n, NEW c, n = frame[t].name, c = frame[t].call, Build(t),
         Back(t, c), layers' = [layers EXCEPT ![n] = c], running' = running \cup {<<c, n>>},
         browser' = [browser EXCEPT ![n] = c], refs' = [refs EXCEPT ![n] = {c}], layers[n] = None,
         Gone(n), UNCHANGED <<surfaceBook, notices>>
  PROVE  Rules'
  <1>1. /\ frame[t].at = "build" /\ n = frame[t].name /\ c = frame[t].call /\ n \in BrowserNames
        /\ c \in Calls /\ Unused(c)
        /\ frame' \in [Threads -> Frames] /\ \A u \in Threads : u # t => frame'[u] = frame[u]
        /\ frame'[t].at = IF frame[t].next = "publish" THEN "publish" ELSE "idle"
        /\ frame'[t].at = "publish" => frame'[t].call = frame[t].call /\ frame'[t].handle = c
        /\ frame'[t].at = "publish" => frame'[t].name = frame[t].name /\ frame[t].name \in ViewNames
        /\ mapLock = t /\ ~publicClosing /\ refs[n] = {} /\ n \notin closing
        /\ n \in Names /\ n \notin SurfaceNames /\ layers[n] = None /\ Gone(n)
        /\ refs'[n] = {c} /\ browser'[n] = c /\ layers'[n] = c /\ running' = running \cup {<<c, n>>}
        /\ \A x \in BrowserNames : x # n => refs'[x] = refs[x] /\ browser'[x] = browser[x]
        /\ \A x \in Names : x # n => layers'[x] = layers[x]
    <2>1. n \in BrowserNames /\ c \in Calls /\ frame[t].at = "build"
      BY BuildIs DEF Inv, Rules
    <2>2. n \in Names /\ n \notin SurfaceNames
      BY <2>1, NamesAssumption DEF Names
    <2>3. /\ frame' \in [Threads -> Frames] /\ \A u \in Threads : u # t => frame'[u] = frame[u]
          /\ frame'[t].at = IF frame[t].next = "publish" THEN "publish" ELSE "idle"
          /\ frame'[t].at = "publish" => /\ frame'[t].call = c /\ frame'[t].handle = c
                                         /\ frame'[t].name = frame[t].name /\ frame[t].name \in ViewNames
      BY <2>1, BackIs DEF Inv, Rules
    <2>4. Unused(c) /\ mapLock = t /\ ~publicClosing /\ refs[n] = {} /\ n \notin closing
      BY <2>1 DEF Inv, Rules, Throughout, Locks, Fresh, Waiting, Beginning
    <2>5. /\ refs'[n] = {c} /\ browser'[n] = c
          /\ \A x \in BrowserNames : x # n => refs'[x] = refs[x] /\ browser'[x] = browser[x]
      BY <2>1 DEF Inv, Rules, Kinds, TypeOK, HandlesTypeOK
    <2>6. layers'[n] = c /\ \A x \in Names : x # n => layers'[x] = layers[x]
      BY <2>2 DEF Inv, Rules, Kinds, TypeOK, ListTypeOK
    <2> QED BY <2>1, <2>2, <2>3, <2>4, <2>5, <2>6
  <1>2. UNCHANGED <<renderClosing, made, publicClosing, closing, viewClosing, viewLock, viewNames,
    views, tasks, surfClosing, surfNames, surfaces, registered, pending, asked, told>>
    BY DEF Build, list, handles, viewBook, surfaceBook, notices
  <1>3. Main \in Threads /\ None \notin Calls /\ None \notin Names /\ None \notin Threads /\ made \in Nat
    BY Nobody, FramesAre DEF Inv, Rules
  <1>4. Locks'
    BY <1>1, <1>2, <1>3 DEF Locks, Inv, Rules, Throughout
  <1>5. MainIs'
    BY <1>1, <1>2, <1>3 DEF MainIs, Stage, Sweeping, Inv, Rules, Throughout
  <1>6. Hands'
    BY <1>1, <1>2, <1>3 DEF Hands, Inv, Rules, Throughout
  <1>7. Reserved'
    BY <1>1, <1>2, <1>3 DEF Reserved, Reserving, Inv, Rules, Throughout
  <1>8. Notified'
    BY <1>1, <1>2, <1>3 DEF Notified, Waits, Inv, Rules, Throughout
  <1>9. Known'
    BY <1>1, <1>2, <1>3 DEF Known, Inv, Rules, Throughout
  <1>10. Ended'
    BY <1>1, <1>2, <1>3 DEF Ended, Held, Stage, Sweeping, AfterViews, AfterSurfaces, AfterBook,
      MainIs, Inv, Rules, Throughout
  <1>11. Ahead'
    <2>1. ASSUME NEW d \in Calls, d # c, Unused(d) PROVE Unused(d)'
      <3>1. \A x \in BrowserNames : d \notin refs'[x]
        BY <1>1, <2>1 DEF Unused
      <3>2. \A x \in Names : layers'[x] # d /\ <<d, x>> \notin running'
        BY <1>1, <1>2, <2>1 DEF Unused
      <3> QED BY <1>1, <1>2, <2>1, <3>1, <3>2, UnusedStays DEF Unused
    <2>2. c \in 1..made
      BY <1>1 DEF Inv, Rules, Throughout, Fresh, Counted, Numbered, Beginning
    <2> QED BY <1>2, <1>3, <2>1, <2>2 DEF Ahead, Inv, Rules, Throughout, Fresh, Calls
  <1>12. Counted'
    BY <1>1, <1>2, <1>3 DEF Counted, Numbered, Beginning, Fresh, Calls, Inv, Rules, Throughout
  <1>13. Waiting'
    <2>1. ASSUME NEW d \in Calls, d # c, Unused(d) PROVE Unused(d)'
      <3>1. \A x \in BrowserNames : d \notin refs'[x]
        BY <1>1, <2>1 DEF Unused
      <3>2. \A x \in Names : layers'[x] # d /\ <<d, x>> \notin running'
        BY <1>1, <1>2, <2>1 DEF Unused
      <3> QED BY <1>1, <1>2, <2>1, <3>1, <3>2, UnusedStays DEF Unused
    <2>2. \A u \in Threads : frame'[u].at \in Beginning =>
             u # t /\ frame'[u].call \in Calls /\ frame'[u].call # c /\ Unused(frame'[u].call)
      BY <1>1, <1>3
          DEF Inv, Rules, Throughout, Fresh, Waiting, Counted, Distinct, Numbered, Beginning,
              Kinds, Shape
    <2> QED BY <2>1, <2>2 DEF Waiting
  <1>14. Distinct'
    BY <1>1, <1>2, <1>3 DEF Distinct, Counted, Numbered, Beginning, Fresh, Calls, Inv, Rules,
      Throughout
  <1>15. ASSUME ~viewClosing' PROVE ViewBook'
    <2>0. ViewBook
      BY <1>1, <1>2, <1>15 DEF Inv, Rules
    <2>1. ViewsOwn'
      <3>1. ASSUME NEW h, NEW x \in ViewNames, x # n, Owns(h, x) PROVE Owns(h, x)'
        BY <1>1, <1>2, <3>1 DEF Owns, BrowserNames
      <3>2. \A v \in views : v.name \in ViewNames /\ v.name # n /\ browser'[v.name] = browser[v.name]
        BY <1>1, <2>0, BooksAre DEF ViewBook, ViewsOwn, Owns, Inv, Rules, BrowserNames
      <3> QED BY <1>2, <2>0, <3>1, <3>2 DEF ViewBook, ViewsOwn
    <2>2. ViewsDiffer'
      BY <1>1, <1>2, <1>3, <2>0 DEF ViewsDiffer, OneReserves, Reserving, ViewBook
    <2>3. MakersOwn'
      <3>1. Owns(c, n)'
        BY <1>1, <1>2 DEF Owns, Unused
      <3>2. ASSUME NEW h, NEW x \in ViewNames, Owns(h, x) PROVE Owns(h, x)'
        <4>1. x # n
          BY <1>1, <3>2 DEF Owns
        <4> QED BY <1>1, <1>2, <3>2, <4>1 DEF Owns, BrowserNames
      <3> QED BY <1>1, <2>0, <3>1, <3>2, BooksAre DEF ViewBook, MakersOwn, Inv, Rules
    <2>4. OneReserves'
      BY <1>1, <1>2, <1>3, <2>0 DEF OneReserves, Reserving, ViewBook
    <2> QED BY <2>1, <2>2, <2>3, <2>4 DEF ViewBook
  <1>16. ASSUME ~publicClosing' PROVE Book'
    <2>0. Book
      BY <1>1, <1>2, <1>16 DEF Inv, Rules
    <2>1. Named'
      BY <1>1, <1>2, <1>3, <2>0 DEF Named, Book, Browsers, SurfaceBook, Unused
    <2>2. OneEach'
      BY <1>1, <1>2, <1>3, <2>0 DEF OneEach, Book, Browsers, SurfaceBook, Gone
    <2>3. MenusOwn'
      BY <1>1, <1>2, <1>3, <2>0 DEF MenusOwn, Book, Browsers, SurfaceBook, Unused
    <2>4. ClosingEnds'
      BY <1>1, <1>2, <1>3, <2>0 DEF ClosingEnds, Ending, Book, Browsers, SurfaceBook
    <2>5. EndingCloses'
      BY <1>1, <1>2, <1>3, <2>0 DEF EndingCloses, Ending, Book, Browsers, SurfaceBook
    <2>6. UsedIsListed'
      BY <1>1, <1>2, <1>3, <2>0 DEF UsedIsListed, Book, Browsers, SurfaceBook
    <2>7. UnusedIsGone'
      BY <1>1, <1>2, <1>3, <2>0 DEF UnusedIsGone, Gone, Book, Browsers, SurfaceBook, Names
    <2>8. EndingGoesOn'
      BY <1>1, <1>2, <1>3, <2>0 DEF EndingGoesOn, Ending, Gone, EndingCloses, Book, Browsers,
        SurfaceBook
    <2>9. SurfacesListed'
      BY <1>1, <1>2, <1>3, <2>0, BooksAre DEF SurfacesListed, Removing, Book, Browsers, SurfaceBook,
        Names, Inv, Rules
    <2>10. TakenAreUsed'
      BY <1>1, <1>2, <1>3, <2>0 DEF TakenAreUsed, Making, Book, Browsers, SurfaceBook
    <2>11. OneMakes'
      BY <1>1, <1>2, <1>3, <2>0 DEF OneMakes, Making, Book, Browsers, SurfaceBook
    <2>12. MadeAreListed'
      BY <1>1, <1>2, <1>3, <2>0, BooksAre DEF MadeAreListed, Removing, Book, Browsers, SurfaceBook,
        Names, Inv, Rules
    <2>13. OneRemoves'
      BY <1>1, <1>2, <1>3, <2>0 DEF OneRemoves, Removing, Book, Browsers, SurfaceBook
    <2>14. ListedAreHeld'
      BY <1>1, <1>2, <1>3, <2>0 DEF ListedAreHeld, Held, Book, Browsers, SurfaceBook
    <2> QED BY <2>1, <2>2, <2>3, <2>4, <2>5, <2>6, <2>7, <2>8, <2>9, <2>10, <2>11, <2>12, <2>13,
          <2>14 DEF Book, Browsers, SurfaceBook
  <1> QED BY <1>4, <1>5, <1>6, <1>7, <1>8, <1>9, <1>10, <1>11, <1>12, <1>13, <1>14, <1>15, <1>16
      DEF Rules, Throughout, Fresh

LEMMA AcquireKept ==
  ASSUME Inv, NEW t \in Threads, Acquire(t), UNCHANGED <<surfaceBook, notices>>
  PROVE  Rules'
  <1>1. ASSUME Back(t, None), UNCHANGED <<admission, mapLock, refs>> PROVE Rules'
    <2>1. UNCHANGED <<layers, running, renderClosing, made, publicClosing, browser, closing, viewBook>>
      BY DEF Acquire, list
    <2> QED BY <1>1, <2>1, AcquireIs, EmptyKept DEF Inv
  <1>2. ASSUME frame[t].name \notin closing, refs[frame[t].name] # {}, Back(t, frame[t].call),
               refs' = [refs EXCEPT ![frame[t].name] = @ \cup {frame[t].call}], UNCHANGED <<admission, mapLock>>
        PROVE  Rules'
    BY <1>2, SharesKept
  <1>3. ASSUME ~publicClosing, frame[t].name \notin closing, refs[frame[t].name] = {}, Turns(t, "build"),
               admission' = t, mapLock' = t, UNCHANGED refs
        PROVE  Rules'
    BY <1>3, EntersKept
  <1> QED BY <1>1, <1>2, <1>3, AcquireIs DEF Inv, Refuses

LEMMA BuildKept ==
  ASSUME Inv, NEW t \in Threads, Build(t), UNCHANGED <<surfaceBook, notices>>
  PROVE  Rules'
  <1>1. layers[frame[t].name] = None /\ Gone(frame[t].name)
    BY BuildIs DEF Inv, Rules, Throughout, Locks, Book, Browsers, UnusedIsGone
  <1>2. ASSUME Back(t, None), UNCHANGED <<layers, running, browser, refs>> PROVE Rules'
    <2>1. UNCHANGED <<renderClosing, made, publicClosing, closing, viewBook>>
      BY DEF Build
    <2> QED BY <1>2, <2>1, BuildIs, EmptyKept DEF Inv
  <1>3. ASSUME Back(t, frame[t].call), List(frame[t].name, frame[t].call),
               browser' = [browser EXCEPT ![frame[t].name] = layers'[frame[t].name]],
               refs' = [refs EXCEPT ![frame[t].name] = {frame[t].call}]
        PROVE  Rules'
    <2>1. frame[t].name \in Names
      BY BuildIs DEF Inv, Names
    <2>2. layers'[frame[t].name] = frame[t].call
      BY <1>3, <2>1 DEF List, Inv, Kinds, TypeOK, ListTypeOK
    <2>3. browser' = [browser EXCEPT ![frame[t].name] = frame[t].call]
      BY <1>3, <2>2
    <2> QED BY <1>1, <1>3, <2>3, BuiltKept DEF List
  <1> QED BY <1>1, <1>2, <1>3, BuildIs DEF Inv

\* The last handle of a browser goes: the name is closing.
LEMMA EndsKept ==
  ASSUME Inv, NEW t \in Threads, NEW n, NEW c, n = frame[t].name, c = frame[t].call, NEW h,
         h = frame[t].handle, DropHandle(t), refs[n] = {h}, UNCHANGED <<surfaceBook, notices>>
  PROVE  Rules'
  <1>1. /\ frame[t].at = "release" /\ n = frame[t].name /\ h = frame[t].handle /\ n \in BrowserNames
        /\ n \notin SurfaceNames /\ mapLock = None /\ refs[n] = {h} /\ refs[n] # {}
        /\ refs'[n] = {} /\ \A x \in BrowserNames : x # n => refs'[x] = refs[x] /\ browser'[x] = browser[x]
        /\ closing' = closing \cup {n}
        /\ Becomes(t, "remove", c, n, h, {}, "forget")
    BY DropIs, NamesAssumption DEF Inv, Rules, DropHandle, Kinds, TypeOK, HandlesTypeOK
  <1>2. UNCHANGED <<layers, running, renderClosing, made, publicClosing, admission, mapLock,
    viewClosing, viewNames, views, tasks, surfClosing, surfNames, surfaces, registered, pending,
    asked, told>>
    BY DEF DropHandle, list, handles, viewBook, surfaceBook, notices
  <1>3. Main \in Threads /\ None \notin Calls /\ None \notin Names /\ None \notin Threads /\ made \in Nat
    BY Nobody, FramesAre DEF Inv, Rules
  <1>4. Locks'
    BY <1>1, <1>2, <1>3 DEF Locks, Inv, Rules, Throughout, Becomes
  <1>5. MainIs'
    BY <1>1, <1>2, <1>3 DEF MainIs, Stage, Sweeping, Inv, Rules, Throughout, Becomes
  <1>6. Hands'
    BY <1>1, <1>2, <1>3 DEF Hands, Inv, Rules, Throughout, Becomes
  <1>7. Reserved'
    BY <1>1, <1>2, <1>3 DEF Reserved, Reserving, Inv, Rules, Throughout, Becomes
  <1>8. Notified'
    BY <1>1, <1>2, <1>3 DEF Notified, Waits, Inv, Rules, Throughout, Becomes
  <1>9. Known'
    BY <1>1, <1>2, <1>3 DEF Known, Inv, Rules, Throughout, Becomes
  <1>10. Ended'
    BY <1>1, <1>2, <1>3 DEF Ended, Held, Stage, Sweeping, AfterViews, AfterSurfaces, AfterBook,
      MainIs, Inv, Rules, Throughout, Becomes
  <1>11. Ahead'
    BY <1>1, <1>2, <1>3 DEF Ahead, Unused, Fresh, Calls, Inv, Rules, Throughout, Becomes
  <1>12. Counted'
    BY <1>1, <1>2, <1>3 DEF Counted, Numbered, Beginning, Fresh, Calls, Inv, Rules, Throughout,
      Becomes
  <1>13. Waiting'
    BY <1>1, <1>2, <1>3 DEF Ahead, Counted, Distinct, Waiting, Beginning, Numbered, Unused, Fresh,
      Calls, Inv, Rules, Throughout, Becomes
  <1>14. Distinct'
    BY <1>1, <1>2, <1>3 DEF Distinct, Counted, Numbered, Beginning, Fresh, Calls, Inv, Rules,
      Throughout, Becomes
  <1>15. ASSUME ~viewClosing' PROVE ViewBook'
    <2>0. ViewBook
      BY <1>1, <1>2, <1>15 DEF Inv, Rules
    <2>1. ViewsOwn'
      <3>1. ASSUME NEW g, NEW x \in ViewNames, Owns(g, x) PROVE Owns(g, x)'
        <4>1. g # h \/ x # n
          BY <1>1, <3>1 DEF Owns
        <4>2. x \in BrowserNames
          BY <3>1 DEF BrowserNames
        <4> QED BY <1>1, <1>2, <3>1, <4>1, <4>2 DEF Owns, Rests, Becomes
      <3>2. ASSUME NEW v \in views PROVE browser'[v.name] = browser[v.name]
        <4>1. v.name \in BrowserNames
          BY BooksAre DEF Inv, BrowserNames
        <4>2. Owns(v.view, v.name)
          BY <2>0 DEF ViewBook, ViewsOwn
        <4>3. v.name # n
          BY <1>1, <4>2 DEF Owns
        <4> QED BY <1>1, <4>1, <4>3
      <3> QED BY <1>2, <2>0, <3>1, <3>2, BooksAre DEF ViewBook, ViewsOwn, Inv, Rules
    <2>2. ViewsDiffer'
      BY <1>1, <1>2, <1>3, <2>0 DEF ViewsDiffer, OneReserves, Reserving, ViewBook, Becomes
    <2>3. MakersOwn'
      <3>1. ASSUME NEW g, NEW x \in ViewNames, Owns(g, x) PROVE Owns(g, x)'
        <4>1. g # h \/ x # n
          BY <1>1, <3>1 DEF Owns
        <4>2. x \in BrowserNames
          BY <3>1 DEF BrowserNames
        <4> QED BY <1>1, <1>2, <3>1, <4>1, <4>2 DEF Owns, Rests, Becomes
      <3> QED BY <1>1, <2>0, <3>1, BooksAre DEF ViewBook, MakersOwn, Inv, Rules, Rests, Becomes
    <2>4. OneReserves'
      BY <1>1, <1>2, <1>3, <2>0 DEF OneReserves, Reserving, ViewBook, Becomes
    <2> QED BY <2>1, <2>2, <2>3, <2>4 DEF ViewBook
  <1>16. ASSUME ~publicClosing' PROVE Book'
    <2>0. Book
      BY <1>1, <1>2, <1>16 DEF Inv, Rules
    <2>1. Named'
      BY <1>1, <1>2, <1>3, <2>0 DEF Named, Book, Browsers, SurfaceBook, Becomes
    <2>2. OneEach'
      BY <1>1, <1>2, <1>3, <2>0 DEF OneEach, Book, Browsers, SurfaceBook, Becomes
    <2>3. MenusOwn'
      BY <1>1, <1>2, <1>3, <2>0 DEF MenusOwn, Book, Browsers, SurfaceBook, Becomes
    <2>4. ClosingEnds'
      BY <1>1, <1>2, <1>3, <2>0 DEF ClosingEnds, Ending, Book, Browsers, SurfaceBook, Becomes
    <2>5. EndingCloses'
      <3>1. n \notin closing
        BY <1>1, <2>0 DEF Book, Browsers, ClosingEnds
      <3>2. \A u \in Threads, x \in BrowserNames : Ending(u, x)' => (u # t /\ Ending(u, x)) \/ (u = t /\ x = n)
        BY <1>1 DEF Ending, Becomes
      <3> QED BY <1>1, <2>0, <3>1, <3>2 DEF Book, Browsers, EndingCloses
    <2>6. UsedIsListed'
      BY <1>1, <1>2, <1>3, <2>0 DEF UsedIsListed, Book, Browsers, SurfaceBook, Becomes
    <2>7. UnusedIsGone'
      BY <1>1, <1>2, <1>3, <2>0 DEF UnusedIsGone, Gone, Book, Browsers, SurfaceBook, Becomes
    <2>8. EndingGoesOn'
      BY <1>1, <1>2, <1>3, <2>0 DEF EndingGoesOn, Ending, Gone, EndingCloses, Book, Browsers,
        SurfaceBook, Becomes
    <2>9. SurfacesListed'
      BY <1>1, <1>2, <1>3, <2>0, BooksAre DEF SurfacesListed, Removing, Book, Browsers, SurfaceBook,
        Becomes, Inv
    <2>10. TakenAreUsed'
      BY <1>1, <1>2, <1>3, <2>0 DEF TakenAreUsed, Making, Book, Browsers, SurfaceBook, Becomes
    <2>11. OneMakes'
      BY <1>1, <1>2, <1>3, <2>0 DEF OneMakes, Making, Book, Browsers, SurfaceBook, Becomes
    <2>12. MadeAreListed'
      BY <1>1, <1>2, <1>3, <2>0, BooksAre DEF MadeAreListed, Removing, Book, Browsers, SurfaceBook,
        Becomes, Inv
    <2>13. OneRemoves'
      BY <1>1, <1>2, <1>3, <2>0 DEF OneRemoves, Removing, Book, Browsers, SurfaceBook, Becomes
    <2>14. ListedAreHeld'
      BY <1>1, <1>2, <1>3, <2>0 DEF ListedAreHeld, Held, Book, Browsers, SurfaceBook, Becomes
    <2> QED BY <2>1, <2>2, <2>3, <2>4, <2>5, <2>6, <2>7, <2>8, <2>9, <2>10, <2>11, <2>12, <2>13,
          <2>14 DEF Book, Browsers, SurfaceBook
  <1> QED BY <1>4, <1>5, <1>6, <1>7, <1>8, <1>9, <1>10, <1>11, <1>12, <1>13, <1>14, <1>15, <1>16
      DEF Rules, Throughout, Fresh

\* A handle goes that is not the last one, or not one any more.
LEMMA GivesKept ==
  ASSUME Inv, NEW t \in Threads, NEW n, NEW c, n = frame[t].name, c = frame[t].call, NEW h,
         h = frame[t].handle, DropHandle(t), refs[n] # {h}, UNCHANGED <<surfaceBook, notices>>
  PROVE  Rules'
  <1>1. /\ frame[t].at = "release" /\ n = frame[t].name /\ h = frame[t].handle /\ n \in BrowserNames
        /\ mapLock = None /\ refs[n] # {h}
        /\ refs'[n] = refs[n] \ {h}
        /\ refs[n] # {} => refs'[n] # {}
        /\ \A x \in BrowserNames : x # n => refs'[x] = refs[x]
        /\ Rests(t) /\ UNCHANGED <<browser, closing>>
    <2>1. /\ frame[t].at = "release" /\ n \in BrowserNames /\ Rests(t) /\ UNCHANGED <<browser, closing>>
          /\ refs' = [refs EXCEPT ![n] = @ \ {h}]
      BY DropIs DEF Inv
    <2>2. refs'[n] = refs[n] \ {h} /\ \A x \in BrowserNames : x # n => refs'[x] = refs[x]
      BY <2>1 DEF Inv, Kinds, TypeOK, HandlesTypeOK
    <2>3. refs[n] # {} => refs'[n] # {}
      BY <2>2
    <2>4. mapLock = None
      BY DEF DropHandle
    <2> QED BY <2>1, <2>2, <2>3, <2>4
  <1>2. UNCHANGED <<layers, running, renderClosing, made, publicClosing, admission, mapLock,
    viewClosing, viewNames, views, tasks, surfClosing, surfNames, surfaces, registered, pending,
    asked, told>>
    BY DEF DropHandle, list, handles, viewBook, surfaceBook, notices
  <1>3. Main \in Threads /\ None \notin Calls /\ None \notin Names /\ None \notin Threads /\ made \in Nat
    BY Nobody, FramesAre DEF Inv, Rules
  <1>4. Locks'
    BY <1>1, <1>2, <1>3 DEF Locks, Inv, Rules, Throughout, Rests, Becomes
  <1>5. MainIs'
    BY <1>1, <1>2, <1>3 DEF MainIs, Stage, Sweeping, Inv, Rules, Throughout, Rests, Becomes
  <1>6. Hands'
    BY <1>1, <1>2, <1>3 DEF Hands, Inv, Rules, Throughout, Rests, Becomes
  <1>7. Reserved'
    BY <1>1, <1>2, <1>3 DEF Reserved, Reserving, Inv, Rules, Throughout, Rests, Becomes
  <1>8. Notified'
    BY <1>1, <1>2, <1>3 DEF Notified, Waits, Inv, Rules, Throughout, Rests, Becomes
  <1>9. Known'
    BY <1>1, <1>2, <1>3 DEF Known, Inv, Rules, Throughout, Rests, Becomes
  <1>10. Ended'
    BY <1>1, <1>2, <1>3 DEF Ended, Held, Stage, Sweeping, AfterViews, AfterSurfaces, AfterBook,
      MainIs, Inv, Rules, Throughout, Rests, Becomes
  <1>11. Ahead'
    BY <1>1, <1>2, <1>3 DEF Ahead, Unused, Fresh, Calls, Inv, Rules, Throughout, Rests, Becomes
  <1>12. Counted'
    BY <1>1, <1>2, <1>3 DEF Counted, Numbered, Beginning, Fresh, Calls, Inv, Rules, Throughout,
      Rests, Becomes
  <1>13. Waiting'
    BY <1>1, <1>2, <1>3 DEF Ahead, Counted, Distinct, Waiting, Beginning, Numbered, Unused, Fresh,
      Calls, Inv, Rules, Throughout, Rests, Becomes
  <1>14. Distinct'
    BY <1>1, <1>2, <1>3 DEF Distinct, Counted, Numbered, Beginning, Fresh, Calls, Inv, Rules,
      Throughout, Rests, Becomes
  <1>15. ASSUME ~viewClosing' PROVE ViewBook'
    <2>0. ViewBook
      BY <1>1, <1>2, <1>15 DEF Inv, Rules
    <2>1. ViewsOwn'
      <3>1. ASSUME NEW g, NEW x \in ViewNames, Owns(g, x) PROVE Owns(g, x)'
        <4>1. g # h \/ x # n
          BY <1>1, <3>1 DEF Owns
        <4>2. x \in BrowserNames
          BY <3>1 DEF BrowserNames
        <4> QED BY <1>1, <1>2, <3>1, <4>1, <4>2 DEF Owns, Rests, Becomes
      <3>2. \A v \in views : browser'[v.name] = browser[v.name]
        BY <1>1
      <3> QED BY <1>2, <2>0, <3>1, <3>2, BooksAre DEF ViewBook, ViewsOwn, Inv, Rules
    <2>2. ViewsDiffer'
      BY <1>1, <1>2, <1>3, <2>0 DEF ViewsDiffer, OneReserves, Reserving, ViewBook, Rests, Becomes
    <2>3. MakersOwn'
      <3>1. ASSUME NEW g, NEW x \in ViewNames, Owns(g, x) PROVE Owns(g, x)'
        <4>1. g # h \/ x # n
          BY <1>1, <3>1 DEF Owns
        <4>2. x \in BrowserNames
          BY <3>1 DEF BrowserNames
        <4> QED BY <1>1, <1>2, <3>1, <4>1, <4>2 DEF Owns, Rests, Becomes
      <3> QED BY <1>1, <2>0, <3>1, BooksAre DEF ViewBook, MakersOwn, Inv, Rules, Rests, Becomes
    <2>4. OneReserves'
      BY <1>1, <1>2, <1>3, <2>0 DEF OneReserves, Reserving, ViewBook, Rests, Becomes
    <2> QED BY <2>1, <2>2, <2>3, <2>4 DEF ViewBook
  <1>16. ASSUME ~publicClosing' PROVE Book'
    <2>0. Book
      BY <1>1, <1>2, <1>16 DEF Inv, Rules
    <2>1. Named'
      BY <1>1, <1>2, <1>3, <2>0 DEF Named, Book, Browsers, SurfaceBook, Rests, Becomes
    <2>2. OneEach'
      BY <1>1, <1>2, <1>3, <2>0 DEF OneEach, Book, Browsers, SurfaceBook, Rests, Becomes
    <2>3. MenusOwn'
      BY <1>1, <1>2, <1>3, <2>0 DEF MenusOwn, Book, Browsers, SurfaceBook, Rests, Becomes
    <2>4. ClosingEnds'
      BY <1>1, <1>2, <1>3, <2>0 DEF ClosingEnds, Ending, Book, Browsers, SurfaceBook, Rests, Becomes
    <2>5. EndingCloses'
      BY <1>1, <1>2, <1>3, <2>0 DEF EndingCloses, Ending, Book, Browsers, SurfaceBook, Rests,
        Becomes
    <2>6. UsedIsListed'
      BY <1>1, <1>2, <1>3, <2>0 DEF UsedIsListed, Book, Browsers, SurfaceBook, Rests, Becomes
    <2>7. UnusedIsGone'
      BY <1>1, <1>2, <1>3, <2>0 DEF UnusedIsGone, Gone, Book, Browsers, SurfaceBook, Rests, Becomes
    <2>8. EndingGoesOn'
      BY <1>1, <1>2, <1>3, <2>0 DEF EndingGoesOn, Ending, Gone, EndingCloses, Book, Browsers,
        SurfaceBook, Rests, Becomes
    <2>9. SurfacesListed'
      BY <1>1, <1>2, <1>3, <2>0 DEF SurfacesListed, Removing, Book, Browsers, SurfaceBook, Rests,
        Becomes
    <2>10. TakenAreUsed'
      BY <1>1, <1>2, <1>3, <2>0 DEF TakenAreUsed, Making, Book, Browsers, SurfaceBook, Rests,
        Becomes
    <2>11. OneMakes'
      BY <1>1, <1>2, <1>3, <2>0 DEF OneMakes, Making, Book, Browsers, SurfaceBook, Rests, Becomes
    <2>12. MadeAreListed'
      BY <1>1, <1>2, <1>3, <2>0 DEF MadeAreListed, Removing, Book, Browsers, SurfaceBook, Rests,
        Becomes
    <2>13. OneRemoves'
      BY <1>1, <1>2, <1>3, <2>0 DEF OneRemoves, Removing, Book, Browsers, SurfaceBook, Rests,
        Becomes
    <2>14. ListedAreHeld'
      BY <1>1, <1>2, <1>3, <2>0 DEF ListedAreHeld, Held, Book, Browsers, SurfaceBook, Rests, Becomes
    <2> QED BY <2>1, <2>2, <2>3, <2>4, <2>5, <2>6, <2>7, <2>8, <2>9, <2>10, <2>11, <2>12, <2>13,
          <2>14 DEF Book, Browsers, SurfaceBook
  <1> QED BY <1>4, <1>5, <1>6, <1>7, <1>8, <1>9, <1>10, <1>11, <1>12, <1>13, <1>14, <1>15, <1>16
      DEF Rules, Throughout, Fresh

\* The name of a browser that has ended is free.
LEMMA ForgetKept ==
  ASSUME Inv, NEW t \in Threads, ForgetClosing(t), UNCHANGED <<surfaceBook, notices>>
  PROVE  Rules'
  <1>1. /\ frame[t].at = "forget" /\ frame[t].name \in BrowserNames /\ frame[t].next = "forget" /\ Rests(t)
        /\ closing' = closing \ {frame[t].name}
    BY ForgetIs DEF Inv, Rules, Kinds, Shape
  <1>2. UNCHANGED <<layers, running, renderClosing, made, publicClosing, admission, mapLock, refs,
    browser, viewClosing, viewNames, views, tasks, surfClosing, surfNames, surfaces, registered,
    pending, asked, told>>
    BY DEF ForgetClosing, list, handles, viewBook, surfaceBook, notices
  <1>3. Main \in Threads /\ None \notin Calls /\ None \notin Names /\ None \notin Threads /\ made \in Nat
    BY Nobody, FramesAre DEF Inv, Rules
  <1>4. Locks'
    BY <1>1, <1>2, <1>3 DEF Locks, Inv, Rules, Throughout, Rests, Becomes
  <1>5. MainIs'
    BY <1>1, <1>2, <1>3 DEF MainIs, Stage, Sweeping, Inv, Rules, Throughout, Rests, Becomes
  <1>6. Hands'
    BY <1>1, <1>2, <1>3 DEF Hands, Inv, Rules, Throughout, Rests, Becomes
  <1>7. Reserved'
    BY <1>1, <1>2, <1>3 DEF Reserved, Reserving, Inv, Rules, Throughout, Rests, Becomes
  <1>8. Notified'
    BY <1>1, <1>2, <1>3 DEF Notified, Waits, Inv, Rules, Throughout, Rests, Becomes
  <1>9. Known'
    BY <1>1, <1>2, <1>3 DEF Known, Inv, Rules, Throughout, Rests, Becomes
  <1>10. Ended'
    BY <1>1, <1>2, <1>3 DEF Ended, Held, Stage, Sweeping, AfterViews, AfterSurfaces, AfterBook,
      MainIs, Inv, Rules, Throughout, Rests, Becomes
  <1>11. Ahead'
    BY <1>1, <1>2, <1>3 DEF Ahead, Unused, Fresh, Calls, Inv, Rules, Throughout, Rests, Becomes
  <1>12. Counted'
    BY <1>1, <1>2, <1>3 DEF Counted, Numbered, Beginning, Fresh, Calls, Inv, Rules, Throughout,
      Rests, Becomes
  <1>13. Waiting'
    BY <1>1, <1>2, <1>3 DEF Ahead, Counted, Distinct, Waiting, Beginning, Numbered, Unused, Fresh,
      Calls, Inv, Rules, Throughout, Rests, Becomes
  <1>14. Distinct'
    BY <1>1, <1>2, <1>3 DEF Distinct, Counted, Numbered, Beginning, Fresh, Calls, Inv, Rules,
      Throughout, Rests, Becomes
  <1>15. ASSUME ~viewClosing' PROVE ViewBook'
    <2>0. ViewBook
      BY <1>1, <1>2, <1>15 DEF Inv, Rules
    <2>1. ViewsOwn'
      <3>1. ASSUME NEW h, NEW x, Owns(h, x) PROVE Owns(h, x)'
        BY <1>1, <1>2, <3>1 DEF Owns, Rests, Becomes
      <3> QED BY <1>2, <2>0, <3>1 DEF ViewBook, ViewsOwn
    <2>2. ViewsDiffer'
      BY <1>1, <1>2, <1>3, <2>0 DEF ViewsDiffer, OneReserves, Reserving, ViewBook, Rests, Becomes
    <2>3. MakersOwn'
      BY <1>1, <1>2, <1>3, <2>0 DEF MakersOwn, Owns, ViewBook, Rests, Becomes
    <2>4. OneReserves'
      BY <1>1, <1>2, <1>3, <2>0 DEF OneReserves, Reserving, ViewBook, Rests, Becomes
    <2> QED BY <2>1, <2>2, <2>3, <2>4 DEF ViewBook
  <1>16. ASSUME ~publicClosing' PROVE Book'
    <2>0. Book
      BY <1>1, <1>2, <1>16 DEF Inv, Rules
    <2>1. Named'
      BY <1>1, <1>2, <1>3, <2>0 DEF Named, Book, Browsers, SurfaceBook, Rests, Becomes
    <2>2. OneEach'
      BY <1>1, <1>2, <1>3, <2>0 DEF OneEach, Book, Browsers, SurfaceBook, Rests, Becomes
    <2>3. MenusOwn'
      BY <1>1, <1>2, <1>3, <2>0 DEF MenusOwn, Book, Browsers, SurfaceBook, Rests, Becomes
    <2>4. ClosingEnds'
      BY <1>1, <1>2, <1>3, <2>0 DEF ClosingEnds, Ending, Book, Browsers, SurfaceBook, Rests, Becomes
    <2>5. EndingCloses'
      BY <1>1, <1>2, <1>3, <2>0 DEF EndingCloses, Ending, Book, Browsers, SurfaceBook, Rests,
        Becomes
    <2>6. UsedIsListed'
      BY <1>1, <1>2, <1>3, <2>0 DEF UsedIsListed, Book, Browsers, SurfaceBook, Rests, Becomes
    <2>7. UnusedIsGone'
      BY <1>1, <1>2, <1>3, <2>0 DEF UnusedIsGone, Gone, Book, Browsers, SurfaceBook, Rests, Becomes,
        Ending, EndingGoesOn
    <2>8. EndingGoesOn'
      BY <1>1, <1>2, <1>3, <2>0 DEF EndingGoesOn, Ending, Gone, EndingCloses, Book, Browsers,
        SurfaceBook, Rests, Becomes
    <2>9. SurfacesListed'
      BY <1>1, <1>2, <1>3, <2>0 DEF SurfacesListed, Removing, Book, Browsers, SurfaceBook, Rests,
        Becomes
    <2>10. TakenAreUsed'
      BY <1>1, <1>2, <1>3, <2>0 DEF TakenAreUsed, Making, Book, Browsers, SurfaceBook, Rests,
        Becomes
    <2>11. OneMakes'
      BY <1>1, <1>2, <1>3, <2>0 DEF OneMakes, Making, Book, Browsers, SurfaceBook, Rests, Becomes
    <2>12. MadeAreListed'
      BY <1>1, <1>2, <1>3, <2>0 DEF MadeAreListed, Removing, Book, Browsers, SurfaceBook, Rests,
        Becomes
    <2>13. OneRemoves'
      BY <1>1, <1>2, <1>3, <2>0 DEF OneRemoves, Removing, Book, Browsers, SurfaceBook, Rests,
        Becomes
    <2>14. ListedAreHeld'
      BY <1>1, <1>2, <1>3, <2>0 DEF ListedAreHeld, Held, Book, Browsers, SurfaceBook, Rests, Becomes
    <2> QED BY <2>1, <2>2, <2>3, <2>4, <2>5, <2>6, <2>7, <2>8, <2>9, <2>10, <2>11, <2>12, <2>13,
          <2>14 DEF Book, Browsers, SurfaceBook
  <1> QED BY <1>4, <1>5, <1>6, <1>7, <1>8, <1>9, <1>10, <1>11, <1>12, <1>13, <1>14, <1>15, <1>16
      DEF Rules, Throughout, Fresh

\* The handle of a view that came too late is given back.
LEMMA ReleaseViewKept ==
  ASSUME Inv, NEW t \in Threads, ReleaseBrowser(t), UNCHANGED <<surfaceBook, notices>>
  PROVE  Rules'
  <1>1. /\ frame[t].at = "drop" /\ frame[t].name \in ViewNames /\ frame[t].handle \in Calls
        /\ \/ Turns(t, "release") /\ UNCHANGED tasks
           \/ Rests(t) /\ tasks' = tasks \cup {<<frame[t].handle, frame[t].name>>}
    BY ReleaseViewIs DEF Inv, Rules
  <1>2. UNCHANGED <<layers, running, renderClosing, made, publicClosing, admission, mapLock, refs,
    browser, closing, viewClosing, viewLock, viewNames, views, surfClosing, surfNames, surfaces,
    registered, pending, asked, told>>
    BY DEF ReleaseBrowser, list, handles, viewBook, surfaceBook, notices
  <1>3. Main \in Threads /\ None \notin Calls /\ None \notin Names /\ None \notin Threads /\ made \in Nat
    BY Nobody, FramesAre DEF Inv, Rules
  <1>4. Locks'
    BY <1>1, <1>2, <1>3 DEF Locks, Inv, Rules, Throughout, Rests, Turns, Becomes
  <1>5. MainIs'
    BY <1>1, <1>2, <1>3 DEF MainIs, Stage, Sweeping, Inv, Rules, Throughout, Rests, Turns, Becomes
  <1>6. Hands'
    BY <1>1, <1>2, <1>3 DEF Hands, Inv, Rules, Throughout, Rests, Turns, Becomes
  <1>7. Reserved'
    BY <1>1, <1>2, <1>3 DEF Reserved, Reserving, Inv, Rules, Throughout, Rests, Turns, Becomes
  <1>8. Notified'
    BY <1>1, <1>2, <1>3 DEF Notified, Waits, Inv, Rules, Throughout, Rests, Turns, Becomes
  <1>9. Known'
    BY <1>1, <1>2, <1>3 DEF Known, Inv, Rules, Throughout, Rests, Turns, Becomes
  <1>10. Ended'
    BY <1>1, <1>2, <1>3 DEF Ended, Held, Stage, Sweeping, AfterViews, AfterSurfaces, AfterBook,
      MainIs, Inv, Rules, Throughout, Rests, Turns, Becomes
  <1>11. Ahead'
    BY <1>1, <1>2, <1>3 DEF Ahead, Unused, Fresh, Calls, Inv, Rules, Throughout, Rests, Turns,
      Becomes
  <1>12. Counted'
    BY <1>1, <1>2, <1>3 DEF Counted, Numbered, Beginning, Fresh, Calls, Inv, Rules, Throughout,
      Rests, Turns, Becomes
  <1>13. Waiting'
    BY <1>1, <1>2, <1>3 DEF Ahead, Counted, Distinct, Waiting, Beginning, Numbered, Unused, Fresh,
      Calls, Inv, Rules, Throughout, Rests, Turns, Becomes
  <1>14. Distinct'
    BY <1>1, <1>2, <1>3 DEF Distinct, Counted, Numbered, Beginning, Fresh, Calls, Inv, Rules,
      Throughout, Rests, Turns, Becomes
  <1>15. ASSUME ~viewClosing' PROVE ViewBook'
    <2>0. ViewBook
      BY <1>1, <1>2, <1>15 DEF Inv, Rules
    <2>1. ViewsOwn'
      <3>1. ASSUME NEW h, NEW x, Owns(h, x) PROVE Owns(h, x)'
        BY <1>1, <1>2, <3>1 DEF Owns, Rests, Turns, Becomes
      <3> QED BY <1>2, <2>0, <3>1 DEF ViewBook, ViewsOwn
    <2>2. ViewsDiffer'
      BY <1>1, <1>2, <1>3, <2>0 DEF ViewsDiffer, OneReserves, Reserving, ViewBook, Rests, Turns,
        Becomes
    <2>3. MakersOwn'
      BY <1>1, <1>2, <1>3, <2>0 DEF MakersOwn, Owns, ViewBook, Rests, Turns, Becomes
    <2>4. OneReserves'
      BY <1>1, <1>2, <1>3, <2>0 DEF OneReserves, Reserving, ViewBook, Rests, Turns, Becomes
    <2> QED BY <2>1, <2>2, <2>3, <2>4 DEF ViewBook
  <1>16. ASSUME ~publicClosing' PROVE Book'
    <2>0. Book
      BY <1>1, <1>2, <1>16 DEF Inv, Rules
    <2>1. Named'
      BY <1>1, <1>2, <1>3, <2>0 DEF Named, Book, Browsers, SurfaceBook, Rests, Turns, Becomes
    <2>2. OneEach'
      BY <1>1, <1>2, <1>3, <2>0 DEF OneEach, Book, Browsers, SurfaceBook, Rests, Turns, Becomes
    <2>3. MenusOwn'
      BY <1>1, <1>2, <1>3, <2>0 DEF MenusOwn, Book, Browsers, SurfaceBook, Rests, Turns, Becomes
    <2>4. ClosingEnds'
      BY <1>1, <1>2, <1>3, <2>0 DEF ClosingEnds, Ending, Book, Browsers, SurfaceBook, Rests, Turns,
        Becomes
    <2>5. EndingCloses'
      BY <1>1, <1>2, <1>3, <2>0 DEF EndingCloses, Ending, Book, Browsers, SurfaceBook, Rests, Turns,
        Becomes
    <2>6. UsedIsListed'
      BY <1>1, <1>2, <1>3, <2>0 DEF UsedIsListed, Book, Browsers, SurfaceBook, Rests, Turns, Becomes
    <2>7. UnusedIsGone'
      BY <1>1, <1>2, <1>3, <2>0 DEF UnusedIsGone, Gone, Book, Browsers, SurfaceBook, Rests, Turns,
        Becomes
    <2>8. EndingGoesOn'
      BY <1>1, <1>2, <1>3, <2>0 DEF EndingGoesOn, Ending, Gone, EndingCloses, Book, Browsers,
        SurfaceBook, Rests, Turns, Becomes
    <2>9. SurfacesListed'
      BY <1>1, <1>2, <1>3, <2>0 DEF SurfacesListed, Removing, Book, Browsers, SurfaceBook, Rests,
        Turns, Becomes
    <2>10. TakenAreUsed'
      BY <1>1, <1>2, <1>3, <2>0 DEF TakenAreUsed, Making, Book, Browsers, SurfaceBook, Rests, Turns,
        Becomes
    <2>11. OneMakes'
      BY <1>1, <1>2, <1>3, <2>0 DEF OneMakes, Making, Book, Browsers, SurfaceBook, Rests, Turns,
        Becomes
    <2>12. MadeAreListed'
      BY <1>1, <1>2, <1>3, <2>0 DEF MadeAreListed, Removing, Book, Browsers, SurfaceBook, Rests,
        Turns, Becomes
    <2>13. OneRemoves'
      BY <1>1, <1>2, <1>3, <2>0 DEF OneRemoves, Removing, Book, Browsers, SurfaceBook, Rests, Turns,
        Becomes
    <2>14. ListedAreHeld'
      BY <1>1, <1>2, <1>3, <2>0 DEF ListedAreHeld, Held, Book, Browsers, SurfaceBook, Rests, Turns,
        Becomes
    <2> QED BY <2>1, <2>2, <2>3, <2>4, <2>5, <2>6, <2>7, <2>8, <2>9, <2>10, <2>11, <2>12, <2>13,
          <2>14 DEF Book, Browsers, SurfaceBook
  <1> QED BY <1>4, <1>5, <1>6, <1>7, <1>8, <1>9, <1>10, <1>11, <1>12, <1>13, <1>14, <1>15, <1>16
      DEF Rules, Throughout, Fresh

\* CreateView has no browser: its name is still to be given back.
LEMMA NoViewKept ==
  ASSUME Inv, NEW t \in Threads, NEW n, NEW c, n = frame[t].name, c = frame[t].call, NEW h,
         h = frame[t].handle, Publish(t), Turns(t, "unreserve"), UNCHANGED <<viewNames, views>>,
         UNCHANGED <<surfaceBook, notices>>
  PROVE  Rules'
  <1>1. /\ frame[t].at = "publish" /\ n = frame[t].name /\ h = frame[t].handle
        /\ n \in ViewNames /\ h \in Calls \cup {None}
        /\ Turns(t, "unreserve") /\ UNCHANGED <<viewNames, views>>
    BY PublishIs DEF Inv, Rules
  <1>2. UNCHANGED <<layers, running, renderClosing, made, publicClosing, admission, mapLock, refs,
    browser, closing, viewClosing, viewNames, views, tasks, surfClosing, surfNames, surfaces,
    registered, pending, asked, told>>
    BY DEF Publish, list, handles, viewBook, surfaceBook, notices
  <1>3. Main \in Threads /\ None \notin Calls /\ None \notin Names /\ None \notin Threads /\ made \in Nat
    BY Nobody, FramesAre DEF Inv, Rules
  <1>4. Locks'
    BY <1>1, <1>2, <1>3 DEF Locks, Inv, Rules, Throughout, Turns, Becomes
  <1>5. MainIs'
    BY <1>1, <1>2, <1>3 DEF MainIs, Stage, Sweeping, Inv, Rules, Throughout, Turns, Becomes
  <1>6. Hands'
    BY <1>1, <1>2, <1>3 DEF Hands, Inv, Rules, Throughout, Turns, Becomes
  <1>7. Reserved'
    BY <1>1, <1>2, <1>3 DEF Reserved, Reserving, Inv, Rules, Throughout, Turns, Becomes
  <1>8. Notified'
    BY <1>1, <1>2, <1>3 DEF Notified, Waits, Inv, Rules, Throughout, Turns, Becomes
  <1>9. Known'
    BY <1>1, <1>2, <1>3 DEF Known, Inv, Rules, Throughout, Turns, Becomes
  <1>10. Ended'
    BY <1>1, <1>2, <1>3 DEF Ended, Held, Stage, Sweeping, AfterViews, AfterSurfaces, AfterBook,
      MainIs, Inv, Rules, Throughout, Turns, Becomes
  <1>11. Ahead'
    BY <1>1, <1>2, <1>3 DEF Ahead, Unused, Fresh, Calls, Inv, Rules, Throughout, Turns, Becomes
  <1>12. Counted'
    BY <1>1, <1>2, <1>3 DEF Counted, Numbered, Beginning, Fresh, Calls, Inv, Rules, Throughout,
      Turns, Becomes
  <1>13. Waiting'
    BY <1>1, <1>2, <1>3 DEF Ahead, Counted, Distinct, Waiting, Beginning, Numbered, Unused, Fresh,
      Calls, Inv, Rules, Throughout, Turns, Becomes
  <1>14. Distinct'
    BY <1>1, <1>2, <1>3 DEF Distinct, Counted, Numbered, Beginning, Fresh, Calls, Inv, Rules,
      Throughout, Turns, Becomes
  <1>15. ASSUME ~viewClosing' PROVE ViewBook'
    <2>0. ViewBook
      BY <1>1, <1>2, <1>15 DEF Inv, Rules
    <2>1. ViewsOwn'
      <3>1. ASSUME NEW y, NEW x, Owns(y, x) PROVE Owns(y, x)'
        BY <1>1, <1>2, <3>1 DEF Owns, Turns, Becomes
      <3> QED BY <1>2, <2>0, <3>1 DEF ViewBook, ViewsOwn
    <2>2. ViewsDiffer'
      BY <1>1, <1>2, <1>3, <2>0 DEF ViewsDiffer, OneReserves, Reserving, ViewBook, Turns, Becomes
    <2>3. MakersOwn'
      BY <1>1, <1>2, <1>3, <2>0 DEF MakersOwn, Owns, ViewBook, Turns, Becomes
    <2>4. OneReserves'
      BY <1>1, <1>2, <1>3, <2>0 DEF OneReserves, Reserving, ViewBook, Turns, Becomes
    <2> QED BY <2>1, <2>2, <2>3, <2>4 DEF ViewBook
  <1>16. ASSUME ~publicClosing' PROVE Book'
    <2>0. Book
      BY <1>1, <1>2, <1>16 DEF Inv, Rules
    <2>1. Named'
      BY <1>1, <1>2, <1>3, <2>0 DEF Named, Book, Browsers, SurfaceBook, Turns, Becomes
    <2>2. OneEach'
      BY <1>1, <1>2, <1>3, <2>0 DEF OneEach, Book, Browsers, SurfaceBook, Turns, Becomes
    <2>3. MenusOwn'
      BY <1>1, <1>2, <1>3, <2>0 DEF MenusOwn, Book, Browsers, SurfaceBook, Turns, Becomes
    <2>4. ClosingEnds'
      BY <1>1, <1>2, <1>3, <2>0 DEF ClosingEnds, Ending, Book, Browsers, SurfaceBook, Turns, Becomes
    <2>5. EndingCloses'
      BY <1>1, <1>2, <1>3, <2>0 DEF EndingCloses, Ending, Book, Browsers, SurfaceBook, Turns,
        Becomes
    <2>6. UsedIsListed'
      BY <1>1, <1>2, <1>3, <2>0 DEF UsedIsListed, Book, Browsers, SurfaceBook, Turns, Becomes
    <2>7. UnusedIsGone'
      BY <1>1, <1>2, <1>3, <2>0 DEF UnusedIsGone, Gone, Book, Browsers, SurfaceBook, Turns, Becomes
    <2>8. EndingGoesOn'
      BY <1>1, <1>2, <1>3, <2>0 DEF EndingGoesOn, Ending, Gone, EndingCloses, Book, Browsers,
        SurfaceBook, Turns, Becomes
    <2>9. SurfacesListed'
      BY <1>1, <1>2, <1>3, <2>0 DEF SurfacesListed, Removing, Book, Browsers, SurfaceBook, Turns,
        Becomes
    <2>10. TakenAreUsed'
      BY <1>1, <1>2, <1>3, <2>0 DEF TakenAreUsed, Making, Book, Browsers, SurfaceBook, Turns,
        Becomes
    <2>11. OneMakes'
      BY <1>1, <1>2, <1>3, <2>0 DEF OneMakes, Making, Book, Browsers, SurfaceBook, Turns, Becomes
    <2>12. MadeAreListed'
      BY <1>1, <1>2, <1>3, <2>0 DEF MadeAreListed, Removing, Book, Browsers, SurfaceBook, Turns,
        Becomes
    <2>13. OneRemoves'
      BY <1>1, <1>2, <1>3, <2>0 DEF OneRemoves, Removing, Book, Browsers, SurfaceBook, Turns,
        Becomes
    <2>14. ListedAreHeld'
      BY <1>1, <1>2, <1>3, <2>0 DEF ListedAreHeld, Held, Book, Browsers, SurfaceBook, Turns, Becomes
    <2> QED BY <2>1, <2>2, <2>3, <2>4, <2>5, <2>6, <2>7, <2>8, <2>9, <2>10, <2>11, <2>12, <2>13,
          <2>14 DEF Book, Browsers, SurfaceBook
  <1> QED BY <1>4, <1>5, <1>6, <1>7, <1>8, <1>9, <1>10, <1>11, <1>12, <1>13, <1>14, <1>15, <1>16
      DEF Rules, Throughout, Fresh

\* The views are closing: the name goes, then the handle.
LEMMA TooLateKept ==
  ASSUME Inv, NEW t \in Threads, NEW n, NEW c, n = frame[t].name, c = frame[t].call, NEW h,
         h = frame[t].handle, Publish(t), h # None, viewClosing, Turns(t, "release"),
         viewNames' = viewNames \ {n}, UNCHANGED views, UNCHANGED <<surfaceBook, notices>>
  PROVE  Rules'
  <1>1. /\ frame[t].at = "publish" /\ n = frame[t].name /\ h = frame[t].handle
        /\ n \in ViewNames /\ h \in Calls \cup {None}
        /\ viewClosing /\ h # None /\ Turns(t, "release") /\ UNCHANGED views
        /\ viewNames' = viewNames \ {n}
    BY PublishIs DEF Inv, Rules
  <1>2. UNCHANGED <<layers, running, renderClosing, made, publicClosing, admission, mapLock, refs,
    browser, closing, viewClosing, tasks, surfClosing, surfNames, surfaces, registered, pending,
    asked, told>>
    BY DEF Publish, list, handles, viewBook, surfaceBook, notices
  <1>3. Main \in Threads /\ None \notin Calls /\ None \notin Names /\ None \notin Threads /\ made \in Nat
    BY Nobody, FramesAre DEF Inv, Rules
  <1>4. Locks'
    BY <1>1, <1>2, <1>3 DEF Locks, Inv, Rules, Throughout, Turns, Becomes
  <1>5. MainIs'
    BY <1>1, <1>2, <1>3 DEF MainIs, Stage, Sweeping, Inv, Rules, Throughout, Turns, Becomes
  <1>6. Hands'
    BY <1>1, <1>2, <1>3 DEF Hands, Inv, Rules, Throughout, Turns, Becomes
  <1>7. Reserved'
    BY <1>1, <1>2, <1>3 DEF Reserved, Reserving, Inv, Rules, Throughout, Turns, Becomes
  <1>8. Notified'
    BY <1>1, <1>2, <1>3 DEF Notified, Waits, Inv, Rules, Throughout, Turns, Becomes
  <1>9. Known'
    BY <1>1, <1>2, <1>3 DEF Known, Inv, Rules, Throughout, Turns, Becomes
  <1>10. Ended'
    BY <1>1, <1>2, <1>3 DEF Ended, Held, Stage, Sweeping, AfterViews, AfterSurfaces, AfterBook,
      MainIs, Inv, Rules, Throughout, Turns, Becomes
  <1>11. Ahead'
    BY <1>1, <1>2, <1>3 DEF Ahead, Unused, Fresh, Calls, Inv, Rules, Throughout, Turns, Becomes
  <1>12. Counted'
    BY <1>1, <1>2, <1>3 DEF Counted, Numbered, Beginning, Fresh, Calls, Inv, Rules, Throughout,
      Turns, Becomes
  <1>13. Waiting'
    BY <1>1, <1>2, <1>3 DEF Ahead, Counted, Distinct, Waiting, Beginning, Numbered, Unused, Fresh,
      Calls, Inv, Rules, Throughout, Turns, Becomes
  <1>14. Distinct'
    BY <1>1, <1>2, <1>3 DEF Distinct, Counted, Numbered, Beginning, Fresh, Calls, Inv, Rules,
      Throughout, Turns, Becomes
  <1>15. ASSUME ~viewClosing' PROVE ViewBook'
    BY <1>1, <1>2, <1>15
  <1>16. ASSUME ~publicClosing' PROVE Book'
    <2>0. Book
      BY <1>1, <1>2, <1>16 DEF Inv, Rules
    <2>1. Named'
      BY <1>1, <1>2, <1>3, <2>0 DEF Named, Book, Browsers, SurfaceBook, Turns, Becomes
    <2>2. OneEach'
      BY <1>1, <1>2, <1>3, <2>0 DEF OneEach, Book, Browsers, SurfaceBook, Turns, Becomes
    <2>3. MenusOwn'
      BY <1>1, <1>2, <1>3, <2>0 DEF MenusOwn, Book, Browsers, SurfaceBook, Turns, Becomes
    <2>4. ClosingEnds'
      BY <1>1, <1>2, <1>3, <2>0 DEF ClosingEnds, Ending, Book, Browsers, SurfaceBook, Turns, Becomes
    <2>5. EndingCloses'
      BY <1>1, <1>2, <1>3, <2>0 DEF EndingCloses, Ending, Book, Browsers, SurfaceBook, Turns,
        Becomes
    <2>6. UsedIsListed'
      BY <1>1, <1>2, <1>3, <2>0 DEF UsedIsListed, Book, Browsers, SurfaceBook, Turns, Becomes
    <2>7. UnusedIsGone'
      BY <1>1, <1>2, <1>3, <2>0 DEF UnusedIsGone, Gone, Book, Browsers, SurfaceBook, Turns, Becomes
    <2>8. EndingGoesOn'
      BY <1>1, <1>2, <1>3, <2>0 DEF EndingGoesOn, Ending, Gone, EndingCloses, Book, Browsers,
        SurfaceBook, Turns, Becomes
    <2>9. SurfacesListed'
      BY <1>1, <1>2, <1>3, <2>0 DEF SurfacesListed, Removing, Book, Browsers, SurfaceBook, Turns,
        Becomes
    <2>10. TakenAreUsed'
      BY <1>1, <1>2, <1>3, <2>0 DEF TakenAreUsed, Making, Book, Browsers, SurfaceBook, Turns,
        Becomes
    <2>11. OneMakes'
      BY <1>1, <1>2, <1>3, <2>0 DEF OneMakes, Making, Book, Browsers, SurfaceBook, Turns, Becomes
    <2>12. MadeAreListed'
      BY <1>1, <1>2, <1>3, <2>0 DEF MadeAreListed, Removing, Book, Browsers, SurfaceBook, Turns,
        Becomes
    <2>13. OneRemoves'
      BY <1>1, <1>2, <1>3, <2>0 DEF OneRemoves, Removing, Book, Browsers, SurfaceBook, Turns,
        Becomes
    <2>14. ListedAreHeld'
      BY <1>1, <1>2, <1>3, <2>0 DEF ListedAreHeld, Held, Book, Browsers, SurfaceBook, Turns, Becomes
    <2> QED BY <2>1, <2>2, <2>3, <2>4, <2>5, <2>6, <2>7, <2>8, <2>9, <2>10, <2>11, <2>12, <2>13,
          <2>14 DEF Book, Browsers, SurfaceBook
  <1> QED BY <1>4, <1>5, <1>6, <1>7, <1>8, <1>9, <1>10, <1>11, <1>12, <1>13, <1>14, <1>15, <1>16
      DEF Rules, Throughout, Fresh

\* The view is entered in the book.
LEMMA EnteredKept ==
  ASSUME Inv, NEW t \in Threads, NEW n, NEW c, n = frame[t].name, c = frame[t].call, NEW h,
         h = frame[t].handle, Publish(t), h # None, ~viewClosing, Rests(t),
         views' = views \cup {[view |-> h, name |-> n, menu |-> browser[n]]}, UNCHANGED viewNames,
         UNCHANGED <<surfaceBook, notices>>
  PROVE  Rules'
  <1>1. /\ frame[t].at = "publish" /\ n = frame[t].name /\ h = frame[t].handle
        /\ n \in ViewNames /\ h \in Calls \cup {None}
        /\ ~viewClosing /\ h # None /\ Rests(t) /\ UNCHANGED viewNames
        /\ Owns(h, n) /\ n \in viewNames
        /\ \A v \in views : v \in views' /\ v.name # n
        /\ \E v \in views' : v.name = n
        /\ \A v \in views' : v \in views \/ v = [view |-> h, name |-> n, menu |-> browser[n]]
    <2>1. frame[t].at = "publish" /\ n \in ViewNames /\ h \in Calls \cup {None}
      BY PublishIs DEF Inv
    <2>2. Owns(h, n) /\ n \in viewNames /\ \A v \in views : v.name # n
      BY <2>1 DEF Inv, Rules, ViewBook, MakersOwn, OneReserves, Reserving
    <2>3. \E v \in views' : v.name = n
      <3>1. [view |-> h, name |-> n, menu |-> browser[n]] \in views'
        OBVIOUS
      <3> QED BY <3>1
    <2> QED BY <2>1, <2>2, <2>3
  <1>2. UNCHANGED <<layers, running, renderClosing, made, publicClosing, admission, mapLock, refs,
    browser, closing, viewClosing, tasks, surfClosing, surfNames, surfaces, registered, pending,
    asked, told>>
    BY DEF Publish, list, handles, viewBook, surfaceBook, notices
  <1>3. Main \in Threads /\ None \notin Calls /\ None \notin Names /\ None \notin Threads /\ made \in Nat
    BY Nobody, FramesAre DEF Inv, Rules
  <1>4. Locks'
    BY <1>1, <1>2, <1>3 DEF Locks, Inv, Rules, Throughout, Rests, Becomes
  <1>5. MainIs'
    BY <1>1, <1>2, <1>3 DEF MainIs, Stage, Sweeping, Inv, Rules, Throughout, Rests, Becomes
  <1>6. Hands'
    BY <1>1, <1>2, <1>3 DEF Hands, Inv, Rules, Throughout, Rests, Becomes
  <1>7. Reserved'
    BY <1>1, <1>2, <1>3 DEF Reserved, Reserving, Inv, Rules, Throughout, Rests, Becomes
  <1>8. Notified'
    BY <1>1, <1>2, <1>3 DEF Notified, Waits, Inv, Rules, Throughout, Rests, Becomes
  <1>9. Known'
    BY <1>1, <1>2, <1>3 DEF Known, Inv, Rules, Throughout, Rests, Becomes
  <1>10. Ended'
    BY <1>1, <1>2, <1>3 DEF Ended, Held, Stage, Sweeping, AfterViews, AfterSurfaces, AfterBook,
      MainIs, Inv, Rules, Throughout, Rests, Becomes
  <1>11. Ahead'
    BY <1>1, <1>2, <1>3 DEF Ahead, Unused, Fresh, Calls, Inv, Rules, Throughout, Rests, Becomes
  <1>12. Counted'
    BY <1>1, <1>2, <1>3 DEF Counted, Numbered, Beginning, Fresh, Calls, Inv, Rules, Throughout,
      Rests, Becomes
  <1>13. Waiting'
    BY <1>1, <1>2, <1>3 DEF Ahead, Counted, Distinct, Waiting, Beginning, Numbered, Unused, Fresh,
      Calls, Inv, Rules, Throughout, Rests, Becomes
  <1>14. Distinct'
    BY <1>1, <1>2, <1>3 DEF Distinct, Counted, Numbered, Beginning, Fresh, Calls, Inv, Rules,
      Throughout, Rests, Becomes
  <1>15. ASSUME ~viewClosing' PROVE ViewBook'
    <2>0. ViewBook
      BY <1>1, <1>2, <1>15 DEF Inv, Rules
    <2>1. ViewsOwn'
      <3>1. ASSUME NEW g, NEW x, Owns(g, x) PROVE Owns(g, x)'
        BY <1>1, <1>2, <3>1 DEF Owns, Rests, Becomes
      <3>2. ASSUME NEW v \in views' PROVE Owns(v.view, v.name) /\ v.menu = browser[v.name] /\ v.name \in viewNames
        BY <1>1, <2>0, <3>2 DEF ViewBook, ViewsOwn
      <3> QED BY <1>1, <1>2, <3>1, <3>2 DEF ViewsOwn
    <2>2. ViewsDiffer'
      BY <1>1, <1>2, <1>3, <2>0 DEF ViewsDiffer, OneReserves, Reserving, ViewBook, Rests, Becomes
    <2>3. MakersOwn'
      BY <1>1, <1>2, <1>3, <2>0 DEF MakersOwn, Owns, ViewBook, Rests, Becomes
    <2>4. OneReserves'
      BY <1>1, <1>2, <1>3, <2>0 DEF OneReserves, Reserving, ViewBook, Rests, Becomes
    <2> QED BY <2>1, <2>2, <2>3, <2>4 DEF ViewBook
  <1>16. ASSUME ~publicClosing' PROVE Book'
    <2>0. Book
      BY <1>1, <1>2, <1>16 DEF Inv, Rules
    <2>1. Named'
      BY <1>1, <1>2, <1>3, <2>0 DEF Named, Book, Browsers, SurfaceBook, Rests, Becomes
    <2>2. OneEach'
      BY <1>1, <1>2, <1>3, <2>0 DEF OneEach, Book, Browsers, SurfaceBook, Rests, Becomes
    <2>3. MenusOwn'
      BY <1>1, <1>2, <1>3, <2>0 DEF MenusOwn, Book, Browsers, SurfaceBook, Rests, Becomes
    <2>4. ClosingEnds'
      BY <1>1, <1>2, <1>3, <2>0 DEF ClosingEnds, Ending, Book, Browsers, SurfaceBook, Rests, Becomes
    <2>5. EndingCloses'
      BY <1>1, <1>2, <1>3, <2>0 DEF EndingCloses, Ending, Book, Browsers, SurfaceBook, Rests,
        Becomes
    <2>6. UsedIsListed'
      BY <1>1, <1>2, <1>3, <2>0 DEF UsedIsListed, Book, Browsers, SurfaceBook, Rests, Becomes
    <2>7. UnusedIsGone'
      BY <1>1, <1>2, <1>3, <2>0 DEF UnusedIsGone, Gone, Book, Browsers, SurfaceBook, Rests, Becomes
    <2>8. EndingGoesOn'
      BY <1>1, <1>2, <1>3, <2>0 DEF EndingGoesOn, Ending, Gone, EndingCloses, Book, Browsers,
        SurfaceBook, Rests, Becomes
    <2>9. SurfacesListed'
      BY <1>1, <1>2, <1>3, <2>0 DEF SurfacesListed, Removing, Book, Browsers, SurfaceBook, Rests,
        Becomes
    <2>10. TakenAreUsed'
      BY <1>1, <1>2, <1>3, <2>0 DEF TakenAreUsed, Making, Book, Browsers, SurfaceBook, Rests,
        Becomes
    <2>11. OneMakes'
      BY <1>1, <1>2, <1>3, <2>0 DEF OneMakes, Making, Book, Browsers, SurfaceBook, Rests, Becomes
    <2>12. MadeAreListed'
      BY <1>1, <1>2, <1>3, <2>0 DEF MadeAreListed, Removing, Book, Browsers, SurfaceBook, Rests,
        Becomes
    <2>13. OneRemoves'
      BY <1>1, <1>2, <1>3, <2>0 DEF OneRemoves, Removing, Book, Browsers, SurfaceBook, Rests,
        Becomes
    <2>14. ListedAreHeld'
      BY <1>1, <1>2, <1>3, <2>0 DEF ListedAreHeld, Held, Book, Browsers, SurfaceBook, Rests, Becomes
    <2> QED BY <2>1, <2>2, <2>3, <2>4, <2>5, <2>6, <2>7, <2>8, <2>9, <2>10, <2>11, <2>12, <2>13,
          <2>14 DEF Book, Browsers, SurfaceBook
  <1> QED BY <1>4, <1>5, <1>6, <1>7, <1>8, <1>9, <1>10, <1>11, <1>12, <1>13, <1>14, <1>15, <1>16
      DEF Rules, Throughout, Fresh

-----------------------------------------------------------------------------
(* Steps on the list and about surfaces keep the rules.                    *)

\* A layer is taken off the list, into the hands of who removes it.
LEMMA RemoveKept ==
  ASSUME Inv, NEW t \in Threads, NEW n, n = frame[t].name, RemoveSubMenu(t),
         UNCHANGED <<handles, viewBook, surfaceBook, notices>>
  PROVE  Rules'
  <1>1. /\ frame[t].at = "remove" /\ frame[t].next \in {"forget", "freeName", "idle"}
        /\ n = frame[t].name /\ n \in Names
        /\ n \in BrowserNames => frame[t].next = "forget"
        /\ n \notin BrowserNames => n \in SurfaceNames
        /\ frame[t].menus \subseteq Calls
        /\ Becomes(t, "shut", frame[t].call, n, frame[t].handle, frame[t].menus \cup ({layers[n]} \ {None}), frame[t].next)
        /\ layers'[n] = None /\ \A x \in Names : x # n => layers'[x] = layers[x]
    <2>1. /\ frame[t].at = "remove" /\ frame[t].next \in {"forget", "freeName", "idle"} /\ n \in Names
          /\ frame[t].menus \subseteq Calls /\ layers' = [layers EXCEPT ![n] = None]
          /\ Becomes(t, "shut", frame[t].call, n, frame[t].handle, frame[t].menus \cup ({layers[n]} \ {None}), frame[t].next)
      BY RemoveSubMenuIs DEF Inv
    <2>2. (n \in BrowserNames => frame[t].next = "forget") /\ (n \notin BrowserNames => n \in SurfaceNames)
      BY <2>1, NamesAssumption DEF Inv, Kinds, Shape, Names
    <2>3. layers'[n] = None /\ \A x \in Names : x # n => layers'[x] = layers[x]
      BY <2>1 DEF Inv, Kinds, TypeOK, ListTypeOK
    <2> QED BY <2>1, <2>2, <2>3
  <1>2. UNCHANGED <<running, renderClosing, made, publicClosing, admission, mapLock, refs, browser,
    closing, viewClosing, viewLock, viewNames, views, tasks, surfClosing, surfNames, surfaces,
    registered, pending, asked, told>>
    BY DEF RemoveSubMenu, handles, viewBook, surfaceBook, notices
  <1>3. /\ Main \in Threads /\ None \notin Calls /\ None \notin Names /\ None \notin Threads /\ made \in Nat
        /\ \A s \in surfaces : s.surface \in Calls /\ s.name \in SurfaceNames
        /\ \A x \in SurfaceNames : x \in Names /\ x \notin BrowserNames
        /\ \A x \in BrowserNames : x \in Names
        /\ \A u \in Threads : frame[u].at = "publishSurface" => frame[u].name \in SurfaceNames
    BY Nobody, FramesAre, BooksAre, NamesAssumption DEF Inv, Names
  <1>4. Locks'
    BY <1>1, <1>2, <1>3 DEF Locks, Inv, Rules, Throughout, Becomes
  <1>5. MainIs'
    BY <1>1, <1>2, <1>3 DEF MainIs, Stage, Sweeping, Inv, Rules, Throughout, Becomes
  <1>6. Hands'
    BY <1>1, <1>2, <1>3 DEF Hands, Inv, Rules, Throughout, Becomes
  <1>7. Reserved'
    BY <1>1, <1>2, <1>3 DEF Reserved, Reserving, Inv, Rules, Throughout, Becomes
  <1>8. Notified'
    BY <1>1, <1>2, <1>3 DEF Notified, Waits, Inv, Rules, Throughout, Becomes
  <1>9. Known'
    BY <1>1, <1>2, <1>3 DEF Known, Inv, Rules, Throughout, Becomes
  <1>10. Ended'
    BY <1>1, <1>2, <1>3 DEF Ended, Held, Stage, Sweeping, AfterViews, AfterSurfaces, AfterBook,
      MainIs, Inv, Rules, Throughout, Becomes
  <1>11. Ahead'
    <2>1. ASSUME NEW d \in Calls, Unused(d) PROVE Unused(d)'
      <3>1. \A x \in Names : layers'[x] # d /\ <<d, x>> \notin running'
        BY <1>1, <1>2, <1>3, <2>1 DEF Unused
      <3>2. frame'[t].at \in {"remove", "shut"} => d \notin frame'[t].menus
        BY <1>1, <1>2, <1>3, <2>1 DEF Unused, Becomes
      <3>3. \A s \in surfaces' : s.surface # d
        BY <1>1, <1>2, <2>1 DEF Unused
      <3> QED BY <1>1, <1>2, <2>1, <3>1, <3>2, <3>3, UnusedStays DEF Unused, Becomes
    <2> QED BY <1>2, <2>1 DEF Ahead, Inv, Rules, Throughout, Fresh
  <1>12. Counted'
    BY <1>1, <1>2, <1>3 DEF Counted, Numbered, Beginning, Fresh, Calls, Inv, Rules, Throughout,
      Becomes
  <1>13. Waiting'
    <2>1. ASSUME NEW d \in Calls, Unused(d) PROVE Unused(d)'
      <3>1. \A x \in Names : layers'[x] # d /\ <<d, x>> \notin running'
        BY <1>1, <1>2, <1>3, <2>1 DEF Unused
      <3>2. frame'[t].at \in {"remove", "shut"} => d \notin frame'[t].menus
        BY <1>1, <1>2, <1>3, <2>1 DEF Unused, Becomes
      <3>3. \A s \in surfaces' : s.surface # d
        BY <1>1, <1>2, <2>1 DEF Unused
      <3> QED BY <1>1, <1>2, <2>1, <3>1, <3>2, <3>3, UnusedStays DEF Unused, Becomes
    <2>2. \A u \in Threads : frame'[u].at \in Beginning => frame'[u].call \in Calls /\ Unused(frame'[u].call)
      BY <1>1 DEF Inv, Rules, Throughout, Fresh, Waiting, Beginning, Kinds, Shape, Becomes
    <2> QED BY <2>1, <2>2 DEF Waiting
  <1>14. Distinct'
    BY <1>1, <1>2, <1>3 DEF Distinct, Counted, Numbered, Beginning, Fresh, Calls, Inv, Rules,
      Throughout, Becomes
  <1>15. ASSUME ~viewClosing' PROVE ViewBook'
    <2>0. ViewBook
      BY <1>1, <1>2, <1>15 DEF Inv, Rules
    <2>1. ViewsOwn'
      <3>1. ASSUME NEW h, NEW x, Owns(h, x) PROVE Owns(h, x)'
        BY <1>1, <1>2, <3>1 DEF Owns, Becomes
      <3> QED BY <1>2, <2>0, <3>1 DEF ViewBook, ViewsOwn
    <2>2. ViewsDiffer'
      BY <1>1, <1>2, <1>3, <2>0 DEF ViewsDiffer, OneReserves, Reserving, ViewBook, Becomes
    <2>3. MakersOwn'
      BY <1>1, <1>2, <1>3, <2>0 DEF MakersOwn, Owns, ViewBook, Becomes
    <2>4. OneReserves'
      BY <1>1, <1>2, <1>3, <2>0 DEF OneReserves, Reserving, ViewBook, Becomes
    <2> QED BY <2>1, <2>2, <2>3, <2>4 DEF ViewBook
  <1>16. ASSUME ~publicClosing' PROVE Book'
    <2>0. Book
      BY <1>1, <1>2, <1>16 DEF Inv, Rules
    <2>1. Named'
      <3>1. ASSUME NEW x \in Names, layers'[x] # None
            PROVE  /\ x # n /\ layers'[x] = layers[x] /\ layers[x] # layers[n] /\ layers[x] \notin frame[t].menus
        BY <1>1, <2>0, <3>1 DEF Book, Named
      <3> QED BY <1>1, <1>2, <2>0, <3>1 DEF Book, Named, Becomes
    <2>2. OneEach'
      BY <1>1, <1>2, <1>3, <2>0 DEF OneEach, Book, Browsers, SurfaceBook, Becomes
    <2>3. MenusOwn'
      <3>1. layers[n] # None => \A x \in Names : <<layers[n], x>> \in running => x = n
        BY <1>1, <2>0 DEF Book, Named
      <3>2. \A m \in frame[t].menus, x \in Names : <<m, x>> \in running => x = n
        BY <1>1, <2>0 DEF Book, MenusOwn
      <3> QED BY <1>1, <1>2, <2>0, <3>1, <3>2 DEF Book, MenusOwn, Becomes
    <2>4. ClosingEnds'
      BY <1>1, <1>2, <1>3, <2>0 DEF ClosingEnds, Ending, Book, Browsers, SurfaceBook, Becomes
    <2>5. EndingCloses'
      BY <1>1, <1>2, <1>3, <2>0 DEF EndingCloses, Ending, Book, Browsers, SurfaceBook, Becomes
    <2>6. UsedIsListed'
      <3>1. n \in BrowserNames => refs[n] = {}
        BY <1>1, <2>0 DEF Book, Browsers, ClosingEnds, EndingCloses, Ending
      <3> QED BY <1>1, <1>2, <1>3, <2>0, <3>1 DEF Book, Browsers, UsedIsListed
    <2>7. UnusedIsGone'
      BY <1>1, <1>2, <1>3, <2>0 DEF UnusedIsGone, Gone, Book, Browsers, SurfaceBook, Becomes
    <2>8. EndingGoesOn'
      <3>1. ASSUME n \in BrowserNames, NEW m \in Calls, <<m, n>> \in running PROVE m \in frame'[t].menus
        <4>1. frame[t].menus = {}
          BY <1>1, <2>0, <3>1 DEF Book, Browsers, EndingGoesOn, Ending
        <4>2. ASSUME NEW u \in Threads, frame[u].at \in {"remove", "shut"}, m \in frame[u].menus PROVE FALSE
          <5>1. frame[u].name = n
            BY <1>1, <2>0, <3>1, <4>2 DEF Book, MenusOwn
          <5>2. frame[u].next = "forget"
            BY <1>2, <1>3, <1>16, <3>1, <4>2, <5>1
                DEF Inv, Rules, Throughout, MainIs, Stage, Sweeping, Kinds, Shape
          <5>3. u = t
            BY <1>1, <2>0, <3>1, <4>2, <5>1, <5>2 DEF Book, Browsers, EndingCloses, Ending
          <5> QED BY <4>1, <4>2, <5>3
        <4>3. layers[n] = m
          BY <1>1, <3>1, <4>2 DEF Inv, Rules, Throughout, Hands
        <4> QED BY <1>1, <1>3, <3>1, <4>3 DEF Becomes
      <3>2. ASSUME NEW u \in Threads, NEW x \in BrowserNames, u # t, Ending(u, x)' PROVE Ending(u, x) /\ (n \in BrowserNames => x # n)
        BY <1>1, <2>0, <3>2 DEF Book, Browsers, EndingCloses, Ending, Becomes
      <3>3. \A x \in BrowserNames : Ending(t, x)' => x = n /\ frame'[t].at = "shut"
        BY <1>1 DEF Ending, Becomes
      <3>4. \A u \in Threads : u # t => frame'[u] = frame[u]
        BY <1>1 DEF Becomes
      <3> QED BY <1>1, <1>2, <1>3, <2>0, <3>1, <3>2, <3>3, <3>4 DEF Book, Browsers, EndingGoesOn, Gone
    <2>9. SurfacesListed'
      BY <1>1, <1>2, <1>3, <2>0 DEF SurfacesListed, Removing, Book, Browsers, SurfaceBook, Becomes
    <2>10. TakenAreUsed'
      BY <1>1, <1>2, <1>3, <2>0 DEF TakenAreUsed, Making, Book, Browsers, SurfaceBook, Becomes
    <2>11. OneMakes'
      BY <1>1, <1>2, <1>3, <2>0 DEF OneMakes, Making, Book, Browsers, SurfaceBook, Becomes
    <2>12. MadeAreListed'
      BY <1>1, <1>2, <1>3, <2>0 DEF MadeAreListed, Removing, Book, Browsers, SurfaceBook, Becomes
    <2>13. OneRemoves'
      BY <1>1, <1>2, <1>3, <2>0 DEF OneRemoves, Removing, Book, Browsers, SurfaceBook, Becomes
    <2>14. ListedAreHeld'
      BY <1>1, <1>2, <1>3, <2>0 DEF ListedAreHeld, Held, Book, Browsers, SurfaceBook, Becomes
    <2> QED BY <2>1, <2>2, <2>3, <2>4, <2>5, <2>6, <2>7, <2>8, <2>9, <2>10, <2>11, <2>12, <2>13,
          <2>14 DEF Book, Browsers, SurfaceBook
  <1> QED BY <1>4, <1>5, <1>6, <1>7, <1>8, <1>9, <1>10, <1>11, <1>12, <1>13, <1>14, <1>15, <1>16
      DEF Rules, Throughout, Fresh

\* What a thread has in its hands is shut.
LEMMA ShutKept ==
  ASSUME Inv, NEW t \in Threads, ShutMenus(t), UNCHANGED <<handles, viewBook, surfaceBook, notices>>
  PROVE  Rules'
  <1>1. /\ frame[t].at = "shut" /\ Shape(frame[t])
        /\ running' = {m \in running : m[1] \notin frame[t].menus}
        /\ \/ frame[t].next = "idle" /\ Rests(t)
           \/ /\ frame[t].next # "idle"
              /\ Becomes(t, frame[t].next, frame[t].call, frame[t].name, frame[t].handle, {}, frame[t].next)
    BY ShutMenusIs DEF Inv
  <1>2. UNCHANGED <<layers, renderClosing, made, publicClosing, admission, mapLock, refs, browser,
    closing, viewClosing, viewLock, viewNames, views, tasks, surfClosing, surfNames, surfaces,
    registered, pending, asked, told>>
    BY DEF ShutMenus, handles, viewBook, surfaceBook, notices
  <1>3. /\ Main \in Threads /\ None \notin Calls /\ None \notin Names /\ None \notin Threads /\ made \in Nat
        /\ \A s \in surfaces : s.surface \in Calls /\ s.name \in SurfaceNames
        /\ \A x \in SurfaceNames : x \in Names /\ x \notin BrowserNames
        /\ \A x \in BrowserNames : x \in Names
        /\ \A u \in Threads : frame[u].at = "publishSurface" => frame[u].name \in SurfaceNames
    BY Nobody, FramesAre, BooksAre, NamesAssumption DEF Inv, Names
  <1>4. Locks'
    BY <1>1, <1>2, <1>3 DEF Locks, Inv, Rules, Throughout, Rests, Becomes, Shape
  <1>5. MainIs'
    BY <1>1, <1>2, <1>3 DEF MainIs, Stage, Sweeping, Inv, Rules, Throughout, Rests, Becomes, Shape
  <1>6. Hands'
    BY <1>1, <1>2, <1>3 DEF Hands, Inv, Rules, Throughout, Rests, Becomes, Shape
  <1>7. Reserved'
    BY <1>1, <1>2, <1>3 DEF Reserved, Reserving, Inv, Rules, Throughout, Rests, Becomes, Shape
  <1>8. Notified'
    BY <1>1, <1>2, <1>3 DEF Notified, Waits, Inv, Rules, Throughout, Rests, Becomes, Shape
  <1>9. Known'
    BY <1>1, <1>2, <1>3 DEF Known, Inv, Rules, Throughout, Rests, Becomes, Shape
  <1>10. Ended'
    BY <1>1, <1>2, <1>3 DEF Ended, Held, Stage, Sweeping, AfterViews, AfterSurfaces, AfterBook,
      MainIs, Inv, Rules, Throughout, Rests, Becomes, Shape
  <1>11. Ahead'
    BY <1>1, <1>2, <1>3 DEF Ahead, Unused, Fresh, Calls, Inv, Rules, Throughout, Rests, Becomes,
      Shape
  <1>12. Counted'
    BY <1>1, <1>2, <1>3 DEF Counted, Numbered, Beginning, Fresh, Calls, Inv, Rules, Throughout,
      Rests, Becomes, Shape
  <1>13. Waiting'
    BY <1>1, <1>2, <1>3 DEF Ahead, Counted, Distinct, Waiting, Beginning, Numbered, Unused, Fresh,
      Calls, Inv, Rules, Throughout, Rests, Becomes, Shape
  <1>14. Distinct'
    BY <1>1, <1>2, <1>3 DEF Distinct, Counted, Numbered, Beginning, Fresh, Calls, Inv, Rules,
      Throughout, Rests, Becomes, Shape
  <1>15. ASSUME ~viewClosing' PROVE ViewBook'
    <2>0. ViewBook
      BY <1>1, <1>2, <1>15 DEF Inv, Rules
    <2>1. ViewsOwn'
      <3>1. ASSUME NEW h, NEW x, Owns(h, x) PROVE Owns(h, x)'
        BY <1>1, <1>2, <3>1 DEF Owns, Rests, Becomes, Shape
      <3> QED BY <1>2, <2>0, <3>1 DEF ViewBook, ViewsOwn
    <2>2. ViewsDiffer'
      BY <1>1, <1>2, <1>3, <2>0 DEF ViewsDiffer, OneReserves, Reserving, ViewBook, Rests, Becomes,
        Shape
    <2>3. MakersOwn'
      BY <1>1, <1>2, <1>3, <2>0 DEF MakersOwn, Owns, ViewBook, Rests, Becomes, Shape
    <2>4. OneReserves'
      BY <1>1, <1>2, <1>3, <2>0 DEF OneReserves, Reserving, ViewBook, Rests, Becomes, Shape
    <2> QED BY <2>1, <2>2, <2>3, <2>4 DEF ViewBook
  <1>16. ASSUME ~publicClosing' PROVE Book'
    <2>0. Book
      BY <1>1, <1>2, <1>16 DEF Inv, Rules
    <2>1. Named'
      BY <1>1, <1>2, <1>3, <2>0 DEF Named, Book, Browsers, SurfaceBook, Rests, Becomes, Shape
    <2>2. OneEach'
      BY <1>1, <1>2, <1>3, <2>0 DEF OneEach, Book, Browsers, SurfaceBook, Rests, Becomes, Shape
    <2>3. MenusOwn'
      BY <1>1, <1>2, <1>3, <2>0 DEF MenusOwn, Book, Browsers, SurfaceBook, Rests, Becomes, Shape
    <2>4. ClosingEnds'
      BY <1>1, <1>2, <1>3, <2>0 DEF ClosingEnds, Ending, Book, Browsers, SurfaceBook, Rests,
        Becomes, Shape
    <2>5. EndingCloses'
      BY <1>1, <1>2, <1>3, <2>0 DEF EndingCloses, Ending, Book, Browsers, SurfaceBook, Rests,
        Becomes, Shape
    <2>6. UsedIsListed'
      BY <1>1, <1>2, <1>3, <2>0 DEF UsedIsListed, Book, Browsers, SurfaceBook, Rests, Becomes, Shape
    <2>7. UnusedIsGone'
      BY <1>1, <1>2, <1>3, <2>0 DEF UnusedIsGone, Gone, Book, Browsers, SurfaceBook, Rests, Becomes,
        Shape
    <2>8. EndingGoesOn'
      BY <1>1, <1>2, <1>3, <2>0 DEF EndingGoesOn, Ending, Gone, EndingCloses, Book, Browsers,
        SurfaceBook, Rests, Becomes, Shape
    <2>9. SurfacesListed'
      BY <1>1, <1>2, <1>3, <2>0 DEF SurfacesListed, Removing, Book, Browsers, SurfaceBook, Rests,
        Becomes, Shape
    <2>10. TakenAreUsed'
      BY <1>1, <1>2, <1>3, <2>0 DEF TakenAreUsed, Making, Book, Browsers, SurfaceBook, Rests,
        Becomes, Shape
    <2>11. OneMakes'
      BY <1>1, <1>2, <1>3, <2>0 DEF OneMakes, Making, Book, Browsers, SurfaceBook, Rests, Becomes,
        Shape
    <2>12. MadeAreListed'
      BY <1>1, <1>2, <1>3, <2>0 DEF MadeAreListed, Removing, Book, Browsers, SurfaceBook, Rests,
        Becomes, Shape
    <2>13. OneRemoves'
      BY <1>1, <1>2, <1>3, <2>0 DEF OneRemoves, Removing, Book, Browsers, SurfaceBook, Rests,
        Becomes, Shape
    <2>14. ListedAreHeld'
      BY <1>1, <1>2, <1>3, <2>0 DEF ListedAreHeld, Held, Book, Browsers, SurfaceBook, Rests,
        Becomes, Shape
    <2> QED BY <2>1, <2>2, <2>3, <2>4, <2>5, <2>6, <2>7, <2>8, <2>9, <2>10, <2>11, <2>12, <2>13,
          <2>14 DEF Book, Browsers, SurfaceBook
  <1> QED BY <1>4, <1>5, <1>6, <1>7, <1>8, <1>9, <1>10, <1>11, <1>12, <1>13, <1>14, <1>15, <1>16
      DEF Rules, Throughout, Fresh

\* The render host refuses layers from here on.
LEMMA SweepFlagKept ==
  ASSUME Inv, NEW t \in Threads, SweepFlag(t), UNCHANGED <<handles, viewBook, surfaceBook, notices>>
  PROVE  Rules'
  <1>1. frame[t].at = "sweepFlag" /\ Turns(t, "sweep")
    BY SweepFlagIs DEF Inv
  <1>2. UNCHANGED <<layers, running, made, publicClosing, admission, mapLock, refs, browser,
    closing, viewClosing, viewLock, viewNames, views, tasks, surfClosing, surfNames, surfaces,
    registered, pending, asked, told>>
    BY DEF SweepFlag, handles, viewBook, surfaceBook, notices
  <1>3. /\ Main \in Threads /\ None \notin Calls /\ None \notin Names /\ None \notin Threads /\ made \in Nat
        /\ \A s \in surfaces : s.surface \in Calls /\ s.name \in SurfaceNames
        /\ \A x \in SurfaceNames : x \in Names /\ x \notin BrowserNames
        /\ \A x \in BrowserNames : x \in Names
        /\ \A u \in Threads : frame[u].at = "publishSurface" => frame[u].name \in SurfaceNames
    BY Nobody, FramesAre, BooksAre, NamesAssumption DEF Inv, Names
  <1>4. Locks'
    BY <1>1, <1>2, <1>3 DEF Locks, Inv, Rules, Throughout, Turns, Becomes
  <1>5. MainIs'
    BY <1>1, <1>2, <1>3 DEF MainIs, Stage, Sweeping, Inv, Rules, Throughout, Turns, Becomes
  <1>6. Hands'
    BY <1>1, <1>2, <1>3 DEF Hands, Inv, Rules, Throughout, Turns, Becomes
  <1>7. Reserved'
    BY <1>1, <1>2, <1>3 DEF Reserved, Reserving, Inv, Rules, Throughout, Turns, Becomes
  <1>8. Notified'
    BY <1>1, <1>2, <1>3 DEF Notified, Waits, Inv, Rules, Throughout, Turns, Becomes
  <1>9. Known'
    BY <1>1, <1>2, <1>3 DEF Known, Inv, Rules, Throughout, Turns, Becomes
  <1>10. Ended'
    BY <1>1, <1>2, <1>3 DEF Ended, Held, Stage, Sweeping, AfterViews, AfterSurfaces, AfterBook,
      MainIs, Inv, Rules, Throughout, Turns, Becomes
  <1>11. Ahead'
    BY <1>1, <1>2, <1>3 DEF Ahead, Unused, Fresh, Calls, Inv, Rules, Throughout, Turns, Becomes
  <1>12. Counted'
    BY <1>1, <1>2, <1>3 DEF Counted, Numbered, Beginning, Fresh, Calls, Inv, Rules, Throughout,
      Turns, Becomes
  <1>13. Waiting'
    BY <1>1, <1>2, <1>3 DEF Ahead, Counted, Distinct, Waiting, Beginning, Numbered, Unused, Fresh,
      Calls, Inv, Rules, Throughout, Turns, Becomes
  <1>14. Distinct'
    BY <1>1, <1>2, <1>3 DEF Distinct, Counted, Numbered, Beginning, Fresh, Calls, Inv, Rules,
      Throughout, Turns, Becomes
  <1>15. ASSUME ~viewClosing' PROVE ViewBook'
    <2>0. ViewBook
      BY <1>1, <1>2, <1>15 DEF Inv, Rules
    <2>1. ViewsOwn'
      <3>1. ASSUME NEW h, NEW x, Owns(h, x) PROVE Owns(h, x)'
        BY <1>1, <1>2, <3>1 DEF Owns, Turns, Becomes
      <3> QED BY <1>2, <2>0, <3>1 DEF ViewBook, ViewsOwn
    <2>2. ViewsDiffer'
      BY <1>1, <1>2, <1>3, <2>0 DEF ViewsDiffer, OneReserves, Reserving, ViewBook, Turns, Becomes
    <2>3. MakersOwn'
      BY <1>1, <1>2, <1>3, <2>0 DEF MakersOwn, Owns, ViewBook, Turns, Becomes
    <2>4. OneReserves'
      BY <1>1, <1>2, <1>3, <2>0 DEF OneReserves, Reserving, ViewBook, Turns, Becomes
    <2> QED BY <2>1, <2>2, <2>3, <2>4 DEF ViewBook
  <1>16. ASSUME ~publicClosing' PROVE Book'
    <2>0. Book
      BY <1>1, <1>2, <1>16 DEF Inv, Rules
    <2>1. Named'
      BY <1>1, <1>2, <1>3, <2>0 DEF Named, Book, Browsers, SurfaceBook, Turns, Becomes
    <2>2. OneEach'
      BY <1>1, <1>2, <1>3, <2>0 DEF OneEach, Book, Browsers, SurfaceBook, Turns, Becomes
    <2>3. MenusOwn'
      BY <1>1, <1>2, <1>3, <2>0 DEF MenusOwn, Book, Browsers, SurfaceBook, Turns, Becomes
    <2>4. ClosingEnds'
      BY <1>1, <1>2, <1>3, <2>0 DEF ClosingEnds, Ending, Book, Browsers, SurfaceBook, Turns, Becomes
    <2>5. EndingCloses'
      BY <1>1, <1>2, <1>3, <2>0 DEF EndingCloses, Ending, Book, Browsers, SurfaceBook, Turns,
        Becomes
    <2>6. UsedIsListed'
      BY <1>1, <1>2, <1>3, <2>0 DEF UsedIsListed, Book, Browsers, SurfaceBook, Turns, Becomes
    <2>7. UnusedIsGone'
      BY <1>1, <1>2, <1>3, <2>0 DEF UnusedIsGone, Gone, Book, Browsers, SurfaceBook, Turns, Becomes
    <2>8. EndingGoesOn'
      BY <1>1, <1>2, <1>3, <2>0 DEF EndingGoesOn, Ending, Gone, EndingCloses, Book, Browsers,
        SurfaceBook, Turns, Becomes
    <2>9. SurfacesListed'
      BY <1>1, <1>2, <1>3, <2>0 DEF SurfacesListed, Removing, Book, Browsers, SurfaceBook, Turns,
        Becomes
    <2>10. TakenAreUsed'
      BY <1>1, <1>2, <1>3, <2>0 DEF TakenAreUsed, Making, Book, Browsers, SurfaceBook, Turns,
        Becomes
    <2>11. OneMakes'
      BY <1>1, <1>2, <1>3, <2>0 DEF OneMakes, Making, Book, Browsers, SurfaceBook, Turns, Becomes
    <2>12. MadeAreListed'
      BY <1>1, <1>2, <1>3, <2>0 DEF MadeAreListed, Removing, Book, Browsers, SurfaceBook, Turns,
        Becomes
    <2>13. OneRemoves'
      BY <1>1, <1>2, <1>3, <2>0 DEF OneRemoves, Removing, Book, Browsers, SurfaceBook, Turns,
        Becomes
    <2>14. ListedAreHeld'
      BY <1>1, <1>2, <1>3, <2>0 DEF ListedAreHeld, Held, Book, Browsers, SurfaceBook, Turns, Becomes
    <2> QED BY <2>1, <2>2, <2>3, <2>4, <2>5, <2>6, <2>7, <2>8, <2>9, <2>10, <2>11, <2>12, <2>13,
          <2>14 DEF Book, Browsers, SurfaceBook
  <1> QED BY <1>4, <1>5, <1>6, <1>7, <1>8, <1>9, <1>10, <1>11, <1>12, <1>13, <1>14, <1>15, <1>16
      DEF Rules, Throughout, Fresh

\* All that is listed is taken off the list.
LEMMA SweepKept ==
  ASSUME Inv, NEW t \in Threads, Sweep(t), UNCHANGED <<handles, viewBook, surfaceBook, notices>>
  PROVE  Rules'
  <1>1. /\ t = Main /\ publicClosing
        /\ \E next \in {"closeViews", "sweepLast", "done"} :
             /\ \/ frame[t].at = "sweep" /\ next = "closeViews"
                \/ frame[t].at = "sweepAgain" /\ next = "sweepLast"
                \/ frame[t].at = "sweepLast" /\ next = "done"
             /\ Becomes(t, "shut", frame[t].call, frame[t].name, frame[t].handle, Listed(Names), next)
        /\ \A n \in Names : layers'[n] = None
        /\ \A m : m \in Listed(Names) <=> m # None /\ \E n \in Names : layers[n] = m
    <2>1. t = Main /\ publicClosing
      BY SweepIs DEF Inv, Rules, Throughout, MainIs, Stage, Sweeping
    <2>2. \A m : m \in Listed(Names) <=> m # None /\ \E n \in Names : layers[n] = m
      BY DEF Listed
    <2> QED BY <2>1, <2>2, SweepIs DEF Inv
  <1>2. UNCHANGED <<running, renderClosing, made, publicClosing, admission, mapLock, refs, browser,
    closing, viewClosing, viewLock, viewNames, views, tasks, surfClosing, surfNames, surfaces,
    registered, pending, asked, told>>
    BY DEF Sweep, handles, viewBook, surfaceBook, notices
  <1>3. /\ Main \in Threads /\ None \notin Calls /\ None \notin Names /\ None \notin Threads /\ made \in Nat
        /\ \A s \in surfaces : s.surface \in Calls /\ s.name \in SurfaceNames
        /\ \A x \in SurfaceNames : x \in Names /\ x \notin BrowserNames
        /\ \A x \in BrowserNames : x \in Names
        /\ \A u \in Threads : frame[u].at = "publishSurface" => frame[u].name \in SurfaceNames
    BY Nobody, FramesAre, BooksAre, NamesAssumption DEF Inv, Names
  <1>4. Locks'
    BY <1>1, <1>2, <1>3 DEF Locks, Inv, Rules, Throughout, Becomes
  <1>5. MainIs'
    BY <1>1, <1>2, <1>3 DEF MainIs, Stage, Sweeping, Inv, Rules, Throughout, Becomes
  <1>6. Hands'
    BY <1>1, <1>2, <1>3 DEF Hands, Inv, Rules, Throughout, Becomes
  <1>7. Reserved'
    BY <1>1, <1>2, <1>3 DEF Reserved, Reserving, Inv, Rules, Throughout, Becomes
  <1>8. Notified'
    BY <1>1, <1>2, <1>3 DEF Notified, Waits, Inv, Rules, Throughout, Becomes
  <1>9. Known'
    BY <1>1, <1>2, <1>3 DEF Known, Inv, Rules, Throughout, Becomes
  <1>10. Ended'
    BY <1>1, <1>2, <1>3 DEF Ended, Held, Stage, Sweeping, AfterViews, AfterSurfaces, AfterBook,
      MainIs, Inv, Rules, Throughout, Becomes
  <1>11. Ahead'
    <2>1. ASSUME NEW d \in Calls, Unused(d) PROVE Unused(d)'
      <3>1. \A x \in Names : layers'[x] # d /\ <<d, x>> \notin running'
        BY <1>1, <1>2, <1>3, <2>1 DEF Unused
      <3>2. frame'[t].at \in {"remove", "shut"} => d \notin frame'[t].menus
        BY <1>1, <1>2, <1>3, <2>1 DEF Unused, Becomes
      <3>3. \A s \in surfaces' : s.surface # d
        BY <1>1, <1>2, <2>1 DEF Unused
      <3> QED BY <1>1, <1>2, <2>1, <3>1, <3>2, <3>3, UnusedStays DEF Unused, Becomes
    <2> QED BY <1>2, <2>1 DEF Ahead, Inv, Rules, Throughout, Fresh
  <1>12. Counted'
    BY <1>1, <1>2, <1>3 DEF Counted, Numbered, Beginning, Fresh, Calls, Inv, Rules, Throughout,
      Becomes
  <1>13. Waiting'
    <2>1. ASSUME NEW d \in Calls, Unused(d) PROVE Unused(d)'
      <3>1. \A x \in Names : layers'[x] # d /\ <<d, x>> \notin running'
        BY <1>1, <1>2, <1>3, <2>1 DEF Unused
      <3>2. frame'[t].at \in {"remove", "shut"} => d \notin frame'[t].menus
        BY <1>1, <1>2, <1>3, <2>1 DEF Unused, Becomes
      <3>3. \A s \in surfaces' : s.surface # d
        BY <1>1, <1>2, <2>1 DEF Unused
      <3> QED BY <1>1, <1>2, <2>1, <3>1, <3>2, <3>3, UnusedStays DEF Unused, Becomes
    <2>2. \A u \in Threads : frame'[u].at \in Beginning => frame'[u].call \in Calls /\ Unused(frame'[u].call)
      BY <1>1 DEF Inv, Rules, Throughout, Fresh, Waiting, Beginning, Kinds, Shape, Becomes
    <2> QED BY <2>1, <2>2 DEF Waiting
  <1>14. Distinct'
    BY <1>1, <1>2, <1>3 DEF Distinct, Counted, Numbered, Beginning, Fresh, Calls, Inv, Rules,
      Throughout, Becomes
  <1>15. ASSUME ~viewClosing' PROVE ViewBook'
    <2>0. ViewBook
      BY <1>1, <1>2, <1>15 DEF Inv, Rules
    <2>1. ViewsOwn'
      <3>1. ASSUME NEW h, NEW x, Owns(h, x) PROVE Owns(h, x)'
        BY <1>1, <1>2, <3>1 DEF Owns, Becomes
      <3> QED BY <1>2, <2>0, <3>1 DEF ViewBook, ViewsOwn
    <2>2. ViewsDiffer'
      BY <1>1, <1>2, <1>3, <2>0 DEF ViewsDiffer, OneReserves, Reserving, ViewBook, Becomes
    <2>3. MakersOwn'
      BY <1>1, <1>2, <1>3, <2>0 DEF MakersOwn, Owns, ViewBook, Becomes
    <2>4. OneReserves'
      BY <1>1, <1>2, <1>3, <2>0 DEF OneReserves, Reserving, ViewBook, Becomes
    <2> QED BY <2>1, <2>2, <2>3, <2>4 DEF ViewBook
  <1>16. ASSUME ~publicClosing' PROVE Book'
    BY <1>1, <1>2, <1>16
  <1> QED BY <1>4, <1>5, <1>6, <1>7, <1>8, <1>9, <1>10, <1>11, <1>12, <1>13, <1>14, <1>15, <1>16
      DEF Rules, Throughout, Fresh

\* A call for a surface begins: it takes its name, or ends.
LEMMA AskSurfaceKept ==
  ASSUME Inv, NEW t \in Threads, NEW n \in SurfaceNames, CreateSurface(t, n),
         UNCHANGED <<handles, viewBook, notices>>
  PROVE  Rules'
  <1>1. /\ frame[t].at = "idle" /\ Becomes(t, "check", made + 1, n, None, {}, "idle") /\ ~surfClosing
        /\ made' = made + 1 /\ made + 1 \in Calls
        /\ n \notin surfNames /\ surfNames' = surfNames \cup {n}
    BY AskSurfaceIs DEF Inv, CreateSurface
  <1>2. UNCHANGED <<layers, running, renderClosing, publicClosing, admission, mapLock, refs,
    browser, closing, viewClosing, viewLock, viewNames, views, tasks, surfClosing, surfaces,
    registered, pending, asked, told>>
    BY DEF CreateSurface, list, handles, viewBook, notices
  <1>3. /\ Main \in Threads /\ None \notin Calls /\ None \notin Names /\ None \notin Threads /\ made \in Nat
        /\ \A s \in surfaces : s.surface \in Calls /\ s.name \in SurfaceNames
        /\ \A x \in SurfaceNames : x \in Names /\ x \notin BrowserNames
        /\ \A x \in BrowserNames : x \in Names
        /\ \A u \in Threads : frame[u].at = "publishSurface" => frame[u].name \in SurfaceNames
    BY Nobody, FramesAre, BooksAre, NamesAssumption DEF Inv, Names
  <1>4. Locks'
    BY <1>1, <1>2, <1>3 DEF Locks, Inv, Rules, Throughout, Becomes
  <1>5. MainIs'
    BY <1>1, <1>2, <1>3 DEF MainIs, Stage, Sweeping, Inv, Rules, Throughout, Becomes
  <1>6. Hands'
    BY <1>1, <1>2, <1>3 DEF Hands, Inv, Rules, Throughout, Becomes
  <1>7. Reserved'
    BY <1>1, <1>2, <1>3 DEF Reserved, Reserving, Inv, Rules, Throughout, Becomes
  <1>8. Notified'
    BY <1>1, <1>2, <1>3 DEF Notified, Waits, Inv, Rules, Throughout, Becomes
  <1>9. Known'
    BY <1>1, <1>2, <1>3 DEF Known, Inv, Rules, Throughout, Becomes
  <1>10. Ended'
    BY <1>1, <1>2, <1>3 DEF Ended, Held, Stage, Sweeping, AfterViews, AfterSurfaces, AfterBook,
      MainIs, Inv, Rules, Throughout, Becomes
  <1>11. Ahead'
    BY <1>1, <1>2, <1>3 DEF Ahead, Unused, Fresh, Calls, Inv, Rules, Throughout, Becomes
  <1>12. Counted'
    BY <1>1, <1>2, <1>3 DEF Counted, Numbered, Beginning, Fresh, Calls, Inv, Rules, Throughout,
      Becomes
  <1>13. Waiting'
    BY <1>1, <1>2, <1>3 DEF Ahead, Counted, Distinct, Waiting, Beginning, Numbered, Unused, Fresh,
      Calls, Inv, Rules, Throughout, Becomes
  <1>14. Distinct'
    BY <1>1, <1>2, <1>3 DEF Distinct, Counted, Numbered, Beginning, Fresh, Calls, Inv, Rules,
      Throughout, Becomes
  <1>15. ASSUME ~viewClosing' PROVE ViewBook'
    <2>0. ViewBook
      BY <1>1, <1>2, <1>15 DEF Inv, Rules
    <2>1. ViewsOwn'
      <3>1. ASSUME NEW h, NEW x, Owns(h, x) PROVE Owns(h, x)'
        BY <1>1, <1>2, <3>1 DEF Owns, Becomes
      <3> QED BY <1>2, <2>0, <3>1 DEF ViewBook, ViewsOwn
    <2>2. ViewsDiffer'
      BY <1>1, <1>2, <1>3, <2>0 DEF ViewsDiffer, OneReserves, Reserving, ViewBook, Becomes
    <2>3. MakersOwn'
      BY <1>1, <1>2, <1>3, <2>0 DEF MakersOwn, Owns, ViewBook, Becomes
    <2>4. OneReserves'
      BY <1>1, <1>2, <1>3, <2>0 DEF OneReserves, Reserving, ViewBook, Becomes
    <2> QED BY <2>1, <2>2, <2>3, <2>4 DEF ViewBook
  <1>16. ASSUME ~publicClosing' PROVE Book'
    <2>0. Book
      BY <1>1, <1>2, <1>16 DEF Inv, Rules
    <2>1. Named'
      BY <1>1, <1>2, <1>3, <2>0 DEF Named, Book, Browsers, SurfaceBook, Becomes
    <2>2. OneEach'
      BY <1>1, <1>2, <1>3, <2>0 DEF OneEach, Book, Browsers, SurfaceBook, Becomes
    <2>3. MenusOwn'
      BY <1>1, <1>2, <1>3, <2>0 DEF MenusOwn, Book, Browsers, SurfaceBook, Becomes
    <2>4. ClosingEnds'
      BY <1>1, <1>2, <1>3, <2>0 DEF ClosingEnds, Ending, Book, Browsers, SurfaceBook, Becomes
    <2>5. EndingCloses'
      BY <1>1, <1>2, <1>3, <2>0 DEF EndingCloses, Ending, Book, Browsers, SurfaceBook, Becomes
    <2>6. UsedIsListed'
      BY <1>1, <1>2, <1>3, <2>0 DEF UsedIsListed, Book, Browsers, SurfaceBook, Becomes
    <2>7. UnusedIsGone'
      BY <1>1, <1>2, <1>3, <2>0 DEF UnusedIsGone, Gone, Book, Browsers, SurfaceBook, Becomes
    <2>8. EndingGoesOn'
      BY <1>1, <1>2, <1>3, <2>0 DEF EndingGoesOn, Ending, Gone, EndingCloses, Book, Browsers,
        SurfaceBook, Becomes
    <2>9. SurfacesListed'
      BY <1>1, <1>2, <1>3, <2>0 DEF SurfacesListed, Removing, Book, Browsers, SurfaceBook, Becomes
    <2>10. TakenAreUsed'
      BY <1>1, <1>2, <1>3, <2>0 DEF TakenAreUsed, Making, Book, Browsers, SurfaceBook, Becomes
    <2>11. OneMakes'
      <3>1. \A u \in Threads, x \in SurfaceNames : Making(u, x)' => (u # t /\ Making(u, x)) \/ (u = t /\ x = n)
        BY <1>1 DEF Making, Becomes
      <3>2. \A s \in surfaces : s.name # n
        BY <1>1, <2>0 DEF Book, SurfaceBook, SurfacesListed
      <3>3. \A u \in Threads : ~Making(u, n)
        BY <1>1, <2>0 DEF Book, SurfaceBook, OneMakes
      <3> QED BY <1>1, <1>2, <2>0, <3>1, <3>2, <3>3 DEF Book, SurfaceBook, OneMakes
    <2>12. MadeAreListed'
      BY <1>1, <1>2, <1>3, <2>0 DEF MadeAreListed, Removing, Book, Browsers, SurfaceBook, Becomes
    <2>13. OneRemoves'
      BY <1>1, <1>2, <1>3, <2>0 DEF OneRemoves, Removing, Book, Browsers, SurfaceBook, Becomes
    <2>14. ListedAreHeld'
      BY <1>1, <1>2, <1>3, <2>0 DEF ListedAreHeld, Held, Book, Browsers, SurfaceBook, Becomes
    <2> QED BY <2>1, <2>2, <2>3, <2>4, <2>5, <2>6, <2>7, <2>8, <2>9, <2>10, <2>11, <2>12, <2>13,
          <2>14 DEF Book, Browsers, SurfaceBook
  <1> QED BY <1>4, <1>5, <1>6, <1>7, <1>8, <1>9, <1>10, <1>11, <1>12, <1>13, <1>14, <1>15, <1>16
      DEF Rules, Throughout, Fresh

\* CreateSurface looks whether surfaces are closing.
LEMMA CheckKept ==
  ASSUME Inv, NEW t \in Threads, NEW n, n = frame[t].name, CheckOpen(t),
         UNCHANGED <<handles, viewBook, notices>>
  PROVE  Rules'
  <1>1. /\ frame[t].at = "check" /\ n = frame[t].name /\ n \in SurfaceNames
        /\ \/ Rests(t) /\ surfNames' = surfNames \ {n}
           \/ Turns(t, "add") /\ UNCHANGED surfNames
    BY CheckIs DEF Inv
  <1>2. UNCHANGED <<layers, running, renderClosing, made, publicClosing, admission, mapLock, refs,
    browser, closing, viewClosing, viewLock, viewNames, views, tasks, surfClosing, surfaces,
    registered, pending, asked, told>>
    BY DEF CheckOpen, list, handles, viewBook, notices
  <1>3. /\ Main \in Threads /\ None \notin Calls /\ None \notin Names /\ None \notin Threads /\ made \in Nat
        /\ \A s \in surfaces : s.surface \in Calls /\ s.name \in SurfaceNames
        /\ \A x \in SurfaceNames : x \in Names /\ x \notin BrowserNames
        /\ \A x \in BrowserNames : x \in Names
        /\ \A u \in Threads : frame[u].at = "publishSurface" => frame[u].name \in SurfaceNames
    BY Nobody, FramesAre, BooksAre, NamesAssumption DEF Inv, Names
  <1>4. Locks'
    BY <1>1, <1>2, <1>3 DEF Locks, Inv, Rules, Throughout, Rests, Turns, Becomes
  <1>5. MainIs'
    BY <1>1, <1>2, <1>3 DEF MainIs, Stage, Sweeping, Inv, Rules, Throughout, Rests, Turns, Becomes
  <1>6. Hands'
    BY <1>1, <1>2, <1>3 DEF Hands, Inv, Rules, Throughout, Rests, Turns, Becomes
  <1>7. Reserved'
    BY <1>1, <1>2, <1>3 DEF Reserved, Reserving, Inv, Rules, Throughout, Rests, Turns, Becomes
  <1>8. Notified'
    BY <1>1, <1>2, <1>3 DEF Notified, Waits, Inv, Rules, Throughout, Rests, Turns, Becomes
  <1>9. Known'
    BY <1>1, <1>2, <1>3 DEF Known, Inv, Rules, Throughout, Rests, Turns, Becomes
  <1>10. Ended'
    BY <1>1, <1>2, <1>3 DEF Ended, Held, Stage, Sweeping, AfterViews, AfterSurfaces, AfterBook,
      MainIs, Inv, Rules, Throughout, Rests, Turns, Becomes
  <1>11. Ahead'
    BY <1>1, <1>2, <1>3 DEF Ahead, Unused, Fresh, Calls, Inv, Rules, Throughout, Rests, Turns,
      Becomes
  <1>12. Counted'
    BY <1>1, <1>2, <1>3 DEF Counted, Numbered, Beginning, Fresh, Calls, Inv, Rules, Throughout,
      Rests, Turns, Becomes
  <1>13. Waiting'
    BY <1>1, <1>2, <1>3 DEF Ahead, Counted, Distinct, Waiting, Beginning, Numbered, Unused, Fresh,
      Calls, Inv, Rules, Throughout, Rests, Turns, Becomes
  <1>14. Distinct'
    BY <1>1, <1>2, <1>3 DEF Distinct, Counted, Numbered, Beginning, Fresh, Calls, Inv, Rules,
      Throughout, Rests, Turns, Becomes
  <1>15. ASSUME ~viewClosing' PROVE ViewBook'
    <2>0. ViewBook
      BY <1>1, <1>2, <1>15 DEF Inv, Rules
    <2>1. ViewsOwn'
      <3>1. ASSUME NEW h, NEW x, Owns(h, x) PROVE Owns(h, x)'
        BY <1>1, <1>2, <3>1 DEF Owns, Rests, Turns, Becomes
      <3> QED BY <1>2, <2>0, <3>1 DEF ViewBook, ViewsOwn
    <2>2. ViewsDiffer'
      BY <1>1, <1>2, <1>3, <2>0 DEF ViewsDiffer, OneReserves, Reserving, ViewBook, Rests, Turns,
        Becomes
    <2>3. MakersOwn'
      BY <1>1, <1>2, <1>3, <2>0 DEF MakersOwn, Owns, ViewBook, Rests, Turns, Becomes
    <2>4. OneReserves'
      BY <1>1, <1>2, <1>3, <2>0 DEF OneReserves, Reserving, ViewBook, Rests, Turns, Becomes
    <2> QED BY <2>1, <2>2, <2>3, <2>4 DEF ViewBook
  <1>16. ASSUME ~publicClosing' PROVE Book'
    <2>0. Book
      BY <1>1, <1>2, <1>16 DEF Inv, Rules
    <2>1. Named'
      BY <1>1, <1>2, <1>3, <2>0 DEF Named, Book, Browsers, SurfaceBook, Rests, Turns, Becomes
    <2>2. OneEach'
      BY <1>1, <1>2, <1>3, <2>0 DEF OneEach, Book, Browsers, SurfaceBook, Rests, Turns, Becomes
    <2>3. MenusOwn'
      BY <1>1, <1>2, <1>3, <2>0 DEF MenusOwn, Book, Browsers, SurfaceBook, Rests, Turns, Becomes
    <2>4. ClosingEnds'
      BY <1>1, <1>2, <1>3, <2>0 DEF ClosingEnds, Ending, Book, Browsers, SurfaceBook, Rests, Turns,
        Becomes
    <2>5. EndingCloses'
      BY <1>1, <1>2, <1>3, <2>0 DEF EndingCloses, Ending, Book, Browsers, SurfaceBook, Rests, Turns,
        Becomes
    <2>6. UsedIsListed'
      BY <1>1, <1>2, <1>3, <2>0 DEF UsedIsListed, Book, Browsers, SurfaceBook, Rests, Turns, Becomes
    <2>7. UnusedIsGone'
      BY <1>1, <1>2, <1>3, <2>0 DEF UnusedIsGone, Gone, Book, Browsers, SurfaceBook, Rests, Turns,
        Becomes
    <2>8. EndingGoesOn'
      BY <1>1, <1>2, <1>3, <2>0 DEF EndingGoesOn, Ending, Gone, EndingCloses, Book, Browsers,
        SurfaceBook, Rests, Turns, Becomes
    <2>9. SurfacesListed'
      BY <1>1, <1>2, <1>3, <2>0 DEF SurfacesListed, Removing, Book, Browsers, SurfaceBook, Rests,
        Turns, Becomes, OneMakes, Making
    <2>10. TakenAreUsed'
      BY <1>1, <1>2, <1>3, <2>0 DEF TakenAreUsed, Making, Book, Browsers, SurfaceBook, Rests, Turns,
        Becomes
    <2>11. OneMakes'
      BY <1>1, <1>2, <1>3, <2>0 DEF OneMakes, Making, Book, Browsers, SurfaceBook, Rests, Turns,
        Becomes
    <2>12. MadeAreListed'
      BY <1>1, <1>2, <1>3, <2>0 DEF MadeAreListed, Removing, Book, Browsers, SurfaceBook, Rests,
        Turns, Becomes
    <2>13. OneRemoves'
      BY <1>1, <1>2, <1>3, <2>0 DEF OneRemoves, Removing, Book, Browsers, SurfaceBook, Rests, Turns,
        Becomes
    <2>14. ListedAreHeld'
      BY <1>1, <1>2, <1>3, <2>0 DEF ListedAreHeld, Held, Book, Browsers, SurfaceBook, Rests, Turns,
        Becomes
    <2> QED BY <2>1, <2>2, <2>3, <2>4, <2>5, <2>6, <2>7, <2>8, <2>9, <2>10, <2>11, <2>12, <2>13,
          <2>14 DEF Book, Browsers, SurfaceBook
  <1> QED BY <1>4, <1>5, <1>6, <1>7, <1>8, <1>9, <1>10, <1>11, <1>12, <1>13, <1>14, <1>15, <1>16
      DEF Rules, Throughout, Fresh

\* A name whose surface came to nothing is free.
LEMMA FreeNameKept ==
  ASSUME Inv, NEW t \in Threads, NEW n, n = frame[t].name, FreeName(t),
         UNCHANGED <<handles, viewBook, notices>>
  PROVE  Rules'
  <1>1. /\ frame[t].at = "freeName" /\ n = frame[t].name /\ n \in SurfaceNames /\ Rests(t)
        /\ surfNames' = surfNames \ {n}
    BY FreeNameIs DEF Inv
  <1>2. UNCHANGED <<layers, running, renderClosing, made, publicClosing, admission, mapLock, refs,
    browser, closing, viewClosing, viewLock, viewNames, views, tasks, surfClosing, surfaces,
    registered, pending, asked, told>>
    BY DEF FreeName, list, handles, viewBook, notices
  <1>3. /\ Main \in Threads /\ None \notin Calls /\ None \notin Names /\ None \notin Threads /\ made \in Nat
        /\ \A s \in surfaces : s.surface \in Calls /\ s.name \in SurfaceNames
        /\ \A x \in SurfaceNames : x \in Names /\ x \notin BrowserNames
        /\ \A x \in BrowserNames : x \in Names
        /\ \A u \in Threads : frame[u].at = "publishSurface" => frame[u].name \in SurfaceNames
    BY Nobody, FramesAre, BooksAre, NamesAssumption DEF Inv, Names
  <1>4. Locks'
    BY <1>1, <1>2, <1>3 DEF Locks, Inv, Rules, Throughout, Rests, Becomes
  <1>5. MainIs'
    BY <1>1, <1>2, <1>3 DEF MainIs, Stage, Sweeping, Inv, Rules, Throughout, Rests, Becomes
  <1>6. Hands'
    BY <1>1, <1>2, <1>3 DEF Hands, Inv, Rules, Throughout, Rests, Becomes
  <1>7. Reserved'
    BY <1>1, <1>2, <1>3 DEF Reserved, Reserving, Inv, Rules, Throughout, Rests, Becomes
  <1>8. Notified'
    BY <1>1, <1>2, <1>3 DEF Notified, Waits, Inv, Rules, Throughout, Rests, Becomes
  <1>9. Known'
    BY <1>1, <1>2, <1>3 DEF Known, Inv, Rules, Throughout, Rests, Becomes
  <1>10. Ended'
    BY <1>1, <1>2, <1>3 DEF Ended, Held, Stage, Sweeping, AfterViews, AfterSurfaces, AfterBook,
      MainIs, Inv, Rules, Throughout, Rests, Becomes
  <1>11. Ahead'
    BY <1>1, <1>2, <1>3 DEF Ahead, Unused, Fresh, Calls, Inv, Rules, Throughout, Rests, Becomes
  <1>12. Counted'
    BY <1>1, <1>2, <1>3 DEF Counted, Numbered, Beginning, Fresh, Calls, Inv, Rules, Throughout,
      Rests, Becomes
  <1>13. Waiting'
    BY <1>1, <1>2, <1>3 DEF Ahead, Counted, Distinct, Waiting, Beginning, Numbered, Unused, Fresh,
      Calls, Inv, Rules, Throughout, Rests, Becomes
  <1>14. Distinct'
    BY <1>1, <1>2, <1>3 DEF Distinct, Counted, Numbered, Beginning, Fresh, Calls, Inv, Rules,
      Throughout, Rests, Becomes
  <1>15. ASSUME ~viewClosing' PROVE ViewBook'
    <2>0. ViewBook
      BY <1>1, <1>2, <1>15 DEF Inv, Rules
    <2>1. ViewsOwn'
      <3>1. ASSUME NEW h, NEW x, Owns(h, x) PROVE Owns(h, x)'
        BY <1>1, <1>2, <3>1 DEF Owns, Rests, Becomes
      <3> QED BY <1>2, <2>0, <3>1 DEF ViewBook, ViewsOwn
    <2>2. ViewsDiffer'
      BY <1>1, <1>2, <1>3, <2>0 DEF ViewsDiffer, OneReserves, Reserving, ViewBook, Rests, Becomes
    <2>3. MakersOwn'
      BY <1>1, <1>2, <1>3, <2>0 DEF MakersOwn, Owns, ViewBook, Rests, Becomes
    <2>4. OneReserves'
      BY <1>1, <1>2, <1>3, <2>0 DEF OneReserves, Reserving, ViewBook, Rests, Becomes
    <2> QED BY <2>1, <2>2, <2>3, <2>4 DEF ViewBook
  <1>16. ASSUME ~publicClosing' PROVE Book'
    <2>0. Book
      BY <1>1, <1>2, <1>16 DEF Inv, Rules
    <2>1. Named'
      BY <1>1, <1>2, <1>3, <2>0 DEF Named, Book, Browsers, SurfaceBook, Rests, Becomes
    <2>2. OneEach'
      BY <1>1, <1>2, <1>3, <2>0 DEF OneEach, Book, Browsers, SurfaceBook, Rests, Becomes
    <2>3. MenusOwn'
      BY <1>1, <1>2, <1>3, <2>0 DEF MenusOwn, Book, Browsers, SurfaceBook, Rests, Becomes
    <2>4. ClosingEnds'
      BY <1>1, <1>2, <1>3, <2>0 DEF ClosingEnds, Ending, Book, Browsers, SurfaceBook, Rests, Becomes
    <2>5. EndingCloses'
      BY <1>1, <1>2, <1>3, <2>0 DEF EndingCloses, Ending, Book, Browsers, SurfaceBook, Rests,
        Becomes
    <2>6. UsedIsListed'
      BY <1>1, <1>2, <1>3, <2>0 DEF UsedIsListed, Book, Browsers, SurfaceBook, Rests, Becomes
    <2>7. UnusedIsGone'
      BY <1>1, <1>2, <1>3, <2>0 DEF UnusedIsGone, Gone, Book, Browsers, SurfaceBook, Rests, Becomes
    <2>8. EndingGoesOn'
      BY <1>1, <1>2, <1>3, <2>0 DEF EndingGoesOn, Ending, Gone, EndingCloses, Book, Browsers,
        SurfaceBook, Rests, Becomes
    <2>9. SurfacesListed'
      BY <1>1, <1>2, <1>3, <2>0 DEF SurfacesListed, Removing, Book, Browsers, SurfaceBook, Rests,
        Becomes, OneMakes, Making
    <2>10. TakenAreUsed'
      BY <1>1, <1>2, <1>3, <2>0 DEF TakenAreUsed, Making, Book, Browsers, SurfaceBook, Rests,
        Becomes
    <2>11. OneMakes'
      BY <1>1, <1>2, <1>3, <2>0 DEF OneMakes, Making, Book, Browsers, SurfaceBook, Rests, Becomes
    <2>12. MadeAreListed'
      BY <1>1, <1>2, <1>3, <2>0 DEF MadeAreListed, Removing, Book, Browsers, SurfaceBook, Rests,
        Becomes
    <2>13. OneRemoves'
      BY <1>1, <1>2, <1>3, <2>0 DEF OneRemoves, Removing, Book, Browsers, SurfaceBook, Rests,
        Becomes
    <2>14. ListedAreHeld'
      BY <1>1, <1>2, <1>3, <2>0 DEF ListedAreHeld, Held, Book, Browsers, SurfaceBook, Rests, Becomes
    <2> QED BY <2>1, <2>2, <2>3, <2>4, <2>5, <2>6, <2>7, <2>8, <2>9, <2>10, <2>11, <2>12, <2>13,
          <2>14 DEF Book, Browsers, SurfaceBook
  <1> QED BY <1>4, <1>5, <1>6, <1>7, <1>8, <1>9, <1>10, <1>11, <1>12, <1>13, <1>14, <1>15, <1>16
      DEF Rules, Throughout, Fresh

\* The list does not take the surface's layer.
LEMMA NotAddedKept ==
  ASSUME Inv, NEW t \in Threads, NEW n, n = frame[t].name, NEW c, c = frame[t].call, Add(t),
         Rests(t), surfNames' = surfNames \ {n}, UNCHANGED <<layers, running>>,
         UNCHANGED <<handles, viewBook, notices>>
  PROVE  Rules'
  <1>1. /\ frame[t].at = "add" /\ n = frame[t].name /\ c = frame[t].call /\ n \in SurfaceNames
        /\ c \in Calls
        /\ Rests(t) /\ surfNames' = surfNames \ {n}
    BY AddIs DEF Inv
  <1>2. UNCHANGED <<renderClosing, made, publicClosing, admission, mapLock, refs, browser, closing,
    viewClosing, viewLock, viewNames, views, tasks, surfClosing, surfaces, registered, pending,
    asked, told>>
    BY DEF Add, list, handles, viewBook, notices
  <1>3. /\ Main \in Threads /\ None \notin Calls /\ None \notin Names /\ None \notin Threads /\ made \in Nat
        /\ \A s \in surfaces : s.surface \in Calls /\ s.name \in SurfaceNames
        /\ \A x \in SurfaceNames : x \in Names /\ x \notin BrowserNames
        /\ \A x \in BrowserNames : x \in Names
        /\ \A u \in Threads : frame[u].at = "publishSurface" => frame[u].name \in SurfaceNames
    BY Nobody, FramesAre, BooksAre, NamesAssumption DEF Inv, Names
  <1>4. Locks'
    BY <1>1, <1>2, <1>3 DEF Locks, Inv, Rules, Throughout, Rests, Becomes
  <1>5. MainIs'
    BY <1>1, <1>2, <1>3 DEF MainIs, Stage, Sweeping, Inv, Rules, Throughout, Rests, Becomes
  <1>6. Hands'
    BY <1>1, <1>2, <1>3 DEF Hands, Inv, Rules, Throughout, Rests, Becomes
  <1>7. Reserved'
    BY <1>1, <1>2, <1>3 DEF Reserved, Reserving, Inv, Rules, Throughout, Rests, Becomes
  <1>8. Notified'
    BY <1>1, <1>2, <1>3 DEF Notified, Waits, Inv, Rules, Throughout, Rests, Becomes
  <1>9. Known'
    BY <1>1, <1>2, <1>3 DEF Known, Inv, Rules, Throughout, Rests, Becomes
  <1>10. Ended'
    BY <1>1, <1>2, <1>3 DEF Ended, Held, Stage, Sweeping, AfterViews, AfterSurfaces, AfterBook,
      MainIs, Inv, Rules, Throughout, Rests, Becomes
  <1>11. Ahead'
    BY <1>1, <1>2, <1>3 DEF Ahead, Unused, Fresh, Calls, Inv, Rules, Throughout, Rests, Becomes
  <1>12. Counted'
    BY <1>1, <1>2, <1>3 DEF Counted, Numbered, Beginning, Fresh, Calls, Inv, Rules, Throughout,
      Rests, Becomes
  <1>13. Waiting'
    BY <1>1, <1>2, <1>3 DEF Ahead, Counted, Distinct, Waiting, Beginning, Numbered, Unused, Fresh,
      Calls, Inv, Rules, Throughout, Rests, Becomes
  <1>14. Distinct'
    BY <1>1, <1>2, <1>3 DEF Distinct, Counted, Numbered, Beginning, Fresh, Calls, Inv, Rules,
      Throughout, Rests, Becomes
  <1>15. ASSUME ~viewClosing' PROVE ViewBook'
    <2>0. ViewBook
      BY <1>1, <1>2, <1>15 DEF Inv, Rules
    <2>1. ViewsOwn'
      <3>1. ASSUME NEW h, NEW x, Owns(h, x) PROVE Owns(h, x)'
        BY <1>1, <1>2, <3>1 DEF Owns, Rests, Becomes
      <3> QED BY <1>2, <2>0, <3>1 DEF ViewBook, ViewsOwn
    <2>2. ViewsDiffer'
      BY <1>1, <1>2, <1>3, <2>0 DEF ViewsDiffer, OneReserves, Reserving, ViewBook, Rests, Becomes
    <2>3. MakersOwn'
      BY <1>1, <1>2, <1>3, <2>0 DEF MakersOwn, Owns, ViewBook, Rests, Becomes
    <2>4. OneReserves'
      BY <1>1, <1>2, <1>3, <2>0 DEF OneReserves, Reserving, ViewBook, Rests, Becomes
    <2> QED BY <2>1, <2>2, <2>3, <2>4 DEF ViewBook
  <1>16. ASSUME ~publicClosing' PROVE Book'
    <2>0. Book
      BY <1>1, <1>2, <1>16 DEF Inv, Rules
    <2>1. Named'
      BY <1>1, <1>2, <1>3, <2>0 DEF Named, Book, Browsers, SurfaceBook, Rests, Becomes
    <2>2. OneEach'
      BY <1>1, <1>2, <1>3, <2>0 DEF OneEach, Book, Browsers, SurfaceBook, Rests, Becomes
    <2>3. MenusOwn'
      BY <1>1, <1>2, <1>3, <2>0 DEF MenusOwn, Book, Browsers, SurfaceBook, Rests, Becomes
    <2>4. ClosingEnds'
      BY <1>1, <1>2, <1>3, <2>0 DEF ClosingEnds, Ending, Book, Browsers, SurfaceBook, Rests, Becomes
    <2>5. EndingCloses'
      BY <1>1, <1>2, <1>3, <2>0 DEF EndingCloses, Ending, Book, Browsers, SurfaceBook, Rests,
        Becomes
    <2>6. UsedIsListed'
      BY <1>1, <1>2, <1>3, <2>0 DEF UsedIsListed, Book, Browsers, SurfaceBook, Rests, Becomes
    <2>7. UnusedIsGone'
      BY <1>1, <1>2, <1>3, <2>0 DEF UnusedIsGone, Gone, Book, Browsers, SurfaceBook, Rests, Becomes
    <2>8. EndingGoesOn'
      BY <1>1, <1>2, <1>3, <2>0 DEF EndingGoesOn, Ending, Gone, EndingCloses, Book, Browsers,
        SurfaceBook, Rests, Becomes
    <2>9. SurfacesListed'
      BY <1>1, <1>2, <1>3, <2>0 DEF SurfacesListed, Removing, Book, Browsers, SurfaceBook, Rests,
        Becomes, OneMakes, Making
    <2>10. TakenAreUsed'
      BY <1>1, <1>2, <1>3, <2>0 DEF TakenAreUsed, Making, Book, Browsers, SurfaceBook, Rests,
        Becomes
    <2>11. OneMakes'
      BY <1>1, <1>2, <1>3, <2>0 DEF OneMakes, Making, Book, Browsers, SurfaceBook, Rests, Becomes
    <2>12. MadeAreListed'
      BY <1>1, <1>2, <1>3, <2>0 DEF MadeAreListed, Removing, Book, Browsers, SurfaceBook, Rests,
        Becomes
    <2>13. OneRemoves'
      BY <1>1, <1>2, <1>3, <2>0 DEF OneRemoves, Removing, Book, Browsers, SurfaceBook, Rests,
        Becomes
    <2>14. ListedAreHeld'
      BY <1>1, <1>2, <1>3, <2>0 DEF ListedAreHeld, Held, Book, Browsers, SurfaceBook, Rests, Becomes
    <2> QED BY <2>1, <2>2, <2>3, <2>4, <2>5, <2>6, <2>7, <2>8, <2>9, <2>10, <2>11, <2>12, <2>13,
          <2>14 DEF Book, Browsers, SurfaceBook
  <1> QED BY <1>4, <1>5, <1>6, <1>7, <1>8, <1>9, <1>10, <1>11, <1>12, <1>13, <1>14, <1>15, <1>16
      DEF Rules, Throughout, Fresh

\* The surface's layer is listed.
LEMMA AddedKept ==
  ASSUME Inv, NEW t \in Threads, NEW n, n = frame[t].name, NEW c, c = frame[t].call, Add(t),
         layers[n] = None, List(n, c), Turns(t, "publishSurface"), UNCHANGED surfNames,
         UNCHANGED <<handles, viewBook, notices>>
  PROVE  Rules'
  <1>1. /\ frame[t].at = "add" /\ n = frame[t].name /\ c = frame[t].call /\ n \in SurfaceNames
        /\ c \in Calls
        /\ n \in Names /\ n \notin BrowserNames /\ layers[n] = None /\ Unused(c)
        /\ running' = running \cup {<<c, n>>}
        /\ layers'[n] = c /\ \A x \in Names : x # n => layers'[x] = layers[x]
        /\ Turns(t, "publishSurface")
    <2>1. frame[t].at = "add" /\ n \in SurfaceNames /\ c \in Calls
      BY AddIs DEF Inv
    <2>2. n \in Names /\ n \notin BrowserNames
      BY <2>1, NamesAssumption DEF Names
    <2>3. Unused(c)
      BY <2>1 DEF Inv, Rules, Throughout, Fresh, Waiting, Beginning
    <2>4. running' = running \cup {<<c, n>>} /\ layers'[n] = c /\ \A x \in Names : x # n => layers'[x] = layers[x]
      BY <2>2 DEF List, Inv, Kinds, TypeOK, ListTypeOK
    <2> QED BY <2>1, <2>2, <2>3, <2>4
  <1>2. UNCHANGED <<renderClosing, made, publicClosing, admission, mapLock, refs, browser, closing,
    viewClosing, viewLock, viewNames, views, tasks, surfClosing, surfaces, registered, pending,
    asked, told>>
    BY DEF Add, list, handles, viewBook, notices
  <1>3. /\ Main \in Threads /\ None \notin Calls /\ None \notin Names /\ None \notin Threads /\ made \in Nat
        /\ \A s \in surfaces : s.surface \in Calls /\ s.name \in SurfaceNames
        /\ \A x \in SurfaceNames : x \in Names /\ x \notin BrowserNames
        /\ \A x \in BrowserNames : x \in Names
        /\ \A u \in Threads : frame[u].at = "publishSurface" => frame[u].name \in SurfaceNames
    BY Nobody, FramesAre, BooksAre, NamesAssumption DEF Inv, Names
  <1>4. Locks'
    BY <1>1, <1>2, <1>3 DEF Locks, Inv, Rules, Throughout, Turns, Becomes
  <1>5. MainIs'
    BY <1>1, <1>2, <1>3 DEF MainIs, Stage, Sweeping, Inv, Rules, Throughout, Turns, Becomes
  <1>6. Hands'
    BY <1>1, <1>2, <1>3 DEF Hands, Inv, Rules, Throughout, Turns, Becomes
  <1>7. Reserved'
    BY <1>1, <1>2, <1>3 DEF Reserved, Reserving, Inv, Rules, Throughout, Turns, Becomes
  <1>8. Notified'
    BY <1>1, <1>2, <1>3 DEF Notified, Waits, Inv, Rules, Throughout, Turns, Becomes
  <1>9. Known'
    BY <1>1, <1>2, <1>3 DEF Known, Inv, Rules, Throughout, Turns, Becomes
  <1>10. Ended'
    BY <1>1, <1>2, <1>3 DEF Ended, Held, Stage, Sweeping, AfterViews, AfterSurfaces, AfterBook,
      MainIs, Inv, Rules, Throughout, Turns, Becomes
  <1>11. Ahead'
    <2>1. ASSUME NEW d \in Calls, d # c, Unused(d) PROVE Unused(d)'
      <3>1. \A x \in Names : layers'[x] # d /\ <<d, x>> \notin running'
        BY <1>1, <1>2, <1>3, <2>1 DEF Unused
      <3>2. frame'[t].at \in {"remove", "shut"} => d \notin frame'[t].menus
        BY <1>1, <1>2, <1>3, <2>1 DEF Unused, Turns, Becomes
      <3>3. \A s \in surfaces' : s.surface # d
        BY <1>1, <1>2, <2>1 DEF Unused
      <3> QED BY <1>1, <1>2, <2>1, <3>1, <3>2, <3>3, UnusedStays DEF Unused, Turns, Becomes
    <2>2. c \in 1..made
      BY <1>1 DEF Inv, Rules, Throughout, Fresh, Counted, Numbered, Beginning
    <2> QED BY <1>2, <1>3, <2>1, <2>2 DEF Ahead, Inv, Rules, Throughout, Fresh, Calls
  <1>12. Counted'
    BY <1>1, <1>2, <1>3 DEF Counted, Numbered, Beginning, Fresh, Calls, Inv, Rules, Throughout,
      Turns, Becomes
  <1>13. Waiting'
    <2>1. ASSUME NEW d \in Calls, d # c, Unused(d) PROVE Unused(d)'
      <3>1. \A x \in Names : layers'[x] # d /\ <<d, x>> \notin running'
        BY <1>1, <1>2, <1>3, <2>1 DEF Unused
      <3>2. frame'[t].at \in {"remove", "shut"} => d \notin frame'[t].menus
        BY <1>1, <1>2, <1>3, <2>1 DEF Unused, Turns, Becomes
      <3>3. \A s \in surfaces' : s.surface # d
        BY <1>1, <1>2, <2>1 DEF Unused
      <3> QED BY <1>1, <1>2, <2>1, <3>1, <3>2, <3>3, UnusedStays DEF Unused, Turns, Becomes
    <2>2. \A u \in Threads : frame'[u].at \in Beginning =>
             u # t /\ frame'[u].call \in Calls /\ frame'[u].call # c /\ Unused(frame'[u].call)
      BY <1>1, <1>3 DEF Inv, Rules, Throughout, Fresh, Waiting, Counted, Distinct, Numbered, Beginning,
         Kinds, Shape, Turns, Becomes
    <2> QED BY <2>1, <2>2 DEF Waiting
  <1>14. Distinct'
    BY <1>1, <1>2, <1>3 DEF Distinct, Counted, Numbered, Beginning, Fresh, Calls, Inv, Rules,
      Throughout, Turns, Becomes
  <1>15. ASSUME ~viewClosing' PROVE ViewBook'
    <2>0. ViewBook
      BY <1>1, <1>2, <1>15 DEF Inv, Rules
    <2>1. ViewsOwn'
      <3>1. ASSUME NEW h, NEW x, Owns(h, x) PROVE Owns(h, x)'
        BY <1>1, <1>2, <3>1 DEF Owns, Turns, Becomes
      <3> QED BY <1>2, <2>0, <3>1 DEF ViewBook, ViewsOwn
    <2>2. ViewsDiffer'
      BY <1>1, <1>2, <1>3, <2>0 DEF ViewsDiffer, OneReserves, Reserving, ViewBook, Turns, Becomes
    <2>3. MakersOwn'
      BY <1>1, <1>2, <1>3, <2>0 DEF MakersOwn, Owns, ViewBook, Turns, Becomes
    <2>4. OneReserves'
      BY <1>1, <1>2, <1>3, <2>0 DEF OneReserves, Reserving, ViewBook, Turns, Becomes
    <2> QED BY <2>1, <2>2, <2>3, <2>4 DEF ViewBook
  <1>16. ASSUME ~publicClosing' PROVE Book'
    <2>0. Book
      BY <1>1, <1>2, <1>16 DEF Inv, Rules
    <2>1. Named'
      BY <1>1, <1>2, <1>3, <2>0 DEF Named, Book, Browsers, SurfaceBook, Turns, Becomes, Unused
    <2>2. OneEach'
      BY <1>1, <1>2, <1>3, <2>0 DEF OneEach, Book, Browsers, SurfaceBook, Turns, Becomes
    <2>3. MenusOwn'
      BY <1>1, <1>2, <1>3, <2>0 DEF MenusOwn, Book, Browsers, SurfaceBook, Turns, Becomes, Unused
    <2>4. ClosingEnds'
      BY <1>1, <1>2, <1>3, <2>0 DEF ClosingEnds, Ending, Book, Browsers, SurfaceBook, Turns, Becomes
    <2>5. EndingCloses'
      BY <1>1, <1>2, <1>3, <2>0 DEF EndingCloses, Ending, Book, Browsers, SurfaceBook, Turns,
        Becomes
    <2>6. UsedIsListed'
      BY <1>1, <1>2, <1>3, <2>0 DEF UsedIsListed, Book, Browsers, SurfaceBook, Turns, Becomes
    <2>7. UnusedIsGone'
      BY <1>1, <1>2, <1>3, <2>0 DEF UnusedIsGone, Gone, Book, Browsers, SurfaceBook, Turns, Becomes
    <2>8. EndingGoesOn'
      BY <1>1, <1>2, <1>3, <2>0 DEF EndingGoesOn, Ending, Gone, EndingCloses, Book, Browsers,
        SurfaceBook, Turns, Becomes
    <2>9. SurfacesListed'
      BY <1>1, <1>2, <1>3, <2>0 DEF SurfacesListed, Removing, Book, Browsers, SurfaceBook, Turns,
        Becomes
    <2>10. TakenAreUsed'
      BY <1>1, <1>2, <1>3, <2>0 DEF TakenAreUsed, Making, Book, Browsers, SurfaceBook, Turns,
        Becomes
    <2>11. OneMakes'
      BY <1>1, <1>2, <1>3, <2>0 DEF OneMakes, Making, Book, Browsers, SurfaceBook, Turns, Becomes
    <2>12. MadeAreListed'
      BY <1>1, <1>2, <1>3, <2>0 DEF MadeAreListed, Removing, Book, Browsers, SurfaceBook, Turns,
        Becomes, OneRemoves, OneMakes, Making
    <2>13. OneRemoves'
      BY <1>1, <1>2, <1>3, <2>0 DEF OneRemoves, Removing, Book, Browsers, SurfaceBook, Turns,
        Becomes
    <2>14. ListedAreHeld'
      BY <1>1, <1>2, <1>3, <2>0 DEF ListedAreHeld, Held, Book, Browsers, SurfaceBook, Turns, Becomes
    <2> QED BY <2>1, <2>2, <2>3, <2>4, <2>5, <2>6, <2>7, <2>8, <2>9, <2>10, <2>11, <2>12, <2>13,
          <2>14 DEF Book, Browsers, SurfaceBook
  <1> QED BY <1>4, <1>5, <1>6, <1>7, <1>8, <1>9, <1>10, <1>11, <1>12, <1>13, <1>14, <1>15, <1>16
      DEF Rules, Throughout, Fresh

\* The surface's layer is listed, and the call fails after that.
LEMMA TornKept ==
  ASSUME Inv, NEW t \in Threads, NEW n, n = frame[t].name, NEW c, c = frame[t].call, Add(t),
         layers[n] = None, List(n, c), Becomes(t, "remove", c, n, frame[t].handle, {c}, "freeName"),
         UNCHANGED surfNames, UNCHANGED <<handles, viewBook, notices>>
  PROVE  Rules'
  <1>1. /\ frame[t].at = "add" /\ n = frame[t].name /\ c = frame[t].call /\ n \in SurfaceNames
        /\ c \in Calls
        /\ n \in Names /\ n \notin BrowserNames /\ layers[n] = None /\ Unused(c)
        /\ running' = running \cup {<<c, n>>}
        /\ layers'[n] = c /\ \A x \in Names : x # n => layers'[x] = layers[x]
        /\ Becomes(t, "remove", c, n, frame[t].handle, {c}, "freeName")
    <2>1. frame[t].at = "add" /\ n \in SurfaceNames /\ c \in Calls
      BY AddIs DEF Inv
    <2>2. n \in Names /\ n \notin BrowserNames
      BY <2>1, NamesAssumption DEF Names
    <2>3. Unused(c)
      BY <2>1 DEF Inv, Rules, Throughout, Fresh, Waiting, Beginning
    <2>4. running' = running \cup {<<c, n>>} /\ layers'[n] = c /\ \A x \in Names : x # n => layers'[x] = layers[x]
      BY <2>2 DEF List, Inv, Kinds, TypeOK, ListTypeOK
    <2> QED BY <2>1, <2>2, <2>3, <2>4
  <1>2. UNCHANGED <<renderClosing, made, publicClosing, admission, mapLock, refs, browser, closing,
    viewClosing, viewLock, viewNames, views, tasks, surfClosing, surfaces, registered, pending,
    asked, told>>
    BY DEF Add, list, handles, viewBook, notices
  <1>3. /\ Main \in Threads /\ None \notin Calls /\ None \notin Names /\ None \notin Threads /\ made \in Nat
        /\ \A s \in surfaces : s.surface \in Calls /\ s.name \in SurfaceNames
        /\ \A x \in SurfaceNames : x \in Names /\ x \notin BrowserNames
        /\ \A x \in BrowserNames : x \in Names
        /\ \A u \in Threads : frame[u].at = "publishSurface" => frame[u].name \in SurfaceNames
    BY Nobody, FramesAre, BooksAre, NamesAssumption DEF Inv, Names
  <1>4. Locks'
    BY <1>1, <1>2, <1>3 DEF Locks, Inv, Rules, Throughout, Becomes
  <1>5. MainIs'
    BY <1>1, <1>2, <1>3 DEF MainIs, Stage, Sweeping, Inv, Rules, Throughout, Becomes
  <1>6. Hands'
    BY <1>1, <1>2, <1>3 DEF Hands, Inv, Rules, Throughout, Becomes
  <1>7. Reserved'
    BY <1>1, <1>2, <1>3 DEF Reserved, Reserving, Inv, Rules, Throughout, Becomes
  <1>8. Notified'
    BY <1>1, <1>2, <1>3 DEF Notified, Waits, Inv, Rules, Throughout, Becomes
  <1>9. Known'
    BY <1>1, <1>2, <1>3 DEF Known, Inv, Rules, Throughout, Becomes
  <1>10. Ended'
    BY <1>1, <1>2, <1>3 DEF Ended, Held, Stage, Sweeping, AfterViews, AfterSurfaces, AfterBook,
      MainIs, Inv, Rules, Throughout, Becomes
  <1>11. Ahead'
    <2>1. ASSUME NEW d \in Calls, d # c, Unused(d) PROVE Unused(d)'
      <3>1. \A x \in Names : layers'[x] # d /\ <<d, x>> \notin running'
        BY <1>1, <1>2, <1>3, <2>1 DEF Unused
      <3>2. frame'[t].at \in {"remove", "shut"} => d \notin frame'[t].menus
        BY <1>1, <1>2, <1>3, <2>1 DEF Unused, Becomes
      <3>3. \A s \in surfaces' : s.surface # d
        BY <1>1, <1>2, <2>1 DEF Unused
      <3> QED BY <1>1, <1>2, <2>1, <3>1, <3>2, <3>3, UnusedStays DEF Unused, Becomes
    <2>2. c \in 1..made
      BY <1>1 DEF Inv, Rules, Throughout, Fresh, Counted, Numbered, Beginning
    <2> QED BY <1>2, <1>3, <2>1, <2>2 DEF Ahead, Inv, Rules, Throughout, Fresh, Calls
  <1>12. Counted'
    BY <1>1, <1>2, <1>3 DEF Counted, Numbered, Beginning, Fresh, Calls, Inv, Rules, Throughout,
      Becomes
  <1>13. Waiting'
    <2>1. ASSUME NEW d \in Calls, d # c, Unused(d) PROVE Unused(d)'
      <3>1. \A x \in Names : layers'[x] # d /\ <<d, x>> \notin running'
        BY <1>1, <1>2, <1>3, <2>1 DEF Unused
      <3>2. frame'[t].at \in {"remove", "shut"} => d \notin frame'[t].menus
        BY <1>1, <1>2, <1>3, <2>1 DEF Unused, Becomes
      <3>3. \A s \in surfaces' : s.surface # d
        BY <1>1, <1>2, <2>1 DEF Unused
      <3> QED BY <1>1, <1>2, <2>1, <3>1, <3>2, <3>3, UnusedStays DEF Unused, Becomes
    <2>2. \A u \in Threads : frame'[u].at \in Beginning =>
             u # t /\ frame'[u].call \in Calls /\ frame'[u].call # c /\ Unused(frame'[u].call)
      BY <1>1, <1>3 DEF Inv, Rules, Throughout, Fresh, Waiting, Counted, Distinct, Numbered, Beginning,
         Kinds, Shape, Becomes
    <2> QED BY <2>1, <2>2 DEF Waiting
  <1>14. Distinct'
    BY <1>1, <1>2, <1>3 DEF Distinct, Counted, Numbered, Beginning, Fresh, Calls, Inv, Rules,
      Throughout, Becomes
  <1>15. ASSUME ~viewClosing' PROVE ViewBook'
    <2>0. ViewBook
      BY <1>1, <1>2, <1>15 DEF Inv, Rules
    <2>1. ViewsOwn'
      <3>1. ASSUME NEW h, NEW x, Owns(h, x) PROVE Owns(h, x)'
        BY <1>1, <1>2, <3>1 DEF Owns, Becomes
      <3> QED BY <1>2, <2>0, <3>1 DEF ViewBook, ViewsOwn
    <2>2. ViewsDiffer'
      BY <1>1, <1>2, <1>3, <2>0 DEF ViewsDiffer, OneReserves, Reserving, ViewBook, Becomes
    <2>3. MakersOwn'
      BY <1>1, <1>2, <1>3, <2>0 DEF MakersOwn, Owns, ViewBook, Becomes
    <2>4. OneReserves'
      BY <1>1, <1>2, <1>3, <2>0 DEF OneReserves, Reserving, ViewBook, Becomes
    <2> QED BY <2>1, <2>2, <2>3, <2>4 DEF ViewBook
  <1>16. ASSUME ~publicClosing' PROVE Book'
    <2>0. Book
      BY <1>1, <1>2, <1>16 DEF Inv, Rules
    <2>1. Named'
      BY <1>1, <1>2, <1>3, <2>0 DEF Named, Book, Browsers, SurfaceBook, Becomes, Unused
    <2>2. OneEach'
      BY <1>1, <1>2, <1>3, <2>0 DEF OneEach, Book, Browsers, SurfaceBook, Becomes
    <2>3. MenusOwn'
      BY <1>1, <1>2, <1>3, <2>0 DEF MenusOwn, Book, Browsers, SurfaceBook, Becomes, Unused
    <2>4. ClosingEnds'
      BY <1>1, <1>2, <1>3, <2>0 DEF ClosingEnds, Ending, Book, Browsers, SurfaceBook, Becomes
    <2>5. EndingCloses'
      BY <1>1, <1>2, <1>3, <2>0 DEF EndingCloses, Ending, Book, Browsers, SurfaceBook, Becomes
    <2>6. UsedIsListed'
      BY <1>1, <1>2, <1>3, <2>0 DEF UsedIsListed, Book, Browsers, SurfaceBook, Becomes
    <2>7. UnusedIsGone'
      BY <1>1, <1>2, <1>3, <2>0 DEF UnusedIsGone, Gone, Book, Browsers, SurfaceBook, Becomes
    <2>8. EndingGoesOn'
      BY <1>1, <1>2, <1>3, <2>0 DEF EndingGoesOn, Ending, Gone, EndingCloses, Book, Browsers,
        SurfaceBook, Becomes
    <2>9. SurfacesListed'
      BY <1>1, <1>2, <1>3, <2>0 DEF SurfacesListed, Removing, Book, Browsers, SurfaceBook, Becomes
    <2>10. TakenAreUsed'
      BY <1>1, <1>2, <1>3, <2>0 DEF TakenAreUsed, Making, Book, Browsers, SurfaceBook, Becomes
    <2>11. OneMakes'
      BY <1>1, <1>2, <1>3, <2>0 DEF OneMakes, Making, Book, Browsers, SurfaceBook, Becomes
    <2>12. MadeAreListed'
      BY <1>1, <1>2, <1>3, <2>0 DEF MadeAreListed, Removing, Book, Browsers, SurfaceBook, Becomes,
        OneRemoves, OneMakes, Making
    <2>13. OneRemoves'
      BY <1>1, <1>2, <1>3, <2>0 DEF OneRemoves, Removing, Book, Browsers, SurfaceBook, Becomes
    <2>14. ListedAreHeld'
      BY <1>1, <1>2, <1>3, <2>0 DEF ListedAreHeld, Held, Book, Browsers, SurfaceBook, Becomes
    <2> QED BY <2>1, <2>2, <2>3, <2>4, <2>5, <2>6, <2>7, <2>8, <2>9, <2>10, <2>11, <2>12, <2>13,
          <2>14 DEF Book, Browsers, SurfaceBook
  <1> QED BY <1>4, <1>5, <1>6, <1>7, <1>8, <1>9, <1>10, <1>11, <1>12, <1>13, <1>14, <1>15, <1>16
      DEF Rules, Throughout, Fresh

\* The surface is entered in the book.
LEMMA ShownKept ==
  ASSUME Inv, NEW t \in Threads, NEW n, n = frame[t].name, NEW c, c = frame[t].call,
         PublishSurface(t), ~surfClosing, Rests(t),
         surfaces' = surfaces \cup {[surface |-> c, name |-> n]}, UNCHANGED surfNames,
         UNCHANGED <<handles, viewBook, notices>>
  PROVE  Rules'
  <1>1. /\ frame[t].at = "publishSurface" /\ n = frame[t].name /\ c = frame[t].call
        /\ n \in SurfaceNames /\ c \in Calls /\ n \in Names
        /\ ~surfClosing /\ Rests(t)
        /\ \A s \in surfaces : s \in surfaces'
        /\ \E s \in surfaces' : s.name = n
        /\ \A s \in surfaces' : s \in surfaces \/ (s.surface = c /\ s.name = n)
    <2>1. /\ frame[t].at = "publishSurface" /\ n \in SurfaceNames /\ c \in Calls /\ n \in Names
      BY PublishSurfaceIs DEF Inv, Names
    <2>2. \E s \in surfaces' : s.name = n
      <3>1. [surface |-> c, name |-> n] \in surfaces'
        OBVIOUS
      <3> QED BY <3>1
    <2> QED BY <2>1, <2>2
  <1>2. UNCHANGED <<layers, running, renderClosing, made, publicClosing, admission, mapLock, refs,
    browser, closing, viewClosing, viewLock, viewNames, views, tasks, surfClosing, registered,
    pending, asked, told>>
    BY DEF PublishSurface, list, handles, viewBook, notices
  <1>3. /\ Main \in Threads /\ None \notin Calls /\ None \notin Names /\ None \notin Threads /\ made \in Nat
        /\ \A s \in surfaces : s.surface \in Calls /\ s.name \in SurfaceNames
        /\ \A x \in SurfaceNames : x \in Names /\ x \notin BrowserNames
        /\ \A x \in BrowserNames : x \in Names
        /\ \A u \in Threads : frame[u].at = "publishSurface" => frame[u].name \in SurfaceNames
    BY Nobody, FramesAre, BooksAre, NamesAssumption DEF Inv, Names
  <1>4. Locks'
    BY <1>1, <1>2, <1>3 DEF Locks, Inv, Rules, Throughout, Rests, Becomes
  <1>5. MainIs'
    BY <1>1, <1>2, <1>3 DEF MainIs, Stage, Sweeping, Inv, Rules, Throughout, Rests, Becomes
  <1>6. Hands'
    BY <1>1, <1>2, <1>3 DEF Hands, Inv, Rules, Throughout, Rests, Becomes
  <1>7. Reserved'
    BY <1>1, <1>2, <1>3 DEF Reserved, Reserving, Inv, Rules, Throughout, Rests, Becomes
  <1>8. Notified'
    BY <1>1, <1>2, <1>3 DEF Notified, Waits, Inv, Rules, Throughout, Rests, Becomes
  <1>9. Known'
    BY <1>1, <1>2, <1>3 DEF Known, Inv, Rules, Throughout, Rests, Becomes
  <1>10. Ended'
    BY <1>1, <1>2, <1>3 DEF Ended, Held, Stage, Sweeping, AfterViews, AfterSurfaces, AfterBook,
      MainIs, Inv, Rules, Throughout, Rests, Becomes
  <1>11. Ahead'
    <2>1. ASSUME NEW d \in Calls, d # c, Unused(d) PROVE Unused(d)'
      <3>1. \A x \in Names : layers'[x] # d /\ <<d, x>> \notin running'
        BY <1>1, <1>2, <1>3, <2>1 DEF Unused
      <3>2. frame'[t].at \in {"remove", "shut"} => d \notin frame'[t].menus
        BY <1>1, <1>2, <1>3, <2>1 DEF Unused, Rests, Becomes
      <3>3. \A s \in surfaces' : s.surface # d
        BY <1>1, <1>2, <2>1 DEF Unused
      <3> QED BY <1>1, <1>2, <2>1, <3>1, <3>2, <3>3, UnusedStays DEF Unused, Rests, Becomes
    <2>2. c \in 1..made
      BY <1>1 DEF Inv, Rules, Throughout, Fresh, Counted, Numbered, Beginning
    <2> QED BY <1>2, <1>3, <2>1, <2>2 DEF Ahead, Inv, Rules, Throughout, Fresh, Calls
  <1>12. Counted'
    BY <1>1, <1>2, <1>3 DEF Counted, Numbered, Beginning, Fresh, Calls, Inv, Rules, Throughout,
      Rests, Becomes
  <1>13. Waiting'
    <2>1. ASSUME NEW d \in Calls, d # c, Unused(d) PROVE Unused(d)'
      <3>1. \A x \in Names : layers'[x] # d /\ <<d, x>> \notin running'
        BY <1>1, <1>2, <1>3, <2>1 DEF Unused
      <3>2. frame'[t].at \in {"remove", "shut"} => d \notin frame'[t].menus
        BY <1>1, <1>2, <1>3, <2>1 DEF Unused, Rests, Becomes
      <3>3. \A s \in surfaces' : s.surface # d
        BY <1>1, <1>2, <2>1 DEF Unused
      <3> QED BY <1>1, <1>2, <2>1, <3>1, <3>2, <3>3, UnusedStays DEF Unused, Rests, Becomes
    <2>2. \A u \in Threads : frame'[u].at \in Beginning =>
             u # t /\ frame'[u].call \in Calls /\ frame'[u].call # c /\ Unused(frame'[u].call)
      BY <1>1, <1>3 DEF Inv, Rules, Throughout, Fresh, Waiting, Counted, Distinct, Numbered, Beginning,
         Kinds, Shape, Rests, Becomes
    <2> QED BY <2>1, <2>2 DEF Waiting
  <1>14. Distinct'
    BY <1>1, <1>2, <1>3 DEF Distinct, Counted, Numbered, Beginning, Fresh, Calls, Inv, Rules,
      Throughout, Rests, Becomes
  <1>15. ASSUME ~viewClosing' PROVE ViewBook'
    <2>0. ViewBook
      BY <1>1, <1>2, <1>15 DEF Inv, Rules
    <2>1. ViewsOwn'
      <3>1. ASSUME NEW h, NEW x, Owns(h, x) PROVE Owns(h, x)'
        BY <1>1, <1>2, <3>1 DEF Owns, Rests, Becomes
      <3> QED BY <1>2, <2>0, <3>1 DEF ViewBook, ViewsOwn
    <2>2. ViewsDiffer'
      BY <1>1, <1>2, <1>3, <2>0 DEF ViewsDiffer, OneReserves, Reserving, ViewBook, Rests, Becomes
    <2>3. MakersOwn'
      BY <1>1, <1>2, <1>3, <2>0 DEF MakersOwn, Owns, ViewBook, Rests, Becomes
    <2>4. OneReserves'
      BY <1>1, <1>2, <1>3, <2>0 DEF OneReserves, Reserving, ViewBook, Rests, Becomes
    <2> QED BY <2>1, <2>2, <2>3, <2>4 DEF ViewBook
  <1>16. ASSUME ~publicClosing' PROVE Book'
    <2>0. Book
      BY <1>1, <1>2, <1>16 DEF Inv, Rules
    <2>1. Named'
      BY <1>1, <1>2, <1>3, <2>0 DEF Named, Book, Browsers, SurfaceBook, Rests, Becomes
    <2>2. OneEach'
      BY <1>1, <1>2, <1>3, <2>0 DEF OneEach, Book, Browsers, SurfaceBook, Rests, Becomes
    <2>3. MenusOwn'
      BY <1>1, <1>2, <1>3, <2>0 DEF MenusOwn, Book, Browsers, SurfaceBook, Rests, Becomes
    <2>4. ClosingEnds'
      BY <1>1, <1>2, <1>3, <2>0 DEF ClosingEnds, Ending, Book, Browsers, SurfaceBook, Rests, Becomes
    <2>5. EndingCloses'
      BY <1>1, <1>2, <1>3, <2>0 DEF EndingCloses, Ending, Book, Browsers, SurfaceBook, Rests,
        Becomes
    <2>6. UsedIsListed'
      BY <1>1, <1>2, <1>3, <2>0 DEF UsedIsListed, Book, Browsers, SurfaceBook, Rests, Becomes
    <2>7. UnusedIsGone'
      BY <1>1, <1>2, <1>3, <2>0 DEF UnusedIsGone, Gone, Book, Browsers, SurfaceBook, Rests, Becomes
    <2>8. EndingGoesOn'
      BY <1>1, <1>2, <1>3, <2>0 DEF EndingGoesOn, Ending, Gone, EndingCloses, Book, Browsers,
        SurfaceBook, Rests, Becomes
    <2>9. SurfacesListed'
      BY <1>1, <1>2, <1>3, <2>0 DEF SurfacesListed, Removing, Book, Browsers, SurfaceBook, Rests,
        Becomes, MadeAreListed, OneMakes, Making
    <2>10. TakenAreUsed'
      BY <1>1, <1>2, <1>3, <2>0 DEF TakenAreUsed, Making, Book, Browsers, SurfaceBook, Rests,
        Becomes
    <2>11. OneMakes'
      BY <1>1, <1>2, <1>3, <2>0 DEF OneMakes, Making, Book, Browsers, SurfaceBook, Rests, Becomes
    <2>12. MadeAreListed'
      BY <1>1, <1>2, <1>3, <2>0 DEF MadeAreListed, Removing, Book, Browsers, SurfaceBook, Rests,
        Becomes
    <2>13. OneRemoves'
      BY <1>1, <1>2, <1>3, <2>0 DEF OneRemoves, Removing, Book, Browsers, SurfaceBook, Rests,
        Becomes
    <2>14. ListedAreHeld'
      BY <1>1, <1>2, <1>3, <2>0 DEF ListedAreHeld, Held, Book, Browsers, SurfaceBook, Rests, Becomes
    <2> QED BY <2>1, <2>2, <2>3, <2>4, <2>5, <2>6, <2>7, <2>8, <2>9, <2>10, <2>11, <2>12, <2>13,
          <2>14 DEF Book, Browsers, SurfaceBook
  <1> QED BY <1>4, <1>5, <1>6, <1>7, <1>8, <1>9, <1>10, <1>11, <1>12, <1>13, <1>14, <1>15, <1>16
      DEF Rules, Throughout, Fresh

\* Surfaces are closing: the layer is to be taken off the list.
LEMMA WithdrawnKept ==
  ASSUME Inv, NEW t \in Threads, NEW n, n = frame[t].name, NEW c, c = frame[t].call,
         PublishSurface(t), surfClosing, Becomes(t, "remove", c, n, frame[t].handle, {c}, "idle"),
         surfNames' = surfNames \ {n}, UNCHANGED surfaces, UNCHANGED <<handles, viewBook, notices>>
  PROVE  Rules'
  <1>1. /\ frame[t].at = "publishSurface" /\ n = frame[t].name /\ c = frame[t].call
        /\ n \in SurfaceNames /\ c \in Calls /\ n \in Names
        /\ surfClosing /\ Becomes(t, "remove", c, n, frame[t].handle, {c}, "idle")
        /\ surfNames' = surfNames \ {n}
    BY PublishSurfaceIs DEF Inv, Names
  <1>2. UNCHANGED <<layers, running, renderClosing, made, publicClosing, admission, mapLock, refs,
    browser, closing, viewClosing, viewLock, viewNames, views, tasks, surfClosing, registered,
    pending, asked, told>>
    BY DEF PublishSurface, list, handles, viewBook, notices
  <1>3. /\ Main \in Threads /\ None \notin Calls /\ None \notin Names /\ None \notin Threads /\ made \in Nat
        /\ \A s \in surfaces : s.surface \in Calls /\ s.name \in SurfaceNames
        /\ \A x \in SurfaceNames : x \in Names /\ x \notin BrowserNames
        /\ \A x \in BrowserNames : x \in Names
        /\ \A u \in Threads : frame[u].at = "publishSurface" => frame[u].name \in SurfaceNames
    BY Nobody, FramesAre, BooksAre, NamesAssumption DEF Inv, Names
  <1>4. Locks'
    BY <1>1, <1>2, <1>3 DEF Locks, Inv, Rules, Throughout, Becomes
  <1>5. MainIs'
    BY <1>1, <1>2, <1>3 DEF MainIs, Stage, Sweeping, Inv, Rules, Throughout, Becomes
  <1>6. Hands'
    BY <1>1, <1>2, <1>3 DEF Hands, Inv, Rules, Throughout, Becomes
  <1>7. Reserved'
    BY <1>1, <1>2, <1>3 DEF Reserved, Reserving, Inv, Rules, Throughout, Becomes
  <1>8. Notified'
    BY <1>1, <1>2, <1>3 DEF Notified, Waits, Inv, Rules, Throughout, Becomes
  <1>9. Known'
    BY <1>1, <1>2, <1>3 DEF Known, Inv, Rules, Throughout, Becomes
  <1>10. Ended'
    BY <1>1, <1>2, <1>3 DEF Ended, Held, Stage, Sweeping, AfterViews, AfterSurfaces, AfterBook,
      MainIs, Inv, Rules, Throughout, Becomes
  <1>11. Ahead'
    <2>1. ASSUME NEW d \in Calls, d # c, Unused(d) PROVE Unused(d)'
      <3>1. \A x \in Names : layers'[x] # d /\ <<d, x>> \notin running'
        BY <1>1, <1>2, <1>3, <2>1 DEF Unused
      <3>2. frame'[t].at \in {"remove", "shut"} => d \notin frame'[t].menus
        BY <1>1, <1>2, <1>3, <2>1 DEF Unused, Becomes
      <3>3. \A s \in surfaces' : s.surface # d
        BY <1>1, <1>2, <2>1 DEF Unused
      <3> QED BY <1>1, <1>2, <2>1, <3>1, <3>2, <3>3, UnusedStays DEF Unused, Becomes
    <2>2. c \in 1..made
      BY <1>1 DEF Inv, Rules, Throughout, Fresh, Counted, Numbered, Beginning
    <2> QED BY <1>2, <1>3, <2>1, <2>2 DEF Ahead, Inv, Rules, Throughout, Fresh, Calls
  <1>12. Counted'
    BY <1>1, <1>2, <1>3 DEF Counted, Numbered, Beginning, Fresh, Calls, Inv, Rules, Throughout,
      Becomes
  <1>13. Waiting'
    <2>1. ASSUME NEW d \in Calls, d # c, Unused(d) PROVE Unused(d)'
      <3>1. \A x \in Names : layers'[x] # d /\ <<d, x>> \notin running'
        BY <1>1, <1>2, <1>3, <2>1 DEF Unused
      <3>2. frame'[t].at \in {"remove", "shut"} => d \notin frame'[t].menus
        BY <1>1, <1>2, <1>3, <2>1 DEF Unused, Becomes
      <3>3. \A s \in surfaces' : s.surface # d
        BY <1>1, <1>2, <2>1 DEF Unused
      <3> QED BY <1>1, <1>2, <2>1, <3>1, <3>2, <3>3, UnusedStays DEF Unused, Becomes
    <2>2. \A u \in Threads : frame'[u].at \in Beginning =>
             u # t /\ frame'[u].call \in Calls /\ frame'[u].call # c /\ Unused(frame'[u].call)
      BY <1>1, <1>3 DEF Inv, Rules, Throughout, Fresh, Waiting, Counted, Distinct, Numbered, Beginning,
         Kinds, Shape, Becomes
    <2> QED BY <2>1, <2>2 DEF Waiting
  <1>14. Distinct'
    BY <1>1, <1>2, <1>3 DEF Distinct, Counted, Numbered, Beginning, Fresh, Calls, Inv, Rules,
      Throughout, Becomes
  <1>15. ASSUME ~viewClosing' PROVE ViewBook'
    <2>0. ViewBook
      BY <1>1, <1>2, <1>15 DEF Inv, Rules
    <2>1. ViewsOwn'
      <3>1. ASSUME NEW h, NEW x, Owns(h, x) PROVE Owns(h, x)'
        BY <1>1, <1>2, <3>1 DEF Owns, Becomes
      <3> QED BY <1>2, <2>0, <3>1 DEF ViewBook, ViewsOwn
    <2>2. ViewsDiffer'
      BY <1>1, <1>2, <1>3, <2>0 DEF ViewsDiffer, OneReserves, Reserving, ViewBook, Becomes
    <2>3. MakersOwn'
      BY <1>1, <1>2, <1>3, <2>0 DEF MakersOwn, Owns, ViewBook, Becomes
    <2>4. OneReserves'
      BY <1>1, <1>2, <1>3, <2>0 DEF OneReserves, Reserving, ViewBook, Becomes
    <2> QED BY <2>1, <2>2, <2>3, <2>4 DEF ViewBook
  <1>16. ASSUME ~publicClosing' PROVE Book'
    <2>0. Book
      BY <1>1, <1>2, <1>16 DEF Inv, Rules
    <2>1. Named'
      <3>1. layers[n] = c /\ layers[n] # None /\ n \in Names
        BY <1>1, <1>3, <2>0 DEF Book, SurfaceBook, MadeAreListed
      <3>2. \A x \in Names : layers[x] = c => x = n
        BY <2>0, <3>1 DEF Book, Named
      <3> QED BY <1>1, <1>2, <2>0, <3>1, <3>2 DEF Book, Named, Becomes
    <2>2. OneEach'
      BY <1>1, <1>2, <1>3, <2>0 DEF OneEach, Book, Browsers, SurfaceBook, Becomes
    <2>3. MenusOwn'
      <3>1. layers[n] = c /\ layers[n] # None /\ n \in Names
        BY <1>1, <1>3, <2>0 DEF Book, SurfaceBook, MadeAreListed
      <3>2. \A x \in Names : <<c, x>> \in running => x = n
        BY <2>0, <3>1 DEF Book, Named
      <3> QED BY <1>1, <1>2, <2>0, <3>2 DEF Book, MenusOwn, Becomes
    <2>4. ClosingEnds'
      BY <1>1, <1>2, <1>3, <2>0 DEF ClosingEnds, Ending, Book, Browsers, SurfaceBook, Becomes
    <2>5. EndingCloses'
      BY <1>1, <1>2, <1>3, <2>0 DEF EndingCloses, Ending, Book, Browsers, SurfaceBook, Becomes
    <2>6. UsedIsListed'
      BY <1>1, <1>2, <1>3, <2>0 DEF UsedIsListed, Book, Browsers, SurfaceBook, Becomes
    <2>7. UnusedIsGone'
      BY <1>1, <1>2, <1>3, <2>0 DEF UnusedIsGone, Gone, Book, Browsers, SurfaceBook, Becomes
    <2>8. EndingGoesOn'
      BY <1>1, <1>2, <1>3, <2>0 DEF EndingGoesOn, Ending, Gone, EndingCloses, Book, Browsers,
        SurfaceBook, Becomes
    <2>9. SurfacesListed'
      BY <1>1, <1>2, <1>3, <2>0 DEF SurfacesListed, Removing, Book, Browsers, SurfaceBook, Becomes,
        OneMakes, Making
    <2>10. TakenAreUsed'
      BY <1>1, <1>2, <1>3, <2>0 DEF TakenAreUsed, Making, Book, Browsers, SurfaceBook, Becomes
    <2>11. OneMakes'
      BY <1>1, <1>2, <1>3, <2>0 DEF OneMakes, Making, Book, Browsers, SurfaceBook, Becomes
    <2>12. MadeAreListed'
      BY <1>1, <1>2, <1>3, <2>0 DEF MadeAreListed, Removing, Book, Browsers, SurfaceBook, Becomes,
        OneMakes, Making
    <2>13. OneRemoves'
      BY <1>1, <1>2, <1>3, <2>0 DEF OneRemoves, Removing, Book, Browsers, SurfaceBook, Becomes,
        MadeAreListed
    <2>14. ListedAreHeld'
      BY <1>1, <1>2, <1>3, <2>0 DEF ListedAreHeld, Held, Book, Browsers, SurfaceBook, Becomes
    <2> QED BY <2>1, <2>2, <2>3, <2>4, <2>5, <2>6, <2>7, <2>8, <2>9, <2>10, <2>11, <2>12, <2>13,
          <2>14 DEF Book, Browsers, SurfaceBook
  <1> QED BY <1>4, <1>5, <1>6, <1>7, <1>8, <1>9, <1>10, <1>11, <1>12, <1>13, <1>14, <1>15, <1>16
      DEF Rules, Throughout, Fresh

\* A surface leaves the book; its layer is still listed.
LEMMA DestroySurfaceKept ==
  ASSUME Inv, NEW t \in Threads, NEW s \in surfaces, NEW n, n = s.name, NEW c, c = s.surface,
         DestroySurface(t, s), UNCHANGED <<handles, viewBook, notices>>
  PROVE  Rules'
  <1>1. /\ frame[t].at = "idle" /\ n \in SurfaceNames /\ c \in Calls /\ n \in Names
        /\ s \in surfaces /\ s.name = n /\ s.surface = c
        /\ Becomes(t, "remove", frame[t].call, n, frame[t].handle, {c}, "idle")
        /\ \A x \in surfaces : (x.name = n /\ x.surface = c) => x = s
        /\ surfaces' = surfaces \ {s} /\ surfNames' = surfNames \ {n}
    BY DestroySurfaceIs DEF Inv, Names, Kinds, TypeOK, SurfacesTypeOK
  <1>2. UNCHANGED <<layers, running, renderClosing, made, publicClosing, admission, mapLock, refs,
    browser, closing, viewClosing, viewLock, viewNames, views, tasks, surfClosing, registered,
    pending, asked, told>>
    BY DEF DestroySurface, list, handles, viewBook, notices
  <1>3. /\ Main \in Threads /\ None \notin Calls /\ None \notin Names /\ None \notin Threads /\ made \in Nat
        /\ \A x \in surfaces : x.surface \in Calls /\ x.name \in SurfaceNames
        /\ \A x \in SurfaceNames : x \in Names /\ x \notin BrowserNames
        /\ \A x \in BrowserNames : x \in Names
        /\ \A u \in Threads : frame[u].at = "publishSurface" => frame[u].name \in SurfaceNames
    BY Nobody, FramesAre, BooksAre, NamesAssumption DEF Inv, Names
  <1>4. Locks'
    BY <1>1, <1>2, <1>3 DEF Locks, Inv, Rules, Throughout, Becomes
  <1>5. MainIs'
    BY <1>1, <1>2, <1>3 DEF MainIs, Stage, Sweeping, Inv, Rules, Throughout, Becomes
  <1>6. Hands'
    BY <1>1, <1>2, <1>3 DEF Hands, Inv, Rules, Throughout, Becomes
  <1>7. Reserved'
    BY <1>1, <1>2, <1>3 DEF Reserved, Reserving, Inv, Rules, Throughout, Becomes
  <1>8. Notified'
    BY <1>1, <1>2, <1>3 DEF Notified, Waits, Inv, Rules, Throughout, Becomes
  <1>9. Known'
    BY <1>1, <1>2, <1>3 DEF Known, Inv, Rules, Throughout, Becomes
  <1>10. Ended'
    BY <1>1, <1>2, <1>3 DEF Ended, Held, Stage, Sweeping, AfterViews, AfterSurfaces, AfterBook,
      MainIs, Inv, Rules, Throughout, Becomes
  <1>11. Ahead'
    BY <1>1, <1>2, <1>3 DEF Ahead, Unused, Fresh, Calls, Inv, Rules, Throughout, Becomes
  <1>12. Counted'
    BY <1>1, <1>2, <1>3 DEF Counted, Numbered, Beginning, Fresh, Calls, Inv, Rules, Throughout,
      Becomes
  <1>13. Waiting'
    BY <1>1, <1>2, <1>3 DEF Ahead, Counted, Distinct, Waiting, Beginning, Numbered, Unused, Fresh,
      Calls, Inv, Rules, Throughout, Becomes
  <1>14. Distinct'
    BY <1>1, <1>2, <1>3 DEF Distinct, Counted, Numbered, Beginning, Fresh, Calls, Inv, Rules,
      Throughout, Becomes
  <1>15. ASSUME ~viewClosing' PROVE ViewBook'
    <2>0. ViewBook
      BY <1>1, <1>2, <1>15 DEF Inv, Rules
    <2>1. ViewsOwn'
      <3>1. ASSUME NEW h, NEW x, Owns(h, x) PROVE Owns(h, x)'
        BY <1>1, <1>2, <3>1 DEF Owns, Becomes
      <3> QED BY <1>2, <2>0, <3>1 DEF ViewBook, ViewsOwn
    <2>2. ViewsDiffer'
      BY <1>1, <1>2, <1>3, <2>0 DEF ViewsDiffer, OneReserves, Reserving, ViewBook, Becomes
    <2>3. MakersOwn'
      BY <1>1, <1>2, <1>3, <2>0 DEF MakersOwn, Owns, ViewBook, Becomes
    <2>4. OneReserves'
      BY <1>1, <1>2, <1>3, <2>0 DEF OneReserves, Reserving, ViewBook, Becomes
    <2> QED BY <2>1, <2>2, <2>3, <2>4 DEF ViewBook
  <1>16. ASSUME ~publicClosing' PROVE Book'
    <2>0. Book
      BY <1>1, <1>2, <1>16 DEF Inv, Rules
    <2>1. Named'
      <3>1. layers[n] = c /\ layers[n] # None /\ n \in Names
        BY <1>1, <1>3, <2>0 DEF Book, SurfaceBook, SurfacesListed
      <3>2. \A x \in Names : layers[x] = c => x = n
        BY <2>0, <3>1 DEF Book, Named
      <3> QED BY <1>1, <1>2, <2>0, <3>1, <3>2 DEF Book, Named, Becomes
    <2>2. OneEach'
      BY <1>1, <1>2, <1>3, <2>0 DEF OneEach, Book, Browsers, SurfaceBook, Becomes
    <2>3. MenusOwn'
      <3>1. layers[n] = c /\ layers[n] # None /\ n \in Names
        BY <1>1, <1>3, <2>0 DEF Book, SurfaceBook, SurfacesListed
      <3>2. \A x \in Names : <<c, x>> \in running => x = n
        BY <2>0, <3>1 DEF Book, Named
      <3> QED BY <1>1, <1>2, <2>0, <3>2 DEF Book, MenusOwn, Becomes
    <2>4. ClosingEnds'
      BY <1>1, <1>2, <1>3, <2>0 DEF ClosingEnds, Ending, Book, Browsers, SurfaceBook, Becomes
    <2>5. EndingCloses'
      BY <1>1, <1>2, <1>3, <2>0 DEF EndingCloses, Ending, Book, Browsers, SurfaceBook, Becomes
    <2>6. UsedIsListed'
      BY <1>1, <1>2, <1>3, <2>0 DEF UsedIsListed, Book, Browsers, SurfaceBook, Becomes
    <2>7. UnusedIsGone'
      BY <1>1, <1>2, <1>3, <2>0 DEF UnusedIsGone, Gone, Book, Browsers, SurfaceBook, Becomes
    <2>8. EndingGoesOn'
      BY <1>1, <1>2, <1>3, <2>0 DEF EndingGoesOn, Ending, Gone, EndingCloses, Book, Browsers,
        SurfaceBook, Becomes
    <2>9. SurfacesListed'
      BY <1>1, <1>2, <1>3, <2>0 DEF SurfacesListed, Removing, Book, Browsers, SurfaceBook, Becomes
    <2>10. TakenAreUsed'
      BY <1>1, <1>2, <1>3, <2>0 DEF TakenAreUsed, Making, Book, Browsers, SurfaceBook, Becomes
    <2>11. OneMakes'
      BY <1>1, <1>2, <1>3, <2>0 DEF OneMakes, Making, Book, Browsers, SurfaceBook, Becomes
    <2>12. MadeAreListed'
      BY <1>1, <1>2, <1>3, <2>0 DEF MadeAreListed, Removing, Book, Browsers, SurfaceBook, Becomes,
        OneMakes, Making
    <2>13. OneRemoves'
      BY <1>1, <1>2, <1>3, <2>0 DEF OneRemoves, Removing, Book, Browsers, SurfaceBook, Becomes,
        SurfacesListed
    <2>14. ListedAreHeld'
      BY <1>1, <1>2, <1>3, <2>0 DEF ListedAreHeld, Held, Book, Browsers, SurfaceBook, Becomes
    <2> QED BY <2>1, <2>2, <2>3, <2>4, <2>5, <2>6, <2>7, <2>8, <2>9, <2>10, <2>11, <2>12, <2>13,
          <2>14 DEF Book, Browsers, SurfaceBook
  <1> QED BY <1>4, <1>5, <1>6, <1>7, <1>8, <1>9, <1>10, <1>11, <1>12, <1>13, <1>14, <1>15, <1>16
      DEF Rules, Throughout, Fresh

LEMMA AddKept ==
  ASSUME Inv, NEW t \in Threads, Add(t), UNCHANGED <<handles, viewBook, notices>>
  PROVE  Rules'
  <1> DEFINE n == frame[t].name
             c == frame[t].call
  <1>1. ASSUME Rests(t), surfNames' = surfNames \ {n}, UNCHANGED <<layers, running>> PROVE Rules'
    BY <1>1, NotAddedKept
  <1>2. ASSUME layers[n] = None, List(n, c), UNCHANGED surfNames, Turns(t, "publishSurface") PROVE Rules'
    BY <1>2, AddedKept
  <1>3. ASSUME layers[n] = None, List(n, c), UNCHANGED surfNames,
               Becomes(t, "remove", c, n, frame[t].handle, {c}, "freeName")
        PROVE  Rules'
    BY <1>3, TornKept
  <1> QED BY <1>1, <1>2, <1>3, AddIs DEF Inv

LEMMA PublishSurfaceKept ==
  ASSUME Inv, NEW t \in Threads, PublishSurface(t), UNCHANGED <<handles, viewBook, notices>>
  PROVE  Rules'
  <1> DEFINE n == frame[t].name
             c == frame[t].call
  <1>1. ASSUME ~surfClosing, Rests(t), UNCHANGED surfNames, surfaces' = surfaces \cup {[surface |-> c, name |-> n]}
        PROVE  Rules'
    BY <1>1, ShownKept
  <1>2. ASSUME surfClosing, surfNames' = surfNames \ {n}, UNCHANGED surfaces,
               Becomes(t, "remove", c, n, frame[t].handle, {c}, "idle")
        PROVE  Rules'
    BY <1>2, WithdrawnKept
  <1> QED BY <1>1, <1>2, PublishSurfaceIs DEF Inv

LEMMA DropKept ==
  ASSUME Inv, NEW t \in Threads, DropHandle(t), UNCHANGED <<surfaceBook, notices>>
  PROVE  Rules'
  BY EndsKept, GivesKept

LEMMA PublishKept ==
  ASSUME Inv, NEW t \in Threads, Publish(t), UNCHANGED <<surfaceBook, notices>>
  PROVE  Rules'
  <1> DEFINE n == frame[t].name
             h == frame[t].handle
  <1>1. ASSUME Turns(t, "unreserve"), UNCHANGED <<viewNames, views>> PROVE Rules'
    BY <1>1, NoViewKept
  <1>2. ASSUME h # None, viewClosing, Turns(t, "release"), viewNames' = viewNames \ {n}, UNCHANGED views
        PROVE  Rules'
    BY <1>2, TooLateKept
  <1>3. ASSUME h # None, ~viewClosing, Rests(t), UNCHANGED viewNames,
               views' = views \cup {[view |-> h, name |-> n, menu |-> browser[n]]}
        PROVE  Rules'
    BY <1>3, EnteredKept
  <1> QED BY <1>1, <1>2, <1>3, PublishIs DEF Inv

-----------------------------------------------------------------------------
(* The steps of the shutdown keep the rules.                               *)

\* No call for a browser is admitted from here on.
LEMMA CloseAdmissionKept ==
  ASSUME Inv, CloseAdmission
  PROVE  Rules'
  <1>1. /\ frame[Main].at = "idle" /\ Turns(Main, "sweepFlag")
        /\ admission = None /\ publicClosing' = TRUE
    BY ShutdownIs DEF Inv, CloseAdmission
  <1>2. UNCHANGED <<layers, running, renderClosing, made, admission, mapLock, refs, browser,
    closing, viewClosing, viewLock, viewNames, views, tasks, surfClosing, surfNames, surfaces,
    registered, pending, asked, told>>
    BY DEF CloseAdmission, list, viewBook, surfaceBook, notices
  <1>3. Main \in Threads /\ None \notin Calls /\ None \notin Names /\ None \notin Threads /\ made \in Nat
    BY Nobody, FramesAre DEF Inv, Rules
  <1>4. Locks'
    BY <1>1, <1>2, <1>3 DEF Locks, Inv, Rules, Throughout, Turns, Becomes
  <1>5. MainIs'
    BY <1>1, <1>2, <1>3 DEF MainIs, Stage, Sweeping, Inv, Rules, Throughout, Turns, Becomes
  <1>6. Hands'
    BY <1>1, <1>2, <1>3 DEF Hands, Inv, Rules, Throughout, Turns, Becomes
  <1>7. Reserved'
    BY <1>1, <1>2, <1>3 DEF Reserved, Reserving, Inv, Rules, Throughout, Turns, Becomes
  <1>8. Notified'
    BY <1>1, <1>2, <1>3 DEF Notified, Waits, Inv, Rules, Throughout, Turns, Becomes
  <1>9. Known'
    BY <1>1, <1>2, <1>3 DEF Known, Inv, Rules, Throughout, Turns, Becomes
  <1>10. Ended'
    BY <1>1, <1>2, <1>3 DEF Ended, Held, Stage, Sweeping, AfterViews, AfterSurfaces, AfterBook,
      MainIs, Inv, Rules, Throughout, Turns, Becomes
  <1>11. Ahead'
    BY <1>1, <1>2, <1>3 DEF Ahead, Unused, Fresh, Calls, Inv, Rules, Throughout, Turns, Becomes
  <1>12. Counted'
    BY <1>1, <1>2, <1>3 DEF Counted, Numbered, Beginning, Fresh, Calls, Inv, Rules, Throughout,
      Turns, Becomes
  <1>13. Waiting'
    BY <1>1, <1>2, <1>3 DEF Ahead, Counted, Distinct, Waiting, Beginning, Numbered, Unused, Fresh,
      Calls, Inv, Rules, Throughout, Turns, Becomes
  <1>14. Distinct'
    BY <1>1, <1>2, <1>3 DEF Distinct, Counted, Numbered, Beginning, Fresh, Calls, Inv, Rules,
      Throughout, Turns, Becomes
  <1>15. ASSUME ~viewClosing' PROVE ViewBook'
    <2>0. ViewBook
      BY <1>1, <1>2, <1>15 DEF Inv, Rules
    <2>1. ViewsOwn'
      <3>1. ASSUME NEW h, NEW x, Owns(h, x) PROVE Owns(h, x)'
        BY <1>1, <1>2, <3>1 DEF Owns, Turns, Becomes
      <3> QED BY <1>2, <2>0, <3>1 DEF ViewBook, ViewsOwn
    <2>2. ViewsDiffer'
      BY <1>1, <1>2, <1>3, <2>0 DEF ViewsDiffer, OneReserves, Reserving, ViewBook, Turns, Becomes
    <2>3. MakersOwn'
      BY <1>1, <1>2, <1>3, <2>0 DEF MakersOwn, Owns, ViewBook, Turns, Becomes
    <2>4. OneReserves'
      BY <1>1, <1>2, <1>3, <2>0 DEF OneReserves, Reserving, ViewBook, Turns, Becomes
    <2> QED BY <2>1, <2>2, <2>3, <2>4 DEF ViewBook
  <1>16. ASSUME ~publicClosing' PROVE Book'
    BY <1>1, <1>2, <1>16
  <1> QED BY <1>4, <1>5, <1>6, <1>7, <1>8, <1>9, <1>10, <1>11, <1>12, <1>13, <1>14, <1>15, <1>16
      DEF Rules, Throughout, Fresh

\* No view is entered from here on.
LEMMA CloseViewsKept ==
  ASSUME Inv, CloseViews
  PROVE  Rules'
  <1>1. /\ frame[Main].at = "closeViews" /\ Turns(Main, "clearViews")
        /\ publicClosing /\ viewClosing' = TRUE
    BY ShutdownIs, Nobody DEF Inv, Rules, Throughout, MainIs, Stage, Sweeping, CloseViews
  <1>2. UNCHANGED <<layers, running, renderClosing, made, publicClosing, admission, mapLock, refs,
    browser, closing, viewLock, viewNames, views, tasks, surfClosing, surfNames, surfaces,
    registered, pending, asked, told>>
    BY DEF CloseViews, list, handles, surfaceBook, notices
  <1>3. Main \in Threads /\ None \notin Calls /\ None \notin Names /\ None \notin Threads /\ made \in Nat
    BY Nobody, FramesAre DEF Inv, Rules
  <1>4. Locks'
    BY <1>1, <1>2, <1>3 DEF Locks, Inv, Rules, Throughout, Turns, Becomes
  <1>5. MainIs'
    BY <1>1, <1>2, <1>3 DEF MainIs, Stage, Sweeping, Inv, Rules, Throughout, Turns, Becomes
  <1>6. Hands'
    BY <1>1, <1>2, <1>3 DEF Hands, Inv, Rules, Throughout, Turns, Becomes
  <1>7. Reserved'
    BY <1>1, <1>2, <1>3 DEF Reserved, Reserving, Inv, Rules, Throughout, Turns, Becomes
  <1>8. Notified'
    BY <1>1, <1>2, <1>3 DEF Notified, Waits, Inv, Rules, Throughout, Turns, Becomes
  <1>9. Known'
    BY <1>1, <1>2, <1>3 DEF Known, Inv, Rules, Throughout, Turns, Becomes
  <1>10. Ended'
    BY <1>1, <1>2, <1>3 DEF Ended, Held, Stage, Sweeping, AfterViews, AfterSurfaces, AfterBook,
      MainIs, Inv, Rules, Throughout, Turns, Becomes
  <1>11. Ahead'
    BY <1>1, <1>2, <1>3 DEF Ahead, Unused, Fresh, Calls, Inv, Rules, Throughout, Turns, Becomes
  <1>12. Counted'
    BY <1>1, <1>2, <1>3 DEF Counted, Numbered, Beginning, Fresh, Calls, Inv, Rules, Throughout,
      Turns, Becomes
  <1>13. Waiting'
    BY <1>1, <1>2, <1>3 DEF Ahead, Counted, Distinct, Waiting, Beginning, Numbered, Unused, Fresh,
      Calls, Inv, Rules, Throughout, Turns, Becomes
  <1>14. Distinct'
    BY <1>1, <1>2, <1>3 DEF Distinct, Counted, Numbered, Beginning, Fresh, Calls, Inv, Rules,
      Throughout, Turns, Becomes
  <1>15. ASSUME ~viewClosing' PROVE ViewBook'
    BY <1>1, <1>2, <1>15
  <1>16. ASSUME ~publicClosing' PROVE Book'
    BY <1>1, <1>2, <1>16
  <1> QED BY <1>4, <1>5, <1>6, <1>7, <1>8, <1>9, <1>10, <1>11, <1>12, <1>13, <1>14, <1>15, <1>16
      DEF Rules, Throughout, Fresh

\* The book of views is emptied.
LEMMA ClearViewsKept ==
  ASSUME Inv, ClearViews
  PROVE  Rules'
  <1>1. /\ frame[Main].at = "clearViews" /\ Turns(Main, "closeSurfaces")
        /\ publicClosing /\ viewClosing
        /\ views' = {} /\ viewNames' = {}
    BY ShutdownIs, Nobody DEF Inv, Rules, Throughout, MainIs, Ended, Stage, Sweeping, AfterViews,
      AfterSurfaces, AfterBook, ClearViews
  <1>2. UNCHANGED <<layers, running, renderClosing, made, publicClosing, admission, mapLock, refs,
    browser, closing, viewClosing, viewLock, tasks, surfClosing, surfNames, surfaces, registered,
    pending, asked, told>>
    BY DEF ClearViews, list, handles, surfaceBook, notices
  <1>3. Main \in Threads /\ None \notin Calls /\ None \notin Names /\ None \notin Threads /\ made \in Nat
    BY Nobody, FramesAre DEF Inv, Rules
  <1>4. Locks'
    BY <1>1, <1>2, <1>3 DEF Locks, Inv, Rules, Throughout, Turns, Becomes
  <1>5. MainIs'
    BY <1>1, <1>2, <1>3 DEF MainIs, Stage, Sweeping, Inv, Rules, Throughout, Turns, Becomes
  <1>6. Hands'
    BY <1>1, <1>2, <1>3 DEF Hands, Inv, Rules, Throughout, Turns, Becomes
  <1>7. Reserved'
    BY <1>1, <1>2, <1>3 DEF Reserved, Reserving, Inv, Rules, Throughout, Turns, Becomes
  <1>8. Notified'
    BY <1>1, <1>2, <1>3 DEF Notified, Waits, Inv, Rules, Throughout, Turns, Becomes
  <1>9. Known'
    BY <1>1, <1>2, <1>3 DEF Known, Inv, Rules, Throughout, Turns, Becomes
  <1>10. Ended'
    BY <1>1, <1>2, <1>3 DEF Ended, Held, Stage, Sweeping, AfterViews, AfterSurfaces, AfterBook,
      MainIs, Inv, Rules, Throughout, Turns, Becomes
  <1>11. Ahead'
    BY <1>1, <1>2, <1>3 DEF Ahead, Unused, Fresh, Calls, Inv, Rules, Throughout, Turns, Becomes
  <1>12. Counted'
    BY <1>1, <1>2, <1>3 DEF Counted, Numbered, Beginning, Fresh, Calls, Inv, Rules, Throughout,
      Turns, Becomes
  <1>13. Waiting'
    BY <1>1, <1>2, <1>3 DEF Ahead, Counted, Distinct, Waiting, Beginning, Numbered, Unused, Fresh,
      Calls, Inv, Rules, Throughout, Turns, Becomes
  <1>14. Distinct'
    BY <1>1, <1>2, <1>3 DEF Distinct, Counted, Numbered, Beginning, Fresh, Calls, Inv, Rules,
      Throughout, Turns, Becomes
  <1>15. ASSUME ~viewClosing' PROVE ViewBook'
    BY <1>1, <1>2, <1>15
  <1>16. ASSUME ~publicClosing' PROVE Book'
    BY <1>1, <1>2, <1>16
  <1> QED BY <1>4, <1>5, <1>6, <1>7, <1>8, <1>9, <1>10, <1>11, <1>12, <1>13, <1>14, <1>15, <1>16
      DEF Rules, Throughout, Fresh

\* No surface is entered from here on.
LEMMA CloseSurfacesKept ==
  ASSUME Inv, CloseSurfaces
  PROVE  Rules'
  <1>1. /\ frame[Main].at = "closeSurfaces" /\ Turns(Main, "takeSurfaces")
        /\ publicClosing /\ surfClosing' = TRUE
    BY ShutdownIs, Nobody DEF Inv, Rules, Throughout, MainIs, Ended, Stage, Sweeping, AfterViews,
      AfterSurfaces, AfterBook, CloseSurfaces
  <1>2. UNCHANGED <<layers, running, renderClosing, made, publicClosing, admission, mapLock, refs,
    browser, closing, viewClosing, viewLock, viewNames, views, tasks, surfNames, surfaces,
    registered, pending, asked, told>>
    BY DEF CloseSurfaces, list, handles, viewBook, notices
  <1>3. Main \in Threads /\ None \notin Calls /\ None \notin Names /\ None \notin Threads /\ made \in Nat
    BY Nobody, FramesAre DEF Inv, Rules
  <1>4. Locks'
    BY <1>1, <1>2, <1>3 DEF Locks, Inv, Rules, Throughout, Turns, Becomes
  <1>5. MainIs'
    BY <1>1, <1>2, <1>3 DEF MainIs, Stage, Sweeping, Inv, Rules, Throughout, Turns, Becomes
  <1>6. Hands'
    BY <1>1, <1>2, <1>3 DEF Hands, Inv, Rules, Throughout, Turns, Becomes
  <1>7. Reserved'
    BY <1>1, <1>2, <1>3 DEF Reserved, Reserving, Inv, Rules, Throughout, Turns, Becomes
  <1>8. Notified'
    BY <1>1, <1>2, <1>3 DEF Notified, Waits, Inv, Rules, Throughout, Turns, Becomes
  <1>9. Known'
    BY <1>1, <1>2, <1>3 DEF Known, Inv, Rules, Throughout, Turns, Becomes
  <1>10. Ended'
    BY <1>1, <1>2, <1>3 DEF Ended, Held, Stage, Sweeping, AfterViews, AfterSurfaces, AfterBook,
      MainIs, Inv, Rules, Throughout, Turns, Becomes
  <1>11. Ahead'
    BY <1>1, <1>2, <1>3 DEF Ahead, Unused, Fresh, Calls, Inv, Rules, Throughout, Turns, Becomes
  <1>12. Counted'
    BY <1>1, <1>2, <1>3 DEF Counted, Numbered, Beginning, Fresh, Calls, Inv, Rules, Throughout,
      Turns, Becomes
  <1>13. Waiting'
    BY <1>1, <1>2, <1>3 DEF Ahead, Counted, Distinct, Waiting, Beginning, Numbered, Unused, Fresh,
      Calls, Inv, Rules, Throughout, Turns, Becomes
  <1>14. Distinct'
    BY <1>1, <1>2, <1>3 DEF Distinct, Counted, Numbered, Beginning, Fresh, Calls, Inv, Rules,
      Throughout, Turns, Becomes
  <1>15. ASSUME ~viewClosing' PROVE ViewBook'
    <2>0. ViewBook
      BY <1>1, <1>2, <1>15 DEF Inv, Rules
    <2>1. ViewsOwn'
      <3>1. ASSUME NEW h, NEW x, Owns(h, x) PROVE Owns(h, x)'
        BY <1>1, <1>2, <3>1 DEF Owns, Turns, Becomes
      <3> QED BY <1>2, <2>0, <3>1 DEF ViewBook, ViewsOwn
    <2>2. ViewsDiffer'
      BY <1>1, <1>2, <1>3, <2>0 DEF ViewsDiffer, OneReserves, Reserving, ViewBook, Turns, Becomes
    <2>3. MakersOwn'
      BY <1>1, <1>2, <1>3, <2>0 DEF MakersOwn, Owns, ViewBook, Turns, Becomes
    <2>4. OneReserves'
      BY <1>1, <1>2, <1>3, <2>0 DEF OneReserves, Reserving, ViewBook, Turns, Becomes
    <2> QED BY <2>1, <2>2, <2>3, <2>4 DEF ViewBook
  <1>16. ASSUME ~publicClosing' PROVE Book'
    BY <1>1, <1>2, <1>16
  <1> QED BY <1>4, <1>5, <1>6, <1>7, <1>8, <1>9, <1>10, <1>11, <1>12, <1>13, <1>14, <1>15, <1>16
      DEF Rules, Throughout, Fresh

\* The book of surfaces is emptied, its layers are in hand.
LEMMA TakeSurfacesKept ==
  ASSUME Inv, NEW t, t = Main, TakeSurfaces
  PROVE  Rules'
  <1>1. /\ t \in Threads /\ t = Main /\ frame[Main].at = "takeSurfaces" /\ publicClosing
        /\ Becomes(t, "shut", frame[t].call, frame[t].name, frame[t].handle, {s.surface : s \in surfaces}, "swap")
        /\ surfaces' = {} /\ surfNames' = {}
    BY TakeSurfacesIs, Nobody DEF Inv, Rules, Throughout, MainIs, Ended, Stage, Sweeping,
      AfterViews, AfterSurfaces, AfterBook, TakeSurfaces
  <1>2. UNCHANGED <<layers, running, renderClosing, made, publicClosing, admission, mapLock, refs,
    browser, closing, viewClosing, viewLock, viewNames, views, tasks, surfClosing, registered,
    pending, asked, told>>
    BY DEF TakeSurfaces, list, handles, viewBook, notices
  <1>3. Main \in Threads /\ None \notin Calls /\ None \notin Names /\ None \notin Threads /\ made \in Nat
    BY Nobody, FramesAre DEF Inv, Rules
  <1>4. Locks'
    BY <1>1, <1>2, <1>3 DEF Locks, Inv, Rules, Throughout, Becomes
  <1>5. MainIs'
    BY <1>1, <1>2, <1>3 DEF MainIs, Stage, Sweeping, Inv, Rules, Throughout, Becomes
  <1>6. Hands'
    BY <1>1, <1>2, <1>3 DEF Hands, Inv, Rules, Throughout, Becomes
  <1>7. Reserved'
    BY <1>1, <1>2, <1>3 DEF Reserved, Reserving, Inv, Rules, Throughout, Becomes
  <1>8. Notified'
    BY <1>1, <1>2, <1>3 DEF Notified, Waits, Inv, Rules, Throughout, Becomes
  <1>9. Known'
    BY <1>1, <1>2, <1>3 DEF Known, Inv, Rules, Throughout, Becomes
  <1>10. Ended'
    BY <1>1, <1>2, <1>3 DEF Ended, Held, Stage, Sweeping, AfterViews, AfterSurfaces, AfterBook,
      MainIs, Inv, Rules, Throughout, Becomes
  <1>11. Ahead'
    <2>1. ASSUME NEW d \in Calls, Unused(d) PROVE Unused(d)'
      <3>1. \A x \in Names : layers'[x] # d /\ <<d, x>> \notin running'
        BY <1>1, <1>2, <1>3, <2>1 DEF Unused
      <3>2. frame'[t].at \in {"remove", "shut"} => d \notin frame'[t].menus
        BY <1>1, <1>2, <1>3, <2>1 DEF Unused, Becomes
      <3>3. \A s \in surfaces' : s.surface # d
        BY <1>1, <1>2, <2>1 DEF Unused
      <3> QED BY <1>1, <1>2, <2>1, <3>1, <3>2, <3>3, UnusedStays DEF Unused, Becomes
    <2> QED BY <1>2, <2>1 DEF Ahead, Inv, Rules, Throughout, Fresh
  <1>12. Counted'
    BY <1>1, <1>2, <1>3 DEF Counted, Numbered, Beginning, Fresh, Calls, Inv, Rules, Throughout,
      Becomes
  <1>13. Waiting'
    <2>1. ASSUME NEW d \in Calls, Unused(d) PROVE Unused(d)'
      <3>1. \A x \in Names : layers'[x] # d /\ <<d, x>> \notin running'
        BY <1>1, <1>2, <1>3, <2>1 DEF Unused
      <3>2. frame'[t].at \in {"remove", "shut"} => d \notin frame'[t].menus
        BY <1>1, <1>2, <1>3, <2>1 DEF Unused, Becomes
      <3>3. \A s \in surfaces' : s.surface # d
        BY <1>1, <1>2, <2>1 DEF Unused
      <3> QED BY <1>1, <1>2, <2>1, <3>1, <3>2, <3>3, UnusedStays DEF Unused, Becomes
    <2>2. \A u \in Threads : frame'[u].at \in Beginning => frame'[u].call \in Calls /\ Unused(frame'[u].call)
      BY <1>1 DEF Inv, Rules, Throughout, Fresh, Waiting, Beginning, Kinds, Shape, Becomes
    <2> QED BY <2>1, <2>2 DEF Waiting
  <1>14. Distinct'
    BY <1>1, <1>2, <1>3 DEF Distinct, Counted, Numbered, Beginning, Fresh, Calls, Inv, Rules,
      Throughout, Becomes
  <1>15. ASSUME ~viewClosing' PROVE ViewBook'
    <2>0. ViewBook
      BY <1>1, <1>2, <1>15 DEF Inv, Rules
    <2>1. ViewsOwn'
      <3>1. ASSUME NEW h, NEW x, Owns(h, x) PROVE Owns(h, x)'
        BY <1>1, <1>2, <3>1 DEF Owns, Becomes
      <3> QED BY <1>2, <2>0, <3>1 DEF ViewBook, ViewsOwn
    <2>2. ViewsDiffer'
      BY <1>1, <1>2, <1>3, <2>0 DEF ViewsDiffer, OneReserves, Reserving, ViewBook, Becomes
    <2>3. MakersOwn'
      BY <1>1, <1>2, <1>3, <2>0 DEF MakersOwn, Owns, ViewBook, Becomes
    <2>4. OneReserves'
      BY <1>1, <1>2, <1>3, <2>0 DEF OneReserves, Reserving, ViewBook, Becomes
    <2> QED BY <2>1, <2>2, <2>3, <2>4 DEF ViewBook
  <1>16. ASSUME ~publicClosing' PROVE Book'
    BY <1>1, <1>2, <1>16
  <1> QED BY <1>4, <1>5, <1>6, <1>7, <1>8, <1>9, <1>10, <1>11, <1>12, <1>13, <1>14, <1>15, <1>16
      DEF Rules, Throughout, Fresh

\* The consumers' functions are taken, to be called.
LEMMA SwapKept ==
  ASSUME Inv, SwapCallbacks
  PROVE  Rules'
  <1>1. /\ frame[Main].at = "swap" /\ Turns(Main, "tell")
        /\ publicClosing /\ viewClosing
        /\ pending' = registered /\ registered' = {}
    BY ShutdownIs, Nobody DEF Inv, Rules, Throughout, MainIs, Ended, Stage, Sweeping, AfterViews,
      AfterSurfaces, AfterBook, SwapCallbacks
  <1>2. UNCHANGED <<layers, running, renderClosing, made, publicClosing, admission, mapLock, refs,
    browser, closing, viewClosing, viewLock, viewNames, views, tasks, surfClosing, surfNames,
    surfaces, asked, told>>
    BY DEF SwapCallbacks, list, handles, viewBook, surfaceBook
  <1>3. Main \in Threads /\ None \notin Calls /\ None \notin Names /\ None \notin Threads /\ made \in Nat
    BY Nobody, FramesAre DEF Inv, Rules
  <1>4. Locks'
    BY <1>1, <1>2, <1>3 DEF Locks, Inv, Rules, Throughout, Turns, Becomes
  <1>5. MainIs'
    BY <1>1, <1>2, <1>3 DEF MainIs, Stage, Sweeping, Inv, Rules, Throughout, Turns, Becomes
  <1>6. Hands'
    BY <1>1, <1>2, <1>3 DEF Hands, Inv, Rules, Throughout, Turns, Becomes
  <1>7. Reserved'
    BY <1>1, <1>2, <1>3 DEF Reserved, Reserving, Inv, Rules, Throughout, Turns, Becomes
  <1>8. Notified'
    <2>1. pending = {}
      BY <1>1 DEF Ended, Stage, Inv, Rules, Throughout
    <2>2. (registered \cup pending)' = registered \cup pending
      BY <1>1, <2>1
    <2> QED BY <1>1, <1>2, <2>1, <2>2 DEF Notified, Waits, Inv, Rules, Throughout
  <1>9. Known'
    BY <1>1, <1>2, <1>3 DEF Known, Inv, Rules, Throughout, Turns, Becomes
  <1>10. Ended'
    BY <1>1, <1>2, <1>3 DEF Ended, Held, Stage, Sweeping, AfterViews, AfterSurfaces, AfterBook,
      MainIs, Inv, Rules, Throughout, Turns, Becomes
  <1>11. Ahead'
    BY <1>1, <1>2, <1>3 DEF Ahead, Unused, Fresh, Calls, Inv, Rules, Throughout, Turns, Becomes
  <1>12. Counted'
    BY <1>1, <1>2, <1>3 DEF Counted, Numbered, Beginning, Fresh, Calls, Inv, Rules, Throughout,
      Turns, Becomes
  <1>13. Waiting'
    BY <1>1, <1>2, <1>3 DEF Ahead, Counted, Distinct, Waiting, Beginning, Numbered, Unused, Fresh,
      Calls, Inv, Rules, Throughout, Turns, Becomes
  <1>14. Distinct'
    BY <1>1, <1>2, <1>3 DEF Distinct, Counted, Numbered, Beginning, Fresh, Calls, Inv, Rules,
      Throughout, Turns, Becomes
  <1>15. ASSUME ~viewClosing' PROVE ViewBook'
    BY <1>1, <1>2, <1>15
  <1>16. ASSUME ~publicClosing' PROVE Book'
    BY <1>1, <1>2, <1>16
  <1> QED BY <1>4, <1>5, <1>6, <1>7, <1>8, <1>9, <1>10, <1>11, <1>12, <1>13, <1>14, <1>15, <1>16
      DEF Rules, Throughout, Fresh

\* One of them is called.
LEMMA ToldKept ==
  ASSUME Inv, NEW k \in pending, TellNext, Tell(k), pending' = pending \ {k}, UNCHANGED frame
  PROVE  Rules'
  <1>1. /\ frame[Main].at = "tell"
        /\ publicClosing /\ viewClosing
        /\ pending' = pending \ {k} /\ k \in pending
        /\ \A x \in Callbacks : told'[x] = IF x = k THEN told[x] + 1 ELSE told[x]
        /\ registered \subseteq Callbacks /\ pending \subseteq Callbacks
    BY ShutdownIs, Nobody DEF Inv, Rules, Throughout, MainIs, Ended, Stage, Sweeping, AfterViews,
      AfterSurfaces, AfterBook, Tell, Kinds, TypeOK
  <1>2. UNCHANGED <<layers, running, renderClosing, made, frame, publicClosing, admission, mapLock,
    refs, browser, closing, viewClosing, viewLock, viewNames, views, tasks, surfClosing, surfNames,
    surfaces, registered, asked>>
    BY DEF TellNext, list, handles, viewBook, surfaceBook
  <1>3. Main \in Threads /\ None \notin Calls /\ None \notin Names /\ None \notin Threads /\ made \in Nat
    BY Nobody, FramesAre DEF Inv, Rules
  <1>4. Locks'
    BY <1>1, <1>2, <1>3 DEF Locks, Inv, Rules, Throughout
  <1>5. MainIs'
    BY <1>1, <1>2, <1>3 DEF MainIs, Stage, Sweeping, Inv, Rules, Throughout
  <1>6. Hands'
    BY <1>1, <1>2, <1>3 DEF Hands, Inv, Rules, Throughout
  <1>7. Reserved'
    BY <1>1, <1>2, <1>3 DEF Reserved, Reserving, Inv, Rules, Throughout
  <1>8. Notified'
    BY <1>1, <1>2, <1>3 DEF Notified, Waits, Inv, Rules, Throughout
  <1>9. Known'
    BY <1>1, <1>2, <1>3 DEF Known, Inv, Rules, Throughout
  <1>10. Ended'
    BY <1>1, <1>2, <1>3 DEF Ended, Held, Stage, Sweeping, AfterViews, AfterSurfaces, AfterBook,
      MainIs, Inv, Rules, Throughout
  <1>11. Ahead'
    BY <1>1, <1>2, <1>3 DEF Ahead, Unused, Fresh, Calls, Inv, Rules, Throughout
  <1>12. Counted'
    BY <1>1, <1>2, <1>3 DEF Counted, Numbered, Beginning, Fresh, Calls, Inv, Rules, Throughout
  <1>13. Waiting'
    BY <1>1, <1>2, <1>3 DEF Ahead, Counted, Distinct, Waiting, Beginning, Numbered, Unused, Fresh,
      Calls, Inv, Rules, Throughout
  <1>14. Distinct'
    BY <1>1, <1>2, <1>3 DEF Distinct, Counted, Numbered, Beginning, Fresh, Calls, Inv, Rules,
      Throughout
  <1>15. ASSUME ~viewClosing' PROVE ViewBook'
    BY <1>1, <1>2, <1>15
  <1>16. ASSUME ~publicClosing' PROVE Book'
    BY <1>1, <1>2, <1>16
  <1> QED BY <1>4, <1>5, <1>6, <1>7, <1>8, <1>9, <1>10, <1>11, <1>12, <1>13, <1>14, <1>15, <1>16
      DEF Rules, Throughout, Fresh

\* All have been called.
LEMMA AllToldKept ==
  ASSUME Inv, TellNext, pending = {}, Turns(Main, "clearBook"), UNCHANGED <<pending, told>>
  PROVE  Rules'
  <1>1. /\ frame[Main].at = "tell" /\ Turns(Main, "clearBook") /\ pending = {}
        /\ publicClosing /\ viewClosing
    BY ShutdownIs, Nobody DEF Inv, Rules, Throughout, MainIs, Ended, Stage, Sweeping, AfterViews,
      AfterSurfaces, AfterBook
  <1>2. UNCHANGED <<layers, running, renderClosing, made, publicClosing, admission, mapLock, refs,
    browser, closing, viewClosing, viewLock, viewNames, views, tasks, surfClosing, surfNames,
    surfaces, registered, pending, asked, told>>
    BY DEF TellNext, list, handles, viewBook, surfaceBook
  <1>3. Main \in Threads /\ None \notin Calls /\ None \notin Names /\ None \notin Threads /\ made \in Nat
    BY Nobody, FramesAre DEF Inv, Rules
  <1>4. Locks'
    BY <1>1, <1>2, <1>3 DEF Locks, Inv, Rules, Throughout, Turns, Becomes
  <1>5. MainIs'
    BY <1>1, <1>2, <1>3 DEF MainIs, Stage, Sweeping, Inv, Rules, Throughout, Turns, Becomes
  <1>6. Hands'
    BY <1>1, <1>2, <1>3 DEF Hands, Inv, Rules, Throughout, Turns, Becomes
  <1>7. Reserved'
    BY <1>1, <1>2, <1>3 DEF Reserved, Reserving, Inv, Rules, Throughout, Turns, Becomes
  <1>8. Notified'
    BY <1>1, <1>2, <1>3 DEF Notified, Waits, Inv, Rules, Throughout, Turns, Becomes
  <1>9. Known'
    BY <1>1, <1>2, <1>3 DEF Known, Inv, Rules, Throughout, Turns, Becomes
  <1>10. Ended'
    BY <1>1, <1>2, <1>3 DEF Ended, Held, Stage, Sweeping, AfterViews, AfterSurfaces, AfterBook,
      MainIs, Inv, Rules, Throughout, Turns, Becomes
  <1>11. Ahead'
    BY <1>1, <1>2, <1>3 DEF Ahead, Unused, Fresh, Calls, Inv, Rules, Throughout, Turns, Becomes
  <1>12. Counted'
    BY <1>1, <1>2, <1>3 DEF Counted, Numbered, Beginning, Fresh, Calls, Inv, Rules, Throughout,
      Turns, Becomes
  <1>13. Waiting'
    BY <1>1, <1>2, <1>3 DEF Ahead, Counted, Distinct, Waiting, Beginning, Numbered, Unused, Fresh,
      Calls, Inv, Rules, Throughout, Turns, Becomes
  <1>14. Distinct'
    BY <1>1, <1>2, <1>3 DEF Distinct, Counted, Numbered, Beginning, Fresh, Calls, Inv, Rules,
      Throughout, Turns, Becomes
  <1>15. ASSUME ~viewClosing' PROVE ViewBook'
    BY <1>1, <1>2, <1>15
  <1>16. ASSUME ~publicClosing' PROVE Book'
    BY <1>1, <1>2, <1>16
  <1> QED BY <1>4, <1>5, <1>6, <1>7, <1>8, <1>9, <1>10, <1>11, <1>12, <1>13, <1>14, <1>15, <1>16
      DEF Rules, Throughout, Fresh

\* The book of browsers is emptied.
LEMMA ClearBookKept ==
  ASSUME Inv, ClearBook
  PROVE  Rules'
  <1>1. /\ frame[Main].at = "clearBook" /\ Turns(Main, "sweepAgain")
        /\ publicClosing /\ viewClosing /\ mapLock = None
        /\ closing' = {} /\ \A n \in BrowserNames : refs'[n] = {}
    BY ShutdownIs, Nobody DEF Inv, Rules, Throughout, MainIs, Ended, Stage, Sweeping, AfterViews,
      AfterSurfaces, AfterBook, ClearBook
  <1>2. UNCHANGED <<layers, running, renderClosing, made, publicClosing, admission, mapLock,
    viewClosing, viewLock, viewNames, views, tasks, surfClosing, surfNames, surfaces, registered,
    pending, asked, told>>
    BY DEF ClearBook, list, viewBook, surfaceBook, notices
  <1>3. Main \in Threads /\ None \notin Calls /\ None \notin Names /\ None \notin Threads /\ made \in Nat
    BY Nobody, FramesAre DEF Inv, Rules
  <1>4. Locks'
    BY <1>1, <1>2, <1>3 DEF Locks, Inv, Rules, Throughout, Turns, Becomes
  <1>5. MainIs'
    BY <1>1, <1>2, <1>3 DEF MainIs, Stage, Sweeping, Inv, Rules, Throughout, Turns, Becomes
  <1>6. Hands'
    BY <1>1, <1>2, <1>3 DEF Hands, Inv, Rules, Throughout, Turns, Becomes
  <1>7. Reserved'
    BY <1>1, <1>2, <1>3 DEF Reserved, Reserving, Inv, Rules, Throughout, Turns, Becomes
  <1>8. Notified'
    BY <1>1, <1>2, <1>3 DEF Notified, Waits, Inv, Rules, Throughout, Turns, Becomes
  <1>9. Known'
    BY <1>1, <1>2, <1>3 DEF Known, Inv, Rules, Throughout, Turns, Becomes
  <1>10. Ended'
    BY <1>1, <1>2, <1>3 DEF Ended, Held, Stage, Sweeping, AfterViews, AfterSurfaces, AfterBook,
      MainIs, Inv, Rules, Throughout, Turns, Becomes
  <1>11. Ahead'
    BY <1>1, <1>2, <1>3 DEF Ahead, Unused, Fresh, Calls, Inv, Rules, Throughout, Turns, Becomes
  <1>12. Counted'
    BY <1>1, <1>2, <1>3 DEF Counted, Numbered, Beginning, Fresh, Calls, Inv, Rules, Throughout,
      Turns, Becomes
  <1>13. Waiting'
    BY <1>1, <1>2, <1>3 DEF Ahead, Counted, Distinct, Waiting, Beginning, Numbered, Unused, Fresh,
      Calls, Inv, Rules, Throughout, Turns, Becomes
  <1>14. Distinct'
    BY <1>1, <1>2, <1>3 DEF Distinct, Counted, Numbered, Beginning, Fresh, Calls, Inv, Rules,
      Throughout, Turns, Becomes
  <1>15. ASSUME ~viewClosing' PROVE ViewBook'
    BY <1>1, <1>2, <1>15
  <1>16. ASSUME ~publicClosing' PROVE Book'
    BY <1>1, <1>2, <1>16
  <1> QED BY <1>4, <1>5, <1>6, <1>7, <1>8, <1>9, <1>10, <1>11, <1>12, <1>13, <1>14, <1>15, <1>16
      DEF Rules, Throughout, Fresh

\* A function is registered, or called at once.
LEMMA RegisterKept ==
  ASSUME Inv, NEW t \in Threads, NEW k \in Callbacks, RegisterOnShutdown(t, k)
  PROVE  Rules'
  <1>1. /\ k \notin asked /\ asked' = asked \cup {k}
        /\ registered \subseteq Callbacks /\ pending \subseteq Callbacks
        /\ \/ /\ publicClosing /\ UNCHANGED registered
              /\ \A x \in Callbacks : told'[x] = IF x = k THEN told[x] + 1 ELSE told[x]
           \/ ~publicClosing /\ registered' = registered \cup {k} /\ UNCHANGED told
    BY DEF RegisterOnShutdown, Register, Enqueue, Tell, Inv, Kinds, TypeOK
  <1>2. UNCHANGED <<layers, running, renderClosing, made, frame, publicClosing, admission, mapLock,
    refs, browser, closing, viewClosing, viewLock, viewNames, views, tasks, surfClosing, surfNames,
    surfaces, pending>>
    BY DEF RegisterOnShutdown, list, handles, viewBook, surfaceBook
  <1>3. Main \in Threads /\ None \notin Calls /\ None \notin Names /\ None \notin Threads /\ made \in Nat
    BY Nobody, FramesAre DEF Inv, Rules
  <1>4. Locks'
    BY <1>1, <1>2, <1>3 DEF Locks, Inv, Rules, Throughout
  <1>5. MainIs'
    BY <1>1, <1>2, <1>3 DEF MainIs, Stage, Sweeping, Inv, Rules, Throughout
  <1>6. Hands'
    BY <1>1, <1>2, <1>3 DEF Hands, Inv, Rules, Throughout
  <1>7. Reserved'
    BY <1>1, <1>2, <1>3 DEF Reserved, Reserving, Inv, Rules, Throughout
  <1>8. Notified'
    BY <1>1, <1>2, <1>3 DEF Notified, Waits, Inv, Rules, Throughout
  <1>9. Known'
    BY <1>1, <1>2, <1>3 DEF Known, Inv, Rules, Throughout
  <1>10. Ended'
    BY <1>1, <1>2, <1>3 DEF Ended, Held, Stage, Sweeping, AfterViews, AfterSurfaces, AfterBook,
      MainIs, Inv, Rules, Throughout
  <1>11. Ahead'
    BY <1>1, <1>2, <1>3 DEF Ahead, Unused, Fresh, Calls, Inv, Rules, Throughout
  <1>12. Counted'
    BY <1>1, <1>2, <1>3 DEF Counted, Numbered, Beginning, Fresh, Calls, Inv, Rules, Throughout
  <1>13. Waiting'
    BY <1>1, <1>2, <1>3 DEF Ahead, Counted, Distinct, Waiting, Beginning, Numbered, Unused, Fresh,
      Calls, Inv, Rules, Throughout
  <1>14. Distinct'
    BY <1>1, <1>2, <1>3 DEF Distinct, Counted, Numbered, Beginning, Fresh, Calls, Inv, Rules,
      Throughout
  <1>15. ASSUME ~viewClosing' PROVE ViewBook'
    <2>0. ViewBook
      BY <1>1, <1>2, <1>15 DEF Inv, Rules
    <2>1. ViewsOwn'
      <3>1. ASSUME NEW h, NEW x, Owns(h, x) PROVE Owns(h, x)'
        BY <1>1, <1>2, <3>1 DEF Owns
      <3> QED BY <1>2, <2>0, <3>1 DEF ViewBook, ViewsOwn
    <2>2. ViewsDiffer'
      BY <1>1, <1>2, <1>3, <2>0 DEF ViewsDiffer, OneReserves, Reserving, ViewBook
    <2>3. MakersOwn'
      BY <1>1, <1>2, <1>3, <2>0 DEF MakersOwn, Owns, ViewBook
    <2>4. OneReserves'
      BY <1>1, <1>2, <1>3, <2>0 DEF OneReserves, Reserving, ViewBook
    <2> QED BY <2>1, <2>2, <2>3, <2>4 DEF ViewBook
  <1>16. ASSUME ~publicClosing' PROVE Book'
    <2>0. Book
      BY <1>1, <1>2, <1>16 DEF Inv, Rules
    <2>1. Named'
      BY <1>1, <1>2, <1>3, <2>0 DEF Named, Book, Browsers, SurfaceBook
    <2>2. OneEach'
      BY <1>1, <1>2, <1>3, <2>0 DEF OneEach, Book, Browsers, SurfaceBook
    <2>3. MenusOwn'
      BY <1>1, <1>2, <1>3, <2>0 DEF MenusOwn, Book, Browsers, SurfaceBook
    <2>4. ClosingEnds'
      BY <1>1, <1>2, <1>3, <2>0 DEF ClosingEnds, Ending, Book, Browsers, SurfaceBook
    <2>5. EndingCloses'
      BY <1>1, <1>2, <1>3, <2>0 DEF EndingCloses, Ending, Book, Browsers, SurfaceBook
    <2>6. UsedIsListed'
      BY <1>1, <1>2, <1>3, <2>0 DEF UsedIsListed, Book, Browsers, SurfaceBook
    <2>7. UnusedIsGone'
      BY <1>1, <1>2, <1>3, <2>0 DEF UnusedIsGone, Gone, Book, Browsers, SurfaceBook
    <2>8. EndingGoesOn'
      BY <1>1, <1>2, <1>3, <2>0 DEF EndingGoesOn, Ending, Gone, EndingCloses, Book, Browsers,
        SurfaceBook
    <2>9. SurfacesListed'
      BY <1>1, <1>2, <1>3, <2>0 DEF SurfacesListed, Removing, Book, Browsers, SurfaceBook
    <2>10. TakenAreUsed'
      BY <1>1, <1>2, <1>3, <2>0 DEF TakenAreUsed, Making, Book, Browsers, SurfaceBook
    <2>11. OneMakes'
      BY <1>1, <1>2, <1>3, <2>0 DEF OneMakes, Making, Book, Browsers, SurfaceBook
    <2>12. MadeAreListed'
      BY <1>1, <1>2, <1>3, <2>0 DEF MadeAreListed, Removing, Book, Browsers, SurfaceBook
    <2>13. OneRemoves'
      BY <1>1, <1>2, <1>3, <2>0 DEF OneRemoves, Removing, Book, Browsers, SurfaceBook
    <2>14. ListedAreHeld'
      BY <1>1, <1>2, <1>3, <2>0 DEF ListedAreHeld, Held, Book, Browsers, SurfaceBook
    <2> QED BY <2>1, <2>2, <2>3, <2>4, <2>5, <2>6, <2>7, <2>8, <2>9, <2>10, <2>11, <2>12, <2>13,
          <2>14 DEF Book, Browsers, SurfaceBook
  <1> QED BY <1>4, <1>5, <1>6, <1>7, <1>8, <1>9, <1>10, <1>11, <1>12, <1>13, <1>14, <1>15, <1>16
      DEF Rules, Throughout, Fresh

-----------------------------------------------------------------------------
(* The invariant.                                                          *)

\* It holds at the start.
LEMMA InitInv == Init => Inv
  <1> SUFFICES ASSUME Init PROVE Inv
    OBVIOUS
  <1>1. Kinds
    <2>1. frame \in [Threads -> Frames] /\ \A t \in Threads : frame[t] = Idle
      BY IdleIs DEF Init, ListInit
    <2>2. \A t \in Threads : Shape(frame[t])
      BY <2>1, IdleIs DEF Shape
    <2>3. ListTypeOK
      <3>1. 0 \in 0..MaxCalls
        BY NamesAssumption
      <3>2. layers \in [Names -> Calls \cup {None}]
        BY DEF Init, ListInit
      <3> QED BY <2>1, <3>1, <3>2 DEF Init, ListInit, ListTypeOK
    <2>4. HandlesTypeOK
      BY DEF Init, HandlesInit, HandlesTypeOK
    <2>5. SurfacesTypeOK /\ registered \subseteq Callbacks /\ pending \subseteq Callbacks /\ asked = {}
      BY DEF Init, SurfacesInit, SurfacesTypeOK
    <2>6. told \in [Callbacks -> Nat]
      BY DEF Init
    <2> QED BY <2>2, <2>3, <2>4, <2>5, <2>6 DEF Kinds, TypeOK
  <1>2. /\ \A t \in Threads : frame[t].at = "idle"
        /\ layers = [n \in Names |-> None] /\ running = {}
        /\ refs = [n \in BrowserNames |-> {}] /\ browser = [n \in BrowserNames |-> None]
        /\ closing = {} /\ viewNames = {} /\ views = {} /\ tasks = {} /\ surfNames = {} /\ surfaces = {}
        /\ registered = {} /\ pending = {} /\ asked = {} /\ \A k \in Callbacks : told[k] = 0
        /\ ~publicClosing /\ ~viewClosing /\ made = 0
    BY IdleIs DEF Init, ListInit, HandlesInit, SurfacesInit
  <1>3. Locks /\ Hands /\ Reserved /\ Notified /\ Known
    BY <1>2 DEF Locks, Hands, Reserved, Notified, Waits, Known
  <1>4. MainIs /\ Ended
    BY <1>2, Nobody DEF MainIs, Ended, Stage, Sweeping, AfterViews, AfterSurfaces, AfterBook
  <1>5. \A c \in Calls : Unused(c)
    BY <1>2, Nobody DEF Unused
  <1>6. Fresh
    BY <1>2, <1>5 DEF Fresh, Ahead, Counted, Waiting, Distinct, Numbered, Beginning
  <1>7. ViewBook
    BY <1>2 DEF ViewBook, ViewsOwn, ViewsDiffer, MakersOwn, OneReserves, Reserving
  <1>8. Named /\ OneEach /\ MenusOwn /\ Browsers
    BY <1>2, Nobody DEF Named, OneEach, MenusOwn, Browsers, ClosingEnds, EndingCloses, UsedIsListed,
       UnusedIsGone, EndingGoesOn, Ending, Gone, Names
  <1>9. SurfaceBook
    BY <1>2, Nobody DEF SurfaceBook, SurfacesListed, TakenAreUsed, OneMakes, MadeAreListed, OneRemoves,
       ListedAreHeld, Making, Removing, Names
  <1> QED BY <1>1, <1>3, <1>4, <1>6, <1>7, <1>8, <1>9 DEF Inv, Rules, Throughout, Book

LEMMA StutterKept ==
  ASSUME Inv, UNCHANGED vars
  PROVE  Inv'
  <1>1. UNCHANGED <<layers, running, renderClosing, made, frame, publicClosing, admission, mapLock, refs,
                    browser, closing, viewClosing, viewLock, viewNames, views, tasks, surfClosing,
                    surfNames, surfaces, registered, pending, asked, told>>
    BY DEF vars, list, handles, viewBook, surfaceBook, notices
  <1>2. Kinds'
    BY <1>1 DEF Inv, Kinds, TypeOK, ListTypeOK, HandlesTypeOK, SurfacesTypeOK
  <1>3. Throughout'
    BY <1>1 DEF Inv, Rules, Throughout, Locks, MainIs, Hands, Reserved, Reserving, Notified, Waits, Known, Ended,
       Held, Stage, Fresh, Ahead, Counted, Waiting, Distinct, Unused
  <1>4. ~viewClosing' => ViewBook'
    BY <1>1 DEF Inv, Rules, ViewBook, ViewsOwn, Owns, ViewsDiffer, MakersOwn, OneReserves, Reserving
  <1>5. ~publicClosing' => Book'
    BY <1>1 DEF Inv, Rules, Book, Named, OneEach, MenusOwn, Browsers, ClosingEnds, EndingCloses,
       UsedIsListed, UnusedIsGone, EndingGoesOn, Ending, Gone, SurfaceBook, SurfacesListed, TakenAreUsed,
       OneMakes, MadeAreListed, OneRemoves, ListedAreHeld, Making, Removing, Held
  <1> QED BY <1>2, <1>3, <1>4, <1>5 DEF Inv, Rules

\* Every step keeps the kinds.
LEMMA KindsKept ==
  ASSUME Inv, Next
  PROVE  Kinds'
  <1>1. Kinds /\ Known /\ Notified /\ (~viewClosing => ViewBook)
    BY DEF Inv, Rules, Throughout
  <1>2. ASSUME NEW t \in Threads, ListStep(t) PROVE Kinds'
    BY <1>1, <1>2, ListKinds
  <1>3. ASSUME NEW t \in Threads, HandleStep(t) PROVE Kinds'
    <2>1. UNCHANGED <<surfaceBook, notices>>
      BY <1>3 DEF HandleStep
    <2>2. PlainNames \subseteq BrowserNames
      BY DEF BrowserNames
    <2> QED BY <1>1, <1>3, <2>1, <2>2, BrowserKinds, ViewKinds DEF HandleStep
  <1>4. ASSUME NEW t \in Threads, SurfaceStep(t), UNCHANGED <<handles, viewBook, notices>> PROVE Kinds'
    BY <1>1, <1>4, SurfaceKinds
  <1>5. ASSUME NEW t \in Threads, NEW k \in Callbacks, RegisterOnShutdown(t, k) PROVE Kinds'
    BY <1>1, <1>5, RegisterKinds
  <1>6. ASSUME TaskStep PROVE Kinds'
    BY <1>1, <1>6, Nobody, ViewKinds DEF TaskStep
  <1>7. ASSUME ShutdownStep PROVE Kinds'
    BY <1>1, <1>7, ShutdownKinds
  <1>8. ASSUME Rest PROVE Kinds'
    BY <1>8, StutterKept DEF Rest, Inv
  <1> QED BY <1>2, <1>3, <1>4, <1>5, <1>6, <1>7, <1>8 DEF Next

\* Every step keeps the rules.
LEMMA RulesKept ==
  ASSUME Inv, Next
  PROVE  Rules'
  <1>1. ASSUME NEW t \in Threads, ListStep(t) PROVE Rules'
    BY <1>1, RemoveKept, ShutKept, SweepFlagKept, SweepKept DEF ListStep
  <1>2. ASSUME NEW t \in Threads, HandleStep(t) PROVE Rules'
    <2>1. UNCHANGED <<surfaceBook, notices>>
      BY <1>2 DEF HandleStep
    <2>2. CASE \E n \in BrowserNames : AddOrGetBrowser(t, n)
      BY <2>1, <2>2, AskKept
    <2>3. CASE \E n \in PlainNames : \E h \in refs[n] : ReleaseBrowserHandle(t, n, h)
      BY <2>1, <2>3, GiveBackKept
    <2>4. CASE \E n \in ViewNames : CreateView(t, n)
      BY <2>1, <2>4, AskViewKept
    <2>5. CASE \E v \in views : DestroyView(t, v)
      BY <2>1, <2>5, DestroyViewKept
    <2>6. CASE Acquire(t) \/ Build(t) \/ DropHandle(t) \/ ForgetClosing(t)
      BY <2>1, <2>6, AcquireKept, BuildKept, DropKept, ForgetKept
    <2>7. CASE Reserve(t) \/ Unreserve(t) \/ Publish(t) \/ ReleaseBrowser(t)
      BY <2>1, <2>7, ReserveKept, UnreserveKept, PublishKept, ReleaseViewKept
    <2> QED BY <1>2, <2>2, <2>3, <2>4, <2>5, <2>6, <2>7 DEF HandleStep
  <1>3. ASSUME NEW t \in Threads, SurfaceStep(t), UNCHANGED <<handles, viewBook, notices>> PROVE Rules'
    <2>1. CASE \E n \in SurfaceNames : CreateSurface(t, n)
      BY <1>3, <2>1, AskSurfaceKept
    <2>2. CASE \E s \in surfaces : DestroySurface(t, s)
      BY <1>3, <2>2, DestroySurfaceKept
    <2>3. CASE CheckOpen(t) \/ Add(t) \/ FreeName(t) \/ PublishSurface(t)
      BY <1>3, <2>3, CheckKept, AddKept, FreeNameKept, PublishSurfaceKept
    <2> QED BY <1>3, <2>1, <2>2, <2>3 DEF SurfaceStep
  <1>4. ASSUME NEW t \in Threads, NEW k \in Callbacks, RegisterOnShutdown(t, k) PROVE Rules'
    BY <1>4, RegisterKept
  <1>5. ASSUME TaskStep PROVE Rules'
    BY <1>5, RunTaskKept DEF TaskStep
  <1>6. ASSUME ShutdownStep PROVE Rules'
    <2>1. CASE TellNext
      <3>1. ASSUME NEW k \in pending, Tell(k), pending' = pending \ {k}, UNCHANGED frame PROVE Rules'
        BY <2>1, <3>1, ToldKept
      <3>2. ASSUME pending = {}, Turns(Main, "clearBook"), UNCHANGED <<pending, told>> PROVE Rules'
        BY <2>1, <3>2, AllToldKept
      <3> QED BY <2>1, <3>1, <3>2, TellIs DEF Inv
    <2> QED BY <1>6, <2>1, CloseAdmissionKept, CloseViewsKept, ClearViewsKept, CloseSurfacesKept,
               TakeSurfacesKept, SwapKept, ClearBookKept DEF ShutdownStep
  <1>7. ASSUME Rest PROVE Rules'
    BY <1>7, StutterKept DEF Rest, Inv
  <1> QED BY <1>1, <1>2, <1>3, <1>4, <1>5, <1>6, <1>7 DEF Next

\* The whole invariant holds of every reachable state: what the three books say
\* of the list of layers, of one another and of the calls under way
\* (PublicAPIController, ViewAPIController, RenderLayerAPIController).
THEOREM InvHolds == Spec => []Inv
  <1>1. Inv /\ [Next]_vars => Inv'
    BY KindsKept, RulesKept, StutterKept DEF Inv
  <1> QED BY InitInv, <1>1, PTL DEF Spec
-----------------------------------------------------------------------------
(* What the runs check.                                                    *)

LEMMA RunningIs == ASSUME Kinds, NEW m, NEW n PROVE m \in Running(n) <=> <<m, n>> \in running
  BY DEF Running, Kinds, TypeOK, ListTypeOK

LEMMA HeldLayersLiveInv == ASSUME Inv PROVE HeldLayersLive
  <1> SUFFICES ASSUME ~publicClosing PROVE
        /\ \A n \in BrowserNames : refs[n] # {} => layers[n] = browser[n] /\ browser[n] \in Running(n)
        /\ \A v \in views : v.view \in refs[v.name] /\ v.menu = browser[v.name]
        /\ \A s \in surfaces : layers[s.name] = s.surface /\ s.surface \in Running(s.name)
        /\ \A n \in BrowserNames : Cardinality(Running(n)) <= 1
    BY DEF HeldLayersLive
  <1>1. Kinds /\ Known /\ Book /\ ViewBook
    BY DEF Inv, Rules, Throughout, MainIs
  <1>2. \A n \in Names : layers[n] # None => layers[n] \in Running(n)
    BY <1>1, RunningIs DEF Book, Named
  <1>3. \A n \in BrowserNames : refs[n] # {} => layers[n] = browser[n] /\ browser[n] \in Running(n)
    BY <1>1, <1>2 DEF Known, Book, Browsers, UsedIsListed, Names
  <1>4. \A v \in views : v.view \in refs[v.name] /\ v.menu = browser[v.name]
    BY <1>1 DEF ViewBook, ViewsOwn, Owns
  <1>5. ASSUME NEW s \in surfaces PROVE layers[s.name] = s.surface /\ s.surface \in Running(s.name)
    <2>1. s.name \in Names /\ s.surface # None
      BY <1>1, BooksAre, Nobody DEF Names
    <2> QED BY <1>1, <1>2, <2>1 DEF Book, SurfaceBook, SurfacesListed
  <1>6. ASSUME NEW n \in BrowserNames PROVE Cardinality(Running(n)) <= 1
    <2>1. \A l, m \in Running(n) : l = m
      <3>1. \A m \in Running(n) : m \in Calls /\ <<m, n>> \in running
        BY <1>1, RunningIs DEF Kinds, TypeOK, ListTypeOK
      <3> QED BY <1>1, <3>1 DEF Book, OneEach
    <2>2. CASE Running(n) = {}
      BY <2>2, FS_EmptySet
    <2>3. ASSUME NEW m \in Running(n) PROVE Cardinality(Running(n)) <= 1
      <3>1. Running(n) = {m}
        BY <2>1
      <3>2. Cardinality({m}) = 1
        BY FS_Singleton, Zenon
      <3> QED BY <3>1, <3>2
    <2> QED BY <2>2, <2>3
  <1> QED BY <1>3, <1>4, <1>5, <1>6

\* Until the platform is shut down, what a consumer holds is there, whatever the
\* other threads do: each handle, view and surface stands for the layer listed
\* under its name, which has not been shut, and no name has two browsers.
THEOREM HeldIsLive == Spec => []HeldLayersLive
  BY InvHolds, HeldLayersLiveInv, PTL

LEMMA NamesComeBackInv == ASSUME Inv PROVE NamesComeBack
  <1> SUFFICES ASSUME ~publicClosing, tasks = {}, \A t \in Threads : At(t, "idle") PROVE
        /\ closing = {} /\ viewNames = {v.name : v \in views} /\ surfNames = {s.name : s \in surfaces}
        /\ {n \in Names : layers[n] # None} = {n \in BrowserNames : refs[n] # {}} \cup surfNames
    BY DEF NamesComeBack
  <1>1. Kinds /\ Known /\ Reserved /\ Book /\ ViewBook
    BY DEF Inv, Rules, Throughout, MainIs
  <1>2. \A t \in Threads : frame[t].at = "idle"
    BY DEF At
  <1>3. closing = {}
    BY <1>1, <1>2 DEF Kinds, TypeOK, HandlesTypeOK, Book, Browsers, ClosingEnds, Ending
  <1>4. viewNames = {v.name : v \in views}
    BY <1>1, <1>2 DEF Reserved, Reserving, ViewBook, ViewsOwn
  <1>5. surfNames = {s.name : s \in surfaces}
    BY <1>1, <1>2 DEF Book, SurfaceBook, TakenAreUsed, SurfacesListed, Making
  <1>6. \A n \in BrowserNames : layers[n] # None <=> refs[n] # {}
    BY <1>1, <1>3 DEF Known, Book, Browsers, UsedIsListed, UnusedIsGone
  <1>7. \A n \in SurfaceNames : layers[n] # None <=> n \in surfNames
    <2>1. \A s \in surfaces : layers[s.name] = s.surface /\ s.surface # None /\ s.name \in surfNames
      BY <1>1, BooksAre, Nobody DEF Book, SurfaceBook, SurfacesListed
    <2> QED BY <1>1, <1>2, <1>5, <2>1 DEF Book, SurfaceBook, ListedAreHeld, Held
  <1>8. surfNames \subseteq SurfaceNames
    BY <1>1 DEF Kinds, TypeOK, SurfacesTypeOK
  <1>9. ASSUME NEW n PROVE n \in {x \in Names : layers[x] # None} <=> n \in {x \in BrowserNames : refs[x] # {}} \cup surfNames
    BY <1>6, <1>7, <1>8, NamesAssumption DEF Names
  <1> QED BY <1>3, <1>4, <1>5, <1>9

\* When no call is under way before the shutdown, no name is refused that nobody
\* uses and no layer is listed that nobody holds, on whatever way each call ended.
THEOREM NamesAreReturned == Spec => []NamesComeBack
  BY InvHolds, NamesComeBackInv, PTL

LEMMA NothingLeftInv == ASSUME Inv PROVE ShutdownLeavesNothing
  <1> SUFFICES ASSUME frame[Main].at = "done", \A t \in Threads : frame[t].at \in {"idle", "done"} PROVE
        /\ \A n \in Names : layers[n] = None /\ Running(n) = {}
        /\ \A n \in BrowserNames : refs[n] = {}
        /\ views = {} /\ viewNames = {} /\ closing = {}
        /\ surfaces = {} /\ surfNames = {}
        /\ registered = {} /\ pending = {}
        /\ \A k \in Callbacks : told[k] = IF k \in asked THEN 1 ELSE 0
    BY DEF ShutdownLeavesNothing, At, Resting
  <1>1. Kinds /\ Ended /\ Hands /\ Reserved /\ Notified
    BY DEF Inv, Rules, Throughout
  <1>2. /\ views = {} /\ surfaces = {} /\ surfNames = {} /\ registered = {} /\ pending = {} /\ closing = {}
        /\ \A n \in BrowserNames : refs[n] = {}
    BY <1>1 DEF Ended, Stage, AfterViews, AfterSurfaces, AfterBook
  <1>3. \A n \in Names : layers[n] = None
    BY <1>1 DEF Ended, Stage, Held
  <1>4. ASSUME NEW n \in Names PROVE Running(n) = {}
    <2>1. ASSUME NEW m \in Running(n) PROVE FALSE
      <3>1. <<m, n>> \in running /\ m \in Calls
        BY <1>1, RunningIs DEF Kinds, TypeOK, ListTypeOK
      <3> QED BY <1>1, <1>3, <3>1, Nobody DEF Hands
    <2> QED BY <2>1
  <1>5. viewNames = {}
    BY <1>1, <1>2 DEF Reserved, Reserving
  <1>6. \A k \in Callbacks : told[k] = IF k \in asked THEN 1 ELSE 0
    BY <1>1, <1>2 DEF Notified, Waits
  <1> QED BY <1>2, <1>3, <1>4, <1>5, <1>6

\* Whatever calls a shutdown runs into on other threads, once it is done and they
\* have returned no layer is listed or runs, no handle, view or surface is valid,
\* no name is taken, and each function that RegisterOnShutdown was given has been
\* called once.
THEOREM NothingIsLeft == Spec => []ShutdownLeavesNothing
  BY InvHolds, NothingLeftInv, PTL
=============================================================================
