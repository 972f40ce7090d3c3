------------------------- MODULE JsCallbacks_proofs -------------------------
(***************************************************************************)
(* For every set of browsers and functions, every discipline of releases   *)
(* and every bound on the task queue: JsCallbacks keeps its types, no      *)
(* function of a browser runs beyond that browser's BeginShutdown, and a   *)
(* drain that has begun always has somebody who will end it.               *)
(*                                                                         *)
(* Behind it, for every set of names and any number of calls, documents    *)
(* and messages: PageBindings runs scripts in the order of the calls, and  *)
(* its registrations reach every page.                                     *)
(***************************************************************************)
EXTENDS JsCallbacks, PageBindings, TLAPS

(***************************************************************************)
(* The inductive invariant, in named parts.                                *)
(***************************************************************************)
InCall(t, b) == inside[t] = b /\ stage[t] \in {"admitted", "run"}
ShutsDown(t, b) == at[t] # "idle" /\ on[t] = b

\* A frame on a thread's stack names its browser and function; the render
\* thread has none.
Stacks ==
  /\ \A t \in Threads : stage[t] # "none" => inside[t] \in Browsers /\ fn[t] \in Funcs
  /\ stage[Render] = "none"

\* m_activeCallbackCount is the number of threads inside.
Counts == \A b \in Browsers : active[b] = Depth(Game, b) + Depth(UI, b)

\* A browser is shut down by one thread at a time: the one that took it off
\* the list, or the one that dropped the last reference.
Owners ==
  /\ \A t \in Threads : at[t] # "idle" => on[t] \in Browsers
  /\ \A t \in Threads, b \in Browsers :
       /\ b \in toShut[t] => /\ t \in holders[b] /\ Compositor \notin holders[b]
                             /\ \A u \in Threads : ~ShutsDown(u, b) /\ (b \in toShut[u] => u = t)
       /\ ShutsDown(t, b) => /\ Compositor \notin holders[b]
                             /\ t \in holders[b] \/ holders[b] = {}
                             /\ \A u \in Threads : ShutsDown(u, b) => u = t

\* Which thread waits, and what has been promised, decides the drain's state.
Drains ==
  /\ \A t \in Threads : at[t] = "waitActive" => drain[on[t]] = "draining" /\ ~cleared[on[t]]
  /\ \A b \in Browsers :
       /\ fenced[b] # {} => drain[b] # "accepting"
       /\ drain[b] = "drained" => active[b] = 0

\* A drain that has begun is waited for by its owner, or its owner has left and
\* the callbacks still inside will end it (EndFunctionCallback).
DrainIsOwned ==
  \A b \in Browsers : drain[b] = "draining" =>
    \/ \E t \in Threads : at[t] = "waitActive" /\ on[t] = b
    \/ cleared[b] /\ active[b] > 0 /\ fenced[b] # {}

IInv == TypeOK /\ Stacks /\ Counts /\ Owners /\ Drains /\ DrainIsOwned /\ CallbacksQuiet

-----------------------------------------------------------------------------
(***************************************************************************)
(* Lemmas.                                                                 *)
(***************************************************************************)

\* s_callbackDepth is 0 or 1, and the count is that of the threads inside.
LEMMA Depths ==
  ASSUME IInv, NEW b \in Browsers
  PROVE  /\ \A t \in Threads : Depth(t, b) \in {0, 1} /\ (Depth(t, b) > 0 <=> InCall(t, b))
         /\ active[b] = Depth(Game, b) + Depth(UI, b)
         /\ \A t \in Threads : Depth(t, b) > 0 => t \in {Game, UI}
  BY SMT DEF IInv, Stacks, Counts, Depth, InCall, Threads

\* Only whose stack changes can change the depths.
LEMMA DepthsKept ==
  ASSUME UNCHANGED stack
  PROVE  \A t, b : Depth(t, b)' = Depth(t, b)
  BY DEF stack, Depth

\* The initial states.
LEMMA InitIInv == Init => IInv
  <1> SUFFICES ASSUME Init PROVE IInv
    OBVIOUS
  <1>1. TypeOK
    BY CallbackAssumption, SMT DEF Init, TypeOK, Threads
  <1>2. Stacks /\ Counts
    BY SMT DEF Init, Stacks, Counts, Depth, Threads
  <1>3. Owners
    BY CallbackAssumption, SMT DEF Init, Owners, ShutsDown, Threads
  <1>4. Drains /\ DrainIsOwned /\ CallbacksQuiet
    BY SMT DEF Init, Drains, DrainIsOwned, CallbacksQuiet
  <1> QED
    BY <1>1, <1>2, <1>3, <1>4 DEF IInv

\* A step that leaves storage, stacks and calls alone keeps what is said of them.
LEMMA StorageKept ==
  ASSUME IInv, UNCHANGED <<drain, cleared, active, stack, call>>
  PROVE  Stacks' /\ Counts' /\ Drains' /\ DrainIsOwned' /\ CallbacksQuiet'
  <1>1. \A t, b : Depth(t, b)' = Depth(t, b)
    BY DepthsKept
  <1>2. Stacks' /\ Counts'
    BY <1>1 DEF IInv, Stacks, Counts, stack
  <1>3. Drains' /\ DrainIsOwned'
    BY DEF IInv, Drains, DrainIsOwned, call
  <1>4. CallbacksQuiet'
    BY <1>1 DEF IInv, CallbacksQuiet, call
  <1> QED
    BY <1>2, <1>3, <1>4

\* The parts of a step that touch neither owners nor calls.
LEMMA OwnersKept ==
  ASSUME IInv, UNCHANGED <<owners, at, on>>
  PROVE  Owners'
  BY DEF IInv, Owners, ShutsDown, owners

-----------------------------------------------------------------------------
(***************************************************************************)
(* Calls of pages.                                                         *)
(***************************************************************************)

\* A call begins: its frame is not inside yet (Receive, StartTask).
LEMMA BeginsKeep ==
  ASSUME IInv, NEW t \in {Game, UI}, NEW b \in Browsers, NEW f \in Funcs,
         stage[t] = "none", Frame(t, b, f, "begin"),
         UNCHANGED <<storage, quiesced, owners, call>>,
         tasks' \in Seq(Browsers \X Queued), Len(tasks') <= MaxTasks
  PROVE  IInv'
  <1>1. TypeOK'
    BY SMT DEF IInv, TypeOK, Frame, storage, owners, call, Threads
  <1>2. \A u, c : Depth(u, c)' = Depth(u, c)
    <2>1. t \in Threads /\ inside \in [Threads -> Browsers \cup {NoBrowser}]
          /\ stage \in [Threads -> {"none", "begin", "admitted", "run"}]
      BY DEF IInv, TypeOK, Threads
    <2> QED
      BY <2>1, SMT DEF Frame, Depth
  <1>3. Stacks'
    BY CallbackAssumption, SMT DEF IInv, TypeOK, Stacks, Frame, Threads
  <1>4. Counts' /\ CallbacksQuiet'
    BY <1>2, SMT DEF IInv, Counts, CallbacksQuiet, storage, call
  <1>5. Owners' /\ Drains' /\ DrainIsOwned'
    BY SMT DEF IInv, Owners, Drains, DrainIsOwned, ShutsDown, storage, owners, call
  <1> QED
    BY <1>1, <1>3, <1>4, <1>5 DEF IInv

LEMMA ReceiveKeeps ==
  ASSUME IInv, NEW b \in Browsers, NEW f \in Funcs, Receive(b, f)
  PROVE  IInv'
  <1>1. CASE f \in Queued /\ Len(tasks) < MaxTasks /\ tasks' = Append(tasks, <<b, f>>)
             /\ UNCHANGED stack
    <2>1. TypeOK'
      <3>1. tasks' \in Seq(Browsers \X Queued) /\ Len(tasks') <= MaxTasks
        BY <1>1, CallbackAssumption, SMT DEF IInv, TypeOK
      <3> QED
        BY <3>1, <1>1 DEF IInv, TypeOK, Receive, storage, owners, stack, call
    <2>2. Stacks' /\ Counts' /\ Drains' /\ DrainIsOwned' /\ CallbacksQuiet'
      BY <1>1, StorageKept DEF Receive, storage, call
    <2>3. Owners'
      BY <1>1, OwnersKept DEF Receive, call
    <2> QED
      BY <2>1, <2>2, <2>3 DEF IInv
  <1>2. CASE Frame(UI, b, f, "begin") /\ UNCHANGED tasks
    BY <1>2, BeginsKeep DEF Receive, IInv, TypeOK
  <1> QED
    BY <1>1, <1>2 DEF Receive

LEMMA StartTaskKeeps ==
  ASSUME IInv, StartTask
  PROVE  IInv'
  <1>1. /\ Head(tasks) \in Browsers \X Queued
        /\ Tail(tasks) \in Seq(Browsers \X Queued) /\ Len(Tail(tasks)) <= MaxTasks
    BY CallbackAssumption, SMT DEF IInv, TypeOK, StartTask
  <1>2. Head(tasks)[1] \in Browsers /\ Head(tasks)[2] \in Funcs
    BY <1>1 DEF Funcs
  <1> QED
    BY <1>1, <1>2, BeginsKeep DEF StartTask

\* TryBeginFunctionCallback: the count and the depth rise together, and only
\* while nobody has been told that the browser is quiet.
LEMMA TryBeginKeeps ==
  ASSUME IInv, NEW t \in Threads, TryBegin(t)
  PROVE  IInv'
  <1> DEFINE b == inside[t]
  <1>0. b \in Browsers /\ fn[t] \in Funcs /\ t \in {Game, UI} /\ Depth(t, b) = 0
    BY SMT DEF IInv, Stacks, TryBegin, Threads, Depth
  <1>1. CASE /\ Admits(b)
             /\ active' = [active EXCEPT ![b] = @ + 1]
             /\ stage' = [stage EXCEPT ![t] = "admitted"]
             /\ UNCHANGED <<inside, fn>>
    <2>1. TypeOK'
      BY <1>0, <1>1, SMT DEF IInv, TypeOK, TryBegin, storage, owners, call
    <2>2. Stacks'
      BY <1>0, <1>1, CallbackAssumption, SMT DEF IInv, TypeOK, Stacks, TryBegin, Threads
    <2>3. \A u \in Threads, c \in Browsers :
            Depth(u, c)' = IF u = t /\ c = b THEN 1 ELSE Depth(u, c)
      BY <1>1, SMT DEF IInv, TypeOK, Depth
    <2>4. Counts'
      <3> SUFFICES ASSUME NEW c \in Browsers
                   PROVE  active'[c] = Depth(Game, c)' + Depth(UI, c)'
        BY DEF Counts
      <3>1. active[c] = Depth(Game, c) + Depth(UI, c)
        BY DEF IInv, Counts
      <3>2. active'[c] = IF c = b THEN active[c] + 1 ELSE active[c]
        BY <1>0, <1>1 DEF IInv, TypeOK
      <3>3. /\ Depth(Game, c)' = IF Game = t /\ c = b THEN 1 ELSE Depth(Game, c)
            /\ Depth(UI, c)' = IF UI = t /\ c = b THEN 1 ELSE Depth(UI, c)
        BY <2>3 DEF Threads
      <3>4. Depth(Game, c) \in {0, 1} /\ Depth(UI, c) \in {0, 1}
        BY Depths DEF Threads
      <3> QED
        BY <1>0, <3>1, <3>2, <3>3, <3>4, CallbackAssumption, SMT
    <2>5. Owners'
      BY OwnersKept DEF TryBegin, call
    <2>6. fenced[b] = {}
      BY <1>0, <1>1 DEF IInv, Drains, Admits
    <2>7. Drains' /\ DrainIsOwned'
      BY <1>0, <1>1, SMT DEF IInv, TypeOK, Drains, DrainIsOwned, TryBegin, Admits, call
    <2>8. CallbacksQuiet'
      BY <2>3, <2>6, SMT DEF IInv, CallbacksQuiet, TryBegin, call
    <2> QED
      BY <2>1, <2>2, <2>4, <2>5, <2>7, <2>8 DEF IInv
  <1>2. CASE UNCHANGED active /\ Pop(t)
    <2>1. TypeOK'
      BY <1>0, <1>2, SMT DEF IInv, TypeOK, TryBegin, Pop, Frame, storage, owners, call
    <2>2. Stacks'
      BY <1>0, <1>2, CallbackAssumption, SMT DEF IInv, TypeOK, Stacks, Pop, Frame, Threads
    <2>3. \A u \in Threads, c \in Browsers : Depth(u, c)' = Depth(u, c)
      BY <1>0, <1>2, CallbackAssumption, SMT DEF IInv, TypeOK, Depth, Pop, Frame, TryBegin
    <2>4. Counts' /\ CallbacksQuiet'
      BY <1>2, <2>3, SMT DEF IInv, Counts, CallbacksQuiet, Threads, TryBegin, call
    <2>5. Owners' /\ Drains' /\ DrainIsOwned'
      BY <1>2, OwnersKept, SMT DEF IInv, Drains, DrainIsOwned, TryBegin, call
    <2> QED
      BY <2>1, <2>2, <2>4, <2>5 DEF IInv
  <1> QED
    BY <1>1, <1>2 DEF TryBegin, Refused

\* EndFunctionCallback: the last one out of a drain that its owner has left
\* ends the drain; every other leaves somebody inside or its owner waiting.
LEMMA EndCallbackKeeps ==
  ASSUME IInv, NEW t \in Threads, stage[t] \in {"admitted", "run"}, EndCallback(t),
         UNCHANGED <<funcs, cleared, quiesced, owners, tasks, call>>
  PROVE  IInv'
  <1> DEFINE b == inside[t]
  <1>0. b \in Browsers /\ t \in {Game, UI} /\ Depth(t, b) = 1
    BY SMT DEF IInv, Stacks, Threads, Depth
  <1>1. active[b] = Depth(Game, b) + Depth(UI, b) /\ active[b] \in Nat /\ active[b] > 0
    <2>1. active[b] = Depth(Game, b) + Depth(UI, b)
          /\ Depth(Game, b) \in {0, 1} /\ Depth(UI, b) \in {0, 1}
      BY <1>0, Depths DEF Threads
    <2> QED
      BY <1>0, <2>1, SMT
  <1>2. /\ active' = [active EXCEPT ![b] = @ - 1]
        /\ drain' = [drain EXCEPT ![b] = IF @ = "draining" /\ cleared[b] /\ active[b] = 1
                                          THEN "drained" ELSE @]
        /\ Pop(t)
    BY DEF EndCallback, LastOutDrains
  <1>3. TypeOK'
    BY <1>0, <1>1, <1>2, SMT DEF IInv, TypeOK, Pop, Frame, owners, call
  <1>4. Stacks'
    BY <1>0, <1>2, CallbackAssumption, SMT DEF IInv, TypeOK, Stacks, Pop, Frame, Threads
  <1>5. \A u \in Threads, c \in Browsers : Depth(u, c)' = IF u = t THEN 0 ELSE Depth(u, c)
    BY <1>0, <1>2, CallbackAssumption, SMT DEF IInv, TypeOK, Depth, Pop, Frame
  <1>6. \A c \in Browsers : Depth(t, c) = IF c = b THEN 1 ELSE 0
    BY <1>0, SMT DEF Depth
  <1>7. Counts'
    BY <1>0, <1>1, <1>2, <1>5, <1>6, CallbackAssumption, SMT DEF IInv, TypeOK, Counts, Threads, Depth
  <1>8. Owners'
    BY OwnersKept DEF call
  <1>9. Drains' /\ DrainIsOwned'
    BY <1>0, <1>1, <1>2, SMT DEF IInv, TypeOK, Drains, DrainIsOwned, call
  <1>10. CallbacksQuiet'
    BY <1>5, SMT DEF IInv, CallbacksQuiet, call
  <1> QED
    BY <1>3, <1>4, <1>7, <1>8, <1>9, <1>10 DEF IInv

LEMMA LookupKeeps ==
  ASSUME IInv, NEW t \in Threads, Lookup(t)
  PROVE  IInv'
  <1>1. CASE stage' = [stage EXCEPT ![t] = "run"] /\ UNCHANGED <<active, drain, inside, fn>>
    <2>1. TypeOK'
      BY <1>1, SMT DEF IInv, TypeOK, Lookup, owners, call
    <2>2. Stacks'
      BY <1>1, SMT DEF IInv, TypeOK, Stacks, Lookup, Threads
    <2>3. \A u \in Threads, c \in Browsers : Depth(u, c)' = Depth(u, c)
      BY <1>1, SMT DEF IInv, TypeOK, Depth, Lookup
    <2>4. Counts' /\ CallbacksQuiet'
      BY <1>1, <2>3, SMT DEF IInv, Counts, CallbacksQuiet, Threads, Lookup, call
    <2>5. Owners' /\ Drains' /\ DrainIsOwned'
      BY <1>1, OwnersKept, SMT DEF IInv, Drains, DrainIsOwned, Lookup, call
    <2> QED
      BY <2>1, <2>2, <2>4, <2>5 DEF IInv
  <1>2. CASE EndCallback(t)
    BY <1>2, EndCallbackKeeps DEF Lookup
  <1> QED
    BY <1>1, <1>2 DEF Lookup

LEMMA ReturnKeeps ==
  ASSUME IInv, NEW t \in Threads, Return(t)
  PROVE  IInv'
  BY EndCallbackKeeps DEF Return

LEMMA BindingsKeep ==
  ASSUME IInv, NEW b \in Browsers, NEW f \in Funcs,
         AddFunction(b, f) \/ RemoveFunction(b, f)
  PROVE  IInv'
  <1>1. /\ funcs' \in [Browsers -> SUBSET Funcs]
        /\ UNCHANGED <<drain, cleared, active, quiesced, owners, tasks, stack, call>>
    <2>1. CASE AddFunction(b, f)
      BY <2>1 DEF IInv, TypeOK, AddFunction
    <2>2. CASE RemoveFunction(b, f)
      BY <2>2 DEF IInv, TypeOK, RemoveFunction
    <2> QED
      BY <2>1, <2>2
  <1>2. TypeOK'
    BY <1>1 DEF IInv, TypeOK, owners, stack, call
  <1> QED
    BY <1>1, <1>2, StorageKept, OwnersKept DEF IInv, call

-----------------------------------------------------------------------------
(***************************************************************************)
(* Owners.                                                                 *)
(***************************************************************************)

\* Menus pass from the list to one thread, which has none of its own.
LEMMA TakeKeeps ==
  ASSUME IInv, NEW t \in Threads, NEW B \in SUBSET Listed, toShut[t] = {}, Take(t, B),
         UNCHANGED <<storage, quiesced, tasks, stack, call>>
  PROVE  IInv'
  <1>1. TypeOK'
    BY SMT DEF IInv, TypeOK, Take, Listed, storage, stack, call, Threads
  <1>2. Owners'
    <2>1. \A b \in Browsers : holders'[b] = IF b \in B THEN (holders[b] \ {Compositor}) \cup {t}
                                                        ELSE holders[b]
      BY DEF Take
    <2>2. \A u \in Threads : toShut'[u] = IF u = t THEN B ELSE toShut[u]
      BY DEF Take, IInv, TypeOK
    <2>3. \A b \in B : b \in Browsers /\ Compositor \in holders[b]
      BY DEF Listed
    <2>4. \A u \in Threads, b \in Browsers : ShutsDown(u, b)' <=> ShutsDown(u, b)
      BY DEF ShutsDown, call
    <2>5. Compositor # t
      BY CallbackAssumption
    <2>6. ASSUME NEW u \in Threads, NEW b \in Browsers, b \in toShut'[u]
          PROVE  /\ u \in holders'[b] /\ Compositor \notin holders'[b]
                 /\ \A w \in Threads : ~ShutsDown(w, b)' /\ (b \in toShut'[w] => w = u)
      <3>1. CASE u = t
        <4>1. b \in B /\ Compositor \in holders[b]
          BY <2>2, <2>3, <2>6, <3>1
        <4>2. \A w \in Threads : ~ShutsDown(w, b) /\ b \notin toShut[w]
          BY <4>1 DEF IInv, Owners
        <4> QED
          BY <2>1, <2>2, <2>4, <2>5, <3>1, <4>1, <4>2
      <3>2. CASE u # t
        <4>1. b \in toShut[u] /\ b \notin B
          BY <2>2, <2>3, <2>6, <3>2 DEF IInv, Owners
        <4> QED
          BY <2>1, <2>2, <2>4, <3>2, <4>1 DEF IInv, Owners
      <3> QED
        BY <3>1, <3>2
    <2>7. ASSUME NEW u \in Threads, NEW b \in Browsers, ShutsDown(u, b)'
          PROVE  /\ Compositor \notin holders'[b]
                 /\ u \in holders'[b] \/ holders'[b] = {}
                 /\ \A w \in Threads : ShutsDown(w, b)' => w = u
      <3>1. ShutsDown(u, b)
        BY <2>4, <2>7
      <3>2. b \notin B
        BY <2>3, <3>1 DEF IInv, Owners
      <3> QED
        BY <2>1, <2>4, <3>1, <3>2 DEF IInv, Owners
    <2> QED
      BY <2>6, <2>7 DEF IInv, Owners, call
  <1> QED
    BY <1>1, <1>2, StorageKept DEF IInv, storage, call

LEMMA OwnerStepsKeep ==
  ASSUME IInv, Sweep \/ Snapshot \/ \E t \in Threads, b \in Browsers : RemoveSubMenu(t, b)
  PROVE  IInv'
  <1>1. ASSUME NEW t \in Threads, NEW b \in Browsers, RemoveSubMenu(t, b)
        PROVE  IInv'
    BY <1>1, TakeKeeps DEF RemoveSubMenu, Busy
  <1>2. CASE Sweep
    BY <1>2, TakeKeeps DEF Sweep, Busy, Threads
  <1>3. CASE Snapshot
    <2>1. /\ holders' = [b \in Browsers |-> IF b \in Listed THEN holders[b] \cup {Render}
                                                         ELSE holders[b]]
          /\ UNCHANGED <<storage, quiesced, toShut, tasks, stack, call>>
      BY <1>3 DEF Snapshot
    <2>2. TypeOK'
      BY <2>1, SMT DEF IInv, TypeOK, storage, stack, call, Threads
    <2>3. \A b \in Browsers : Compositor \notin holders[b] => holders'[b] = holders[b]
      BY <2>1 DEF Listed
    <2>4. Owners'
      BY <2>1, <2>3, SMT DEF IInv, Owners, ShutsDown, call
    <2> QED
      BY <2>1, <2>2, <2>4, StorageKept DEF IInv, storage, call
  <1> QED
    BY <1>1, <1>2, <1>3

-----------------------------------------------------------------------------
(***************************************************************************)
(* BeginShutdown.                                                          *)
(***************************************************************************)

\* A thread enters BeginShutdown of a browser nobody else is in.
LEMMA QuiesceKeeps ==
  ASSUME IInv, NEW t \in Threads, NEW b \in Browsers, at[t] = "idle", Quiesce(t, b),
         UNCHANGED <<storage, tasks, stack>>
  PROVE  Stacks' /\ Counts' /\ Drains' /\ DrainIsOwned' /\ CallbacksQuiet'
  <1>1. \A u, c : Depth(u, c)' = Depth(u, c)
    BY DepthsKept
  <1>2. Stacks' /\ Counts' /\ CallbacksQuiet'
    BY <1>1 DEF IInv, Stacks, Counts, CallbacksQuiet, Quiesce, storage, stack
  <1>3. \A u \in Threads : /\ at'[u] = IF u = t THEN "gate" ELSE at[u]
                           /\ on'[u] = IF u = t THEN b ELSE on[u]
    BY DEF IInv, TypeOK, Quiesce
  <1>4. Drains' /\ DrainIsOwned'
    BY <1>3, SMT DEF IInv, Drains, DrainIsOwned, Quiesce, storage
  <1> QED
    BY <1>2, <1>4

LEMMA BeginShutdownKeeps ==
  ASSUME IInv, NEW t \in Threads, NEW b \in Browsers, BeginShutdown(t, b)
  PROVE  IInv'
  <1>1. TypeOK'
    BY SMT DEF IInv, TypeOK, BeginShutdown, Quiesce, storage, stack, Threads
  <1>2. Owners'
    <2>1. \A u \in Threads : /\ at'[u] = IF u = t THEN "gate" ELSE at[u]
                             /\ on'[u] = IF u = t THEN b ELSE on[u]
                             /\ toShut'[u] = IF u = t THEN toShut[t] \ {b} ELSE toShut[u]
      BY DEF IInv, TypeOK, BeginShutdown, Quiesce
    <2>2. /\ t \in holders[b] /\ Compositor \notin holders[b]
          /\ \A u \in Threads : ~ShutsDown(u, b) /\ (b \in toShut[u] => u = t)
      BY DEF IInv, Owners, BeginShutdown
    <2>3. at[t] = "idle" /\ holders' = holders
      BY DEF BeginShutdown
    <2> QED
      BY <2>1, <2>2, <2>3, SMT DEF IInv, Owners, ShutsDown
  <1> QED
    BY <1>1, <1>2, QuiesceKeeps DEF IInv, BeginShutdown

LEMMA DropReferenceKeeps ==
  ASSUME IInv, NEW t \in Threads, NEW b \in Browsers, DropReference(t, b)
  PROVE  IInv'
  <1>0. /\ \A c \in Browsers : holders'[c] = IF c = b THEN holders[b] \ {t} ELSE holders[c]
        /\ t \in holders[b] /\ at[t] = "idle" /\ toShut[t] = {} /\ toShut' = toShut
    BY DEF IInv, TypeOK, DropReference
  <1>1. CASE holders[b] = {t} /\ Quiesce(t, b)
    <2>1. TypeOK'
      BY <1>1, SMT DEF IInv, TypeOK, DropReference, Quiesce, storage, stack, Threads
    <2>2. \A u \in Threads : ~ShutsDown(u, b) /\ b \notin toShut[u]
      BY <1>0, <1>1, SMT DEF IInv, Owners, ShutsDown
    <2>3. \A u \in Threads : /\ at'[u] = IF u = t THEN "gate" ELSE at[u]
                             /\ on'[u] = IF u = t THEN b ELSE on[u]
      BY <1>1 DEF IInv, TypeOK, Quiesce
    <2>4. Compositor # t
      BY CallbackAssumption
    <2>5. Owners'
      BY <1>0, <1>1, <2>2, <2>3, <2>4, SMT DEF IInv, Owners, ShutsDown
    <2> QED
      BY <1>1, <2>1, <2>5, QuiesceKeeps DEF IInv, DropReference
  <1>2. CASE holders[b] # {t} /\ UNCHANGED <<quiesced, call>>
    <2>1. TypeOK'
      BY <1>2, SMT DEF IInv, TypeOK, DropReference, storage, stack, call, Threads
    <2>2. Owners'
      BY <1>0, <1>2, SMT DEF IInv, Owners, ShutsDown, call
    <2> QED
      BY <1>2, <2>1, <2>2, StorageKept DEF IInv, DropReference, storage
  <1> QED
    BY <1>1, <1>2 DEF DropReference

\* Inside BeginShutdown a thread keeps its browser or is through with it.
LEMMA CallOwnersKept ==
  ASSUME IInv, NEW t \in Threads, UNCHANGED owners,
         \A u \in Threads : u # t => at'[u] = at[u] /\ on'[u] = on[u],
         at[t] # "idle", at'[t] = "idle" \/ on'[t] = on[t]
  PROVE  Owners'
  BY SMT DEF IInv, Owners, ShutsDown, owners

LEMMA PassGateKeeps ==
  ASSUME IInv, NEW t \in Threads, PassGate(t)
  PROVE  IInv'
  <1>1. TypeOK'
    BY SMT DEF IInv, TypeOK, PassGate, storage, owners, stack
  <1>2. \A u \in Threads : at'[u] = IF u = t THEN "drain" ELSE at[u]
    BY DEF IInv, TypeOK, PassGate
  <1>3. Owners'
    BY <1>2, CallOwnersKept DEF PassGate
  <1>4. \A u, c : Depth(u, c)' = Depth(u, c)
    BY DepthsKept DEF PassGate
  <1>5. Stacks' /\ Counts' /\ CallbacksQuiet'
    BY <1>4 DEF IInv, Stacks, Counts, CallbacksQuiet, PassGate, storage, stack
  <1>6. Drains' /\ DrainIsOwned'
    BY <1>2, SMT DEF IInv, Drains, DrainIsOwned, PassGate, storage
  <1> QED
    BY <1>1, <1>3, <1>5, <1>6 DEF IInv

\* A thread returns from BeginShutdown: nobody else is inside a callback of the
\* browser, or has to leave it without having been told.
LEMMA ReturnIsQuiet ==
  ASSUME IInv, NEW t \in Threads, at[t] # "idle", EndShutdown(t),
         UNCHANGED <<owners, stack>>,
         \A u \in Threads : Depth(u, on[t]) > 0 => u = t \/ u \in fenced[on[t]]
  PROVE  /\ Owners' /\ Stacks' /\ CallbacksQuiet'
         /\ \A u \in Threads : at'[u] = IF u = t THEN "idle" ELSE at[u]
         /\ \A u \in Threads : u # t => on'[u] = on[u]
         /\ \A b \in Browsers : fenced'[b] # {} <=> b = on[t] \/ fenced[b] # {}
  <1>1. /\ \A u \in Threads : at'[u] = IF u = t THEN "idle" ELSE at[u]
        /\ \A u \in Threads : u # t => on'[u] = on[u]
        /\ \A b \in Browsers : fenced'[b] = IF b = on[t] THEN fenced[b] \cup {t} ELSE fenced[b]
    BY DEF IInv, TypeOK, EndShutdown
  <1>2. Owners'
    BY <1>1, CallOwnersKept
  <1>3. \A u, c : Depth(u, c)' = Depth(u, c)
    BY DepthsKept
  <1>4. Stacks'
    BY DEF IInv, Stacks, stack
  <1>5. CallbacksQuiet'
    BY <1>1, <1>3 DEF IInv, CallbacksQuiet
  <1>6. \A b \in Browsers : fenced'[b] # {} <=> b = on[t] \/ fenced[b] # {}
    BY <1>1
  <1> QED
    BY <1>1, <1>2, <1>4, <1>5, <1>6

\* DrainAndClearFunctionCallbacks as far as its wait.
LEMMA BeginDrainKeeps ==
  ASSUME IInv, NEW t \in Threads, BeginDrain(t)
  PROVE  IInv'
  <1> DEFINE b == on[t]
  <1>0. /\ b \in Browsers /\ at[t] = "drain"
        /\ \A u \in Threads : at[u] # "idle" /\ on[u] = b => u = t
    BY DEF IInv, Owners, ShutsDown, BeginDrain
  <1>a. UNCHANGED <<quiesced, owners, tasks, stack>>
    BY DEF BeginDrain
  <1>b. \A u, c : Depth(u, c)' = Depth(u, c)
    BY <1>a, DepthsKept
  <1>1. CASE drain[b] = "draining" /\ Depth(t, b) > 0 /\ EndShutdown(t) /\ UNCHANGED storage
    <2>1. fenced[b] # {} /\ cleared[b] /\ active[b] > 0
      BY <1>0, <1>1, SMT DEF IInv, DrainIsOwned
    <2>2. \A u \in Threads : Depth(u, b) > 0 => u = t \/ u \in fenced[b]
      BY <1>0, <2>1 DEF IInv, CallbacksQuiet
    <2>3. /\ Owners' /\ Stacks' /\ CallbacksQuiet'
          /\ \A u \in Threads : at'[u] = IF u = t THEN "idle" ELSE at[u]
          /\ \A u \in Threads : u # t => on'[u] = on[u]
          /\ \A c \in Browsers : fenced'[c] # {} <=> c = b \/ fenced[c] # {}
      BY <1>0, <1>1, <1>a, <2>2, ReturnIsQuiet
    <2>4. TypeOK'
      BY <1>0, <1>1, <1>a, SMT DEF IInv, TypeOK, EndShutdown, storage, owners, stack
    <2>5. Counts'
      BY <1>1, <1>b DEF IInv, Counts, storage
    <2>6. Drains' /\ DrainIsOwned'
      BY <1>0, <1>1, <2>1, <2>3, SMT DEF IInv, Drains, DrainIsOwned, storage
    <2> QED
      BY <2>3, <2>4, <2>5, <2>6 DEF IInv
  <1>2. CASE at' = [at EXCEPT ![t] = "waitDrained"] /\ UNCHANGED <<storage, on, fenced>>
    <2>1. TypeOK'
      BY <1>2, <1>a, SMT DEF IInv, TypeOK, storage, owners, stack
    <2>2. \A u \in Threads : at'[u] = IF u = t THEN "waitDrained" ELSE at[u]
      BY <1>2 DEF IInv, TypeOK
    <2>3. Owners'
      BY <1>0, <1>2, <1>a, <2>2, CallOwnersKept
    <2>4. Stacks' /\ Counts' /\ CallbacksQuiet'
      BY <1>2, <1>a, <1>b DEF IInv, Stacks, Counts, CallbacksQuiet, storage, stack
    <2>5. Drains' /\ DrainIsOwned'
      BY <1>0, <1>2, <2>2, SMT DEF IInv, Drains, DrainIsOwned, storage
    <2> QED
      BY <2>1, <2>3, <2>4, <2>5 DEF IInv
  <1>3. CASE /\ drain[b] = "drained" /\ ClearMap(b) /\ EndShutdown(t)
             /\ UNCHANGED <<drain, cleared, active>>
    <2>1. \A u \in Threads : ~(Depth(u, b) > 0)
      <3>1. active[b] = 0
        BY <1>0, <1>3 DEF IInv, Drains
      <3>2. /\ \A u \in Threads : Depth(u, b) \in {0, 1}
            /\ active[b] = Depth(Game, b) + Depth(UI, b)
            /\ \A u \in Threads : Depth(u, b) > 0 => u \in {Game, UI}
        BY <1>0, Depths
      <3> QED
        BY <3>1, <3>2, SMT DEF Threads
    <2>2. /\ Owners' /\ Stacks' /\ CallbacksQuiet'
          /\ \A u \in Threads : at'[u] = IF u = t THEN "idle" ELSE at[u]
          /\ \A u \in Threads : u # t => on'[u] = on[u]
          /\ \A c \in Browsers : fenced'[c] # {} <=> c = b \/ fenced[c] # {}
      BY <1>0, <1>3, <1>a, <2>1, ReturnIsQuiet
    <2>3. TypeOK'
      BY <1>0, <1>3, <1>a, SMT DEF IInv, TypeOK, EndShutdown, ClearMap, owners, stack
    <2>4. Counts'
      BY <1>3, <1>b DEF IInv, Counts
    <2>5. Drains' /\ DrainIsOwned'
      BY <1>0, <1>3, <2>2, SMT DEF IInv, Drains, DrainIsOwned
    <2> QED
      BY <2>2, <2>3, <2>4, <2>5 DEF IInv
  <1>4. CASE /\ drain[b] = "accepting"
             /\ drain' = [drain EXCEPT ![b] = "draining"]
             /\ cleared' = [cleared EXCEPT ![b] = FALSE]
             /\ at' = [at EXCEPT ![t] = "waitActive"]
             /\ UNCHANGED <<funcs, active, on, fenced>>
    <2>1. TypeOK'
      BY <1>0, <1>4, <1>a, SMT DEF IInv, TypeOK, owners, stack
    <2>2. \A u \in Threads : at'[u] = IF u = t THEN "waitActive" ELSE at[u]
      BY <1>4 DEF IInv, TypeOK
    <2>3. Owners'
      BY <1>0, <1>4, <1>a, <2>2, CallOwnersKept
    <2>4. Stacks' /\ Counts' /\ CallbacksQuiet'
      BY <1>4, <1>a, <1>b DEF IInv, Stacks, Counts, CallbacksQuiet, stack
    <2>5. \A c \in Browsers : /\ drain'[c] = IF c = b THEN "draining" ELSE drain[c]
                              /\ c # b => (cleared'[c] <=> cleared[c])
      BY <1>4 DEF IInv, TypeOK
    <2>6. ~cleared'[b]
      BY <1>0, <1>4, Zenon DEF IInv, TypeOK
    <2>7. Drains'
      BY <1>0, <1>4, <2>2, <2>5, <2>6, SMT DEF IInv, Owners, Drains
    <2>8. DrainIsOwned'
      BY <1>0, <1>4, <2>2, <2>5, SMT DEF IInv, DrainIsOwned
    <2> QED
      BY <2>1, <2>3, <2>4, <2>7, <2>8 DEF IInv
  <1> QED
    BY <1>1, <1>2, <1>3, <1>4 DEF BeginDrain

\* The owner's wait is over: only its own callback may still be inside.
LEMMA FinishDrainKeeps ==
  ASSUME IInv, NEW t \in Threads, FinishDrain(t)
  PROVE  IInv'
  <1> DEFINE b == on[t]
  <1>0. /\ b \in Browsers /\ at[t] = "waitActive" /\ drain[b] = "draining"
        /\ \A u \in Threads : at[u] # "idle" /\ on[u] = b => u = t
    BY DEF IInv, Owners, Drains, ShutsDown, FinishDrain
  <1>1. /\ active[b] <= Depth(t, b) /\ ClearMap(b) /\ EndShutdown(t)
        /\ cleared' = [cleared EXCEPT ![b] = TRUE]
        /\ drain' = [drain EXCEPT ![b] = IF active[b] = 0 THEN "drained" ELSE @]
        /\ UNCHANGED <<active, quiesced, owners, tasks, stack>>
    BY DEF FinishDrain, OthersAreOut
  <1>2. \A u, c : Depth(u, c)' = Depth(u, c)
    BY <1>1, DepthsKept
  <1>3. \A u \in Threads : Depth(u, b) > 0 => u = t
    <2>1. /\ \A u \in Threads : Depth(u, b) \in {0, 1}
          /\ active[b] = Depth(Game, b) + Depth(UI, b)
          /\ \A u \in Threads : Depth(u, b) > 0 => u \in {Game, UI}
      BY <1>0, Depths
    <2>2. active[b] <= Depth(t, b)
      BY <1>1
    <2> QED
      BY <2>1, <2>2, CallbackAssumption, SMT DEF Threads
  <1>4. /\ Owners' /\ Stacks' /\ CallbacksQuiet'
        /\ \A u \in Threads : at'[u] = IF u = t THEN "idle" ELSE at[u]
        /\ \A u \in Threads : u # t => on'[u] = on[u]
        /\ \A c \in Browsers : fenced'[c] # {} <=> c = b \/ fenced[c] # {}
    BY <1>0, <1>1, <1>3, ReturnIsQuiet
  <1>5. TypeOK'
    BY <1>0, <1>1, SMT DEF IInv, TypeOK, EndShutdown, ClearMap, owners, stack
  <1>6. Counts'
    BY <1>1, <1>2 DEF IInv, Counts
  <1>7. /\ \A c \in Browsers : /\ drain'[c] = IF c = b /\ active[b] = 0 THEN "drained" ELSE drain[c]
                               /\ c # b => (cleared'[c] <=> cleared[c])
        /\ active[b] \in Nat
    BY <1>0, <1>1 DEF IInv, TypeOK
  <1>8. cleared'[b]
    BY <1>0, <1>1, Zenon DEF IInv, TypeOK
  <1>9. Drains'
    BY <1>0, <1>1, <1>4, <1>7, SMT DEF IInv, Owners, Drains
  <1>10. DrainIsOwned'
    BY <1>0, <1>1, <1>4, <1>7, <1>8, SMT DEF IInv, Owners, DrainIsOwned
  <1> QED
    BY <1>4, <1>5, <1>6, <1>9, <1>10 DEF IInv

LEMMA AwaitDrainedKeeps ==
  ASSUME IInv, NEW t \in Threads, AwaitDrained(t)
  PROVE  IInv'
  <1> DEFINE b == on[t]
  <1>0. b \in Browsers /\ at[t] = "waitDrained" /\ drain[b] = "drained"
    BY DEF IInv, Owners, AwaitDrained
  <1>1. /\ ClearMap(b) /\ EndShutdown(t)
        /\ UNCHANGED <<drain, cleared, active, quiesced, owners, tasks, stack>>
    BY DEF AwaitDrained
  <1>2. \A u \in Threads : ~(Depth(u, b) > 0)
    <2>1. active[b] = 0
      BY <1>0 DEF IInv, Drains
    <2>2. /\ \A u \in Threads : Depth(u, b) \in {0, 1}
          /\ active[b] = Depth(Game, b) + Depth(UI, b)
          /\ \A u \in Threads : Depth(u, b) > 0 => u \in {Game, UI}
      BY <1>0, Depths
    <2> QED
      BY <2>1, <2>2, SMT DEF Threads
  <1>3. /\ Owners' /\ Stacks' /\ CallbacksQuiet'
        /\ \A u \in Threads : at'[u] = IF u = t THEN "idle" ELSE at[u]
        /\ \A u \in Threads : u # t => on'[u] = on[u]
        /\ \A c \in Browsers : fenced'[c] # {} <=> c = b \/ fenced[c] # {}
    BY <1>0, <1>1, <1>2, ReturnIsQuiet
  <1>4. TypeOK'
    BY <1>0, <1>1, SMT DEF IInv, TypeOK, EndShutdown, ClearMap, owners, stack
  <1>5. \A u, c : Depth(u, c)' = Depth(u, c)
    BY <1>1, DepthsKept
  <1>6. Counts'
    BY <1>1, <1>5 DEF IInv, Counts
  <1>7. Drains' /\ DrainIsOwned'
    BY <1>0, <1>1, <1>3, SMT DEF IInv, Drains, DrainIsOwned
  <1> QED
    BY <1>3, <1>4, <1>6, <1>7 DEF IInv

-----------------------------------------------------------------------------
(***************************************************************************)
(* Theorems.                                                               *)
(***************************************************************************)

LEMMA NextKeepsIInv == IInv /\ [Next]_vars => IInv'
  <1> SUFFICES ASSUME IInv, [Next]_vars PROVE IInv'
    OBVIOUS
  <1>1. ASSUME NEW b \in Browsers, NEW f \in Funcs,
               Receive(b, f) \/ AddFunction(b, f) \/ RemoveFunction(b, f)
        PROVE  IInv'
    BY <1>1, ReceiveKeeps, BindingsKeep
  <1>2. CASE StartTask
    BY <1>2, StartTaskKeeps
  <1>3. CASE Sweep \/ Snapshot \/ \E t \in Threads, b \in Browsers : RemoveSubMenu(t, b)
    BY <1>3, OwnerStepsKeep
  <1>4. ASSUME NEW t \in Threads, CallbackStep(t)
        PROVE  IInv'
    BY <1>4, TryBeginKeeps, LookupKeeps, ReturnKeeps DEF CallbackStep
  <1>5. ASSUME NEW t \in Threads, ShutdownStep(t)
        PROVE  IInv'
    BY <1>5, BeginShutdownKeeps, DropReferenceKeeps, PassGateKeeps, BeginDrainKeeps,
       FinishDrainKeeps, AwaitDrainedKeeps DEF ShutdownStep
  <1>6. CASE UNCHANGED vars
    <2>1. TypeOK'
      BY <1>6 DEF IInv, TypeOK, vars, storage, owners, stack, call
    <2> QED
      BY <1>6, <2>1, StorageKept, OwnersKept DEF IInv, vars, storage, owners, call
  <1> QED
    BY <1>1, <1>2, <1>3, <1>4, <1>5, <1>6 DEF Next, Rest

THEOREM Invariance == Spec => []IInv
  BY InitIInv, NextKeepsIInv, PTL DEF Spec

\* The variables keep their types; the count of callbacks never falls below 0.
THEOREM TypeCorrect == Spec => []TypeOK
  <1>1. IInv => TypeOK
    BY DEF IInv
  <1> QED
    BY <1>1, Invariance, PTL

\* JSFunctionStorage, MeridianCefClient: once BeginShutdown of a browser has
\* returned anywhere, its functions run only on threads that shut it down from
\* inside one.  This needs no discipline of the consumers.
THEOREM QuietAfterShutdown == Spec => []CallbacksQuiet
  <1>1. IInv => CallbacksQuiet
    BY DEF IInv
  <1> QED
    BY <1>1, Invariance, PTL

\* A drain never loses its owner: either a thread waits to finish it, or the map
\* is clear and a callback is still inside, whose return finishes it.
THEOREM NoDrainForgotten == Spec => []DrainIsOwned
  <1>1. IInv => DrainIsOwned
    BY DEF IInv
  <1> QED
    BY <1>1, Invariance, PTL

-----------------------------------------------------------------------------
(***************************************************************************)
(* PageBindings: what a page gets of what a consumer registered, for any   *)
(* names, calls and documents.                                             *)
(*                                                                         *)
(* A name that is owed is stored or waits in the cache, a name that waits  *)
(* for its removal is neither, and once a document has been told of, every *)
(* stored name is bound in it or on its way with no removal behind it.  A  *)
(* clearing load leaves a name only if it was registered after it, as long *)
(* as no document comes between that nobody asked for.  The numbers of the *)
(* scripts grow from those that ran over those on their way to those that  *)
(* wait.                                                                   *)
(***************************************************************************)
\* Clearing loads and navigations of the page's own are not mixed.
ApartAssumption == \A h \in Habits : ~({"clear", "navigate"} \subseteq h)

Adds(m, n)    == m.op = "add" /\ n \in m.names
Removes(m, n) == m.op = "remove" /\ n \in m.names

\* What the document has once it has received what is on its way.
Will(n) ==
  \/ n \in bound /\ \A i \in 1..Len(channel) : ~Removes(channel[i], n)
  \/ \E i \in 1..Len(channel) : /\ Adds(channel[i], n)
                                /\ \A j \in 1..Len(channel) : j > i => ~Removes(channel[j], n)

\* A document is on its way, or has been committed and not told of.
Coming == request \/ load \in {"none", "committed"}

\* How far the browser and its page are; and, where pages do not navigate by
\* themselves, a document is asked for only while none is loaded or loading.
Stages ==
  /\ ~created => ~loaded /\ load = "none"
  /\ "navigate" \notin habit => (loaded => load = "ended") /\ (request => ~loaded /\ load \in {"none", "ended"})
  /\ clear => "clear" \in habit

\* Nothing waits while a page is loaded.
Emptied == loaded => addCache = {} /\ removeCache = {} /\ execCache = <<>>

\* The registrations that are owed, and the removals that wait.
Books ==
  /\ owed \subseteq stored \cup addCache
  /\ removeCache \cap (stored \cup addCache) = {}
  /\ clear /\ Coming => owed \subseteq addCache

\* The document gets every stored function.
Sent == load \in {"started", "ended"} => \A n \in stored : Will(n)

\* The scripts a document has run, those on their way and those that wait.
Scheduled ==
  /\ \A i \in 1..Len(ran) : ran[i] <= called
  /\ \A i \in 1..Len(channel) : channel[i].op = "run" => channel[i].script <= called
  /\ \A i \in 1..Len(execCache) : execCache[i] <= called
\* Their numbers grow in that order.
Ordered ==
  /\ \A i, j \in 1..Len(ran) : i < j => ran[i] < ran[j]
  /\ \A i \in 1..Len(ran), j \in 1..Len(channel) : channel[j].op = "run" => ran[i] < channel[j].script
  /\ \A i, j \in 1..Len(channel) :
       i < j /\ channel[i].op = "run" /\ channel[j].op = "run" => channel[i].script < channel[j].script
  /\ \A i \in 1..Len(channel), j \in 1..Len(execCache) : channel[i].op = "run" => channel[i].script < execCache[j]
  /\ \A i \in 1..Len(ran), j \in 1..Len(execCache) : ran[i] < execCache[j]
  /\ \A i, j \in 1..Len(execCache) : i < j => execCache[i] < execCache[j]

KInv == PageTypeOK /\ Stages /\ Emptied /\ Books /\ Sent
SInv == PageTypeOK /\ Emptied /\ Scheduled /\ Ordered

\* What stands where in a sequence of messages put behind another.
LEMMA Concatenating ==
  ASSUME NEW s \in Seq(Message), NEW t \in Seq(Message)
  PROVE  /\ s \o t \in Seq(Message) /\ Len(s \o t) = Len(s) + Len(t)
         /\ \A i \in 1..Len(s) : (s \o t)[i] = s[i]
         /\ \A i \in 1..Len(t) : (s \o t)[Len(s) + i] = t[i]
         /\ \A i \in 1..(Len(s) + Len(t)) : i <= Len(s) \/ (i - Len(s) \in 1..Len(t) /\ (s \o t)[i] = t[i - Len(s)])
  OBVIOUS

LEMMA Messages ==
  /\ \A n \in Names, op \in {"add", "remove"} : Binding(op, {n}) \in Message
  /\ \A ns \in SUBSET Names, op \in {"add", "remove"} : Binding(op, ns) \in Message
  /\ \A c \in Scripts : Run(c) \in Message
  /\ \A m \in Message : m.op \in {"add", "remove", "run"} /\ m.names \subseteq Names /\ m.script \in Nat
  /\ \A m \in Message : m.op = "run" => m.script \in Scripts
  BY BindingsAssumption DEF Message, Binding, Run, Scripts

\* What AddCallback and RemoveFunctionCallback send.
One(op, n) == <<Binding(op, {n})>>

LEMMA Alone ==
  ASSUME NEW op \in {"add", "remove"}, NEW n \in Names
  PROVE  /\ One(op, n) \in Seq(Message) /\ Len(One(op, n)) = 1
         /\ \A i \in 1..Len(One(op, n)) : One(op, n)[i].op = op
         /\ \A i \in 1..Len(One(op, n)) : One(op, n)[i].op # "run"
         /\ \A i \in 1..Len(One(op, n)) : One(op, n)[i].names = {n}
  <1>1. PICK b : b = Binding(op, {n})
    OBVIOUS
  <1>2. b \in Message /\ b.op = op /\ b.op # "run" /\ b.names = {n}
    BY <1>1, Messages DEF Binding
  <1>3. One(op, n) = <<b>>
    BY <1>1 DEF One
  <1>4. <<b>> \in Seq(Message) /\ Len(<<b>>) = 1 /\ \A i \in 1..Len(<<b>>) : <<b>>[i] = b
    BY <1>2
  <1> QED BY <1>2, <1>3, <1>4

\* A binding message is left out when it would name nothing.
LEMMA Naming ==
  ASSUME NEW op \in {"add", "remove"}, NEW ns \in SUBSET Names, NEW ms, ms = Nonempty(op, ns)
  PROVE  /\ ms \in Seq(Message) /\ Len(ms) = IF ns = {} THEN 0 ELSE 1
         /\ \A i \in 1..Len(ms) : ms[i].op = op /\ ms[i].names = ns
  <1>1. PICK b : b = Binding(op, ns)
    OBVIOUS
  <1>2. b \in Message /\ b.op = op /\ b.names = ns
    BY <1>1, Messages DEF Binding
  <1>3. ms = IF ns = {} THEN <<>> ELSE <<b>>
    BY <1>1 DEF Nonempty
  <1>4. CASE ns = {}
    BY <1>3, <1>4
  <1>5. CASE ns # {}
    <2>1. ms = <<b>>
      BY <1>3, <1>5
    <2>2. Len(ms) = 1 /\ ms[1] = b /\ ms \in Seq(Message)
      BY <2>1, <1>2
    <2> QED BY <1>2, <1>5, <2>2
  <1> QED BY <1>4, <1>5

\* What OnLoadStart sends, and OnLoadEnd before the scripts.
Registration(adds, removes) == Nonempty("add", adds) \o Nonempty("remove", removes)

LEMMA Registering ==
  ASSUME NEW adds \in SUBSET Names, NEW removes \in SUBSET Names
  PROVE  LET ms == Registration(adds, removes) IN
         /\ ms \in Seq(Message)
         /\ \A i \in 1..Len(ms) : ms[i].op # "run"
         /\ \A i \in 1..Len(ms) : ms[i].op = "add" => ms[i].names = adds
         /\ \A i \in 1..Len(ms) : ms[i].op = "remove" => ms[i].names = removes
         /\ adds # {} => \E i \in 1..Len(ms) : ms[i].op = "add"
  <1>1. PICK a, r, ms : a = Nonempty("add", adds) /\ r = Nonempty("remove", removes) /\ ms = Registration(adds, removes)
    OBVIOUS
  <1>2. /\ a \in Seq(Message) /\ Len(a) = IF adds = {} THEN 0 ELSE 1
        /\ \A i \in 1..Len(a) : a[i].op = "add" /\ a[i].names = adds
    BY <1>1, Naming
  <1>3. /\ r \in Seq(Message)
        /\ \A i \in 1..Len(r) : r[i].op = "remove" /\ r[i].names = removes
    BY <1>1, Naming
  <1>4. ms = a \o r
    BY <1>1 DEF Registration
  <1>5. /\ ms \in Seq(Message) /\ Len(ms) = Len(a) + Len(r)
        /\ \A i \in 1..Len(a) : ms[i] = a[i]
        /\ \A i \in 1..Len(ms) : i <= Len(a) \/ (i - Len(a) \in 1..Len(r) /\ ms[i] = r[i - Len(a)])
    <2>1. a \in Seq(Message) /\ r \in Seq(Message)
      BY <1>2, <1>3
    <2>2. /\ a \o r \in Seq(Message) /\ Len(a \o r) = Len(a) + Len(r)
          /\ \A i \in 1..Len(a) : (a \o r)[i] = a[i]
          /\ \A i \in 1..(Len(a) + Len(r)) : i <= Len(a) \/ (i - Len(a) \in 1..Len(r) /\ (a \o r)[i] = r[i - Len(a)])
      BY <2>1, Concatenating
    <2> QED BY <1>4, <2>2, Zenon
  <1>6. \A i \in 1..Len(ms) : (ms[i].op = "add" /\ ms[i].names = adds) \/ (ms[i].op = "remove" /\ ms[i].names = removes)
    <2> TAKE i \in 1..Len(ms)
    <2>1. CASE i \in 1..Len(a)
      BY <1>2, <1>5, <2>1
    <2>2. CASE i - Len(a) \in 1..Len(r) /\ ms[i] = r[i - Len(a)]
      BY <1>3, <2>2
    <2>3. i \in 1..Len(a) \/ (i - Len(a) \in 1..Len(r) /\ ms[i] = r[i - Len(a)])
      <3>1. Len(a) \in Nat /\ i \in Nat /\ 1 <= i
        BY <1>2, <1>5
      <3>2. i <= Len(a) => i \in 1..Len(a)
        BY <3>1
      <3> QED BY <1>5, <3>2, Zenon
    <2> QED BY <2>1, <2>2, <2>3
  <1>7. ASSUME adds # {} PROVE \E i \in 1..Len(ms) : ms[i].op = "add"
    <2>1. Len(a) = 1
      BY <1>2, <1>7
    <2>2. 1 \in 1..Len(ms) /\ 1 \in 1..Len(a)
      BY <1>3, <1>5, <2>1
    <2>3. ms[1].op = "add"
      BY <1>2, <1>5, <2>2
    <2> QED BY <2>2, <2>3
  <1>8. ms = Registration(adds, removes)
    BY <1>1
  <1> QED BY <1>5, <1>6, <1>7, <1>8

\* The scripts OnLoadEnd sends.
Replay == [i \in 1..Len(execCache) |-> Run(InOrder(execCache)[i])]

LEMMA Scripting ==
  ASSUME execCache \in Seq(Scripts)
  PROVE  /\ Replay \in Seq(Message) /\ Len(Replay) = Len(execCache)
         /\ \A i \in 1..Len(Replay) : Replay[i].op = "run" /\ Replay[i].script = execCache[i]
  <1>1. \A i \in 1..Len(execCache) : Run(execCache[i]) \in Message
    BY Messages
  <1>2. Replay = [i \in 1..Len(execCache) |-> Run(execCache[i])]
    BY DEF Replay, InOrder
  <1>3. Replay \in Seq(Message) /\ Len(Replay) = Len(execCache)
    BY <1>1, <1>2
  <1> QED BY <1>2, <1>3 DEF Run

-----------------------------------------------------------------------------
(* Types, and the caches of a loaded page.                                 *)

LEMMA Appending ==
  ASSUME channel \in Seq(Message), NEW messages \in Seq(Message), Send(messages)
  PROVE  channel' \in Seq(Message)
  BY Concatenating DEF Send

LEMMA TypeInit == PageInit => PageTypeOK /\ Emptied
  <1>1. <<>> \in Seq(Message) /\ <<>> \in Seq(Scripts)
    OBVIOUS
  <1>2. 0 \in 0..MaxCalls /\ 0 \in 0..MaxDocuments
    BY BindingsAssumption
  <1> QED BY <1>1, <1>2 DEF PageInit, PageTypeOK, Emptied

LEMMA TypeStep ==
  ASSUME PageTypeOK, Emptied, [PageNext]_pageVars
  PROVE  PageTypeOK' /\ Emptied'
  <1> USE BindingsAssumption
  <1>0. called < MaxCalls => called + 1 \in Scripts /\ called + 1 \in 0..MaxCalls
    BY DEF PageTypeOK, Scripts
  <1>1. ASSUME NEW n \in Names, AddCallback(n) PROVE PageTypeOK' /\ Emptied'
    <2>1. One("add", n) \in Seq(Message)
      BY Alone
    <2>2. channel' \in Seq(Message)
      BY <1>1, <2>1, Appending DEF AddCallback, PageTypeOK, One
    <2>3. addCache' \subseteq Names /\ stored' \subseteq Names /\ removeCache' \subseteq Names \ PromiseNames
      BY <1>1 DEF AddCallback, PageTypeOK, NotRemoved
    <2>4. called' \in 0..MaxCalls /\ owed' \subseteq Names
      BY <1>0, <1>1 DEF AddCallback, PageTypeOK, Call
    <2> QED BY <1>1, <2>2, <2>3, <2>4 DEF AddCallback, PageTypeOK, Emptied
  <1>2. ASSUME NEW n \in Names, RemoveFunctionCallback(n) PROVE PageTypeOK' /\ Emptied'
    <2>1. One("remove", n) \in Seq(Message)
      BY Alone
    <2>2. channel' \in Seq(Message)
      BY <1>2, <2>1, Appending DEF RemoveFunctionCallback, PageTypeOK, One
    <2>3. addCache' \subseteq Names /\ stored' \subseteq Names /\ removeCache' \subseteq Names \ PromiseNames
      BY <1>2 DEF RemoveFunctionCallback, PageTypeOK, Removable
    <2>4. called' \in 0..MaxCalls /\ owed' \subseteq Names
      BY <1>0, <1>2 DEF RemoveFunctionCallback, PageTypeOK, Call
    <2> QED BY <1>2, <2>2, <2>3, <2>4 DEF RemoveFunctionCallback, PageTypeOK, Emptied
  <1>3. CASE ExecuteJavaScript
    <2>1. <<Run(called')>> \in Seq(Message) /\ called' \in Scripts
      BY <1>0, <1>3, Messages DEF ExecuteJavaScript, Call
    <2>2. channel' \in Seq(Message)
      BY <1>3, <2>1, Appending DEF ExecuteJavaScript, PageTypeOK
    <2>3. execCache' \in Seq(Scripts)
      <3>1. \A c \in Scripts : Append(execCache, c) \in Seq(Scripts)
        BY DEF PageTypeOK
      <3>2. execCache' = execCache \/ execCache' = Append(execCache, called')
        BY <1>3 DEF ExecuteJavaScript
      <3>3. execCache \in Seq(Scripts)
        BY DEF PageTypeOK
      <3> QED BY <2>1, <3>1, <3>2, <3>3, Zenon
    <2>4. called' \in 0..MaxCalls
      BY <1>0, <1>3 DEF ExecuteJavaScript, Call
    <2> QED BY <1>3, <2>2, <2>3, <2>4 DEF ExecuteJavaScript, PageTypeOK, Emptied
  <1>4. ASSUME NEW clearing \in BOOLEAN, LoadBrowserURL(clearing) PROVE PageTypeOK' /\ Emptied'
    BY <1>0, <1>4 DEF LoadBrowserURL, NavigateTo, Call, PageTypeOK, Emptied
  <1>5. CASE AfterCreated
    BY <1>5 DEF AfterCreated, NavigateTo, PageTypeOK, Emptied
  <1>6. CASE OnLoadStart
    <2>1. Resends \cup addCache \in SUBSET Names /\ removeCache \in SUBSET Names
      BY DEF PageTypeOK, Resends
    <2>2. Registration(Resends \cup addCache, removeCache) \in Seq(Message)
      BY <2>1, Registering
    <2>5. Send(Registration(Resends \cup addCache, removeCache))
      BY <1>6 DEF OnLoadStart, Registration
    <2>3. channel' \in Seq(Message)
      BY <2>2, <2>5, Appending DEF PageTypeOK
    <2>4. stored' \subseteq Names
      BY <1>6 DEF OnLoadStart, PageTypeOK
    <2> QED BY <1>6, <2>3, <2>4 DEF OnLoadStart, PageTypeOK, Emptied
  <1>7. CASE OnLoadEnd
    <2>1. addCache \in SUBSET Names /\ removeCache \in SUBSET Names
      BY DEF PageTypeOK
    <2>2. Registration(addCache, removeCache) \in Seq(Message)
      BY <2>1, Registering
    <2>3. Replay \in Seq(Message)
      BY Scripting DEF PageTypeOK
    <2>4. channel' \in Seq(Message)
      <3>1. Registration(addCache, removeCache) \o Replay \in Seq(Message)
        BY <2>2, <2>3, Concatenating
      <3>2. Send(Registration(addCache, removeCache) \o Replay)
        BY <1>7 DEF OnLoadEnd, Registration, Replay
      <3> QED BY <3>1, <3>2, Appending DEF PageTypeOK
    <2>5. stored' \subseteq Names
      BY <1>7 DEF OnLoadEnd, PageTypeOK
    <2> QED BY <1>7, <2>4, <2>5 DEF OnLoadEnd, PageTypeOK, Emptied
  <1>8. CASE Commit
    <2>1. <<>> \in Seq(Message) /\ <<>> \in Seq(Scripts)
      OBVIOUS
    <2>2. document' \in 0..MaxDocuments
      BY <1>8 DEF Commit, PageTypeOK
    <2> QED BY <1>8, <2>1, <2>2 DEF Commit, PageTypeOK, Emptied, native
  <1>9. CASE ReceiveMessage
    <2>1. Head(channel) \in Message /\ Tail(channel) \in Seq(Message)
      BY <1>9 DEF ReceiveMessage, PageTypeOK
    <2>2. PICK m : m = Head(channel)
      OBVIOUS
    <2>3. m \in Message /\ m.op \in {"add", "remove", "run"} /\ m.names \subseteq Names
          /\ (m.op = "run" => m.script \in Scripts)
      BY <2>1, <2>2, Messages
    <2>4. bound' \subseteq Names
      BY <1>9, <2>2, <2>3 DEF ReceiveMessage, PageTypeOK
    <2>5. ran' \in Seq(Scripts)
      BY <1>9, <2>2, <2>3 DEF ReceiveMessage, PageTypeOK
    <2> QED BY <1>9, <2>1, <2>4, <2>5 DEF ReceiveMessage, PageTypeOK, Emptied, native
  <1>10. CASE UNCHANGED pageVars
    BY <1>10 DEF pageVars, native, page, PageTypeOK, Emptied
  <1> QED BY <1>1, <1>2, <1>3, <1>4, <1>5, <1>6, <1>7, <1>8, <1>9, <1>10 DEF PageNext, ConsumerStep

-----------------------------------------------------------------------------
(* Scripts.                                                                *)

\* Scripts are numbered by the calls.
LEMMA Numbers ==
  ASSUME PageTypeOK
  PROVE  /\ called \in Nat
         /\ \A i \in 1..Len(ran) : ran[i] \in Nat
         /\ \A i \in 1..Len(execCache) : execCache[i] \in Nat
         /\ \A i \in 1..Len(channel) : channel[i].op = "run" => channel[i].script \in Nat
  <1>1. \A x \in Scripts : x \in Nat
    BY BindingsAssumption DEF Scripts
  <1>2. \A i \in 1..Len(ran) : ran[i] \in Scripts
    BY DEF PageTypeOK
  <1>3. \A i \in 1..Len(execCache) : execCache[i] \in Scripts
    BY DEF PageTypeOK
  <1>4. \A i \in 1..Len(channel) : channel[i] \in Message
    BY DEF PageTypeOK
  <1>5. called \in Nat
    BY BindingsAssumption DEF PageTypeOK
  <1> QED BY <1>1, <1>2, <1>3, <1>4, <1>5, Messages

\* Messages without scripts disturb no order.
LEMMA Unscripted ==
  ASSUME PageTypeOK, PageTypeOK', Scheduled, Ordered, called <= called', UNCHANGED <<ran, execCache>>,
         NEW ms \in Seq(Message), Send(ms), \A i \in 1..Len(ms) : ms[i].op # "run"
  PROVE  Scheduled' /\ Ordered'
  <1>1. /\ Len(channel') = Len(channel) + Len(ms)
        /\ \A i \in 1..Len(channel) : channel'[i] = channel[i]
        /\ \A i \in 1..Len(channel') : i <= Len(channel) \/ (i - Len(channel) \in 1..Len(ms) /\ channel'[i] = ms[i - Len(channel)])
    BY Concatenating DEF Send, PageTypeOK
  <1>2. Len(channel) \in Nat /\ Len(ms) \in Nat
    BY DEF PageTypeOK
  <1>3. \A i \in 1..Len(channel') : channel'[i].op = "run" => i \in 1..Len(channel) /\ channel'[i] = channel[i]
    BY <1>1, <1>2
  <1>4. called \in Nat /\ called' \in Nat
    BY BindingsAssumption DEF PageTypeOK
  <1>5. \A i \in 1..Len(channel) : channel[i].op = "run" => channel[i].script \in Nat
    BY Messages DEF PageTypeOK
  <1>6. (\A i \in 1..Len(ran) : ran[i] \in Nat) /\ \A i \in 1..Len(execCache) : execCache[i] \in Nat
    BY Numbers
  <1>7. Scheduled'
    <2>1. \A i \in 1..Len(ran') : ran'[i] <= called'
      BY <1>4, <1>6 DEF Scheduled
    <2>2. \A i \in 1..Len(channel') : channel'[i].op = "run" => channel'[i].script <= called'
      BY <1>3, <1>4, <1>5 DEF Scheduled
    <2>3. \A i \in 1..Len(execCache') : execCache'[i] <= called'
      BY <1>4, <1>6 DEF Scheduled
    <2> QED BY <2>1, <2>2, <2>3 DEF Scheduled
  <1>8. Ordered'
    BY <1>3 DEF Ordered
  <1> QED BY <1>7, <1>8

\* Where nothing is sent, and the calls have only grown in number.
LEMMA Silent ==
  ASSUME PageTypeOK, PageTypeOK', Scheduled, Ordered, called <= called', UNCHANGED <<ran, execCache, channel>>
  PROVE  Scheduled' /\ Ordered'
  <1>1. called \in Nat /\ called' \in Nat
    BY BindingsAssumption DEF PageTypeOK
  <1>2. \A i \in 1..Len(channel) : channel[i].op = "run" => channel[i].script \in Nat
    BY Messages DEF PageTypeOK
  <1>3. (\A i \in 1..Len(ran) : ran[i] \in Nat) /\ \A i \in 1..Len(execCache) : execCache[i] \in Nat
    BY Numbers
  <1>4. Scheduled'
    <2>1. \A i \in 1..Len(ran) : ran[i] <= called'
      BY <1>1, <1>3 DEF Scheduled
    <2>2. \A i \in 1..Len(channel) : channel[i].op = "run" => channel[i].script <= called'
      BY <1>1, <1>2 DEF Scheduled
    <2>3. \A i \in 1..Len(execCache) : execCache[i] <= called'
      BY <1>1, <1>3 DEF Scheduled
    <2> QED BY <2>1, <2>2, <2>3 DEF Scheduled
  <1>5. Ordered'
    BY DEF Ordered
  <1> QED BY <1>4, <1>5

\* A call takes the next number.
LEMMA Calling ==
  ASSUME PageTypeOK, Call
  PROVE  called \in Nat /\ called' = called + 1 /\ called <= called' /\ called < called'
  BY BindingsAssumption DEF PageTypeOK, Call

\* A script is sent or waits behind all the earlier ones.
LEMMA ExecuteKeepsOrder ==
  ASSUME PageTypeOK, PageTypeOK', Emptied, Scheduled, Ordered, ExecuteJavaScript
  PROVE  Scheduled' /\ Ordered'
  <1>1. called \in Nat /\ called' = called + 1 /\ called <= called' /\ called < called' /\ called' \in Nat
    BY Calling DEF ExecuteJavaScript
  <1>2. \A i \in 1..Len(channel) : channel[i].op = "run" => channel[i].script \in Nat
    BY Messages DEF PageTypeOK
  <1>3. (\A i \in 1..Len(ran) : ran[i] \in Nat) /\ \A i \in 1..Len(execCache) : execCache[i] \in Nat
    BY Numbers
  <1>4. ran' = ran
    BY DEF ExecuteJavaScript
  <1>5. CASE loaded
    <2>1. channel' = Append(channel, Run(called')) /\ execCache' = execCache
      BY <1>5 DEF ExecuteJavaScript, Send, PageTypeOK
    <2>2. Len(channel) \in Nat /\ Len(channel') = Len(channel) + 1
      BY <2>1 DEF PageTypeOK
    <2>3. \A i \in 1..Len(channel') : (i \in 1..Len(channel) /\ channel'[i] = channel[i]) \/ (i = Len(channel) + 1 /\ channel'[i].script = called')
      BY <2>1, <2>2 DEF PageTypeOK, Run
    <2>4. execCache = <<>> /\ Len(execCache) = 0
      BY <1>5 DEF Emptied
    <2>5. Scheduled'
      <3>1. \A i \in 1..Len(ran') : ran'[i] <= called'
        BY <1>1, <1>3, <1>4 DEF Scheduled
      <3>2. \A i \in 1..Len(channel') : channel'[i].op = "run" => channel'[i].script <= called'
        BY <1>1, <1>2, <2>3 DEF Scheduled
      <3> QED BY <2>1, <2>4, <3>1, <3>2 DEF Scheduled
    <2>6. Ordered'
      <3>1. \A i \in 1..Len(ran'), j \in 1..Len(channel') : channel'[j].op = "run" => ran'[i] < channel'[j].script
        BY <1>1, <1>3, <1>4, <2>3 DEF Scheduled, Ordered
      <3>2. \A i, j \in 1..Len(channel') :
              i < j /\ channel'[i].op = "run" /\ channel'[j].op = "run" => channel'[i].script < channel'[j].script
        BY <1>1, <1>2, <2>2, <2>3 DEF Scheduled, Ordered
      <3> QED BY <1>4, <2>1, <2>4, <3>1, <3>2 DEF Ordered
    <2> QED BY <2>5, <2>6
  <1>6. CASE ~loaded
    <2>1. execCache' = Append(execCache, called') /\ channel' = channel
      BY <1>6 DEF ExecuteJavaScript
    <2>2. Len(execCache) \in Nat /\ Len(execCache') = Len(execCache) + 1
      BY <2>1 DEF PageTypeOK
    <2>3. \A i \in 1..Len(execCache') : (i \in 1..Len(execCache) /\ execCache'[i] = execCache[i]) \/ (i = Len(execCache) + 1 /\ execCache'[i] = called')
      BY <2>1, <2>2 DEF PageTypeOK
    <2>5. Scheduled'
      BY <1>1, <1>2, <1>3, <1>4, <2>1, <2>3 DEF Scheduled
    <2>6. Ordered'
      <3>1. \A i \in 1..Len(channel'), j \in 1..Len(execCache') : channel'[i].op = "run" => channel'[i].script < execCache'[j]
        BY <1>1, <1>2, <2>1, <2>3 DEF Scheduled, Ordered
      <3>2. \A i \in 1..Len(ran'), j \in 1..Len(execCache') : ran'[i] < execCache'[j]
        <4>1. \A i \in 1..Len(ran) : ran[i] < called'
          BY <1>1, <1>3 DEF Scheduled
        <4> QED BY <1>4, <2>3, <4>1 DEF Ordered
      <3>3. \A i, j \in 1..Len(execCache') : i < j => execCache'[i] < execCache'[j]
        BY <1>1, <1>3, <2>2, <2>3 DEF Scheduled, Ordered
      <3> QED BY <1>4, <2>1, <3>1, <3>2, <3>3 DEF Ordered
    <2> QED BY <2>5, <2>6
  <1> QED BY <1>5, <1>6

\* The scripts that waited are sent behind the earlier ones, in their order.
LEMMA LoadEndKeepsOrder ==
  ASSUME PageTypeOK, PageTypeOK', Scheduled, Ordered, OnLoadEnd
  PROVE  Scheduled' /\ Ordered'
  <1>1. PICK reg : reg = Registration(addCache, removeCache)
    OBVIOUS
  <1>2. reg \in Seq(Message) /\ \A i \in 1..Len(reg) : reg[i].op # "run"
    BY <1>1, Registering DEF PageTypeOK
  <1>3. /\ Replay \in Seq(Message) /\ Len(Replay) = Len(execCache)
        /\ \A i \in 1..Len(Replay) : Replay[i].op = "run" /\ Replay[i].script = execCache[i]
    BY Scripting DEF PageTypeOK
  <1>4. PICK ms : ms = reg \o Replay
    OBVIOUS
  <1>5. /\ ms \in Seq(Message) /\ Len(ms) = Len(reg) + Len(Replay)
        /\ \A i \in 1..Len(ms) : i <= Len(reg) \/ (i - Len(reg) \in 1..Len(Replay) /\ ms[i] = Replay[i - Len(reg)])
        /\ \A i \in 1..Len(reg) : ms[i] = reg[i]
    <2>1. /\ reg \o Replay \in Seq(Message) /\ Len(reg \o Replay) = Len(reg) + Len(Replay)
          /\ \A i \in 1..(Len(reg) + Len(Replay)) : i <= Len(reg) \/ (i - Len(reg) \in 1..Len(Replay) /\ (reg \o Replay)[i] = Replay[i - Len(reg)])
          /\ \A i \in 1..Len(reg) : (reg \o Replay)[i] = reg[i]
      BY <1>2, <1>3, Concatenating
    <2> QED BY <1>4, <2>1, Zenon
  <1>6. channel' = channel \o ms
    BY <1>1, <1>4 DEF OnLoadEnd, Send, Registration, Replay
  <1>7. /\ Len(channel') = Len(channel) + Len(ms)
        /\ \A i \in 1..Len(channel) : channel'[i] = channel[i]
        /\ \A i \in 1..Len(channel') : i <= Len(channel) \/ (i - Len(channel) \in 1..Len(ms) /\ channel'[i] = ms[i - Len(channel)])
    <2>1. channel \in Seq(Message)
      BY DEF PageTypeOK
    <2>2. /\ Len(channel \o ms) = Len(channel) + Len(ms)
          /\ \A i \in 1..Len(channel) : (channel \o ms)[i] = channel[i]
          /\ \A i \in 1..(Len(channel) + Len(ms)) : i <= Len(channel) \/ (i - Len(channel) \in 1..Len(ms) /\ (channel \o ms)[i] = ms[i - Len(channel)])
      BY <1>5, <2>1, Concatenating
    <2> QED BY <1>6, <2>2, Zenon
  <1>8. Len(channel) \in Nat /\ Len(reg) \in Nat /\ Len(execCache) \in Nat /\ Len(channel') \in Nat
    BY <1>2 DEF PageTypeOK
  <1>9. PICK base \in Nat : base = Len(channel) + Len(reg)
    BY <1>8
  <1>10. \A i \in 1..Len(channel') : channel'[i].op = "run" =>
           \/ i \in 1..Len(channel) /\ channel'[i] = channel[i]
           \/ i > Len(channel) /\ i - base \in 1..Len(execCache) /\ channel'[i].script = execCache[i - base]
    <2> SUFFICES ASSUME NEW i \in 1..Len(channel'), channel'[i].op = "run", i \notin 1..Len(channel)
                 PROVE  i > Len(channel) /\ i - base \in 1..Len(execCache) /\ channel'[i].script = execCache[i - base]
      BY <1>7, Zenon
    <2>1. i > Len(channel)
      BY <1>8
    <2>2. PICK k : k = i - Len(channel)
      OBVIOUS
    <2>3. k \in 1..Len(ms) /\ channel'[i] = ms[k]
      BY <1>7, <1>8, <2>1, <2>2
    <2>4. k \notin 1..Len(reg)
      BY <1>2, <1>5, <2>3
    <2>5. k - Len(reg) \in 1..Len(Replay) /\ ms[k] = Replay[k - Len(reg)]
      BY <1>5, <1>8, <2>3, <2>4
    <2>6. k - Len(reg) = i - base
      BY <1>8, <1>9, <2>2
    <2> QED BY <1>3, <2>1, <2>3, <2>5, <2>6
  <1>11. ran' = ran /\ called' = called /\ execCache' = <<>> /\ Len(execCache') = 0
    BY DEF OnLoadEnd
  <1>12. Scheduled'
    <2>1. \A i \in 1..Len(channel') : channel'[i].op = "run" => channel'[i].script <= called'
      BY <1>10, <1>11 DEF Scheduled
    <2> QED BY <1>11, <2>1 DEF Scheduled
  <1>13. Ordered'
    <2>1. \A i \in 1..Len(ran'), j \in 1..Len(channel') : channel'[j].op = "run" => ran'[i] < channel'[j].script
      BY <1>10, <1>11 DEF Ordered
    <2>2. \A i, j \in 1..Len(channel') :
            i < j /\ channel'[i].op = "run" /\ channel'[j].op = "run" => channel'[i].script < channel'[j].script
      <3> SUFFICES ASSUME NEW i \in 1..Len(channel'), NEW j \in 1..Len(channel'), i < j,
                          channel'[i].op = "run", channel'[j].op = "run"
                   PROVE  channel'[i].script < channel'[j].script
        OBVIOUS
      <3>1. CASE i \in 1..Len(channel) /\ j \in 1..Len(channel)
        BY <1>7, <3>1 DEF Ordered
      <3>2. CASE i \in 1..Len(channel) /\ j \notin 1..Len(channel)
        <4>1. j - base \in 1..Len(execCache) /\ channel'[j].script = execCache[j - base] /\ channel'[i] = channel[i]
          BY <1>7, <1>10, <3>2
        <4> QED BY <3>2, <4>1 DEF Ordered
      <3>3. CASE i \notin 1..Len(channel)
        <4>1. j \notin 1..Len(channel)
          BY <1>8, <3>3
        <4>2. /\ i - base \in 1..Len(execCache) /\ channel'[i].script = execCache[i - base]
              /\ j - base \in 1..Len(execCache) /\ channel'[j].script = execCache[j - base]
          BY <1>10, <3>3, <4>1
        <4>3. i - base < j - base
          BY <1>8
        <4> QED BY <4>2, <4>3 DEF Ordered
      <3> QED BY <3>1, <3>2, <3>3
    <2> QED BY <1>11, <2>1, <2>2 DEF Ordered
  <1> QED BY <1>12, <1>13

\* A new document has run nothing; what is lost on the way was in order.
LEMMA CommitKeepsOrder ==
  ASSUME PageTypeOK, PageTypeOK', Scheduled, Ordered, Commit
  PROVE  Scheduled' /\ Ordered'
  <1>1. /\ ran' = <<>> /\ Len(ran') = 0 /\ called' = called /\ execCache' = execCache
        /\ channel' = channel \/ (channel' = <<>> /\ Len(channel') = 0)
    BY DEF Commit, native
  <1>2. \A i \in 1..Len(channel') : channel' = channel /\ i \in 1..Len(channel)
    BY <1>1
  <1>3. 1..Len(ran') = {}
    BY <1>1
  <1>4. Scheduled'
    BY <1>1, <1>2, <1>3 DEF Scheduled
  <1>5. Ordered'
    BY <1>1, <1>2, <1>3 DEF Ordered
  <1> QED BY <1>4, <1>5

\* The script that runs is the first of those on their way.
LEMMA ReceiveKeepsOrder ==
  ASSUME PageTypeOK, PageTypeOK', Scheduled, Ordered, ReceiveMessage
  PROVE  Scheduled' /\ Ordered'
  <1>1. Len(channel) \in Nat /\ Len(channel) >= 1 /\ Len(channel') = Len(channel) - 1
        /\ \A i \in 1..Len(channel') : i + 1 \in 1..Len(channel) /\ channel'[i] = channel[i + 1]
    BY DEF ReceiveMessage, PageTypeOK
  <1>2. PICK m : m = Head(channel)
    OBVIOUS
  <1>3. m = channel[1] /\ 1 \in 1..Len(channel)
    BY <1>1, <1>2 DEF PageTypeOK
  <1>4. called' = called /\ execCache' = execCache
    BY DEF ReceiveMessage, native
  <1>5. \/ ran' = ran
        \/ /\ m.op = "run" /\ Len(ran') = Len(ran) + 1 /\ Len(ran) \in Nat
           /\ \A i \in 1..Len(ran') : (i \in 1..Len(ran) /\ ran'[i] = ran[i]) \/ (i = Len(ran) + 1 /\ ran'[i] = m.script)
    BY <1>2 DEF ReceiveMessage, PageTypeOK
  <1>6. Scheduled'
    <2>1. \A i \in 1..Len(ran') : ran'[i] <= called'
      BY <1>3, <1>4, <1>5 DEF Scheduled
    <2>2. \A i \in 1..Len(channel') : channel'[i].op = "run" => channel'[i].script <= called'
      BY <1>1, <1>4 DEF Scheduled
    <2> QED BY <1>4, <2>1, <2>2 DEF Scheduled
  <1>7. \A j \in 1..Len(channel') : m.op = "run" /\ channel'[j].op = "run" => m.script < channel'[j].script
    BY <1>1, <1>3 DEF Ordered
  <1>8. Ordered'
    <2>1. \A i, j \in 1..Len(ran') : i < j => ran'[i] < ran'[j]
      BY <1>3, <1>5 DEF Ordered
    <2>2. \A i \in 1..Len(ran'), j \in 1..Len(channel') : channel'[j].op = "run" => ran'[i] < channel'[j].script
      <3>1. \A i \in 1..Len(ran), j \in 1..Len(channel') : channel'[j].op = "run" => ran[i] < channel'[j].script
        BY <1>1 DEF Ordered
      <3>2. CASE ran' = ran
        BY <3>1, <3>2
      <3>3. CASE m.op = "run" /\ \A i \in 1..Len(ran') : (i \in 1..Len(ran) /\ ran'[i] = ran[i]) \/ (i = Len(ran) + 1 /\ ran'[i] = m.script)
        BY <1>7, <3>1, <3>3
      <3> QED BY <1>5, <3>2, <3>3
    <2>3. \A i, j \in 1..Len(channel') :
            i < j /\ channel'[i].op = "run" /\ channel'[j].op = "run" => channel'[i].script < channel'[j].script
      <3>1. \A i, j \in 1..Len(channel) :
              i < j /\ channel[i].op = "run" /\ channel[j].op = "run" => channel[i].script < channel[j].script
        BY DEF Ordered
      <3>2. \A i, j \in 1..Len(channel') : i < j => i + 1 < j + 1
        BY <1>1
      <3> QED BY <1>1, <3>1, <3>2
    <2>4. \A i \in 1..Len(channel'), j \in 1..Len(execCache') : channel'[i].op = "run" => channel'[i].script < execCache'[j]
      BY <1>1, <1>4 DEF Ordered
    <2>5. \A i \in 1..Len(ran'), j \in 1..Len(execCache') : ran'[i] < execCache'[j]
      BY <1>3, <1>4, <1>5 DEF Ordered
    <2>6. \A i, j \in 1..Len(execCache') : i < j => execCache'[i] < execCache'[j]
      BY <1>4 DEF Ordered
    <2> QED BY <2>1, <2>2, <2>3, <2>4, <2>5, <2>6 DEF Ordered
  <1> QED BY <1>6, <1>8

LEMMA OrderStep ==
  ASSUME PageTypeOK, PageTypeOK', Emptied, Scheduled, Ordered, [PageNext]_pageVars
  PROVE  Scheduled' /\ Ordered'
  <1>0. called \in Nat
    BY Numbers
  <1>1. ASSUME NEW n \in Names, AddCallback(n) PROVE Scheduled' /\ Ordered'
    <2>1. One("add", n) \in Seq(Message) /\ \A i \in 1..Len(One("add", n)) : One("add", n)[i].op # "run"
      BY Alone
    <2>2. called <= called' /\ UNCHANGED <<ran, execCache>>
      BY <1>1, Calling DEF AddCallback
    <2>3. Send(One("add", n)) \/ UNCHANGED channel
      BY <1>1 DEF AddCallback, One
    <2> QED BY <2>1, <2>2, <2>3, Unscripted, Silent
  <1>2. ASSUME NEW n \in Names, RemoveFunctionCallback(n) PROVE Scheduled' /\ Ordered'
    <2>1. One("remove", n) \in Seq(Message) /\ \A i \in 1..Len(One("remove", n)) : One("remove", n)[i].op # "run"
      BY Alone
    <2>2. called <= called' /\ UNCHANGED <<ran, execCache>>
      BY <1>2, Calling DEF RemoveFunctionCallback
    <2>3. Send(One("remove", n)) \/ UNCHANGED channel
      BY <1>2 DEF RemoveFunctionCallback, One
    <2> QED BY <2>1, <2>2, <2>3, Unscripted, Silent
  <1>3. CASE ExecuteJavaScript
    BY <1>3, ExecuteKeepsOrder
  <1>4. ASSUME NEW clearing \in BOOLEAN, LoadBrowserURL(clearing) PROVE Scheduled' /\ Ordered'
    <2>1. called <= called' /\ UNCHANGED <<ran, execCache, channel>>
      BY <1>4, Calling DEF LoadBrowserURL
    <2> QED BY <2>1, Silent
  <1>5. CASE AfterCreated
    <2>1. called <= called' /\ UNCHANGED <<ran, execCache, channel>>
      BY <1>0, <1>5 DEF AfterCreated
    <2> QED BY <2>1, Silent
  <1>6. CASE OnLoadStart
    <2>1. Resends \cup addCache \in SUBSET Names /\ removeCache \in SUBSET Names
      BY DEF PageTypeOK, Resends
    <2>2. PICK ms : ms = Registration(Resends \cup addCache, removeCache)
      OBVIOUS
    <2>3. ms \in Seq(Message) /\ \A i \in 1..Len(ms) : ms[i].op # "run"
      BY <2>1, <2>2, Registering
    <2>4. Send(ms)
      BY <1>6, <2>2 DEF OnLoadStart, Registration
    <2>5. called <= called' /\ UNCHANGED <<ran, execCache>>
      BY <1>0, <1>6 DEF OnLoadStart
    <2> QED BY <2>3, <2>4, <2>5, Unscripted
  <1>7. CASE OnLoadEnd
    BY <1>7, LoadEndKeepsOrder
  <1>8. CASE Commit
    BY <1>8, CommitKeepsOrder
  <1>9. CASE ReceiveMessage
    BY <1>9, ReceiveKeepsOrder
  <1>10. CASE UNCHANGED pageVars
    <2>1. called <= called' /\ UNCHANGED <<ran, execCache, channel>>
      BY <1>0, <1>10 DEF pageVars, native, page
    <2> QED BY <2>1, Silent
  <1> QED BY <1>1, <1>2, <1>3, <1>4, <1>5, <1>6, <1>7, <1>8, <1>9, <1>10 DEF PageNext, ConsumerStep

LEMMA OrderInit == PageInit => Scheduled /\ Ordered
  BY DEF PageInit, Scheduled, Ordered

\* For any numbers of calls, documents and messages under way, with or without
\* pages that navigate: a document runs the scripts of ExecuteJavaScript in the
\* order of the calls and none twice, whatever waited for the page to load.
THEOREM ScriptsRunInCallOrder == PageSpec => []ScriptsRunInOrder
  <1>1. PageInit => SInv
    BY TypeInit, OrderInit DEF SInv
  <1>2. SInv /\ [PageNext]_pageVars => SInv'
    BY TypeStep, OrderStep DEF SInv
  <1>3. SInv => ScriptsRunInOrder
    BY DEF SInv, Ordered, ScriptsRunInOrder
  <1> QED BY <1>1, <1>2, <1>3, PTL DEF PageSpec

-----------------------------------------------------------------------------
(* Bindings.                                                               *)

\* What a document will have, it will have whatever else is sent, unless that removes it.
LEMMA WillStays ==
  ASSUME channel \in Seq(Message), NEW ms \in Seq(Message), Send(ms), bound' = bound,
         NEW n, Will(n), \A i \in 1..Len(ms) : ~Removes(ms[i], n)
  PROVE  Will(n)'
  <1>1. /\ Len(channel') = Len(channel) + Len(ms)
        /\ \A i \in 1..Len(channel) : channel'[i] = channel[i]
        /\ \A i \in 1..Len(channel') : i <= Len(channel) \/ (i - Len(channel) \in 1..Len(ms) /\ channel'[i] = ms[i - Len(channel)])
    BY Concatenating DEF Send
  <1>2. Len(channel) \in Nat /\ Len(ms) \in Nat
    OBVIOUS
  <1>3. \A i \in 1..Len(channel') : Removes(channel'[i], n) => i \in 1..Len(channel) /\ Removes(channel[i], n)
    BY <1>1, <1>2
  <1>4. \A i \in 1..Len(channel) : i \in 1..Len(channel')
    BY <1>1, <1>2
  <1>5. CASE n \in bound /\ \A i \in 1..Len(channel) : ~Removes(channel[i], n)
    BY <1>3, <1>5 DEF Will, Removes
  <1>6. CASE \E i \in 1..Len(channel) : /\ Adds(channel[i], n)
                                        /\ \A j \in 1..Len(channel) : j > i => ~Removes(channel[j], n)
    <2>1. PICK i \in 1..Len(channel) : /\ Adds(channel[i], n)
                                       /\ \A j \in 1..Len(channel) : j > i => ~Removes(channel[j], n)
      BY <1>6
    <2>2. i \in 1..Len(channel') /\ Adds(channel'[i], n)
      BY <1>1, <1>4, <2>1
    <2>3. \A j \in 1..Len(channel') : j > i => ~Removes(channel'[j], n)
      BY <1>3, <2>1
    <2> QED BY <2>2, <2>3 DEF Will, Adds, Removes
  <1> QED BY <1>5, <1>6 DEF Will

\* A document will have what is sent now, when the same messages do not remove it.
LEMMA WillCome ==
  ASSUME channel \in Seq(Message), NEW ms \in Seq(Message), Send(ms),
         NEW n, \E i \in 1..Len(ms) : Adds(ms[i], n), \A i \in 1..Len(ms) : ~Removes(ms[i], n)
  PROVE  Will(n)'
  <1>1. /\ Len(channel') = Len(channel) + Len(ms)
        /\ \A i \in 1..Len(ms) : channel'[Len(channel) + i] = ms[i]
        /\ \A i \in 1..Len(channel') : i <= Len(channel) \/ (i - Len(channel) \in 1..Len(ms) /\ channel'[i] = ms[i - Len(channel)])
    BY Concatenating DEF Send
  <1>2. Len(channel) \in Nat /\ Len(ms) \in Nat
    OBVIOUS
  <1>3. PICK k \in 1..Len(ms) : Adds(ms[k], n)
    OBVIOUS
  <1>4. Len(channel) + k \in 1..Len(channel') /\ Adds(channel'[Len(channel) + k], n)
    BY <1>1, <1>2, <1>3
  <1>5. ASSUME NEW j \in 1..Len(channel'), j > Len(channel) + k PROVE ~Removes(channel'[j], n)
    <2>1. ~(j <= Len(channel))
      BY <1>1, <1>2, <1>5
    <2> QED BY <1>1, <2>1
  <1> QED BY <1>4, <1>5 DEF Will, Adds, Removes

\* The message that is received takes its effect, the others still have theirs.
LEMMA WillReceive ==
  ASSUME PageTypeOK, ReceiveMessage, NEW n, Will(n)
  PROVE  Will(n)'
  <1>1. Len(channel) \in Nat /\ Len(channel) >= 1 /\ Len(channel') = Len(channel) - 1
        /\ \A i \in 1..Len(channel') : i + 1 \in 1..Len(channel) /\ channel'[i] = channel[i + 1]
    BY DEF ReceiveMessage, PageTypeOK
  <1>2. PICK m : m = Head(channel)
    OBVIOUS
  <1>3. m = channel[1] /\ 1 \in 1..Len(channel) /\ m.op \in {"add", "remove", "run"}
    BY <1>1, <1>2, Messages DEF PageTypeOK
  <1>4. (Adds(m, n) => n \in bound') /\ (n \in bound /\ ~Removes(m, n) => n \in bound')
    BY <1>2, <1>3 DEF ReceiveMessage, Adds, Removes
  <1>5. CASE n \in bound /\ \A i \in 1..Len(channel) : ~Removes(channel[i], n)
    BY <1>1, <1>3, <1>4, <1>5 DEF Will, Removes
  <1>6. CASE \E i \in 1..Len(channel) : /\ Adds(channel[i], n)
                                        /\ \A j \in 1..Len(channel) : j > i => ~Removes(channel[j], n)
    <2>1. PICK i \in 1..Len(channel) : /\ Adds(channel[i], n)
                                       /\ \A j \in 1..Len(channel) : j > i => ~Removes(channel[j], n)
      BY <1>6
    <2>2. CASE i = 1
      <3>1. \A j \in 1..Len(channel') : ~Removes(channel'[j], n)
        BY <1>1, <2>1, <2>2
      <3>2. n \in bound'
        BY <1>3, <1>4, <2>1, <2>2
      <3> QED BY <3>1, <3>2 DEF Will, Removes
    <2>3. CASE i # 1
      <3>1. PICK k \in 1..Len(channel') : i = k + 1
        <4>1. i - 1 \in 1..Len(channel') /\ i = (i - 1) + 1
          BY <1>1, <2>3
        <4> QED BY <4>1
      <3>2. Adds(channel'[k], n)
        BY <1>1, <2>1, <3>1
      <3>3. \A j \in 1..Len(channel') : j > k => ~Removes(channel'[j], n)
        BY <1>1, <2>1, <3>1
      <3> QED BY <3>2, <3>3 DEF Will, Adds, Removes
    <2> QED BY <2>2, <2>3
  <1> QED BY <1>5, <1>6 DEF Will

LEMMA StagesStep ==
  ASSUME PageTypeOK, Stages, [PageNext]_pageVars
  PROVE  Stages'
  <1>1. ASSUME NEW n \in Names, AddCallback(n) \/ RemoveFunctionCallback(n) PROVE Stages'
    BY <1>1 DEF Stages, AddCallback, RemoveFunctionCallback
  <1>2. CASE ExecuteJavaScript
    BY <1>2 DEF Stages, ExecuteJavaScript
  <1>3. ASSUME NEW clearing \in BOOLEAN, LoadBrowserURL(clearing) PROVE Stages'
    BY <1>3 DEF Stages, LoadBrowserURL, NavigateTo
  <1>4. CASE AfterCreated
    BY <1>4 DEF Stages, AfterCreated, NavigateTo
  <1>5. CASE OnLoadStart \/ OnLoadEnd
    BY <1>5 DEF Stages, OnLoadStart, OnLoadEnd
  <1>6. CASE Commit
    BY <1>6 DEF Stages, Commit, native
  <1>7. CASE ReceiveMessage
    BY <1>7 DEF Stages, ReceiveMessage, native
  <1>8. CASE UNCHANGED pageVars
    BY <1>8 DEF Stages, pageVars, native, page
  <1> QED BY <1>1, <1>2, <1>3, <1>4, <1>5, <1>6, <1>7, <1>8 DEF PageNext, ConsumerStep

LEMMA BooksStep ==
  ASSUME ApartAssumption, PageTypeOK, Stages, Emptied, Books, [PageNext]_pageVars
  PROVE  Books'
  <1>0. clear => "navigate" \notin habit
    BY DEF ApartAssumption, Stages, PageTypeOK
  <1>1. ASSUME NEW n \in Names, AddCallback(n) PROVE Books'
    BY <1>0, <1>1 DEF Books, Coming, Stages, AddCallback, NotRemoved, Emptied
  <1>2. ASSUME NEW n \in Names, RemoveFunctionCallback(n) PROVE Books'
    BY <1>0, <1>2 DEF Books, Coming, Stages, RemoveFunctionCallback, Emptied
  <1>3. CASE ExecuteJavaScript
    BY <1>3 DEF Books, Coming, ExecuteJavaScript
  <1>4. ASSUME NEW clearing \in BOOLEAN, LoadBrowserURL(clearing) PROVE Books'
    BY <1>4 DEF Books, Coming, LoadBrowserURL, NavigateTo
  <1>5. CASE AfterCreated
    BY <1>5 DEF Books, Coming, Stages, AfterCreated, NavigateTo
  <1>6. CASE OnLoadStart
    BY <1>0, <1>6 DEF Books, Coming, Stages, OnLoadStart
  <1>7. CASE OnLoadEnd
    BY <1>0, <1>7 DEF Books, Coming, Stages, OnLoadEnd
  <1>8. CASE Commit
    BY <1>0, <1>8 DEF Books, Coming, Stages, Commit, native
  <1>9. CASE ReceiveMessage
    BY <1>9 DEF Books, Coming, ReceiveMessage, native
  <1>10. CASE UNCHANGED pageVars
    BY <1>10 DEF Books, Coming, pageVars, native, page
  <1> QED BY <1>1, <1>2, <1>3, <1>4, <1>5, <1>6, <1>7, <1>8, <1>9, <1>10 DEF PageNext, ConsumerStep

LEMMA SentStep ==
  ASSUME PageTypeOK, Books, Sent, [PageNext]_pageVars
  PROVE  Sent'
  <1>0. channel \in Seq(Message)
    BY DEF PageTypeOK
  <1> DEFINE Quiet == /\ UNCHANGED <<bound, channel>> /\ stored' \subseteq stored
                      /\ load' = load
  <1>Q. ASSUME Quiet PROVE Sent'
    BY <1>Q DEF Sent, Will, Adds, Removes
  <1>1. ASSUME NEW n \in Names, AddCallback(n) PROVE Sent'
    <2>1. CASE loaded
      <3>1. PICK ms : ms = One("add", n)
        OBVIOUS
      <3>2. ms \in Seq(Message) /\ Len(ms) = 1 /\ \A i \in 1..Len(ms) : ms[i].op = "add" /\ ms[i].names = {n}
        BY <3>1, Alone
      <3>3. (\E i \in 1..Len(ms) : Adds(ms[i], n)) /\ \A i \in 1..Len(ms), x \in Names : ~Removes(ms[i], x)
        BY <3>2 DEF Adds, Removes
      <3>4. Send(ms) /\ bound' = bound /\ load' = load /\ stored' = stored \cup {n}
        BY <1>1, <2>1, <3>1 DEF AddCallback, One
      <3>5. Will(n)'
        BY <1>0, <3>2, <3>3, <3>4, WillCome
      <3>6. \A x \in Names : Will(x) => Will(x)'
        BY <1>0, <3>2, <3>3, <3>4, WillStays
      <3> QED BY <3>4, <3>5, <3>6 DEF Sent, PageTypeOK
    <2>2. CASE ~loaded
      BY <1>1, <1>Q, <2>2 DEF AddCallback
    <2> QED BY <2>1, <2>2
  <1>2. ASSUME NEW n \in Names, RemoveFunctionCallback(n) PROVE Sent'
    <2>1. CASE loaded
      <3>1. PICK ms : ms = One("remove", n)
        OBVIOUS
      <3>2. ms \in Seq(Message) /\ \A i \in 1..Len(ms) : ms[i].op = "remove" /\ ms[i].names = {n}
        BY <3>1, Alone
      <3>3. \A i \in 1..Len(ms), x \in Names \ {n} : ~Removes(ms[i], x)
        BY <3>2 DEF Removes
      <3>4. Send(ms) /\ bound' = bound /\ load' = load /\ stored' = stored \ {n}
        BY <1>2, <2>1, <3>1 DEF RemoveFunctionCallback, One
      <3>6. \A x \in Names \ {n} : Will(x) => Will(x)'
        BY <1>0, <3>2, <3>3, <3>4, WillStays
      <3> QED BY <3>4, <3>6 DEF Sent, PageTypeOK
    <2>2. CASE ~loaded
      BY <1>2, <1>Q, <2>2 DEF RemoveFunctionCallback
    <2> QED BY <2>1, <2>2
  <1>3. CASE ExecuteJavaScript
    <2>1. CASE loaded
      <3>1. PICK ms : ms = <<Run(called')>>
        OBVIOUS
      <3>2. ms \in Seq(Message)
        <4>1. called' \in Scripts
          BY <1>3, BindingsAssumption DEF ExecuteJavaScript, Call, PageTypeOK, Scripts
        <4> QED BY <3>1, <4>1, Messages
      <3>3. \A i \in 1..Len(ms), x \in Names : ~Removes(ms[i], x)
        BY <3>1 DEF Removes, Run
      <3>4. Send(ms) /\ bound' = bound /\ load' = load /\ stored' = stored
        BY <1>3, <2>1, <3>1 DEF ExecuteJavaScript
      <3>6. \A x \in Names : Will(x) => Will(x)'
        BY <1>0, <3>2, <3>3, <3>4, WillStays
      <3> QED BY <3>4, <3>6 DEF Sent, PageTypeOK
    <2>2. CASE ~loaded
      BY <1>3, <1>Q, <2>2 DEF ExecuteJavaScript
    <2> QED BY <2>1, <2>2
  <1>4. ASSUME NEW clearing \in BOOLEAN, LoadBrowserURL(clearing) PROVE Sent'
    BY <1>4, <1>Q DEF LoadBrowserURL
  <1>5. CASE AfterCreated
    BY <1>5, <1>Q DEF AfterCreated
  <1>6. CASE OnLoadStart
    <2>1. Resends \cup addCache \in SUBSET Names /\ removeCache \in SUBSET Names
      BY DEF PageTypeOK, Resends
    <2>2. PICK ms, adds : ms = Registration(adds, removeCache) /\ adds = Resends \cup addCache
      OBVIOUS
    <2>3. /\ ms \in Seq(Message)
          /\ \A i \in 1..Len(ms) : ms[i].op = "add" => ms[i].names = adds
          /\ \A i \in 1..Len(ms) : ms[i].op = "remove" => ms[i].names = removeCache
          /\ adds # {} => \E i \in 1..Len(ms) : ms[i].op = "add"
      <3>1. adds \in SUBSET Names
        BY <2>1, <2>2
      <3>2. removeCache \in SUBSET Names
        BY <2>1
      <3>3. ms = Registration(adds, removeCache)
        BY <2>2
      <3> QED BY <3>1, <3>2, <3>3, Registering
    <2>4. Send(ms) /\ stored' = adds \ removeCache
      BY <1>6, <2>2 DEF OnLoadStart, Registration, Resends
    <2>5. ASSUME NEW n \in stored' PROVE Will(n)'
      <3>1. (\E i \in 1..Len(ms) : Adds(ms[i], n)) /\ \A i \in 1..Len(ms) : ~Removes(ms[i], n)
        BY <2>3, <2>4, <2>5 DEF Adds, Removes
      <3> QED BY <1>0, <2>3, <2>4, <3>1, WillCome
    <2> QED BY <2>5 DEF Sent
  <1>7. CASE OnLoadEnd
    <2>1. PICK reg : reg = Registration(addCache, removeCache)
      OBVIOUS
    <2>0. addCache \in SUBSET Names /\ removeCache \in SUBSET Names
      BY DEF PageTypeOK
    <2>2. /\ reg \in Seq(Message)
          /\ \A i \in 1..Len(reg) : reg[i].op = "add" => reg[i].names = addCache
          /\ \A i \in 1..Len(reg) : reg[i].op = "remove" => reg[i].names = removeCache
          /\ addCache # {} => \E i \in 1..Len(reg) : reg[i].op = "add"
      BY <2>0, <2>1, Registering
    <2>3. /\ Replay \in Seq(Message)
          /\ \A i \in 1..Len(Replay) : Replay[i].op = "run"
      BY Scripting DEF PageTypeOK
    <2>4. PICK ms : ms = reg \o Replay
      OBVIOUS
    <2>5. /\ ms \in Seq(Message) /\ Len(ms) = Len(reg) + Len(Replay)
          /\ \A i \in 1..Len(reg) : ms[i] = reg[i]
          /\ \A i \in 1..Len(ms) : i <= Len(reg) \/ (i - Len(reg) \in 1..Len(Replay) /\ ms[i] = Replay[i - Len(reg)])
      <3>1. /\ reg \o Replay \in Seq(Message) /\ Len(reg \o Replay) = Len(reg) + Len(Replay)
            /\ \A i \in 1..(Len(reg) + Len(Replay)) : i <= Len(reg) \/ (i - Len(reg) \in 1..Len(Replay) /\ (reg \o Replay)[i] = Replay[i - Len(reg)])
            /\ \A i \in 1..Len(reg) : (reg \o Replay)[i] = reg[i]
        BY <2>2, <2>3, Concatenating
      <3> QED BY <2>4, <3>1, Zenon
    <2>6. Send(ms) /\ bound' = bound /\ stored' = (stored \cup addCache) \ removeCache
      BY <1>7, <2>1, <2>4 DEF OnLoadEnd, Registration, Replay
    <2>7. Len(reg) \in Nat /\ Len(ms) \in Nat /\ \A i \in 1..Len(reg) : i \in 1..Len(ms)
      BY <2>2, <2>3, <2>5
    <2>8. \A i \in 1..Len(ms) : (i \in 1..Len(reg) /\ ms[i] = reg[i]) \/ ms[i].op = "run"
      BY <2>3, <2>5, <2>7
    <2>9. ASSUME NEW n \in stored' PROVE Will(n)'
      <3>1. n \notin removeCache /\ (n \in stored \/ n \in addCache)
        BY <2>6, <2>9
      <3>2. \A i \in 1..Len(ms) : ~Removes(ms[i], n)
        BY <2>2, <2>8, <3>1 DEF Removes
      <3>3. CASE n \in addCache
        <4>1. PICK i \in 1..Len(reg) : reg[i].op = "add"
          BY <2>2, <3>3
        <4>2. Adds(ms[i], n) /\ i \in 1..Len(ms)
          BY <2>2, <2>5, <2>7, <3>3, <4>1 DEF Adds
        <4> QED BY <1>0, <2>5, <2>6, <3>2, <4>2, WillCome
      <3>4. CASE n \in stored
        <4>1. Will(n)
          BY <1>7, <3>4 DEF Sent, OnLoadEnd
        <4> QED BY <1>0, <2>5, <2>6, <3>2, <4>1, WillStays
      <3> QED BY <3>1, <3>3, <3>4
    <2> QED BY <2>9 DEF Sent
  <1>8. CASE Commit
    BY <1>8 DEF Sent, Commit
  <1>9. CASE ReceiveMessage
    <2>1. \A n : Will(n) => Will(n)'
      BY <1>9, WillReceive
    <2> QED BY <1>9, <2>1 DEF Sent, ReceiveMessage, native
  <1>10. CASE UNCHANGED pageVars
    BY <1>10, <1>Q DEF pageVars, native, page
  <1> QED BY <1>1, <1>2, <1>3, <1>4, <1>5, <1>6, <1>7, <1>8, <1>9, <1>10 DEF PageNext, ConsumerStep

LEMMA KeptInit == PageInit => Stages /\ Books /\ Sent
  BY DEF PageInit, Stages, Books, Sent, Coming

LEMMA KeptHolds == KInv => BindingsSurvive
  <1> SUFFICES ASSUME KInv, Settled PROVE owed \subseteq stored /\ stored \subseteq bound
    BY DEF BindingsSurvive
  <1>1. owed \subseteq stored
    BY DEF KInv, Settled, Emptied, Books
  <1>2. \A n \in stored : Will(n)
    BY DEF KInv, Settled, Sent
  <1>3. 1..Len(channel) = {}
    BY DEF Settled
  <1>4. stored \subseteq bound
    BY <1>2, <1>3 DEF Will
  <1> QED BY <1>1, <1>4

\* For any functions, calls and documents: once a page is loaded and nothing is
\* on its way to it, every function that was registered and neither removed nor
\* cleared is stored, and the page has every stored function -- provided that
\* the consumer's clearing loads and navigations of the page's own do not mix.
THEOREM FunctionsReachThePage ==
  ASSUME ApartAssumption
  PROVE  PageSpec => []BindingsSurvive
  <1>1. PageInit => KInv
    BY TypeInit, KeptInit DEF KInv
  <1>2. KInv /\ [PageNext]_pageVars => KInv'
    BY TypeStep, StagesStep, BooksStep, SentStep DEF KInv
  <1>3. KInv => BindingsSurvive
    BY KeptHolds
  <1> QED BY <1>1, <1>2, <1>3, PTL DEF PageSpec
=============================================================================
