-------------------------- MODULE NifPreviews_proofs --------------------------
(***************************************************************************)
(* The previews of NIF models, for any number of callers, loads and        *)
(* objects: a scene that was replaced never comes back, and a surface      *)
(* settles on the scene asked for last, shows it and keeps its toggles.    *)
(*                                                                         *)
(* A load is in one place at a time: with the mod's thread, in the game's  *)
(* queue, with the game's task, handed over, or taken by Prepare.  So what *)
(* Prepare takes has not been built before, and when it is the requested   *)
(* one, which is the one begun last, all that was built was begun earlier. *)
(*                                                                         *)
(* A load that has no answer is on its way, a scene that was replaced has  *)
(* its clear or its successor ahead of it, and the last toggle of an       *)
(* object is queued, in Prepare's hands or applied.                        *)
(*                                                                         *)
(* Then the geometry of a preview, for buffers, layouts and meshes of any  *)
(* size: what the decoder accepts it can read, and putting a mesh behind   *)
(* another leaves every draw of both its geometry.                         *)
(*                                                                         *)
(* Last, one request from the call to the screen (NifPipeline).  A request *)
(* that was accepted resolves to a list of parts; while it is worked on    *)
(* the parts before the one in hand are extracted, each mesh drawing       *)
(* pieces of shapes under that part's own roots, none of them twice; and   *)
(* composing them, then loading the textures draw by draw, changes neither *)
(* what a draw shows nor what it asks for.                                 *)
(***************************************************************************)
EXTENDS NifLoads, NifPipeline, FiniteSetTheorems, WellFoundedInduction, TLAPS

Scenes == Offers \cup {NoBatch.scene}
Loads  == [generation : Nat \ {0}, scene : Scenes]
MaybeLoads == {NoBatch} \cup Loads

\* The generations of the loads there are, 0 where there is none.
Active(c) == calls[c].at # "idle"
OfCall(c) == calls[c].batch.generation
OfTask    == IF task.at = "idle" THEN 0 ELSE task.batch.generation
OfPending == pending.generation
OfPrepare == IF prep.at \in {"taken", "build"} THEN prep.batch.generation ELSE 0

\* Prepare's record has the fields of IdlePrep.
IsPrepare(p) == p = [at |-> p.at, clear |-> p.clear, batch |-> p.batch,
                     toggles |-> p.toggles, whose |-> p.whose, changed |-> p.changed]

PrepStages == {"idle", "taken", "build", "toggles", "render", "show"}

Kinds ==
  /\ calls \in [Callers -> [at : {"idle", "load", "clear", "task"}, batch : MaybeLoads]]
  /\ tasks \in Seq(Loads)
  /\ task \in [at : {"idle", "load", "submit"}, batch : MaybeLoads]
  /\ pending \in MaybeLoads
  /\ IsPrepare(prep)
  /\ prep.at \in PrepStages /\ prep.batch \in MaybeLoads
  /\ next \in Nat \ {0} /\ requested \in Nat
  /\ begun \in Seq(Nat \ {0}) /\ built \in 0..Len(begun)

\* Every generation was taken from the counter.
Numbered ==
  /\ \A c \in Callers : Active(c) => OfCall(c) # 0 /\ OfCall(c) < next
  /\ \A i \in 1..Len(tasks) : tasks[i].generation < next
  /\ OfTask < next /\ OfPending < next /\ OfPrepare < next
  /\ \A i \in 1..Len(begun) : begun[i] < next

\* A load is in one place.
OnePlace ==
  /\ \A c, d \in Callers : Active(c) /\ Active(d) /\ c # d => OfCall(c) # OfCall(d)
  /\ \A c \in Callers : Active(c) =>
       /\ OfCall(c) \notin {OfTask, OfPending, OfPrepare}
       /\ \A i \in 1..Len(tasks) : tasks[i].generation # OfCall(c)
  /\ \A i, j \in 1..Len(tasks) : i # j => tasks[i].generation # tasks[j].generation
  /\ \A i \in 1..Len(tasks) : tasks[i].generation \notin {OfTask, OfPending, OfPrepare}
  /\ OfTask # 0 => OfTask \notin {OfPending, OfPrepare}
  /\ OfPending # 0 => OfPending # OfPrepare

\* Each load is begun once, and the requested one is the last.
Begun ==
  /\ \A i, j \in 1..Len(begun) : i # j => begun[i] # begun[j]
  /\ requested = IF begun = <<>> THEN 0 ELSE begun[Len(begun)]
  /\ \A c \in Callers : calls[c].at \in {"load", "clear"} =>
       \A i \in 1..Len(begun) : begun[i] # OfCall(c)

\* What is still on its way is not what was built last.
NotBuilt ==
  built # 0 =>
    /\ begun[built] \notin {OfTask, OfPending, OfPrepare}
    /\ \A i \in 1..Len(tasks) : tasks[i].generation # begun[built]
    /\ \A c \in Callers : Active(c) => OfCall(c) # begun[built]

\* What is being built was begun after all that was built before.
Chosen ==
  prep.at = "build" =>
    \E i \in 1..Len(begun) : begun[i] = prep.batch.generation /\ i > built

IInv == Kinds /\ Numbered /\ OnePlace /\ Begun /\ NotBuilt /\ Chosen

-----------------------------------------------------------------------------
LEMMA NoBatchFacts == NoBatch.generation = 0 /\ NoBatch \in MaybeLoads /\ NoBatch \notin Loads
  BY DEF NoBatch, MaybeLoads, Loads

LEMMA LoadsFacts ==
  ASSUME NEW b \in MaybeLoads
  PROVE  b.generation \in Nat /\ (b # NoBatch => b \in Loads /\ b.generation # 0)
  BY NoBatchFacts DEF MaybeLoads, Loads

LEMMA WithGeneration ==
  ASSUME NEW n
  PROVE  [NoBatch EXCEPT !.generation = n] = [generation |-> n, scene |-> NoBatch.scene]
  <1> SUFFICES ASSUME NEW t
               PROVE  [[generation |-> 0, scene |-> t] EXCEPT !.generation = n]
                        = [generation |-> n, scene |-> t]
    BY Zenon DEF NoBatch
  <1> QED BY SMT

LEMMA QueueFacts ==
  ASSUME Kinds, NEW i \in 1..Len(tasks)
  PROVE  tasks[i] \in Loads /\ tasks[i].generation \in Nat /\ tasks[i].generation # 0
  <1>1. tasks[i] \in Loads
    BY SMT DEF Kinds
  <1> QED BY <1>1 DEF Loads

LEMMA PrepareRecord ==
  ASSUME NEW p, IsPrepare(p), NEW x, NEW q,
         q = [p EXCEPT !.at = x] \/ q = [p EXCEPT !.toggles = x] \/ q = [p EXCEPT !.changed = x]
  PROVE  /\ IsPrepare(q) /\ q.batch = p.batch
         /\ IF q = [p EXCEPT !.at = x] THEN q.at = x ELSE q.at = p.at
  <1>1. CASE q = [p EXCEPT !.at = x]
    BY <1>1, SMT DEF IsPrepare
  <1>2. CASE q = [p EXCEPT !.toggles = x] /\ q # [p EXCEPT !.at = x]
    BY <1>2, SMT DEF IsPrepare
  <1>3. CASE q = [p EXCEPT !.changed = x] /\ q # [p EXCEPT !.at = x]
    BY <1>3, SMT DEF IsPrepare
  <1> QED BY <1>1, <1>2, <1>3

LEMMA InitInv == Init => IInv
  <1> SUFFICES ASSUME Init PROVE IInv
    OBVIOUS
  <1> USE DEF Init, NoCall, IdlePrep
  <1>1. Kinds
    BY NoBatchFacts, SMT DEF Kinds, PrepStages, IsPrepare
  <1>2. Numbered
    BY NoBatchFacts, SMT DEF Numbered, Active, OfCall, OfTask, OfPending, OfPrepare
  <1>3. OnePlace
    BY NoBatchFacts, SMT DEF OnePlace, Active, OfCall, OfTask, OfPending, OfPrepare
  <1>4. Begun
    BY SMT DEF Begun, OfCall
  <1>5. NotBuilt /\ Chosen
    BY SMT DEF NotBuilt, Chosen
  <1> QED BY <1>1, <1>2, <1>3, <1>4, <1>5 DEF IInv
-----------------------------------------------------------------------------
(* The steps.                                                              *)

\* A step that at most drops loads keeps the invariant.
LEMMA DropsKeep ==
  ASSUME IInv, UNCHANGED <<tasks, next, requested, begun, built>>, Kinds',
         \A c \in Callers : Active(c)' => Active(c) /\ OfCall(c)' = OfCall(c),
         \A c \in Callers : calls'[c].at \in {"load", "clear"} =>
                              calls[c].at \in {"load", "clear"},
         OfTask' \in {0, OfTask}, OfPending' \in {0, OfPending},
         OfPrepare' \in {0, OfPrepare},
         prep'.at = "build" => prep.at = "build" /\ prep'.batch = prep.batch
  PROVE  IInv'
  <1> USE DEF IInv
  <1>0. next \in Nat /\ next # 0
    BY DEF Kinds
  <1>1. Numbered'
    BY <1>0, SMT DEF Numbered
  <1>2. OnePlace'
    <2>1. \A c \in Callers : Active(c) =>
            OfCall(c) \notin {OfTask', OfPending', OfPrepare'}
      BY SMT DEF OnePlace, Numbered
    <2>2. \A i \in 1..Len(tasks) :
            tasks[i].generation \notin {OfTask', OfPending', OfPrepare'}
      <3>1. \A i \in 1..Len(tasks) : tasks[i].generation # 0
        BY QueueFacts
      <3> QED BY <3>1, SMT DEF OnePlace
    <2>3. /\ OfTask' # 0 => OfTask' \notin {OfPending', OfPrepare'}
          /\ OfPending' # 0 => OfPending' # OfPrepare'
      BY SMT DEF OnePlace
    <2> QED BY <2>1, <2>2, <2>3, SMT DEF OnePlace
  <1>3. Begun'
    <2>1. \A c \in Callers : calls'[c].at \in {"load", "clear"} => Active(c)'
      BY SMT DEF Active
    <2> QED BY <2>1, SMT DEF Begun
  <1>4. NotBuilt'
    <2>1. built # 0 => begun[built] # 0
      BY SMT DEF Kinds
    <2> QED BY <2>1, SMT DEF NotBuilt
  <1>5. Chosen'
    BY SMT DEF Chosen
  <1> QED BY <1>1, <1>2, <1>3, <1>4, <1>5

LEMMA TakesGenerationKeeps ==
  ASSUME IInv, NEW c \in Callers, TakesGeneration(c)
  PROVE  IInv'
  <1> USE DEF IInv, RenderKept, sharedVars, history, sceneVars, shownVars
  <1>0. /\ next \in Nat \ {0} /\ next' = next + 1
        /\ UNCHANGED <<tasks, task, pending, prep, requested, begun, built>>
    BY DEF Kinds, TakesGeneration
  <1>1. PICK b \in MaybeLoads, k \in {"load", "clear"} :
          b.generation = next /\ calls' = [calls EXCEPT ![c] = [at |-> k, batch |-> b]]
    <2>1. CASE \E s \in Offers : calls' = [calls EXCEPT ![c] =
                 [at |-> "load", batch |-> [generation |-> next, scene |-> s]]]
      BY <2>1, <1>0 DEF MaybeLoads, Loads, Scenes
    <2>2. CASE calls' = [calls EXCEPT ![c] =
                 [at |-> "clear", batch |-> [NoBatch EXCEPT !.generation = next]]]
      <3>1. [NoBatch EXCEPT !.generation = next]
              = [generation |-> next, scene |-> NoBatch.scene]
        BY WithGeneration
      <3> QED BY <2>2, <3>1, <1>0 DEF MaybeLoads, Loads, Scenes
    <2> QED BY <2>1, <2>2 DEF TakesGeneration
  <1>2. /\ \A d \in Callers : d # c => calls'[d] = calls[d]
        /\ calls'[c] = [at |-> k, batch |-> b]
    BY <1>1 DEF Kinds
  <1>3. Kinds'
    BY <1>0, <1>1, SMT DEF Kinds
  <1>4. Active(c)' /\ OfCall(c)' = next
    BY <1>1, <1>2 DEF Active, OfCall
  <1>5. \A d \in Callers : d # c => Active(d)' = Active(d) /\ OfCall(d)' = OfCall(d)
    BY <1>2 DEF Active, OfCall
  <1>6. OfTask' = OfTask /\ OfPending' = OfPending /\ OfPrepare' = OfPrepare
    BY <1>0 DEF OfTask, OfPending, OfPrepare
  <1>7. Numbered'
    <2>1. OfTask \in Nat /\ OfPending \in Nat /\ OfPrepare \in Nat
      BY LoadsFacts DEF Kinds, OfTask, OfPending, OfPrepare
    <2>2. /\ \A d \in Callers : OfCall(d) \in Nat
          /\ \A i \in 1..Len(tasks) : tasks[i].generation \in Nat
          /\ \A i \in 1..Len(begun) : begun[i] \in Nat
      <3>1. \A d \in Callers : OfCall(d) \in Nat
        <4> SUFFICES ASSUME NEW d \in Callers PROVE calls[d].batch.generation \in Nat
          BY DEF OfCall
        <4>1. calls[d].batch \in MaybeLoads
          BY DEF Kinds
        <4> QED BY <4>1, LoadsFacts
      <3>2. \A i \in 1..Len(tasks) : tasks[i].generation \in Nat
        BY QueueFacts
      <3>3. \A i \in 1..Len(begun) : begun[i] \in Nat
        BY DEF Kinds
      <3> QED BY <3>1, <3>2, <3>3
    <2>3. \A x \in Nat : x < next => x < next'
      BY <1>0, SMT
    <2> QED BY <1>0, <1>4, <1>5, <1>6, <2>1, <2>2, <2>3, SMT DEF Numbered
  <1>8. OnePlace'
    <2>1. \A d \in Callers : Active(d) => OfCall(d) # next
      BY <1>0, LoadsFacts, SMT DEF Numbered, Kinds, OfCall
    <2>2. next \notin {OfTask, OfPending, OfPrepare}
      BY <1>0, SMT DEF Numbered
    <2>3. \A i \in 1..Len(tasks) : tasks[i].generation # next
      BY <1>0, SMT DEF Numbered
    <2> QED BY <1>0, <1>4, <1>5, <1>6, <2>1, <2>2, <2>3, SMT DEF OnePlace
  <1>9. Begun'
    <2>1. \A i \in 1..Len(begun) : begun[i] # next
      BY <1>0, SMT DEF Numbered
    <2> QED BY <1>0, <1>2, <1>4, <1>5, <2>1, SMT DEF Begun
  <1>10. NotBuilt'
    <2>1. built # 0 => begun[built] # next
      BY <1>0, SMT DEF Numbered, Kinds
    <2> QED BY <1>0, <1>4, <1>5, <1>6, <2>1, SMT DEF NotBuilt
  <1>11. Chosen'
    BY <1>0 DEF Chosen
  <1> QED BY <1>3, <1>7, <1>8, <1>9, <1>10, <1>11

\* A call that becomes the requested one.
LEMMA BeginsKeep ==
  ASSUME IInv, NEW c \in Callers, calls[c].at \in {"load", "clear"}, Kinds',
         UNCHANGED <<tasks, task, next, prep, built>>,
         \A d \in Callers : d # c => calls'[d] = calls[d],
         calls'[c].at \in {"idle", "task"},
         Active(c)' => OfCall(c)' = OfCall(c),
         requested' = OfCall(c), pending' = NoBatch, begun' = Append(begun, OfCall(c))
  PROVE  IInv'
  <1> USE DEF IInv
  <1> DEFINE g == OfCall(c)
  <1>1. Active(c) /\ g # 0 /\ g < next
    BY SMT DEF Active, Numbered
  <1>2. \A d \in Callers : Active(d)' => Active(d) /\ OfCall(d)' = OfCall(d)
    BY <1>1 DEF Active, OfCall
  <1>3. OfTask' = OfTask /\ OfPending' = 0 /\ OfPrepare' = OfPrepare
    BY NoBatchFacts DEF OfTask, OfPending, OfPrepare
  <1>4. /\ next \in Nat /\ next # 0 /\ g \in Nat
        /\ begun \in Seq(Nat) /\ built \in 0..Len(begun)
    <2>1. calls[c].batch \in MaybeLoads
      BY DEF Kinds
    <2> QED BY <2>1, LoadsFacts DEF Kinds, OfCall
  <1>5. /\ Len(begun') = Len(begun) + 1 /\ Len(begun) \in Nat
        /\ \A i \in 1..Len(begun) : begun'[i] = begun[i]
        /\ begun'[Len(begun) + 1] = g
    BY <1>4, SMT
  <1>6. \A i \in 1..Len(begun') : i \in 1..Len(begun) \/ i = Len(begun) + 1
    BY <1>5, SMT
  <1>7. Numbered'
    BY <1>1, <1>2, <1>3, <1>4, <1>5, <1>6, SMT DEF Numbered
  <1>8. OnePlace'
    <2>1. /\ \A d \in Callers : Active(d)' => OfCall(d)' \notin {OfTask', OfPending', OfPrepare'}
          /\ \A i \in 1..Len(tasks) : tasks[i].generation \notin {OfTask', OfPending', OfPrepare'}
      BY <1>2, <1>3, QueueFacts, SMT DEF OnePlace, Numbered
    <2> QED BY <1>2, <1>3, <2>1, SMT DEF OnePlace
  <1>9. Begun'
    <2>1. \A i \in 1..Len(begun) : begun[i] # g
      BY SMT DEF Begun
    <2>2. \A i, j \in 1..Len(begun') : i # j => begun'[i] # begun'[j]
      BY <1>5, <1>6, <2>1, SMT DEF Begun
    <2>3. requested' = IF begun' = <<>> THEN 0 ELSE begun'[Len(begun')]
      BY <1>4, <1>5, SMT
    <2>4. ASSUME NEW d \in Callers, calls'[d].at \in {"load", "clear"},
                 NEW i \in 1..Len(begun')
          PROVE  begun'[i] # OfCall(d)'
      <3>1. d # c /\ calls'[d] = calls[d] /\ Active(d)
        BY <2>4 DEF Active
      <3>2. OfCall(d)' = OfCall(d) /\ OfCall(d) # g
        BY <1>1, <3>1 DEF OnePlace, OfCall
      <3> QED BY <1>5, <1>6, <2>4, <3>1, <3>2, SMT DEF Begun
    <2> QED BY <2>2, <2>3, <2>4 DEF Begun
  <1>10. NotBuilt'
    <2>1. ASSUME built # 0 PROVE built \in 1..Len(begun) /\ begun'[built] = begun[built]
      BY <2>1, <1>4, <1>5, SMT
    <2>2. ASSUME built # 0 PROVE begun[built] # 0
      BY <2>2, SMT DEF Kinds
    <2> QED BY <1>2, <1>3, <2>1, <2>2, SMT DEF NotBuilt
  <1>11. Chosen'
    BY <1>5, SMT DEF Chosen
  <1> QED BY <1>7, <1>8, <1>9, <1>10, <1>11

LEMMA RequestKeeps ==
  ASSUME IInv, NEW c \in Callers, NEW clears, NEW s, calls[c].at \in {"load", "clear"},
         BecomesRequested(OfCall(c), clears, s),
         \/ calls' = [calls EXCEPT ![c].at = "task"]
         \/ calls' = [calls EXCEPT ![c] = NoCall],
         UNCHANGED <<tasks, task, next>>, RenderKept
  PROVE  IInv'
  <1> USE DEF IInv, RenderKept, sharedVars, history
  <1>1. /\ \A d \in Callers : d # c => calls'[d] = calls[d]
        /\ calls'[c].at \in {"idle", "task"}
        /\ calls'[c].at = "task" => calls'[c].batch = calls[c].batch
    BY SMT DEF Kinds, NoCall
  <1>2. calls' \in [Callers -> [at : {"idle", "load", "clear", "task"}, batch : MaybeLoads]]
    <2> DEFINE Calls == [at : {"idle", "load", "clear", "task"}, batch : MaybeLoads]
    <2>1. calls \in [Callers -> Calls] /\ calls[c] \in Calls
      BY DEF Kinds
    <2>2. [calls[c] EXCEPT !.at = "task"] \in Calls /\ NoCall \in Calls
      BY <2>1, NoBatchFacts DEF NoCall
    <2> HIDE DEF Calls
    <2>3. calls' \in [Callers -> Calls]
      BY <2>1, <2>2, SMT
    <2> QED BY <2>3 DEF Calls
  <1>3. UNCHANGED <<tasks, task, next, prep, built>>
    BY DEF BecomesRequested
  <1>4. Active(c)' => OfCall(c)' = OfCall(c)
    BY <1>1 DEF Active, OfCall
  <1>5. OfCall(c) \in Nat \ {0}
    <2>1. calls[c].batch \in MaybeLoads
      BY DEF Kinds
    <2>2. OfCall(c) # 0
      BY DEF Numbered, Active
    <2> QED BY <2>1, <2>2, LoadsFacts DEF OfCall
  <1>6. CASE ShuttingDown
    <2>1. UNCHANGED <<requested, pending, begun>>
      BY <1>6 DEF BecomesRequested
    <2>2. Kinds'
      BY <1>2, <1>3, <2>1 DEF Kinds
    <2>3. \A d \in Callers : Active(d)' => Active(d) /\ OfCall(d)' = OfCall(d)
      BY <1>1, <1>4 DEF Active, OfCall
    <2>4. OfTask' = OfTask /\ OfPending' = OfPending /\ OfPrepare' = OfPrepare
      BY <1>3, <2>1 DEF OfTask, OfPending, OfPrepare
    <2> QED BY <1>1, <1>3, <2>1, <2>2, <2>3, <2>4, DropsKeep
  <1>7. CASE ~ShuttingDown
    <2>1. requested' = OfCall(c) /\ pending' = NoBatch /\ begun' = Append(begun, OfCall(c))
      BY <1>7 DEF BecomesRequested
    <2>2. begun' \in Seq(Nat \ {0}) /\ built \in 0..Len(begun')
      BY <1>5, <2>1, SMT DEF Kinds
    <2>3. Kinds'
      BY <1>2, <1>3, <1>5, <2>1, <2>2, NoBatchFacts DEF Kinds
    <2> QED BY <1>1, <1>3, <1>4, <2>1, <2>3, BeginsKeep
  <1> QED BY <1>6, <1>7

LEMMA AddTaskKeeps ==
  ASSUME IInv, NEW c \in Callers, AddTask(c)
  PROVE  IInv'
  <1> USE DEF IInv
  <1> DEFINE g == OfCall(c)
             n == Len(tasks) + 1
  <1>1. /\ calls[c].at = "task" /\ calls' = [calls EXCEPT ![c] = NoCall]
        /\ tasks' = Append(tasks, calls[c].batch)
        /\ UNCHANGED <<task, pending, prep, next, requested, begun, built>>
    BY DEF AddTask, RenderKept, sharedVars, history
  <1>2. Active(c) /\ g # 0 /\ g < next
    BY <1>1, SMT DEF Active, Numbered
  <1>3. calls[c].batch \in Loads
    <2>1. calls[c].batch \in MaybeLoads
      BY DEF Kinds
    <2> QED BY <1>2, <2>1, LoadsFacts, NoBatchFacts DEF OfCall
  <1>4. /\ \A d \in Callers : d # c => calls'[d] = calls[d]
        /\ ~Active(c)'
    BY <1>1, SMT DEF Kinds, Active, NoCall
  <1>5. \A d \in Callers : Active(d)' => d # c /\ Active(d) /\ OfCall(d)' = OfCall(d)
    BY <1>4 DEF Active, OfCall
  <1>6. OfTask' = OfTask /\ OfPending' = OfPending /\ OfPrepare' = OfPrepare
    BY <1>1 DEF OfTask, OfPending, OfPrepare
  <1>7. tasks \in Seq(Loads)
    BY DEF Kinds
  <1>8. /\ tasks' \in Seq(Loads) /\ Len(tasks') = n /\ Len(tasks) \in Nat
        /\ \A i \in 1..Len(tasks) : tasks'[i] = tasks[i]
        /\ tasks'[n] = calls[c].batch
        /\ \A i \in 1..Len(tasks') : i \in 1..Len(tasks) \/ i = n
    BY <1>1, <1>3, <1>7, SMT
  <1>9. /\ \A i \in 1..Len(tasks) : tasks'[i].generation = tasks[i].generation
        /\ tasks'[n].generation = g
    BY <1>8 DEF OfCall
  <1>10. Kinds'
    <2>1. calls' \in [Callers -> [at : {"idle", "load", "clear", "task"}, batch : MaybeLoads]]
      BY <1>1, NoBatchFacts, SMT DEF Kinds, NoCall
    <2> QED BY <1>1, <1>8, <2>1 DEF Kinds
  <1>11. Numbered'
    BY <1>1, <1>2, <1>5, <1>6, <1>8, <1>9, SMT DEF Numbered
  <1>12. OnePlace'
    <2>1. \A i \in 1..Len(tasks) : tasks[i].generation # g
      BY <1>2 DEF OnePlace
    <2>2. g \notin {OfTask, OfPending, OfPrepare}
      BY <1>2 DEF OnePlace
    <2>3. \A d \in Callers : Active(d)' =>
            /\ OfCall(d)' \notin {OfTask', OfPending', OfPrepare'}
            /\ \A i \in 1..Len(tasks') : tasks'[i].generation # OfCall(d)'
      BY <1>2, <1>5, <1>6, <1>8, <1>9, SMT DEF OnePlace
    <2>4. \A i, j \in 1..Len(tasks') : i # j => tasks'[i].generation # tasks'[j].generation
      BY <1>8, <1>9, <2>1, SMT DEF OnePlace
    <2>5. \A i \in 1..Len(tasks') : tasks'[i].generation \notin {OfTask', OfPending', OfPrepare'}
      BY <1>6, <1>8, <1>9, <2>2, SMT DEF OnePlace
    <2> QED BY <1>5, <1>6, <2>3, <2>4, <2>5, SMT DEF OnePlace
  <1>13. Begun'
    <2>1. \A d \in Callers : calls'[d].at \in {"load", "clear"} => calls'[d] = calls[d]
      BY <1>4 DEF Active
    <2> QED BY <1>1, <2>1, SMT DEF Begun, OfCall
  <1>14. NotBuilt'
    BY <1>1, <1>2, <1>5, <1>6, <1>8, <1>9, SMT DEF NotBuilt
  <1>15. Chosen'
    BY <1>1, SMT DEF Chosen
  <1> QED BY <1>10, <1>11, <1>12, <1>13, <1>14, <1>15

LEMMA TaskStartsKeeps ==
  ASSUME IInv, TaskStarts
  PROVE  IInv'
  <1> USE DEF IInv
  <1>1. /\ task = NoCall /\ tasks # <<>> /\ tasks' = Tail(tasks)
        /\ task' = IF gone THEN NoCall ELSE [at |-> "load", batch |-> Head(tasks)]
        /\ UNCHANGED <<calls, pending, prep, next, requested, begun, built>>
    BY DEF TaskStarts, RenderKept, sharedVars, history
  <1>2. tasks \in Seq(Loads)
    BY DEF Kinds
  <1>3. /\ tasks' \in Seq(Loads) /\ Len(tasks) \in Nat /\ Len(tasks') = Len(tasks) - 1
        /\ \A i \in 1..Len(tasks') : i + 1 \in 1..Len(tasks) /\ tasks'[i] = tasks[i + 1]
        /\ 1 \in 1..Len(tasks) /\ Head(tasks) = tasks[1]
    BY <1>1, <1>2, SMT
  <1>4. tasks[1] \in Loads /\ tasks[1].generation # 0
    BY <1>3, QueueFacts
  <1>5. OfTask = 0 /\ OfTask' \in {0, tasks[1].generation}
    BY <1>1, <1>3, SMT DEF OfTask, NoCall
  <1>6. OfPending' = OfPending /\ OfPrepare' = OfPrepare
    BY <1>1 DEF OfPending, OfPrepare
  <1>7. \A c \in Callers : Active(c)' = Active(c) /\ OfCall(c)' = OfCall(c)
    BY <1>1 DEF Active, OfCall
  <1>8. next \in Nat /\ next # 0
    BY DEF Kinds
  <1>9. Kinds'
    <2>1. task' \in [at : {"idle", "load", "submit"}, batch : MaybeLoads]
      BY <1>1, <1>3, <1>4, NoBatchFacts DEF NoCall, MaybeLoads
    <2> QED BY <1>1, <1>3, <2>1 DEF Kinds
  <1>10. Numbered'
    BY <1>1, <1>3, <1>5, <1>6, <1>7, <1>8, SMT DEF Numbered
  <1>11. OnePlace'
    <2>1. \A i \in 1..Len(tasks') :
            tasks'[i].generation # tasks[1].generation /\ tasks'[i].generation # 0
      <3> SUFFICES ASSUME NEW i \in 1..Len(tasks')
                   PROVE  tasks'[i].generation # tasks[1].generation /\ tasks'[i].generation # 0
        OBVIOUS
      <3>1. i + 1 \in 1..Len(tasks) /\ i + 1 # 1
        BY <1>3, SMT
      <3>2. tasks[i + 1].generation # tasks[1].generation
        BY <1>3, <3>1 DEF OnePlace
      <3>3. tasks[i + 1].generation # 0
        BY <3>1, QueueFacts
      <3> QED BY <1>3, <3>2, <3>3
    <2>2. \A c \in Callers : Active(c)' =>
            /\ OfCall(c)' \notin {OfTask', OfPending', OfPrepare'}
            /\ \A i \in 1..Len(tasks') : tasks'[i].generation # OfCall(c)'
      BY <1>3, <1>5, <1>6, <1>7, SMT DEF OnePlace, Numbered
    <2>3. \A i, j \in 1..Len(tasks') : i # j => tasks'[i].generation # tasks'[j].generation
      <3> SUFFICES ASSUME NEW i \in 1..Len(tasks'), NEW j \in 1..Len(tasks'), i # j
                   PROVE  tasks'[i].generation # tasks'[j].generation
        OBVIOUS
      <3>1. i + 1 \in 1..Len(tasks) /\ j + 1 \in 1..Len(tasks) /\ i + 1 # j + 1
        BY <1>3, SMT
      <3>2. tasks[i + 1].generation # tasks[j + 1].generation
        BY <3>1 DEF OnePlace
      <3> QED BY <1>3, <3>2
    <2>4. \A i \in 1..Len(tasks') : tasks'[i].generation \notin {OfTask', OfPending', OfPrepare'}
      BY <1>3, <1>5, <1>6, <2>1, SMT DEF OnePlace
    <2>5. OfTask' # 0 => OfTask' \notin {OfPending', OfPrepare'}
      BY <1>3, <1>5, <1>6, SMT DEF OnePlace
    <2> QED BY <1>6, <1>7, <2>2, <2>3, <2>4, <2>5, SMT DEF OnePlace
  <1>12. Begun'
    BY <1>1, SMT DEF Begun, OfCall
  <1>13. NotBuilt'
    <2>1. built # 0 => begun[built] # 0
      BY SMT DEF Kinds
    <2> QED BY <1>1, <1>3, <1>5, <1>6, <1>7, <2>1, SMT DEF NotBuilt
  <1>14. Chosen'
    BY <1>1, SMT DEF Chosen
  <1> QED BY <1>9, <1>10, <1>11, <1>12, <1>13, <1>14

\* A load that goes on from the task to what is handed over, or from there to Prepare.
LEMMA MovesKeep ==
  ASSUME IInv, Kinds', UNCHANGED <<calls, tasks, next, requested, begun, built>>,
         \/ OfTask' = 0 /\ OfPending' = OfTask /\ OfPrepare' = OfPrepare
         \/ OfTask' = OfTask /\ OfPending' = 0 /\ OfPrepare' = OfPending,
         prep'.at = "build" => prep.at = "build" /\ prep'.batch = prep.batch
  PROVE  IInv'
  <1> USE DEF IInv
  <1>1. \A c \in Callers : Active(c)' = Active(c) /\ OfCall(c)' = OfCall(c)
    BY DEF Active, OfCall
  <1>2. next \in Nat /\ next # 0
    BY DEF Kinds
  <1>3. Numbered'
    BY <1>1, <1>2, SMT DEF Numbered
  <1>4. OnePlace'
    <2>1. \A i \in 1..Len(tasks) : tasks[i].generation # 0
      BY QueueFacts
    <2>2. /\ \A c \in Callers : Active(c) => OfCall(c) \notin {OfTask', OfPending', OfPrepare'}
          /\ \A i \in 1..Len(tasks) :
               tasks[i].generation \notin {OfTask', OfPending', OfPrepare'}
          /\ OfTask' # 0 => OfTask' \notin {OfPending', OfPrepare'}
          /\ OfPending' # 0 => OfPending' # OfPrepare'
      BY <2>1, SMT DEF OnePlace, Numbered
    <2> QED BY <1>1, <2>2, SMT DEF OnePlace
  <1>5. Begun'
    BY SMT DEF Begun, OfCall
  <1>6. NotBuilt'
    <2>1. built # 0 => begun[built] # 0
      BY SMT DEF Kinds
    <2> QED BY <1>1, <2>1, SMT DEF NotBuilt
  <1>7. Chosen'
    BY SMT DEF Chosen
  <1> QED BY <1>3, <1>4, <1>5, <1>6, <1>7

LEMMA TaskSubmitsKeeps ==
  ASSUME IInv, TaskSubmits
  PROVE  IInv'
  <1> USE DEF IInv
  <1>1. /\ task.at = "submit" /\ task' = NoCall
        /\ UNCHANGED <<calls, tasks, prep, next, requested, begun, built>>
        /\ pending' = task.batch \/ pending' = pending
    BY DEF TaskSubmits, RenderKept, history
  <1>2. Kinds'
    <2>1. task' \in [at : {"idle", "load", "submit"}, batch : MaybeLoads]
      BY <1>1, NoBatchFacts DEF NoCall
    <2>2. pending' \in MaybeLoads
      BY <1>1 DEF Kinds
    <2> QED BY <1>1, <2>1, <2>2 DEF Kinds
  <1>3. OfTask' = 0 /\ OfPrepare' = OfPrepare /\ OfPending' \in {OfTask, OfPending}
    BY <1>1 DEF OfTask, OfPrepare, OfPending, NoCall
  <1>4. \A c \in Callers : Active(c)' = Active(c) /\ OfCall(c)' = OfCall(c)
    BY <1>1 DEF Active, OfCall
  <1>5. CASE OfPending' = OfTask
    BY <1>1, <1>2, <1>3, <1>5, MovesKeep
  <1>6. CASE OfPending' = OfPending
    BY <1>1, <1>2, <1>3, <1>4, <1>6, DropsKeep
  <1> QED BY <1>3, <1>5, <1>6

LEMMA PrepareTakesKeeps ==
  ASSUME IInv, PrepareTakes
  PROVE  IInv'
  <1> USE DEF IInv
  <1>1. /\ prep' = [at |-> "taken", clear |-> clearDue, batch |-> pending,
                    toggles |-> toggles, whose |-> requested, changed |-> FALSE]
        /\ pending' = NoBatch
        /\ UNCHANGED <<calls, tasks, task, next, requested, begun, built>>
    BY DEF PrepareTakes, CallsKept, callVars, history
  <1>2. prep'.at = "taken" /\ prep'.batch = pending
    BY <1>1
  <1>3. Kinds'
    <2>1. /\ IsPrepare(prep')
          /\ prep'.at \in PrepStages /\ prep'.batch \in MaybeLoads
      BY <1>1 DEF Kinds, PrepStages, IsPrepare
    <2> QED BY <1>1, <2>1, NoBatchFacts DEF Kinds
  <1>4. OfTask' = OfTask /\ OfPending' = 0 /\ OfPrepare' = OfPending
    BY <1>1, <1>2, NoBatchFacts DEF OfTask, OfPrepare, OfPending
  <1> QED BY <1>1, <1>2, <1>3, <1>4, MovesKeep

LEMMA PrepareChecksKeeps ==
  ASSUME IInv, PrepareChecks
  PROVE  IInv'
  <1> USE DEF IInv
  <1>1. /\ prep.at = "taken"
        /\ prep' = [prep EXCEPT !.at =
             IF prep.batch # NoBatch /\ prep.batch.generation = requested
             THEN "build" ELSE "toggles"]
        /\ UNCHANGED <<calls, tasks, task, next, requested, pending, begun, built>>
    BY DEF PrepareChecks, CallsKept, callVars, sharedVars, history
  <1>2. /\ IsPrepare(prep')
        /\ prep'.batch = prep.batch /\ prep'.at \in {"build", "toggles"}
        /\ prep'.at = "build" => prep.batch # NoBatch /\ prep.batch.generation = requested
    <2>1. PICK a \in {"build", "toggles"} :
            /\ prep' = [prep EXCEPT !.at = a]
            /\ a = "build" => prep.batch # NoBatch /\ prep.batch.generation = requested
      BY <1>1
    <2>2. IsPrepare(prep)
      BY DEF Kinds
    <2>3. IsPrepare(prep') /\ prep'.batch = prep.batch /\ prep'.at = a
      BY <2>1, <2>2, PrepareRecord
    <2> QED BY <2>1, <2>3
  <1>3. Kinds'
    BY <1>1, <1>2 DEF Kinds, PrepStages
  <1>4. /\ OfTask' = OfTask /\ OfPending' = OfPending /\ OfPrepare' \in {0, OfPrepare}
        /\ OfPrepare = prep.batch.generation
    BY <1>1, <1>2 DEF OfTask, OfPrepare, OfPending
  <1>5. \A c \in Callers : Active(c)' = Active(c) /\ OfCall(c)' = OfCall(c)
    BY <1>1 DEF Active, OfCall
  <1>6. next \in Nat /\ next # 0
    BY DEF Kinds
  <1>7. Numbered'
    BY <1>1, <1>4, <1>5, <1>6, SMT DEF Numbered
  <1>8. OnePlace'
    <2>1. \A i \in 1..Len(tasks) : tasks[i].generation # 0
      BY QueueFacts
    <2>2. /\ \A c \in Callers : Active(c) => OfCall(c) \notin {OfTask', OfPending', OfPrepare'}
          /\ \A i \in 1..Len(tasks) :
               tasks[i].generation \notin {OfTask', OfPending', OfPrepare'}
          /\ OfTask' # 0 => OfTask' \notin {OfPending', OfPrepare'}
          /\ OfPending' # 0 => OfPending' # OfPrepare'
      BY <1>4, <2>1, SMT DEF OnePlace, Numbered
    <2> QED BY <1>1, <1>5, <2>2, SMT DEF OnePlace
  <1>9. Begun'
    BY <1>1, SMT DEF Begun, OfCall
  <1>10. NotBuilt'
    <2>1. built # 0 => begun[built] # 0
      BY SMT DEF Kinds
    <2> QED BY <1>1, <1>4, <1>5, <2>1, SMT DEF NotBuilt
  <1>11. Chosen'
    <2> SUFFICES ASSUME prep'.at = "build"
                 PROVE  \E i \in 1..Len(begun) : begun[i] = prep.batch.generation /\ i > built
      BY <1>1, <1>2 DEF Chosen
    <2> DEFINE n == Len(begun)
    <2>1. prep.batch \in MaybeLoads /\ prep.batch # NoBatch
      BY <1>2 DEF Kinds
    <2>2. requested # 0 /\ requested = OfPrepare
      BY <1>2, <1>4, <2>1, LoadsFacts
    <2>3. n \in Nat /\ begun # <<>> /\ n # 0 /\ begun[n] = requested
      BY <2>2, SMT DEF Begun, Kinds
    <2>4. built # n
      <3> SUFFICES ASSUME built = n PROVE FALSE
        OBVIOUS
      <3>1. built # 0 /\ begun[built] = OfPrepare
        BY <2>2, <2>3
      <3> QED BY <3>1 DEF NotBuilt
    <2>5. built \in 0..n
      BY DEF Kinds
    <2>6. n \in 1..n /\ n > built
      BY <2>3, <2>4, <2>5, SMT
    <2> QED BY <1>4, <2>2, <2>3, <2>6
  <1> QED BY <1>3, <1>7, <1>8, <1>9, <1>10, <1>11

LEMMA PlaceFacts ==
  ASSUME Kinds, Begun, NEW i \in 1..Len(begun)
  PROVE  Place(begun, begun[i]) = i
  <1> DEFINE p == Place(begun, begun[i])
  <1>1. DOMAIN begun = 1..Len(begun)
    BY SMT DEF Kinds
  <1>2. p \in DOMAIN begun /\ begun[p] = begun[i]
    BY <1>1, Zenon DEF Place
  <1> QED BY <1>1, <1>2 DEF Begun

\* What a build leaves as the scene built last.
LEMMA BuiltFacts ==
  ASSUME IInv, prep.at = "build"
  PROVE  \E i \in 1..Len(begun) :
           /\ begun[i] = prep.batch.generation /\ i > built
           /\ Place(begun, prep.batch.generation) = i
  <1>1. PICK i \in 1..Len(begun) : begun[i] = prep.batch.generation /\ i > built
    BY DEF IInv, Chosen
  <1>2. Place(begun, begun[i]) = i
    BY PlaceFacts DEF IInv
  <1> QED BY <1>1, <1>2

LEMMA BuildSucceedsKeeps ==
  ASSUME IInv, BuildSucceeds
  PROVE  IInv'
  <1> USE DEF IInv
  <1>1. /\ prep.at = "build" /\ prep' = [prep EXCEPT !.at = "toggles"]
        /\ model' = prep.batch.generation /\ built' = Place(begun, model')
        /\ UNCHANGED <<calls, tasks, task, next, requested, pending, begun>>
    BY DEF BuildSucceeds, CallsKept, callVars, sharedVars
  <1>2. PICK i \in 1..Len(begun) : begun[i] = prep.batch.generation /\ built' = i
    BY <1>1, BuiltFacts
  <1>3. /\ IsPrepare(prep')
        /\ prep'.batch = prep.batch /\ prep'.at = "toggles"
    <2>1. IsPrepare(prep)
      BY DEF Kinds
    <2>2. PICK q : q = prep' /\ q = [prep EXCEPT !.at = "toggles"]
      BY <1>1
    <2> HIDE DEF IInv
    <2>3. IsPrepare(q) /\ q.batch = prep.batch /\ q.at = "toggles"
      BY <2>1, <2>2, SMT DEF IsPrepare
    <2> QED BY <2>2, <2>3
  <1>4. built' \in 0..Len(begun')
    <2>1. begun \in Seq(Nat \ {0}) /\ begun' = begun
      BY <1>1 DEF Kinds
    <2>2. Len(begun) \in Nat
      BY <2>1, SMT
    <2> QED BY <1>2, <2>1, <2>2, SMT
  <1>5. Kinds'
    BY <1>1, <1>3, <1>4 DEF Kinds, PrepStages
  <1>6. /\ OfTask' = OfTask /\ OfPending' = OfPending /\ OfPrepare' = 0
        /\ OfPrepare = begun[i]
    BY <1>1, <1>2, <1>3 DEF OfTask, OfPrepare, OfPending
  <1>7. \A c \in Callers : Active(c)' = Active(c) /\ OfCall(c)' = OfCall(c)
    BY <1>1 DEF Active, OfCall
  <1>8. next \in Nat /\ next # 0 /\ begun[i] # 0
    BY SMT DEF Kinds
  <1>9. Numbered'
    BY <1>1, <1>6, <1>7, <1>8, SMT DEF Numbered
  <1>10. OnePlace'
    <2>1. \A j \in 1..Len(tasks) : tasks[j].generation # 0
      BY QueueFacts
    <2>2. /\ \A c \in Callers : Active(c) => OfCall(c) \notin {OfTask', OfPending', OfPrepare'}
          /\ \A j \in 1..Len(tasks) :
               tasks[j].generation \notin {OfTask', OfPending', OfPrepare'}
          /\ OfTask' # 0 => OfTask' \notin {OfPending', OfPrepare'}
          /\ OfPending' # 0 => OfPending' # OfPrepare'
      BY <1>6, <2>1, SMT DEF OnePlace, Numbered
    <2> QED BY <1>1, <1>7, <2>2, SMT DEF OnePlace
  <1>11. Begun'
    BY <1>1, SMT DEF Begun, OfCall
  <1>12. NotBuilt'
    <2>1. begun'[built'] = OfPrepare
      BY <1>1, <1>2, <1>6
    <2>2. /\ OfPrepare \notin {OfTask, OfPending, 0}
          /\ \A j \in 1..Len(tasks) : tasks[j].generation # OfPrepare
          /\ \A c \in Callers : Active(c) => OfCall(c) # OfPrepare
      BY <1>6, <1>8, SMT DEF OnePlace
    <2> QED BY <1>1, <1>6, <1>7, <2>1, <2>2 DEF NotBuilt
  <1>13. Chosen'
    BY <1>3 DEF Chosen
  <1> QED BY <1>5, <1>9, <1>10, <1>11, <1>12, <1>13

\* The steps that take, hand over and build nothing.
Idles ==
  \/ \E o \in Objects, b \in BOOLEAN : SetObjectVisible(o, b)
  \/ SetCamera \/ FrameScene \/ TaskFails \/ TaskLoads
  \/ BuildFails \/ PrepareDecides \/ RenderSucceeds \/ RenderFails \/ PrepareShows
  \/ \E o \in Objects : PrepareToggles(o)
  \/ BeginShutdown \/ GoesAway \/ UNCHANGED vars


LEMMA IdlesKeep ==
  ASSUME IInv, Idles
  PROVE  IInv'
  <1> USE DEF IInv
  <1> USE DEF RenderKept, CallsKept, callVars, sharedVars, sceneVars, shownVars,
              endVars, history
  <1> DEFINE Drops ==
        /\ UNCHANGED <<calls, tasks, next, requested, begun, built>>
        /\ \/ task' = task \/ task' = NoCall
           \/ task' = [task EXCEPT !.at = "submit"] /\ task.at = "load"
        /\ pending' = pending \/ pending' = NoBatch
        /\ IsPrepare(prep')
        /\ prep' = prep \/ prep'.at \in {"idle", "toggles", "render", "show"}
        /\ prep'.batch \in {NoBatch, prep.batch}
  <1>0. /\ IsPrepare(prep)
        /\ IsPrepare(IdlePrep)
        /\ IdlePrep.at = "idle" /\ IdlePrep.batch = NoBatch
    BY DEF Kinds, IdlePrep, IsPrepare
  <1>d. Drops
    <2>1. CASE \E o \in Objects, b \in BOOLEAN : SetObjectVisible(o, b)
      BY <1>0, <2>1 DEF SetObjectVisible
    <2>2. CASE SetCamera \/ FrameScene
      BY <1>0, <2>2 DEF SetCamera, FrameScene, Poses
    <2>3. CASE TaskFails \/ TaskLoads
      BY <1>0, <2>3 DEF TaskFails, TaskLoads
    <2>4. CASE BuildFails
      BY <1>0, <2>4, PrepareRecord DEF BuildFails
    <2>5. CASE PrepareDecides
      <3>a. PICK a \in {"render", "show"} : prep' = [prep EXCEPT !.at = a, !.changed = FALSE]
        BY <2>5, Zenon DEF PrepareDecides
      <3>1. PICK ch : prep' = [prep EXCEPT !.at = a, !.changed = ch]
        BY <3>a, Zenon
      <3> DEFINE p == [prep EXCEPT !.at = a]
      <3>2. p = [prep EXCEPT !.at = a] /\ prep' = [p EXCEPT !.changed = ch]
        BY <3>1, SMT
      <3> HIDE DEF p
      <3>3. IsPrepare(p) /\ p.batch = prep.batch /\ p.at = a
        BY <1>0, <3>2, PrepareRecord
      <3>4. IsPrepare(prep') /\ prep'.batch = p.batch /\ prep'.at = a
        <4>1. PICK q : q = prep' /\ q = [p EXCEPT !.changed = ch]
          BY <3>2
        <4>2. IsPrepare(q) /\ q.batch = p.batch
          BY <3>3, <4>1, PrepareRecord
        <4>3. q.at = p.at
          BY <3>3, <4>1, SMT DEF IsPrepare
        <4> QED BY <3>3, <4>1, <4>2, <4>3
      <3>5. UNCHANGED <<calls, tasks, task, next, requested, pending, begun, built>>
        BY <2>5 DEF PrepareDecides
      <3> QED BY <3>3, <3>4, <3>5
    <2>6. CASE RenderSucceeds \/ RenderFails
      BY <1>0, <2>6, PrepareRecord DEF RenderSucceeds, RenderFails
    <2>7. CASE PrepareShows
      BY <1>0, <2>7 DEF PrepareShows
    <2>8. CASE \E o \in Objects : PrepareToggles(o)
      <3>1. PICK ts, ch :
              prep.at = "toggles" /\ prep' = [prep EXCEPT !.toggles = ts, !.changed = ch]
        BY <2>8, Zenon DEF PrepareToggles
      <3> DEFINE p == [prep EXCEPT !.toggles = ts]
      <3>2. p = [prep EXCEPT !.toggles = ts] /\ prep' = [p EXCEPT !.changed = ch]
        BY <3>1, SMT
      <3> HIDE DEF p
      <3>3. IsPrepare(p) /\ p.batch = prep.batch /\ p.at = "toggles"
        BY <1>0, <3>1, <3>2, PrepareRecord
      <3>4. IsPrepare(prep') /\ prep'.batch = p.batch /\ prep'.at = "toggles"
        <4>1. PICK q : q = prep' /\ q = [p EXCEPT !.changed = ch]
          BY <3>2
        <4>2. IsPrepare(q) /\ q.batch = p.batch
          BY <3>3, <4>1, PrepareRecord
        <4>3. q.at = p.at
          BY <3>3, <4>1, SMT DEF IsPrepare
        <4> QED BY <3>3, <4>1, <4>2, <4>3
      <3>5. UNCHANGED <<calls, tasks, task, next, requested, pending, begun, built>>
        BY <2>8 DEF PrepareToggles
      <3> QED BY <3>3, <3>4, <3>5
    <2>9. CASE BeginShutdown
      BY <1>0, <2>9 DEF BeginShutdown, FlagsShutdown, TellsShutdown
    <2>10. CASE GoesAway \/ UNCHANGED vars
      BY <1>0, <2>10 DEF GoesAway, vars
    <2> QED BY <2>1, <2>2, <2>3, <2>4, <2>5, <2>6, <2>7, <2>8, <2>9, <2>10 DEF Idles
  <1>1. UNCHANGED <<calls, tasks, next, requested, begun, built>>
    BY <1>d
  <1>2. \/ task' = task \/ task' = NoCall
        \/ task' = [task EXCEPT !.at = "submit"] /\ task.at = "load"
    BY <1>d
  <1>3. pending' = pending \/ pending' = NoBatch
    BY <1>d
  <1>4. /\ IsPrepare(prep')
        /\ prep' = prep \/ prep'.at \in {"idle", "toggles", "render", "show"}
        /\ prep'.batch \in {NoBatch, prep.batch}
    BY <1>d
  <1> HIDE DEF Drops
  <1>5. OfTask' \in {0, OfTask}
    BY <1>2, SMT DEF OfTask, NoCall, Kinds
  <1>6. OfPending' \in {0, OfPending}
    BY <1>3, NoBatchFacts DEF OfPending
  <1>7. /\ OfPrepare' \in {0, OfPrepare}
        /\ prep'.at = "build" => prep.at = "build" /\ prep'.batch = prep.batch
    BY <1>4 DEF OfPrepare
  <1>8. Kinds'
    <2>1. task' \in [at : {"idle", "load", "submit"}, batch : MaybeLoads]
      <3>1. task \in [at : {"idle", "load", "submit"}, batch : MaybeLoads]
        BY DEF Kinds
      <3>2. [task EXCEPT !.at = "submit"] \in [at : {"idle", "load", "submit"}, batch : MaybeLoads]
        BY <3>1, SMT
      <3>3. NoCall \in [at : {"idle", "load", "submit"}, batch : MaybeLoads]
        BY NoBatchFacts DEF NoCall
      <3> QED BY <1>2, <3>1, <3>2, <3>3
    <2>2. pending' \in MaybeLoads /\ prep'.batch \in MaybeLoads /\ prep'.at \in PrepStages
      BY <1>3, <1>4, NoBatchFacts DEF Kinds, PrepStages
    <2> QED BY <1>1, <1>4, <2>1, <2>2 DEF Kinds
  <1>9. /\ \A c \in Callers : Active(c)' => Active(c) /\ OfCall(c)' = OfCall(c)
        /\ \A c \in Callers : calls'[c].at \in {"load", "clear"} =>
                               calls[c].at \in {"load", "clear"}
    BY <1>1 DEF Active, OfCall
  <1> QED BY <1>1, <1>5, <1>6, <1>7, <1>8, <1>9, DropsKeep

-----------------------------------------------------------------------------
LEMMA NextKeeps ==
  ASSUME IInv, [Next]_vars
  PROVE  IInv'
  <1>1. CASE \E c \in Callers : TakesGeneration(c)
    BY <1>1, TakesGenerationKeeps
  <1>2. ASSUME NEW c \in Callers, BeginLoad(c) PROVE IInv'
    <2>1. PICK clears, s : BecomesRequested(OfCall(c), clears, s)
      BY <1>2, Zenon DEF BeginLoad, OfCall
    <2>2. /\ calls[c].at \in {"load", "clear"}
          /\ UNCHANGED <<tasks, task, next>> /\ RenderKept
          /\ \/ calls' = [calls EXCEPT ![c].at = "task"]
             \/ calls' = [calls EXCEPT ![c] = NoCall]
      BY <1>2, Zenon DEF BeginLoad
    <2> QED BY <2>1, <2>2, RequestKeeps
  <1>3. ASSUME NEW c \in Callers, Clear(c) PROVE IInv'
    <2>1. PICK clears, s : BecomesRequested(OfCall(c), clears, s)
      BY <1>3, Zenon DEF Clear, OfCall
    <2>2. /\ calls[c].at \in {"load", "clear"}
          /\ UNCHANGED <<tasks, task, next>> /\ RenderKept
          /\ \/ calls' = [calls EXCEPT ![c].at = "task"]
             \/ calls' = [calls EXCEPT ![c] = NoCall]
      BY <1>3, Zenon DEF Clear
    <2> QED BY <2>1, <2>2, RequestKeeps
  <1>4. CASE \E c \in Callers : AddTask(c)
    BY <1>4, AddTaskKeeps
  <1>5. CASE TaskStarts
    BY <1>5, TaskStartsKeeps
  <1>6. CASE TaskSubmits
    BY <1>6, TaskSubmitsKeeps
  <1>7. CASE PrepareTakes
    BY <1>7, PrepareTakesKeeps
  <1>8. CASE PrepareChecks
    BY <1>8, PrepareChecksKeeps
  <1>9. CASE BuildSucceeds
    BY <1>9, BuildSucceedsKeeps
  <1>10. CASE Idles
    BY <1>10, IdlesKeep
  <1> QED BY <1>1, <1>2, <1>3, <1>4, <1>5, <1>6, <1>7, <1>8, <1>9, <1>10
          DEF Next, CallStep, TaskStep, PrepareStep, Idles

\* The scenes built follow the order in which their loads were begun, whatever
\* the order their tasks ran in and whatever Prepare met half-way: the stale
\* generation checks of SubmitSceneBatch and of Prepare are enough.
THEOREM ScenesFollowRequests == Spec => OrderKept
  <1>1. Init => IInv
    BY InitInv
  <1>2. IInv /\ [Next]_vars => IInv'
    BY NextKeeps
  <1>3. IInv /\ [Next]_vars => [model' \notin {0, model} => Place(begun, model') > built]_vars
    <2> SUFFICES ASSUME IInv, Next, model' \notin {0, model}
                 PROVE  Place(begun, model') > built
      OBVIOUS
    <2>1. BuildSucceeds
      <3> USE DEF RenderKept, sceneVars
      <3>1. CASE \E c \in Callers : TakesGeneration(c) \/ CallStep(c)
        BY <3>1, Zenon DEF TakesGeneration, CallStep, BeginLoad, Clear, AddTask
      <3>2. CASE \/ \E o \in Objects, b \in BOOLEAN : SetObjectVisible(o, b)
                 \/ SetCamera \/ FrameScene
        BY <3>2, Zenon DEF SetObjectVisible, SetCamera, FrameScene, Poses
      <3>3. CASE TaskStep
        BY <3>3, Zenon DEF TaskStep, TaskStarts, TaskFails, TaskLoads, TaskSubmits
      <3>4. CASE PrepareStep
        BY <3>4, Zenon DEF PrepareStep, PrepareTakes, PrepareChecks, BuildFails,
           ResetModelResources, PrepareToggles, PrepareDecides, RenderSucceeds,
           RenderFails, PrepareShows
      <3>5. CASE BeginShutdown \/ GoesAway
        BY <3>5, Zenon DEF BeginShutdown, GoesAway
      <3> QED BY <3>1, <3>2, <3>3, <3>4, <3>5 DEF Next
    <2>2. prep.at = "build" /\ model' = prep.batch.generation
      BY <2>1 DEF BuildSucceeds
    <2>3. PICK i \in 1..Len(begun) : Place(begun, model') = i /\ i > built
      BY <2>2, BuiltFacts
    <2> QED BY <2>3
  <1> QED BY <1>1, <1>2, <1>3, PTL DEF Spec, OrderKept

-----------------------------------------------------------------------------
(* What the surface has and shows, while it is not shutting down.          *)

\* The load of generation g is on its way to being built.
OnItsWay(g) ==
  \/ \E c \in Callers : calls[c].at = "task" /\ OfCall(c) = g
  \/ \E i \in 1..Len(tasks) : tasks[i].generation = g
  \/ g \in {OfTask, OfPending, OfPrepare}

\* So is the load of the scene requested last.
Coming == requested # 0 /\ OnItsWay(requested)

\* What is there will be cleared.
ClearAhead == clearDue \/ (prep.at = "taken" /\ prep.clear)

\* The scene is the one built last; only the walk over the toggles changes it.
Scene ==
  /\ model # 0 => built # 0 /\ model = begun[built]
  /\ gone => down # "no"
  /\ prep.changed \in BOOLEAN /\ (prep.changed => prep.at = "toggles")
  /\ prep.at \in {"render", "show"} => prep.toggles = Nothing

\* Only the requested load is handed over, and a clear is never due with it.
Handover ==
  /\ OfPending \in {0, requested}
  /\ clearDue => ~Coming
  /\ prep.at = "taken" /\ prep.clear => prep.batch = NoBatch
  /\ task.at # "idle" => OfTask # 0

\* A load that is not answered is on its way.
Answered == status = "Loading" => Coming

\* A scene other than the requested one will be cleared or replaced, and so will
\* the one being built if it was overtaken by another request.
Replaced ==
  /\ model \notin {0, requested} => ClearAhead \/ Coming
  /\ prep.at = "build" /\ OfPrepare # requested => clearDue \/ Coming

\* A surface that is ready has the requested scene.
ReadyScene == status = "Ready" /\ ~raced => model = requested /\ ~ClearAhead

\* The last frame is of the scene as it is, unless one is still to be drawn.
FrameTells ==
  status = "Ready" /\ ~raced /\ ~dirty /\ ~prep.changed /\ prep.at # "render" =>
    frame = [of |-> model, shown |-> visibility, camera |-> camera]

\* Between presents the view is of the status, unless something is still to come
\* or the transport has lent its view.
ViewTells ==
  prep.at = "idle" /\ ~clearDue /\ pending = NoBatch /\ status # "Loading" =>
    IF status = "Ready" THEN view = frame \/ (TransportHolds /\ view = Checkerboard)
                        ELSE view = Checkerboard

\* Prepare has taken a toggle of o that was queued since the load was begun.
Carried(o) == prep.at # "idle" /\ prep.whose = requested /\ o \in DOMAIN prep.toggles

\* The last toggle of an object is queued, in Prepare's hands or applied to its
\* scene, unless the scene failed or was cleared.
Toggled(o) ==
  /\ o \in DOMAIN toggles => toggles[o] = wish[o]
  /\ Carried(o) /\ o \notin DOMAIN toggles => prep.toggles[o] = wish[o]
  /\ \/ o \in DOMAIN toggles
     \/ Carried(o)
     \/ model = requested /\ (o \in DOMAIN visibility => visibility[o] = wish[o])

Toggles == model = requested \/ Coming => \A o \in DOMAIN wish \ strays : Toggled(o)

Up == /\ Scene /\ Handover /\ Answered /\ Replaced
      /\ ReadyScene /\ FrameTells /\ ViewTells /\ Toggles

SInv == down = "no" => Up

LEMMA SInit == Init => SInv
  <1> SUFFICES ASSUME Init PROVE Up
    BY DEF SInv
  <1> USE DEF Init
  <1>1. OfTask = 0 /\ OfPending = 0 /\ ~Coming /\ task.at = "idle"
    BY NoBatchFacts DEF OfTask, OfPending, Coming, NoCall
  <1>2. prep.at = "idle" /\ prep.changed = FALSE
    BY DEF IdlePrep
  <1>3. Scene /\ Handover /\ Answered /\ Replaced
    BY <1>1, <1>2 DEF Scene, Handover, Answered, Replaced
  <1>4. ReadyScene /\ FrameTells /\ ViewTells
    BY <1>1, <1>2 DEF ReadyScene, FrameTells, ViewTells
  <1>5. Toggles
    BY DEF Toggles, Nothing
  <1> QED BY <1>3, <1>4, <1>5 DEF Up

-----------------------------------------------------------------------------
(* Loads on their way.                                                     *)

\* A load on its way is the requested one, or it does not matter.
LEMMA ComingKept ==
  ASSUME UNCHANGED <<calls, tasks, requested>>,
         requested # 0 => (requested \in {OfTask', OfPending', OfPrepare'} <=>
                           requested \in {OfTask, OfPending, OfPrepare})
  PROVE  Coming' <=> Coming
  BY DEF Coming, OnItsWay, OfCall

\* What is requested and in one place is on its way nowhere else.
LEMMA TakenAway ==
  ASSUME IInv, UNCHANGED <<calls, tasks, requested>>, requested # 0,
         requested \in {OfTask, OfPending, OfPrepare},
         requested \notin {OfTask', OfPending', OfPrepare'}
  PROVE  Coming /\ ~Coming'
  <1>1. Coming
    BY DEF Coming, OnItsWay
  <1>2. \A c \in Callers : calls[c].at = "task" => OfCall(c) # requested
    BY DEF IInv, OnePlace, Active
  <1>3. \A i \in 1..Len(tasks) : tasks[i].generation # requested
    BY DEF IInv, OnePlace
  <1> QED BY <1>1, <1>2, <1>3 DEF Coming, OnItsWay, OfCall

\* The scene there is is not on its way once more.
LEMMA BuiltOnce ==
  ASSUME IInv, Up, Coming
  PROVE  model # requested
  <1> SUFFICES ASSUME model = requested PROVE FALSE
    OBVIOUS
  <1>1. requested # 0 /\ built # 0 /\ begun[built] = requested
    BY DEF Coming, Up, Scene
  <1> QED BY <1>1 DEF IInv, NotBuilt, Coming, OnItsWay, Active

\* The request last begun is in begun.
LEMMA SceneKept ==
  ASSUME IInv, Scene, UNCHANGED <<model, built, down, gone, prep>>,
         begun' = begun \/ \E g : begun' = Append(begun, g)
  PROVE  Scene'
  <1>1. built # 0 => built \in 1..Len(begun) /\ begun \in Seq(Nat \ {0})
    BY DEF IInv, Kinds
  <1>2. built # 0 => begun'[built] = begun[built]
    BY <1>1
  <1> QED BY <1>2 DEF Scene

shared == <<requested, pending, clearDue, toggles, status, wish, strays, raced>>
shows  == <<model, visibility, graphics, camera, dirty, frame, view, lent, prep, down, gone,
            begun, built>>

\* A step that only moves loads along.
LEMMA QuietKeeps ==
  ASSUME IInv, Up, UNCHANGED shared, UNCHANGED shows, Coming' <=> Coming,
         task'.at # "idle" => OfTask' # 0
  PROVE  Up'
  <1> USE DEF shared, shows
  <1>1. OfPending' = OfPending /\ OfPrepare' = OfPrepare /\ (ClearAhead' <=> ClearAhead)
    BY DEF OfPending, OfPrepare, ClearAhead
  <1>2. Scene'
    BY DEF Up, Scene
  <1>3. Handover' /\ Answered' /\ Replaced' /\ ReadyScene'
    BY <1>1 DEF Up, Handover, Answered, Replaced, ReadyScene
  <1>4. FrameTells' /\ ViewTells' /\ Toggles'
    BY DEF Up, FrameTells, ViewTells, TransportHolds, Toggles, Toggled, Carried
  <1> QED BY <1>2, <1>3, <1>4 DEF Up

-----------------------------------------------------------------------------
(* The calls and the game's task thread.                                   *)

LEMMA TakesGenerationKeepsUp ==
  ASSUME IInv, Up, NEW c \in Callers, TakesGeneration(c)
  PROVE  Up'
  <1>1. /\ UNCHANGED <<tasks, task, pending, prep, requested>> /\ UNCHANGED shared /\ UNCHANGED shows
        /\ calls[c].at = "idle" /\ calls'[c].at # "task"
        /\ \A d \in Callers : d # c => calls'[d] = calls[d]
    BY SMT DEF TakesGeneration, RenderKept, sharedVars, history, sceneVars, shownVars, endVars,
       shared, shows, IInv, Kinds, NoCall
  <1>2. Coming' <=> Coming
    BY <1>1 DEF Coming, OnItsWay, OfCall, OfTask, OfPending, OfPrepare
  <1> QED BY <1>1, <1>2, QuietKeeps DEF OfTask, Up, Handover

LEMMA AddTaskKeepsUp ==
  ASSUME IInv, Up, NEW c \in Callers, AddTask(c)
  PROVE  Up'
  <1>1. /\ UNCHANGED <<task, pending, prep, requested>> /\ UNCHANGED shared /\ UNCHANGED shows
        /\ calls[c].at = "task" /\ calls'[c].at = "idle" /\ tasks' = Append(tasks, calls[c].batch)
        /\ \A d \in Callers : d # c => calls'[d] = calls[d]
    BY SMT DEF AddTask, RenderKept, sharedVars, history, sceneVars, shownVars, endVars,
       shared, shows, IInv, Kinds, NoCall
  <1>2. Coming' <=> Coming
    <2>1. tasks \in Seq(Loads)
      BY DEF IInv, Kinds
    <2>2. /\ Len(tasks') = Len(tasks) + 1 /\ Len(tasks) \in Nat
          /\ \A i \in 1..Len(tasks) : tasks'[i] = tasks[i]
          /\ tasks'[Len(tasks) + 1] = calls[c].batch
          /\ \A i \in 1..Len(tasks') : i \in 1..Len(tasks) \/ i = Len(tasks) + 1
          /\ Len(tasks) + 1 \in 1..Len(tasks') /\ 1..Len(tasks) \subseteq 1..Len(tasks')
      BY <1>1, <2>1, SMT
    <2>3. OfTask' = OfTask /\ OfPending' = OfPending /\ OfPrepare' = OfPrepare
      BY <1>1 DEF OfTask, OfPending, OfPrepare
    <2>4. ASSUME Coming PROVE OnItsWay(requested)'
      <3>1. CASE \E d \in Callers : calls[d].at = "task" /\ OfCall(d) = requested
        <4>1. PICK d \in Callers : calls[d].at = "task" /\ OfCall(d) = requested
          BY <3>1
        <4>2. CASE d = c
          <5>1. tasks'[Len(tasks) + 1].generation = requested
            BY <2>2, <4>1, <4>2 DEF OfCall
          <5> QED BY <1>1, <2>2, <5>1 DEF OnItsWay
        <4> QED BY <1>1, <4>1, <4>2 DEF OnItsWay, OfCall
      <3>2. CASE \E i \in 1..Len(tasks) : tasks[i].generation = requested
        <4>1. PICK i \in 1..Len(tasks) : tasks[i].generation = requested
          BY <3>2
        <4>2. i \in 1..Len(tasks') /\ tasks'[i].generation = requested
          BY <2>2, <4>1
        <4> QED BY <1>1, <4>2 DEF OnItsWay
      <3> QED BY <1>1, <2>3, <2>4, <3>1, <3>2 DEF Coming, OnItsWay
    <2>5. ASSUME Coming' PROVE OnItsWay(requested)
      <3>1. CASE \E i \in 1..Len(tasks') : tasks'[i].generation = requested
        <4>1. PICK i \in 1..Len(tasks') : tasks'[i].generation = requested
          BY <3>1
        <4>2. CASE i \in 1..Len(tasks)
          BY <2>2, <4>1, <4>2 DEF OnItsWay
        <4>3. CASE i = Len(tasks) + 1
          BY <1>1, <2>2, <4>1, <4>3 DEF OnItsWay, OfCall
        <4> QED BY <2>2, <4>2, <4>3
      <3> QED BY <1>1, <2>3, <2>5, <3>1 DEF Coming, OnItsWay, OfCall
    <2> QED BY <1>1, <2>4, <2>5 DEF Coming
  <1> QED BY <1>1, <1>2, QuietKeeps DEF OfTask, Up, Handover

LEMMA TaskStartsKeepsUp ==
  ASSUME IInv, Up, down = "no", TaskStarts
  PROVE  Up'
  <1>1. /\ UNCHANGED <<calls, pending, prep, requested>> /\ UNCHANGED shared /\ UNCHANGED shows
        /\ task = NoCall /\ tasks # <<>> /\ tasks' = Tail(tasks)
        /\ task' = [at |-> "load", batch |-> Head(tasks)]
    BY DEF TaskStarts, RenderKept, sharedVars, history, sceneVars, shownVars, endVars,
       shared, shows, Up, Scene
  <1>2. tasks \in Seq(Loads) /\ \A i \in 1..Len(tasks) : tasks[i].generation # 0
    BY QueueFacts DEF IInv, Kinds
  <1>3. /\ Len(tasks) \in Nat /\ Len(tasks) # 0 /\ Len(tasks') = Len(tasks) - 1
        /\ Head(tasks) = tasks[1]
        /\ \A i \in 1..Len(tasks') : i + 1 \in 1..Len(tasks) /\ tasks'[i] = tasks[i + 1]
        /\ \A i \in 1..Len(tasks) : i = 1 \/ (i - 1 \in 1..Len(tasks') /\ tasks'[i - 1] = tasks[i])
    BY <1>1, <1>2, SMT
  <1>4. /\ OfTask = 0 /\ OfTask' = tasks[1].generation /\ OfTask' # 0
        /\ OfPending' = OfPending /\ OfPrepare' = OfPrepare
    BY <1>1, <1>2, <1>3, SMT DEF OfTask, OfPending, OfPrepare, NoCall
  <1>5. Coming' <=> Coming
    <2>1. ASSUME Coming PROVE OnItsWay(requested)'
      <3>1. CASE \E i \in 1..Len(tasks) : tasks[i].generation = requested
        <4>1. PICK i \in 1..Len(tasks) : tasks[i].generation = requested
          BY <3>1
        <4> QED BY <1>1, <1>3, <1>4, <4>1 DEF OnItsWay
      <3> QED BY <1>1, <1>4, <2>1, <3>1 DEF Coming, OnItsWay, OfCall
    <2>2. ASSUME Coming' PROVE OnItsWay(requested)
      <3>1. CASE \E i \in 1..Len(tasks') : tasks'[i].generation = requested
        BY <1>3, <3>1 DEF OnItsWay
      <3>2. CASE OfTask' = requested
        <4>1. 1 \in 1..Len(tasks)
          BY <1>3
        <4> QED BY <1>4, <3>2, <4>1 DEF OnItsWay
      <3> QED BY <1>1, <1>4, <2>2, <3>1, <3>2 DEF Coming, OnItsWay, OfCall
    <2> QED BY <1>1, <2>1, <2>2 DEF Coming
  <1> QED BY <1>1, <1>4, <1>5, QuietKeeps

LEMMA TaskLoadsKeepsUp ==
  ASSUME IInv, Up, down = "no", TaskLoads
  PROVE  Up'
  <1>1. /\ UNCHANGED <<calls, tasks, pending, prep, requested>>
        /\ UNCHANGED shared /\ UNCHANGED shows
        /\ task.at = "load" /\ task'.at = "submit" /\ task'.batch = task.batch
    BY SMT DEF TaskLoads, RenderKept, sharedVars, history, sceneVars, shownVars, endVars,
       shared, shows, Up, Scene, ShuttingDown, IInv, Kinds
  <1>2. OfTask' = OfTask /\ OfPending' = OfPending /\ OfPrepare' = OfPrepare
    BY <1>1 DEF OfTask, OfPending, OfPrepare
  <1>3. Coming' <=> Coming
    BY <1>1, <1>2, ComingKept
  <1>4. OfTask' # 0
    BY <1>1, <1>2 DEF Up, Handover
  <1> QED BY <1>1, <1>3, <1>4, QuietKeeps

\* A new request: the scene there is will be cleared, or replaced by its load.
LEMMA RequestKeepsUp ==
  ASSUME IInv, Up, down = "no", NEW c \in Callers, BeginLoad(c) \/ Clear(c)
  PROVE  Up'
  <1> DEFINE g == OfCall(c)
  <1>1. /\ calls[c].at \in {"load", "clear"} /\ requested' = g /\ pending' = NoBatch
        /\ toggles' = Nothing /\ begun' = Append(begun, g) /\ wish' = Nothing /\ strays' = {}
        /\ UNCHANGED <<tasks, task, prep, raced>> /\ UNCHANGED <<built, model, visibility>>
        /\ UNCHANGED <<camera, dirty, frame, view, down, gone>>
    BY DEF BeginLoad, Clear, BecomesRequested, ShuttingDown, RenderKept, sceneVars, shownVars,
       endVars, OfCall
  <1>2. g # 0
    BY <1>1 DEF IInv, Numbered, Active
  <1>3. OfTask' = OfTask /\ OfPending' = 0 /\ OfPrepare' = OfPrepare
    BY <1>1, NoBatchFacts DEF OfTask, OfPending, OfPrepare
  <1>4. Scene'
    <2>1. UNCHANGED <<model, built, down, gone, prep>>
      BY <1>1
    <2> QED BY <1>1, <2>1, SceneKept DEF Up
  <1>5. CASE BeginLoad(c)
    <2>1. /\ clearDue' = FALSE /\ status' = "Loading"
          /\ calls'[c].at = "task" /\ calls'[c].batch = calls[c].batch
      BY <1>5, SMT DEF BeginLoad, BecomesRequested, ShuttingDown, IInv, Kinds
    <2>2. Coming'
      BY <1>1, <1>2, <2>1 DEF Coming, OnItsWay, OfCall
    <2>3. Handover' /\ Answered' /\ Replaced'
      BY <1>1, <1>3, <2>1, <2>2 DEF Up, Handover, Answered, Replaced
    <2>4. ReadyScene' /\ FrameTells' /\ ViewTells'
      BY <2>1 DEF ReadyScene, FrameTells, ViewTells
    <2>5. Toggles'
      BY <1>1 DEF Toggles, Nothing
    <2> QED BY <1>4, <2>3, <2>4, <2>5 DEF Up
  <1>6. CASE Clear(c)
    <2>1. /\ clearDue' = TRUE /\ status' = "Empty" /\ calls'[c].at = "idle"
          /\ \A d \in Callers : d # c => calls'[d] = calls[d]
      BY <1>6, SMT DEF Clear, BecomesRequested, ShuttingDown, IInv, Kinds, NoCall
    <2>2. ~Coming'
      <3>1. \A d \in Callers : d # c /\ calls[d].at = "task" => OfCall(d) # g
        BY <1>1 DEF IInv, OnePlace, Active
      <3>2. /\ g \notin {OfTask, OfPrepare}
            /\ \A i \in 1..Len(tasks) : tasks[i].generation # g
        BY <1>1 DEF IInv, OnePlace, Active
      <3> QED BY <1>1, <1>2, <1>3, <2>1, <3>1, <3>2 DEF Coming, OnItsWay, OfCall
    <2>3. Handover' /\ Answered' /\ Replaced'
      BY <1>1, <1>3, <2>1, <2>2 DEF Up, Handover, Answered, Replaced, ClearAhead
    <2>4. ReadyScene' /\ FrameTells' /\ ViewTells'
      BY <2>1 DEF ReadyScene, FrameTells, ViewTells
    <2>5. Toggles'
      BY <1>1 DEF Toggles, Nothing
    <2> QED BY <1>4, <2>3, <2>4, <2>5 DEF Up
  <1> QED BY <1>5, <1>6

\* The load failed: if it is the requested one, everything is cleared.
LEMMA TaskFailsKeepsUp ==
  ASSUME IInv, Up, down = "no", TaskFails
  PROVE  Up'
  <1>1. /\ UNCHANGED <<calls, tasks, requested, prep>> /\ UNCHANGED shows
        /\ UNCHANGED <<wish, strays, raced>>
        /\ task.at = "load" /\ task'.at = "idle"
    BY DEF TaskFails, RenderKept, history, sceneVars, shownVars, endVars, shows, NoCall
  <1>2. OfTask' = 0 /\ OfPrepare' = OfPrepare /\ OfTask = task.batch.generation /\ OfTask # 0
    BY <1>1 DEF OfTask, OfPrepare, Up, Handover
  <1>3. CASE task.batch.generation = requested
    <2>1. /\ pending' = NoBatch /\ clearDue' = TRUE /\ toggles' = Nothing /\ status' = "Failed"
      BY <1>3 DEF TaskFails, ShuttingDown
    <2>2. OfPending' = 0
      BY <2>1, NoBatchFacts DEF OfPending
    <2>3. requested \notin {OfTask', OfPending', OfPrepare'}
      BY <1>2, <1>3, <2>2 DEF IInv, OnePlace
    <2>4. Coming /\ ~Coming'
      BY <1>1, <1>2, <1>3, <2>3, TakenAway
    <2>5. model # requested
      BY <2>4, BuiltOnce
    <2>6. Scene' /\ Handover' /\ Answered' /\ Replaced'
      BY <1>1, <1>2, <2>1, <2>2, <2>4 DEF Up, Scene, Handover, Answered, Replaced, ClearAhead, shows
    <2>7. ReadyScene' /\ FrameTells' /\ ViewTells' /\ Toggles'
      BY <1>1, <2>1, <2>4, <2>5 DEF ReadyScene, FrameTells, ViewTells, Toggles, shows
    <2> QED BY <2>6, <2>7 DEF Up
  <1>4. CASE task.batch.generation # requested
    <2>1. UNCHANGED shared
      BY <1>1, <1>4 DEF TaskFails, shared
    <2>2. OfPending' = OfPending
      BY <2>1 DEF shared, OfPending
    <2>3. Coming' <=> Coming
      BY <1>1, <1>2, <1>4, <2>2, ComingKept
    <2> QED BY <1>1, <2>1, <2>3, QuietKeeps
  <1> QED BY <1>3, <1>4

\* The load is handed over, or dropped if another was requested.
LEMMA TaskSubmitsKeepsUp ==
  ASSUME IInv, Up, TaskSubmits
  PROVE  Up'
  <1>1. /\ UNCHANGED <<calls, tasks, requested, prep>> /\ UNCHANGED shows
        /\ UNCHANGED <<toggles, status, wish, strays, raced>>
        /\ task.at = "submit" /\ task'.at = "idle"
    BY DEF TaskSubmits, RenderKept, history, sceneVars, shownVars, endVars, shows, NoCall
  <1>2. OfTask' = 0 /\ OfPrepare' = OfPrepare /\ OfTask = task.batch.generation /\ OfTask # 0
    BY <1>1 DEF OfTask, OfPrepare, Up, Handover
  <1>3. CASE task.batch.generation = requested
    <2>1. pending' = task.batch /\ clearDue' = FALSE /\ OfPending' = requested
      BY <1>3 DEF TaskSubmits, OfPending
    <2>2. Coming /\ Coming'
      BY <1>1, <1>2, <1>3, <2>1 DEF Coming, OnItsWay
    <2>3. pending' # NoBatch
      BY <1>2, <1>3, <2>1, NoBatchFacts
    <2>4. Scene' /\ Handover' /\ Answered' /\ Replaced'
      BY <1>1, <1>2, <2>1, <2>2 DEF Up, Scene, Handover, Answered, Replaced, shows
    <2>5. ReadyScene' /\ FrameTells' /\ ViewTells'
      BY <1>1, <2>1, <2>3 DEF Up, ReadyScene, ClearAhead, FrameTells, ViewTells, TransportHolds,
         shows
    <2>6. Toggles'
      BY <1>1, <2>2 DEF Up, Toggles, Toggled, Carried, shows
    <2> QED BY <2>4, <2>5, <2>6 DEF Up
  <1>4. CASE task.batch.generation # requested
    <2>1. UNCHANGED shared
      BY <1>1, <1>4 DEF TaskSubmits, shared
    <2>2. OfPending' = OfPending
      BY <2>1 DEF shared, OfPending
    <2>3. Coming' <=> Coming
      BY <1>1, <1>2, <1>4, <2>2, ComingKept
    <2> QED BY <1>1, <2>1, <2>3, QuietKeeps
  <1> QED BY <1>3, <1>4

-----------------------------------------------------------------------------
(* The calls that toggle and pose.                                         *)

LEMMA SetObjectVisibleKeepsUp ==
  ASSUME IInv, Up, NEW o \in Objects, NEW b \in BOOLEAN, SetObjectVisible(o, b)
  PROVE  Up'
  <1>1. /\ UNCHANGED <<calls, tasks, task, requested, pending, clearDue, status, raced>>
        /\ UNCHANGED shows
        /\ toggles' = With(toggles, o, b) /\ wish' = With(wish, o, b) /\ strays' = strays \ {o}
    BY DEF SetObjectVisible, RenderKept, sceneVars, shownVars, endVars, shows
  <1>2. /\ OfTask' = OfTask /\ OfPending' = OfPending /\ OfPrepare' = OfPrepare
        /\ (ClearAhead' <=> ClearAhead)
    BY <1>1 DEF OfTask, OfPending, OfPrepare, ClearAhead, shows
  <1>3. Coming' <=> Coming
    BY <1>1, <1>2, ComingKept
  <1>4. Scene' /\ Handover' /\ Answered' /\ Replaced' /\ ReadyScene'
    BY <1>1, <1>2, <1>3 DEF Up, Scene, Handover, Answered, Replaced, ReadyScene, shows
  <1>5. FrameTells' /\ ViewTells'
    BY <1>1 DEF Up, FrameTells, ViewTells, TransportHolds, shows
  <1>6. Toggles'
    <2>0. /\ DOMAIN toggles' = DOMAIN toggles \cup {o} /\ DOMAIN wish' = DOMAIN wish \cup {o}
          /\ toggles'[o] = b /\ wish'[o] = b
          /\ \A x \in DOMAIN toggles \ {o} : toggles'[x] = toggles[x]
          /\ \A x \in DOMAIN wish \ {o} : wish'[x] = wish[x]
      BY <1>1 DEF With
    <2>1. ASSUME NEW x \in (DOMAIN wish \ strays) \ {o}, Toggled(x) PROVE Toggled(x)'
      <3>1. /\ wish'[x] = wish[x] /\ (x \in DOMAIN toggles' <=> x \in DOMAIN toggles)
            /\ (x \in DOMAIN toggles => toggles'[x] = toggles[x])
        BY <2>0
      <3>2. UNCHANGED <<prep, requested, model, visibility>>
        BY <1>1 DEF shows
      <3> QED BY <2>1, <3>1, <3>2 DEF Toggled, Carried
    <2>3. Toggled(o)'
      BY <2>0 DEF Toggled
    <2>4. DOMAIN wish' \ strays' \subseteq (DOMAIN wish \ strays) \cup {o}
      BY <1>1, <2>0
    <2>5. requested' = requested /\ model' = model
      BY <1>1 DEF shows
    <2> QED BY <1>3, <2>1, <2>3, <2>4, <2>5 DEF Up, Toggles
  <1> QED BY <1>4, <1>5, <1>6 DEF Up

LEMMA PosesKeepsUp ==
  ASSUME IInv, Up, SetCamera \/ FrameScene
  PROVE  Up'
  <1>1. /\ UNCHANGED <<calls, tasks, task>> /\ UNCHANGED shared /\ dirty' = TRUE
        /\ UNCHANGED <<model, visibility, graphics, frame, view, lent, prep, down, gone, begun,
                       built>>
    BY DEF SetCamera, FrameScene, Poses, RenderKept, sharedVars, history, sceneVars, shownVars,
       endVars, shared
  <1>2. /\ OfTask' = OfTask /\ OfPending' = OfPending /\ OfPrepare' = OfPrepare
        /\ (ClearAhead' <=> ClearAhead)
    BY <1>1 DEF OfTask, OfPending, OfPrepare, ClearAhead, shared
  <1>3. Coming' <=> Coming
    BY <1>1, <1>2, ComingKept DEF shared
  <1>4. Scene' /\ Handover' /\ Answered' /\ Replaced' /\ ReadyScene'
    BY <1>1, <1>2, <1>3 DEF Up, Scene, Handover, Answered, Replaced, ReadyScene, shared
  <1>5. FrameTells' /\ ViewTells' /\ Toggles'
    BY <1>1, <1>3 DEF Up, FrameTells, ViewTells, TransportHolds, Toggles, Toggled, Carried, shared
  <1> QED BY <1>4, <1>5 DEF Up

-----------------------------------------------------------------------------
(* Prepare.                                                                *)

\* What is left of Prepare's record by its steps.
LEMMA PrepareMoves ==
  ASSUME NEW p, IsPrepare(p), NEW a
  PROVE  LET q == [p EXCEPT !.at = a]
             d == [p EXCEPT !.at = a, !.changed = FALSE]
         IN  /\ q.at = a /\ q.clear = p.clear /\ q.batch = p.batch /\ q.toggles = p.toggles
             /\ q.whose = p.whose /\ q.changed = p.changed
             /\ d.at = a /\ d.clear = p.clear /\ d.batch = p.batch /\ d.toggles = p.toggles
             /\ d.whose = p.whose /\ d.changed = FALSE
  BY DEF IsPrepare

LEMMA PrepareToggled ==
  ASSUME NEW p, IsPrepare(p), NEW ts, NEW ch
  PROVE  LET q == [p EXCEPT !.toggles = ts, !.changed = @ \/ ch]
         IN  /\ q.at = p.at /\ q.clear = p.clear /\ q.batch = p.batch /\ q.toggles = ts
             /\ q.whose = p.whose /\ q.changed = (p.changed \/ ch)
  BY DEF IsPrepare

LEMMA PrepareTakesKeepsUp ==
  ASSUME IInv, Up, PrepareTakes
  PROVE  Up'
  <1>1. /\ prep.at = "idle" /\ prep'.at = "taken" /\ prep'.clear = clearDue
        /\ prep'.batch = pending /\ prep'.toggles = toggles /\ prep'.whose = requested
        /\ prep'.changed = FALSE
        /\ clearDue' = FALSE /\ pending' = NoBatch /\ toggles' = Nothing
        /\ UNCHANGED <<calls, tasks, task, requested, status, wish, strays, raced>>
        /\ UNCHANGED <<model, visibility, camera, dirty, frame, view, down, gone, begun, built>>
    BY DEF PrepareTakes, CallsKept, callVars, endVars, sceneVars, shownVars, history
  <1>2. /\ OfTask' = OfTask /\ OfPending' = 0 /\ OfPrepare' = OfPending /\ OfPrepare = 0
        /\ (ClearAhead' <=> ClearAhead)
    BY <1>1, NoBatchFacts DEF OfTask, OfPending, OfPrepare, ClearAhead
  <1>3. Coming' <=> Coming
    BY <1>1, <1>2, ComingKept
  <1>4. clearDue => pending = NoBatch
    <2>1. pending \in MaybeLoads
      BY DEF IInv, Kinds
    <2>2. pending # NoBatch => OfPending = requested /\ requested # 0
      BY <2>1, LoadsFacts DEF Up, Handover, OfPending
    <2> QED BY <2>2 DEF Up, Handover, Coming, OnItsWay
  <1>5. Scene' /\ Handover' /\ Answered' /\ Replaced' /\ ReadyScene'
    BY <1>1, <1>2, <1>3, <1>4 DEF Up, Scene, Handover, Answered, Replaced, ReadyScene
  <1>6. FrameTells' /\ ViewTells'
    BY <1>1 DEF Up, Scene, FrameTells, ViewTells
  <1>7. Toggles'
    <2>1. \A o : ~Carried(o)
      BY <1>1 DEF Carried
    <2>2. ASSUME NEW o \in DOMAIN wish \ strays, Toggled(o) PROVE Toggled(o)'
      BY <1>1, <2>1, <2>2 DEF Toggled, Carried, Nothing
    <2> QED BY <1>1, <1>3, <2>2 DEF Up, Toggles
  <1> QED BY <1>5, <1>6, <1>7 DEF Up

LEMMA PrepareChecksKeepsUp ==
  ASSUME IInv, Up, PrepareChecks
  PROVE  Up'
  <1>0. IsPrepare(prep)
    BY DEF IInv, Kinds
  <1>1. /\ prep.at = "taken" /\ prep'.clear = prep.clear /\ prep'.batch = prep.batch
        /\ prep'.toggles = prep.toggles /\ prep'.whose = prep.whose
        /\ prep'.changed = prep.changed
        /\ prep'.at = IF prep.batch # NoBatch /\ prep.batch.generation = requested
                      THEN "build" ELSE "toggles"
        /\ UNCHANGED <<calls, tasks, task>> /\ UNCHANGED shared
        /\ UNCHANGED <<camera, frame, view, down, gone, begun, built>>
    BY <1>0, PrepareMoves
    DEF PrepareChecks, CallsKept, callVars, endVars, shownVars, history, shared, sharedVars
  <1>2. IF prep.clear THEN model' = 0 /\ visibility' = Nothing /\ dirty' = FALSE
                      ELSE UNCHANGED <<model, visibility, dirty>>
    BY DEF PrepareChecks, ResetModelResources
  <1>3. /\ OfTask' = OfTask /\ OfPending' = OfPending
        /\ OfPrepare = prep.batch.generation
        /\ OfPrepare' = IF prep'.at = "build" THEN OfPrepare ELSE 0
        /\ prep.batch = NoBatch => OfPrepare = 0
    BY <1>1, NoBatchFacts DEF OfTask, OfPending, OfPrepare, shared
  <1>4. Coming' <=> Coming
    <2>1. requested # 0 => (requested = OfPrepare' <=> requested = OfPrepare)
      BY <1>1, <1>3
    <2> QED BY <1>1, <1>3, <2>1, ComingKept DEF shared
  <1>5. CASE prep.clear
    <2>1. prep'.at = "toggles" /\ OfPrepare = 0
      BY <1>1, <1>3, <1>5 DEF Up, Handover
    <2>2. status = "Ready" => raced
      BY <1>1, <1>5 DEF Up, ReadyScene, ClearAhead
    <2>3. Scene' /\ Handover' /\ Answered' /\ Replaced'
      BY <1>1, <1>2, <1>3, <1>4, <1>5, <2>1
      DEF Up, Scene, Handover, Answered, Replaced, shared
    <2>4. ReadyScene' /\ FrameTells' /\ ViewTells'
      BY <1>1, <2>1, <2>2 DEF ReadyScene, FrameTells, ViewTells, shared
    <2>6. Toggles'
      <3>1. model' = 0 /\ requested' = requested /\ DOMAIN visibility' = {}
        BY <1>1, <1>2, <1>5 DEF shared, Nothing
      <3>2. requested = 0 \/ model' # requested'
        BY <3>1
      <3>3. CASE Coming \/ model = requested
        <4>1. \A o \in DOMAIN wish \ strays : Toggled(o)
          BY <3>3 DEF Up, Toggles
        <4>2. CASE Coming
          <5>1. \A o \in DOMAIN wish \ strays : o \in DOMAIN toggles \/ Carried(o)
            BY <4>1, <4>2, BuiltOnce DEF Toggled
          <5>2. ASSUME NEW o \in DOMAIN wish \ strays PROVE Toggled(o)'
            <6>1. Toggled(o)
              BY <4>1
            <6> QED BY <1>1, <5>1, <6>1 DEF Toggled, Carried, shared
          <5> QED BY <1>1, <5>2 DEF Toggles, shared
        <4>3. CASE requested = 0
          <5>2. ASSUME NEW o \in DOMAIN wish \ strays PROVE Toggled(o)'
            <6>1. Toggled(o)
              BY <4>1
            <6> QED BY <1>1, <3>1, <4>3, <6>1 DEF Toggled, Carried, shared
          <5> QED BY <1>1, <5>2 DEF Toggles, shared
        <4>4. CASE ~Coming /\ requested # 0
          BY <1>4, <3>1, <4>4 DEF Toggles
        <4> QED BY <4>2, <4>3, <4>4
      <3>4. CASE ~Coming /\ model # requested
        <4>1. CASE requested = 0
          <5>1. begun = <<>>
            BY <4>1 DEF IInv, Begun, Kinds
          <5>2. model = 0
            BY <5>1 DEF Up, Scene, IInv, Kinds
          <5> QED BY <3>4, <4>1, <5>2
        <4>2. CASE requested # 0
          BY <1>4, <3>1, <3>4, <4>2 DEF Toggles
        <4> QED BY <4>1, <4>2
      <3> QED BY <3>3, <3>4
    <2> QED BY <2>3, <2>4, <2>6 DEF Up
  <1>6. CASE ~prep.clear
    <2>1. UNCHANGED <<model, visibility, dirty>>
      BY <1>2, <1>6
    <2>2. Scene' /\ Handover' /\ Answered'
      BY <1>1, <1>3, <1>4, <2>1 DEF Up, Scene, Handover, Answered, shared
    <2>3. Replaced' /\ ReadyScene'
      BY <1>1, <1>3, <1>4, <1>6, <2>1 DEF Up, Replaced, ReadyScene, ClearAhead, shared
    <2>4. FrameTells' /\ ViewTells'
      BY <1>1, <2>1 DEF Up, FrameTells, ViewTells, shared
    <2>5. Toggles'
      BY <1>1, <1>4, <2>1 DEF Up, Toggles, Toggled, Carried, shared
    <2> QED BY <2>2, <2>3, <2>4, <2>5 DEF Up
  <1> QED BY <1>5, <1>6

\* The scene is built: it is the requested one, or another request came since.
LEMMA BuildSucceedsKeepsUp ==
  ASSUME IInv, Up, BuildSucceeds
  PROVE  Up'
  <1> DEFINE g == prep.batch.generation
  <1>0. IsPrepare(prep)
    BY DEF IInv, Kinds
  <1>1. /\ prep.at = "build" /\ prep'.at = "toggles" /\ prep'.clear = prep.clear
        /\ prep'.batch = prep.batch /\ prep'.toggles = prep.toggles
        /\ prep'.whose = prep.whose /\ prep'.changed = prep.changed
        /\ model' = g /\ status' = "Ready" /\ dirty' = TRUE
        /\ built' = Place(begun, g) /\ raced' = (raced \/ g # requested)
        /\ UNCHANGED <<calls, tasks, task, requested, pending, clearDue, toggles>>
        /\ UNCHANGED <<wish, strays, frame, view, down, gone, begun>>
    BY <1>0, PrepareMoves
    DEF BuildSucceeds, Overtakes, CallsKept, callVars, endVars, shownVars, sharedVars
  <1>2. begun[built'] = g /\ built' # 0 /\ g # 0
    <2>1. PICK i \in 1..Len(begun) : begun[i] = g /\ Place(begun, g) = i
      BY <1>1, BuiltFacts
    <2>2. begun \in Seq(Nat \ {0})
      BY DEF IInv, Kinds
    <2> QED BY <1>1, <2>1, <2>2
  <1>3. OfTask' = OfTask /\ OfPending' = OfPending /\ OfPrepare' = 0 /\ OfPrepare = g
    BY <1>1 DEF OfTask, OfPending, OfPrepare
  <1>4. Scene' /\ Answered' /\ FrameTells' /\ ViewTells'
    BY <1>1, <1>2 DEF Up, Scene, Answered, FrameTells, ViewTells
  <1>5. CASE g = requested
    <2>1. requested \notin {OfTask', OfPending', OfPrepare'}
      BY <1>2, <1>3, <1>5 DEF IInv, OnePlace
    <2>2. Coming /\ ~Coming'
      BY <1>1, <1>2, <1>3, <1>5, <2>1, TakenAway
    <2>3. Handover' /\ Replaced' /\ ReadyScene'
      BY <1>1, <1>3, <1>5, <2>2 DEF Up, Handover, Replaced, ReadyScene, ClearAhead
    <2>4. Toggles'
      <3>1. \A o \in DOMAIN wish \ strays : Toggled(o) /\ model # requested
        BY <2>2, BuiltOnce DEF Up, Toggles
      <3>2. ASSUME NEW o \in DOMAIN wish \ strays, Toggled(o), model # requested
            PROVE  Toggled(o)'
        BY <1>1, <3>2 DEF Toggled, Carried
      <3> QED BY <1>1, <3>1, <3>2 DEF Toggles
    <2> QED BY <1>4, <2>3, <2>4 DEF Up
  <1>6. CASE g # requested
    <2>1. Coming' <=> Coming
      BY <1>1, <1>3, <1>6, ComingKept
    <2>2. Handover' /\ Replaced' /\ ReadyScene'
      BY <1>1, <1>3, <1>6, <2>1 DEF Up, Handover, Replaced, ReadyScene, ClearAhead
    <2>3. Toggles'
      <3> SUFFICES ASSUME Coming, NEW o \in DOMAIN wish \ strays PROVE Toggled(o)'
        BY <1>1, <1>6, <2>1 DEF Toggles
      <3>1. Toggled(o) /\ model # requested
        BY BuiltOnce DEF Up, Toggles
      <3> QED BY <1>1, <3>1 DEF Toggled, Carried
    <2> QED BY <1>4, <2>2, <2>3 DEF Up
  <1> QED BY <1>5, <1>6

\* Nothing is built: there is no scene.
LEMMA BuildFailsKeepsUp ==
  ASSUME IInv, Up, BuildFails
  PROVE  Up'
  <1> DEFINE g == prep.batch.generation
  <1>0. IsPrepare(prep)
    BY DEF IInv, Kinds
  <1>1. /\ prep.at = "build" /\ prep'.at = "toggles" /\ prep'.clear = prep.clear
        /\ prep'.batch = prep.batch /\ prep'.toggles = prep.toggles
        /\ prep'.whose = prep.whose /\ prep'.changed = prep.changed
        /\ model' = 0 /\ status' = "Failed" /\ dirty' = FALSE
        /\ raced' = (raced \/ g # requested)
        /\ UNCHANGED <<calls, tasks, task, requested, pending, clearDue, toggles>>
        /\ UNCHANGED <<wish, strays, frame, view, down, gone, begun, built>>
    BY <1>0, PrepareMoves
    DEF BuildFails, ResetModelResources, Overtakes, CallsKept, callVars, endVars, shownVars,
        sharedVars
  <1>2. g # 0 /\ requested # 0
    <2>1. PICK i \in 1..Len(begun) : begun[i] = g
      BY <1>1, BuiltFacts
    <2>2. begun \in Seq(Nat \ {0}) /\ Len(begun) \in 1..Len(begun) /\ begun # <<>>
      BY <2>1 DEF IInv, Kinds
    <2>3. begun[Len(begun)] # 0
      BY <2>2
    <2> QED BY <2>1, <2>2, <2>3 DEF IInv, Begun
  <1>3. OfTask' = OfTask /\ OfPending' = OfPending /\ OfPrepare' = 0 /\ OfPrepare = g
    BY <1>1 DEF OfTask, OfPending, OfPrepare
  <1>4. Scene' /\ Answered' /\ ReadyScene' /\ FrameTells' /\ ViewTells'
    BY <1>1 DEF Up, Scene, Answered, ReadyScene, FrameTells, ViewTells
  <1>5. Coming' => Coming /\ g # requested
    <2>1. CASE g = requested
      <3>1. requested \notin {OfTask', OfPending', OfPrepare'}
        BY <1>2, <1>3, <2>1 DEF IInv, OnePlace
      <3> QED BY <1>1, <1>2, <1>3, <2>1, <3>1, TakenAway
    <2>2. CASE g # requested
      BY <1>1, <1>3, <2>2, ComingKept
    <2> QED BY <2>1, <2>2
  <1>6. Handover' /\ Replaced'
    BY <1>1, <1>3, <1>5 DEF Up, Handover, Replaced
  <1>7. Toggles'
    <2> SUFFICES ASSUME Coming, NEW o \in DOMAIN wish \ strays PROVE Toggled(o)'
      BY <1>1, <1>2, <1>5 DEF Toggles
    <2>1. Toggled(o) /\ model # requested
      BY BuiltOnce DEF Up, Toggles
    <2> QED BY <1>1, <2>1 DEF Toggled, Carried
  <1> QED BY <1>4, <1>6, <1>7 DEF Up

\* One toggle is applied, put back or dropped.
LEMMA PrepareTogglesKeepsUp ==
  ASSUME IInv, Up, NEW o \in Objects, PrepareToggles(o)
  PROVE  Up'
  <1> DEFINE applies == o \in DOMAIN visibility /\ visibility[o] # prep.toggles[o]
             waits   == o \notin DOMAIN visibility /\ status = "Loading" /\ o \notin DOMAIN toggles
             rest    == [x \in DOMAIN prep.toggles \ {o} |-> prep.toggles[x]]
  <1>0. IsPrepare(prep)
    BY DEF IInv, Kinds
  <1>1. prep' = [prep EXCEPT !.toggles = rest, !.changed = @ \/ applies]
    BY DEF PrepareToggles
  <1>2. /\ prep.at = "toggles" /\ o \in DOMAIN prep.toggles
        /\ visibility' = IF applies THEN [visibility EXCEPT ![o] = prep.toggles[o]] ELSE visibility
        /\ toggles' = IF waits THEN With(toggles, o, prep.toggles[o]) ELSE toggles
        /\ strays' = IF prep.whose = requested /\
                        (model = requested \/ (o \notin DOMAIN visibility /\ status = "Loading"))
                     THEN strays ELSE strays \cup {o}
        /\ UNCHANGED <<calls, tasks, task, requested, pending, clearDue, status, camera, dirty>>
        /\ UNCHANGED <<model, frame, view, begun, built, wish, raced, down, gone>>
    BY DEF PrepareToggles, PutBack, CallsKept, callVars, endVars, shownVars
  <1>3. /\ prep'.at = "toggles" /\ prep'.clear = prep.clear /\ prep'.batch = prep.batch
        /\ prep'.toggles = rest /\ prep'.whose = prep.whose
        /\ prep'.changed = (prep.changed \/ applies)
    <2> HIDE DEF applies, rest
    <2> QED BY <1>0, <1>1, <1>2, PrepareToggled
  <1>4. /\ OfTask' = OfTask /\ OfPending' = OfPending /\ OfPrepare' = OfPrepare
        /\ (ClearAhead' <=> ClearAhead)
    BY <1>2, <1>3 DEF OfTask, OfPending, OfPrepare, ClearAhead
  <1>5. Coming' <=> Coming
    BY <1>2, <1>4, ComingKept
  <1>6. Scene' /\ Handover' /\ Answered' /\ Replaced' /\ ReadyScene'
    BY <1>2, <1>3, <1>4, <1>5 DEF Up, Scene, Handover, Answered, Replaced, ReadyScene
  <1>7. FrameTells' /\ ViewTells'
    BY <1>2, <1>3 DEF Up, FrameTells, ViewTells
  <1>8. Toggles'
    <2>0. /\ DOMAIN visibility' = DOMAIN visibility
          /\ DOMAIN toggles' = IF waits THEN DOMAIN toggles \cup {o} ELSE DOMAIN toggles
          /\ waits => toggles'[o] = prep.toggles[o]
          /\ \A x \in DOMAIN toggles \ {o} : toggles'[x] = toggles[x]
          /\ \A x \in DOMAIN visibility \ {o} : visibility'[x] = visibility[x]
          /\ o \in DOMAIN visibility => visibility'[o] = prep.toggles[o]
          /\ DOMAIN prep'.toggles = DOMAIN prep.toggles \ {o}
          /\ \A x \in DOMAIN prep.toggles \ {o} : prep'.toggles[x] = prep.toggles[x]
      BY <1>2, <1>3 DEF With
    <2> SUFFICES ASSUME NEW x \in DOMAIN wish \ strays', Toggled(x) PROVE Toggled(x)'
      BY <1>2, <1>5 DEF Up, Toggles
    <2> HIDE DEF applies, rest
    <2>1. CASE x # o
      BY <1>2, <1>3, <2>0, <2>1 DEF Toggled, Carried
    <2>2. CASE x = o
      <3>1. prep.whose = requested /\ (model = requested \/ (o \notin DOMAIN visibility /\ status = "Loading"))
        BY <1>2, <2>2
      <3>2. Carried(o) /\ ~Carried(o)'
        BY <1>2, <1>3, <2>0, <3>1 DEF Carried
      <3>3. CASE o \in DOMAIN toggles
        BY <1>2, <2>0, <2>2, <3>2, <3>3 DEF Toggled
      <3>4. CASE o \notin DOMAIN toggles
        <4>1. prep.toggles[o] = wish[o]
          BY <2>2, <3>2, <3>4 DEF Toggled
        <4> QED BY <1>2, <2>0, <2>2, <3>1, <3>2, <3>4, <4>1 DEF Toggled
      <3> QED BY <3>3, <3>4
    <2> QED BY <2>1, <2>2
  <1> QED BY <1>6, <1>7, <1>8 DEF Up

LEMMA PrepareDecidesKeepsUp ==
  ASSUME IInv, Up, PrepareDecides
  PROVE  Up'
  <1> DEFINE stale == dirty \/ prep.changed
             draws(resized) == status = "Ready" /\ (resized \/ stale)
  <1>0. IsPrepare(prep)
    BY DEF IInv, Kinds
  <1>1. PICK resized \in BOOLEAN :
          /\ prep' = [prep EXCEPT !.at = IF draws(resized) THEN "render" ELSE "show",
                                 !.changed = FALSE]
          /\ dirty' = (stale /\ (~draws(resized) \/ resized))
    BY DEF PrepareDecides
  <1>2. /\ prep.at = "toggles" /\ prep.toggles = Nothing
        /\ UNCHANGED <<calls, tasks, task>> /\ UNCHANGED shared
        /\ UNCHANGED <<model, visibility, camera, frame, view, begun, built, down, gone>>
    BY DEF PrepareDecides, CallsKept, callVars, endVars, sceneVars, shownVars, sharedVars, history,
       shared
  <1>3. /\ prep'.at = IF draws(resized) THEN "render" ELSE "show"
        /\ prep'.batch = prep.batch /\ prep'.toggles = Nothing
        /\ prep'.whose = prep.whose /\ prep'.changed = FALSE
    <2> HIDE DEF draws
    <2> QED BY <1>0, <1>1, <1>2, PrepareMoves
  <1>4. /\ OfTask' = OfTask /\ OfPending' = OfPending /\ OfPrepare' = 0 /\ OfPrepare = 0
        /\ (ClearAhead' <=> ClearAhead)
    BY <1>2, <1>3 DEF OfTask, OfPending, OfPrepare, ClearAhead, shared
  <1>5. Coming' <=> Coming
    BY <1>2, <1>4, ComingKept DEF shared
  <1>6. Scene' /\ Handover' /\ Answered' /\ Replaced' /\ ReadyScene'
    BY <1>2, <1>3, <1>4, <1>5 DEF Up, Scene, Handover, Answered, Replaced, ReadyScene, shared
  <1>7. FrameTells' /\ ViewTells'
    BY <1>1, <1>2, <1>3 DEF Up, FrameTells, ViewTells, shared
  <1>8. Toggles'
    BY <1>2, <1>3, <1>5 DEF Up, Toggles, Toggled, Carried, shared
  <1> QED BY <1>6, <1>7, <1>8 DEF Up

\* The frame is drawn, or the scene failed; then the view is shown.
LEMMA RenderKeepsUp ==
  ASSUME IInv, Up, RenderSucceeds \/ RenderFails
  PROVE  Up'
  <1>0. IsPrepare(prep)
    BY DEF IInv, Kinds
  <1>1. /\ prep.at = "render" /\ prep'.at = "show" /\ prep'.batch = prep.batch
        /\ prep'.toggles = prep.toggles /\ prep'.whose = prep.whose /\ prep'.changed = prep.changed
        /\ UNCHANGED <<calls, tasks, task, requested, pending, clearDue, toggles, wish, strays>>
        /\ UNCHANGED <<model, visibility, camera, dirty, view, begun, built, down, gone>>
        /\ raced => raced'
        /\ \/ frame' = [of |-> model, shown |-> visibility, camera |-> camera] /\ status' = status
              /\ raced' = raced
           \/ status' = "Failed"
    <2> USE DEF CallsKept, callVars, endVars, sceneVars, shownVars, sharedVars, history
    <2>1. CASE RenderSucceeds
      BY <1>0, <2>1, PrepareMoves DEF RenderSucceeds, SceneNow
    <2>2. CASE RenderFails
      <3>1. raced => raced'
        BY <2>2, Zenon DEF RenderFails, Overtakes
      <3> QED BY <1>0, <2>2, <3>1, PrepareMoves DEF RenderFails
    <2> QED BY <2>1, <2>2
  <1>4. /\ OfTask' = OfTask /\ OfPending' = OfPending /\ OfPrepare' = 0 /\ OfPrepare = 0
        /\ (ClearAhead' <=> ClearAhead)
    BY <1>1 DEF OfTask, OfPending, OfPrepare, ClearAhead
  <1>5. Coming' <=> Coming
    BY <1>1, <1>4, ComingKept
  <1>6. Scene' /\ Handover' /\ Answered' /\ Replaced' /\ ReadyScene'
    BY <1>1, <1>4, <1>5 DEF Up, Scene, Handover, Answered, Replaced, ReadyScene
  <1>7. FrameTells' /\ ViewTells'
    BY <1>1 DEF FrameTells, ViewTells
  <1>8. Toggles'
    BY <1>1, <1>5 DEF Up, Toggles, Toggled, Carried
  <1> QED BY <1>6, <1>7, <1>8 DEF Up

LEMMA PrepareShowsKeepsUp ==
  ASSUME IInv, Up, down = "no", PrepareShows
  PROVE  Up'
  <1>1. /\ prep.at = "show" /\ prep'.at = "idle" /\ prep'.changed = FALSE
        /\ UNCHANGED <<calls, tasks, task>> /\ UNCHANGED shared
        /\ UNCHANGED <<model, visibility, graphics, camera, dirty, frame, begun, built, down, gone>>
        /\ view' = IF status = "Ready" /\ ~TransportHolds THEN frame ELSE Checkerboard
        /\ TransportHolds => TransportHolds'
    BY DEF PrepareShows, IdlePrep, GetSurfaceView, TransportHolds, ShuttingDown, CallsKept, callVars, endVars,
       sceneVars, sharedVars, history, shared
  <1>2. ~prep.changed /\ prep.toggles = Nothing
    BY <1>1 DEF Up, Scene
  <1>4. /\ OfTask' = OfTask /\ OfPending' = OfPending /\ OfPrepare' = 0 /\ OfPrepare = 0
        /\ (ClearAhead' <=> ClearAhead)
    BY <1>1 DEF OfTask, OfPending, OfPrepare, ClearAhead, shared
  <1>5. Coming' <=> Coming
    BY <1>1, <1>4, ComingKept DEF shared
  <1>6. Scene' /\ Handover' /\ Answered' /\ Replaced' /\ ReadyScene'
    BY <1>1, <1>4, <1>5 DEF Up, Scene, Handover, Answered, Replaced, ReadyScene, shared
  <1>7. FrameTells' /\ ViewTells'
    BY <1>1, <1>2 DEF Up, FrameTells, ViewTells, shared
  <1>8. Toggles'
    <2>1. \A o : ~Carried(o)
      BY <1>2 DEF Carried, Nothing
    <2>2. ASSUME NEW o, Toggled(o) PROVE Toggled(o)'
      BY <1>1, <2>1, <2>2 DEF Toggled, Carried, shared
    <2> QED BY <1>1, <1>5, <2>2 DEF Up, Toggles, shared
  <1> QED BY <1>6, <1>7, <1>8 DEF Up

-----------------------------------------------------------------------------
LEMMA NextKeepsUp ==
  ASSUME IInv, SInv, [Next]_vars
  PROVE  SInv'
  <1> SUFFICES ASSUME down' = "no" PROVE Up'
    BY DEF SInv
  <1>1. CASE \E c \in Callers : TakesGeneration(c) \/ CallStep(c)
    <2>1. down = "no"
      BY <1>1 DEF TakesGeneration, CallStep, BeginLoad, Clear, AddTask, RenderKept, endVars
    <2> QED BY <1>1, <2>1, TakesGenerationKeepsUp, RequestKeepsUp, AddTaskKeepsUp
            DEF SInv, CallStep
  <1>2. CASE \E o \in Objects, b \in BOOLEAN : SetObjectVisible(o, b)
    <2>1. down = "no"
      BY <1>2 DEF SetObjectVisible, RenderKept, endVars
    <2> QED BY <1>2, <2>1, SetObjectVisibleKeepsUp DEF SInv
  <1>3. CASE SetCamera \/ FrameScene
    <2>1. down = "no"
      BY <1>3 DEF SetCamera, FrameScene, Poses, RenderKept, endVars
    <2> QED BY <1>3, <2>1, PosesKeepsUp DEF SInv
  <1>4. CASE TaskStep
    <2>1. down = "no"
      BY <1>4 DEF TaskStep, TaskStarts, TaskFails, TaskLoads, TaskSubmits, RenderKept, endVars
    <2> QED BY <1>4, <2>1, TaskStartsKeepsUp, TaskFailsKeepsUp, TaskLoadsKeepsUp,
               TaskSubmitsKeepsUp DEF SInv, TaskStep
  <1>5. CASE PrepareStep
    <2>1. down = "no"
      BY <1>5 DEF PrepareStep, PrepareTakes, PrepareChecks, BuildSucceeds, BuildFails,
         PrepareToggles, PrepareDecides, RenderSucceeds, RenderFails, PrepareShows, CallsKept,
         endVars
    <2> QED BY <1>5, <2>1, PrepareTakesKeepsUp, PrepareChecksKeepsUp, BuildSucceedsKeepsUp,
               BuildFailsKeepsUp, PrepareTogglesKeepsUp, PrepareDecidesKeepsUp, RenderKeepsUp,
               PrepareShowsKeepsUp DEF SInv, PrepareStep
  <1>6. CASE BeginShutdown \/ GoesAway
    BY <1>6 DEF BeginShutdown, FlagsShutdown, TellsShutdown, GoesAway
  <1>7. CASE UNCHANGED vars
    <2> USE <1>7 DEF vars, callVars, sharedVars, sceneVars, shownVars, endVars, history
    <2>1. down = "no" /\ UNCHANGED shared /\ UNCHANGED shows
      BY DEF shared, shows
    <2>2. OfTask' = OfTask /\ OfPending' = OfPending /\ OfPrepare' = OfPrepare /\ task' = task
      BY DEF OfTask, OfPending, OfPrepare
    <2>3. Coming' <=> Coming
      BY <2>2, ComingKept
    <2>4. task.at # "idle" => OfTask # 0
      BY <2>1 DEF SInv, Up, Handover
    <2> QED BY <2>1, <2>2, <2>3, <2>4, QuietKeeps DEF SInv
  <1> QED BY <1>1, <1>2, <1>3, <1>4, <1>5, <1>6, <1>7 DEF Next

LEMMA SurfaceInvariant == Spec => [](IInv /\ SInv)
  <1>1. IInv /\ SInv /\ [Next]_vars => IInv' /\ SInv'
    BY NextKeeps, NextKeepsUp
  <1> QED BY <1>1, InitInv, SInit, PTL DEF Spec

\* When nothing is under way.
LEMMA SettledFacts ==
  ASSUME IInv, SInv, Settled
  PROVE  Up /\ ~Coming /\ ~ClearAhead /\ prep.at = "idle" /\ ~prep.changed
  <1>1. Up /\ prep.at = "idle" /\ prep.changed = FALSE
    BY DEF Settled, SInv, IdlePrep
  <1>2. OfTask = 0 /\ OfPending = 0 /\ OfPrepare = 0 /\ Len(tasks) = 0
    BY <1>1, NoBatchFacts DEF Settled, OfTask, OfPending, OfPrepare, NoCall
  <1>3. \A c \in Callers : calls[c].at # "task"
    BY DEF Settled, NoCall
  <1> QED BY <1>1, <1>2, <1>3 DEF Coming, OnItsWay, ClearAhead, Settled

\* Once all is settled, whatever loads failed or overtook one another, the surface
\* has the scene asked for last or none, and no load is left unanswered.
THEOREM SettlesOnLastScene == Spec => []SettledScene
  <1>1. IInv /\ SInv => SettledScene
    BY SettledFacts DEF SettledScene, Up, Answered, Replaced, ReadyScene
  <1> QED BY <1>1, SurfaceInvariant, PTL

\* Then the view is the scene as its toggles and the camera left it, or the
\* checkerboard if the transport lent its one view to an earlier present.
THEOREM ViewIsOfScene == Spec => []ViewTellsScene
  <1>1. IInv /\ SInv => ViewTellsScene
    <2> SUFFICES ASSUME IInv, SInv, Settled, ~dirty, ~raced
                 PROVE  IF status = "Ready"
                        THEN view = SceneNow \/ (TransportHolds /\ view = Checkerboard)
                        ELSE view = Checkerboard
      BY DEF ViewTellsScene
    <2>1. Up /\ ~Coming /\ prep.at = "idle" /\ ~prep.changed
      BY SettledFacts
    <2>2. IF status = "Ready" THEN view = frame \/ (TransportHolds /\ view = Checkerboard)
                              ELSE view = Checkerboard
      BY <2>1 DEF Up, ViewTells, Answered, Settled
    <2>3. status = "Ready" => frame = SceneNow
      BY <2>1 DEF Up, FrameTells, SceneNow
    <2> QED BY <2>2, <2>3
  <1> QED BY <1>1, SurfaceInvariant, PTL

\* Then an object is shown as it was last toggled since its load was begun.
THEOREM TogglesSurvive == Spec => []ToggleKept
  <1>1. IInv /\ SInv => ToggleKept
    <2> SUFFICES ASSUME IInv, SInv, Settled, status = "Ready", ~raced,
                        NEW o \in (DOMAIN visibility \cap DOMAIN wish) \ strays
                 PROVE  visibility[o] = wish[o]
      BY DEF ToggleKept
    <2>1. Up /\ prep.at = "idle"
      BY SettledFacts
    <2>2. model = requested
      BY <2>1 DEF Up, ReadyScene
    <2>3. Toggled(o)
      BY <2>1, <2>2 DEF Up, Toggles
    <2> QED BY <2>1, <2>3 DEF Toggled, Carried, Settled, Nothing
  <1> QED BY <1>1, SurfaceInvariant, PTL

-----------------------------------------------------------------------------
(* DecodePackedGeometry.                                                   *)

LEMMA Quotient == ASSUME NEW m \in Nat, NEW k \in Nat, k # 0 PROVE m \div k \in Nat
  BY SMT

\* A vertex of n: its bytes end where those of the last one do, or before.
LEMMA VertexEnds ==
  ASSUME NEW n \in Nat, NEW i \in 0..(n - 1), NEW stride \in Nat, NEW bytes \in Nat,
         stride # 0, n <= bytes \div stride
  PROVE  i * stride + stride <= bytes
  <1>1. (bytes \div stride) * stride <= bytes
    BY SMT
  <1>2. n * stride <= (bytes \div stride) * stride
    BY SMT
  <1>3. (i + 1) * stride <= n * stride
    BY SMT
  <1>4. (i + 1) * stride = i * stride + stride
    BY SMT
  <1> QED BY <1>1, <1>2, <1>3, <1>4, SMT

\* What stands inside one vertex stands inside the buffer.
LEMMA InsideBuffer ==
  ASSUME NEW n \in Nat, NEW i \in 0..(n - 1), NEW stride \in Nat, NEW bytes \in Nat,
         NEW offset \in Nat, NEW width \in Nat,
         stride # 0, n <= bytes \div stride, offset + width <= stride
  PROVE  /\ i * stride + offset \in Nat
         /\ (i * stride + offset) + width <= bytes
  <1>1. i * stride + stride <= bytes
    BY VertexEnds
  <1>2. i * stride \in Nat
    BY SMT
  <1> QED BY <1>1, <1>2, SMT

\* The last element of a stream begins early enough, so every one does.
LEMMA StreamBegins ==
  ASSUME NEW n \in Nat, NEW i \in 0..(n - 1), NEW stride \in Nat, NEW room \in Nat,
         stride # 0, ~(n - 1 > room \div stride)
  PROVE  i * stride \in Nat /\ i * stride <= room
  <1>1. room \div stride \in Nat /\ (room \div stride) * stride <= room
    BY SMT
  <1>2. i <= room \div stride
    BY <1>1, SMT
  <1>3. i * stride <= (room \div stride) * stride
    BY <1>1, <1>2, SMT
  <1>4. i * stride \in Nat
    BY SMT
  <1> QED BY <1>1, <1>3, <1>4, SMT

\* How wide each attribute is.
LEMMA Widths ==
  ASSUME NEW l, NEW a \in Attributes
  PROVE  /\ Width(a, l) \in {4, 12, 16}
         /\ a = "tangent" => Width(a, l) = 4
         /\ a = "normal" => Width(a, l) = 4
         /\ a = "position" => Width(a, l) \in {12, 16}
  BY DEF Width, Attributes

\* The checks that stand between an accepted geometry and the others.
LEMMA AcceptedFacts ==
  ASSUME NEW bytes, NEW n, NEW contents, NEW indices, NEW l, NEW stream,
         DecodePackedGeometry(bytes, n, contents, indices, l, stream) = "None"
  PROVE  /\ LayoutIsValid(l, stream)
         /\ ~StreamIsTruncated(n, l, stream)
         /\ ~(n > bytes \div l.stride)
         /\ ~(n > MaxPreviewVertices)
         /\ Len(indices) % 3 = 0
         /\ \A k \in DOMAIN indices : ~(indices[k] >= n)
  BY DEF DecodePackedGeometry

\* In a valid layout an attribute ends where the vertex does, or before.
LEMMA AttributeEnds ==
  ASSUME NEW l, NEW stream, NEW a \in Attributes, LayoutIsValid(l, stream),
         l.stride \in Nat, l.offset[a] \in Nat,
         a \in l.has \ {"position"} \/ (a = "position" /\ stream.bytes = 0)
  PROVE  l.offset[a] + Width(a, l) <= l.stride
  <1>1. Fits(l.offset[a], Width(a, l), l.stride)
    BY DEF LayoutIsValid
  <1>2. Width(a, l) \in Nat
    BY Widths
  <1> QED BY <1>1, <1>2, SMT DEF Fits

\* Whatever Skyrim's descriptor says, a geometry that is accepted was decoded from
\* bytes of the vertex buffer alone, the byte of the normal that a tangent is read
\* with included (DecodePackedGeometry and DecodePackedTangent).
THEOREM ReadsInBounds ==
  ASSUME NEW bytes \in Nat, NEW n \in Nat, NEW contents, NEW indices \in Seq(Nat),
         NEW d \in Descriptors, NEW stream \in Streams, NEW i \in 0..(n - 1),
         DecodePackedGeometry(bytes, n, contents, indices, LayoutOf(d), stream) = "None",
         NEW r \in VertexReads(LayoutOf(d), stream, i)
  PROVE  r.from \in Nat /\ r.from + r.width <= bytes
  <1> DEFINE l == LayoutOf(d)
             readAt(offset, width) == [from |-> i * l.stride + offset, width |-> width]
  <1>1. /\ l.stride \in Nat /\ l.has \subseteq Attributes
        /\ \A a \in Attributes : l.offset[a] \in Nat
        /\ \A a \in Attributes \ l.has : l.offset[a] = 0
    BY DEF LayoutOf, Descriptors, Layouts
  <1>2. LayoutIsValid(l, stream)
    BY AcceptedFacts
  <1>3. l.stride # 0
    BY <1>2 DEF LayoutIsValid
  <1>4. n <= bytes \div l.stride
    <2>1. ~(n > bytes \div l.stride)
      BY AcceptedFacts
    <2>2. bytes \div l.stride \in Nat
      BY <1>1, <1>3, Quotient
    <2> QED BY <2>1, <2>2, SMT
  <1>5. \/ \E a \in l.has \ {"position"} : r = readAt(l.offset[a], Width(a, l))
        \/ "tangent" \in l.has /\ r = readAt(l.offset["normal"] + 3, 1)
        \/ stream.bytes = 0 /\ r = readAt(l.offset["position"], Width("position", l))
    BY DEF VertexReads
  <1> HIDE DEF l
  <1>6. ASSUME NEW offset \in Nat, NEW width \in Nat, offset + width <= l.stride,
               r = readAt(offset, width)
        PROVE  r.from \in Nat /\ r.from + r.width <= bytes
    <2>1. /\ i * l.stride + offset \in Nat
          /\ (i * l.stride + offset) + width <= bytes
      BY <1>1, <1>3, <1>4, <1>6, InsideBuffer
    <2> QED BY <1>6, <2>1
  <1>7. CASE \E a \in l.has \ {"position"} : r = readAt(l.offset[a], Width(a, l))
    <2>1. PICK a \in l.has \ {"position"} : r = readAt(l.offset[a], Width(a, l))
      BY <1>7
    <2>2. a \in Attributes /\ l.offset[a] \in Nat
      BY <1>1
    <2>3. Width(a, l) \in Nat
      BY <2>2, Widths
    <2>4. l.offset[a] + Width(a, l) <= l.stride
      BY <1>1, <1>2, <2>2, AttributeEnds
    <2> QED BY <1>6, <2>1, <2>2, <2>3, <2>4
  <1>8. CASE "tangent" \in l.has /\ r = readAt(l.offset["normal"] + 3, 1)
    <2>1. "normal" \in Attributes /\ "tangent" \in Attributes
      BY DEF Attributes
    <2>2. l.offset["normal"] \in Nat /\ l.offset["tangent"] \in Nat
      BY <1>1, <2>1
    <2>3. (l.offset["normal"] + 3) + 1 <= l.stride
      <3>1. CASE "normal" \in l.has
        <4>1. l.offset["normal"] + Width("normal", l) <= l.stride
          BY <1>1, <1>2, <2>1, <2>2, <3>1, AttributeEnds
        <4>2. Width("normal", l) = 4
          BY <2>1, Widths
        <4> QED BY <1>1, <2>2, <4>1, <4>2, SMT
      <3>2. CASE "normal" \notin l.has
        <4>1. l.offset["tangent"] + 4 <= l.stride
          <5>1. l.offset["tangent"] + Width("tangent", l) <= l.stride
            BY <1>1, <1>2, <1>8, <2>1, <2>2, AttributeEnds
          <5>2. Width("tangent", l) = 4
            BY <2>1, Widths
          <5> QED BY <5>1, <5>2
        <4>2. l.offset["normal"] = 0
          BY <1>1, <2>1, <3>2
        <4> QED BY <1>1, <2>2, <4>1, <4>2, SMT
      <3> QED BY <3>1, <3>2
    <2>4. l.offset["normal"] + 3 \in Nat
      BY <2>2
    <2> QED BY <1>6, <1>8, <2>3, <2>4
  <1>9. CASE stream.bytes = 0 /\ r = readAt(l.offset["position"], Width("position", l))
    <2>1. "position" \in Attributes /\ Width("position", l) \in Nat
      BY Widths DEF Attributes
    <2>2. l.offset["position"] \in Nat
      BY <1>1, <2>1
    <2>3. l.offset["position"] + Width("position", l) <= l.stride
      BY <1>1, <1>2, <1>9, <2>1, <2>2, AttributeEnds
    <2> QED BY <1>6, <1>9, <2>1, <2>2, <2>3
  <1> QED BY <1>5, <1>7, <1>8, <1>9

\* The same of the stream of positions of a dynamic shape.
THEOREM StreamReadsInBounds ==
  ASSUME NEW bytes \in Nat, NEW n \in Nat, NEW contents, NEW indices \in Seq(Nat),
         NEW l \in Layouts, NEW stream \in Streams, NEW i \in 0..(n - 1),
         stream.bytes # 0,
         DecodePackedGeometry(bytes, n, contents, indices, l, stream) = "None",
         NEW r, r = StreamRead(l, stream, i)
  PROVE  r.from \in Nat /\ r.from + r.width <= stream.bytes
  <1> DEFINE width == Width("position", l)
             room  == (stream.bytes - stream.offset) - width
  <1>1. /\ stream.bytes \in Nat /\ stream.stride \in Nat /\ stream.offset \in Nat
        /\ width \in Nat
    BY Widths DEF Streams, Attributes
  <1>2. LayoutIsValid(l, stream) /\ ~StreamIsTruncated(n, l, stream)
    BY AcceptedFacts
  <1>3. stream.stride # 0
    BY <1>2 DEF LayoutIsValid
  <1>4. Fits(stream.offset, width, stream.bytes) /\ ~(n - 1 > room \div stream.stride)
    BY <1>2 DEF StreamIsTruncated
  <1>5. r = [from |-> i * stream.stride + stream.offset, width |-> width]
    BY DEF StreamRead
  <1> HIDE DEF width
  <1>6. room \in Nat
    BY <1>1, <1>4, SMT DEF Fits
  <1>7. i * stream.stride \in Nat /\ i * stream.stride <= room
    <2> HIDE DEF room
    <2> QED BY <1>1, <1>3, <1>4, <1>6, StreamBegins
  <1>8. PICK begins \in Nat : begins = i * stream.stride
    BY <1>7
  <1>9. begins <= room
    BY <1>7, <1>8
  <1>10. r.from = begins + stream.offset /\ r.width = width
    BY <1>5, <1>8
  <1> QED BY <1>1, <1>9, <1>10, SMT

-----------------------------------------------------------------------------
(* AppendMesh.                                                             *)

\* A draw range: where its indices begin, how many they are and what else it has.
IsDraw(d) ==
  /\ d = [x \in DOMAIN d |-> d[x]] /\ {"start", "count"} \subseteq DOMAIN d
  /\ d.start \in Nat /\ d.count \in Nat

\* A mesh whose indices name vertices and whose draws name indices.
IsMesh(m) ==
  /\ \E V : m.vertices \in Seq(V)
  /\ m.indices \in Seq(Nat)
  /\ \E D : m.draws \in Seq(D)
  /\ \A k \in 1..Len(m.indices) : m.indices[k] < Len(m.vertices)
  /\ \A k \in 1..Len(m.draws) : IsDraw(m.draws[k]) /\ DrawFits(m.draws[k], m)

\* The vertex at the e-th corner of a draw.
Corner(m, d, e) == m.vertices[m.indices[d.start + e] + 1]

\* A sequence behind another.
LEMMA Behind ==
  ASSUME NEW S, NEW s \in Seq(S), NEW T, NEW t \in Seq(T), NEW u, u = s \o t
  PROVE  /\ u \in Seq(S \cup T)
         /\ Len(s) \in Nat /\ Len(t) \in Nat /\ Len(u) = Len(s) + Len(t)
         /\ \A k \in 1..Len(s) : u[k] = s[k]
         /\ \A k \in 1..Len(t) : u[Len(s) + k] = t[k]
  <1>1. s \in Seq(S \cup T) /\ t \in Seq(S \cup T)
    BY SMT
  <1> QED BY <1>1, SMT

\* A function on the indices of a sequence.
LEMMA Changed ==
  ASSUME NEW S, NEW s \in Seq(S), NEW T, NEW t,
         t = [k \in DOMAIN s |-> t[k]], \A k \in DOMAIN s : t[k] \in T
  PROVE  t \in Seq(T) /\ Len(t) = Len(s)
  BY SMT

\* A draw that is moved by where the indices begin.
LEMMA Moved ==
  ASSUME NEW d, IsDraw(d), NEW n \in Nat, NEW e, e = [d EXCEPT !.start = @ + n]
  PROVE  IsDraw(e) /\ e.start = d.start + n /\ e.count = d.count
  BY DEF IsDraw

\* a is s behind m: sequence by sequence.
IsBehind(a, m, s) ==
  /\ \E V : a.vertices \in Seq(V)
  /\ a.indices \in Seq(Nat)
  /\ \E D : a.draws \in Seq(D)
  /\ Len(m.vertices) \in Nat /\ Len(s.vertices) \in Nat
  /\ Len(a.vertices) = Len(m.vertices) + Len(s.vertices)
  /\ \A k \in 1..Len(m.vertices) : a.vertices[k] = m.vertices[k]
  /\ \A k \in 1..Len(s.vertices) : a.vertices[Len(m.vertices) + k] = s.vertices[k]
  /\ Len(m.indices) \in Nat /\ Len(s.indices) \in Nat
  /\ Len(a.indices) = Len(m.indices) + Len(s.indices)
  /\ \A k \in 1..Len(m.indices) : a.indices[k] = m.indices[k]
  /\ \A k \in 1..Len(s.indices) :
       a.indices[Len(m.indices) + k] = s.indices[k] + Len(m.vertices)
  /\ Len(m.draws) \in Nat /\ Len(s.draws) \in Nat
  /\ Len(a.draws) = Len(m.draws) + Len(s.draws)
  /\ \A k \in 1..Len(m.draws) : a.draws[k] = m.draws[k]
  /\ \A k \in 1..Len(s.draws) :
       a.draws[Len(m.draws) + k] = [s.draws[k] EXCEPT !.start = @ + Len(m.indices)]

LEMMA AppendedParts ==
  ASSUME NEW m, NEW s, IsMesh(m), IsMesh(s), NEW a, a = Appended(m, s)
  PROVE  IsBehind(a, m, s)
  <1>1. PICK V, W, D, E :
          /\ m.vertices \in Seq(V) /\ s.vertices \in Seq(W)
          /\ m.draws \in Seq(D) /\ s.draws \in Seq(E)
    BY DEF IsMesh
  <1>2. PICK mv \in Seq(V) : mv = m.vertices
    BY <1>1
  <1>3. PICK sv \in Seq(W) : sv = s.vertices
    BY <1>1
  <1>4. PICK mi \in Seq(Nat) : mi = m.indices
    BY DEF IsMesh
  <1>5. PICK si \in Seq(Nat) : si = s.indices
    BY DEF IsMesh
  <1>6. PICK md \in Seq(D) : md = m.draws
    BY <1>1
  <1>7. PICK sd \in Seq(E) : sd = s.draws
    BY <1>1
  <1>8. PICK rebased : rebased = [k \in DOMAIN si |-> si[k] + Len(mv)]
    OBVIOUS
  <1>9. PICK moved : moved = [k \in DOMAIN sd |-> [sd[k] EXCEPT !.start = @ + Len(mi)]]
    OBVIOUS
  <1>10. a = [vertices |-> mv \o sv, indices |-> mi \o rebased, draws |-> md \o moved]
    BY <1>2, <1>3, <1>4, <1>5, <1>6, <1>7, <1>8, <1>9 DEF Appended
  <1>11. PICK av : av = mv \o sv
    OBVIOUS
  <1>12. PICK ai : ai = mi \o rebased
    OBVIOUS
  <1>13. PICK ad : ad = md \o moved
    OBVIOUS
  <1>14. a.vertices = av /\ a.indices = ai /\ a.draws = ad
    BY <1>10, <1>11, <1>12, <1>13
  <1>15. rebased \in Seq(Nat) /\ Len(rebased) = Len(si)
    <2>1. Len(mv) \in Nat
      OBVIOUS
    <2>2. \A k \in DOMAIN si : rebased[k] \in Nat
      BY <1>8, <2>1
    <2>3. rebased = [k \in DOMAIN si |-> rebased[k]]
      BY <1>8
    <2> QED BY <2>2, <2>3, Changed
  <1>16. PICK all : moved \in Seq(all) /\ Len(moved) = Len(sd)
    <2>1. PICK all : all = {moved[k] : k \in DOMAIN sd}
      OBVIOUS
    <2>2. \A k \in DOMAIN sd : moved[k] \in all
      BY <2>1
    <2>3. moved = [k \in DOMAIN sd |-> moved[k]]
      BY <1>9
    <2>4. moved \in Seq(all) /\ Len(moved) = Len(sd)
      BY <2>2, <2>3, Changed
    <2> QED BY <2>4
  <1>17. DOMAIN si = 1..Len(si) /\ DOMAIN sd = 1..Len(sd)
    OBVIOUS
  <1>18. \A k \in 1..Len(si) : rebased[k] = si[k] + Len(mv)
    BY <1>8, <1>17
  <1>19. \A k \in 1..Len(sd) : moved[k] = [sd[k] EXCEPT !.start = @ + Len(mi)]
    BY <1>9, <1>17
  <1>20. /\ av \in Seq(V \cup W)
         /\ Len(mv) \in Nat /\ Len(sv) \in Nat /\ Len(av) = Len(mv) + Len(sv)
         /\ \A k \in 1..Len(mv) : av[k] = mv[k]
         /\ \A k \in 1..Len(sv) : av[Len(mv) + k] = sv[k]
    BY <1>11, Behind, SMT
  <1>21. rebased \in Seq(Nat)
    BY <1>15
  <1>22. /\ ai \in Seq(Nat)
         /\ Len(mi) \in Nat /\ Len(rebased) \in Nat /\ Len(ai) = Len(mi) + Len(rebased)
         /\ \A k \in 1..Len(mi) : ai[k] = mi[k]
         /\ \A k \in 1..Len(rebased) : ai[Len(mi) + k] = rebased[k]
    BY <1>12, <1>21, SMT
  <1>23. moved \in Seq(all)
    BY <1>16
  <1>24. /\ ad \in Seq(D \cup all)
         /\ Len(md) \in Nat /\ Len(moved) \in Nat /\ Len(ad) = Len(md) + Len(moved)
         /\ \A k \in 1..Len(md) : ad[k] = md[k]
         /\ \A k \in 1..Len(moved) : ad[Len(md) + k] = moved[k]
    BY <1>13, <1>23, Behind, SMT
  <1>25. \A k \in 1..Len(si) : ai[Len(mi) + k] = si[k] + Len(mv)
    BY <1>15, <1>18, <1>22, Zenon
  <1>26. \A k \in 1..Len(sd) : ad[Len(md) + k] = [sd[k] EXCEPT !.start = @ + Len(mi)]
    BY <1>16, <1>19, <1>24, Zenon
  <1> QED
    BY <1>2, <1>3, <1>4, <1>5, <1>6, <1>7, <1>14, <1>15, <1>16, <1>20, <1>22, <1>24, <1>25,
       <1>26, Zenon
    DEF IsBehind

\* An index of the longer sequence is one of the first or one of the second.
LEMMA Either ==
  ASSUME NEW p \in Nat, NEW q \in Nat, NEW k \in 1..(p + q)
  PROVE  k \in 1..p \/ \E j \in 1..q : k = p + j
  <1>1. CASE k > p
    <2>1. k - p \in 1..q /\ k = p + (k - p)
      BY <1>1, SMT
    <2> QED BY <2>1
  <1>2. CASE ~(k > p)
    BY <1>2, SMT
  <1> QED BY <1>1, <1>2

\* The place of a vertex that moved by n.
LEMMA Shifted ==
  ASSUME NEW x \in Nat, NEW n \in Nat
  PROVE  (x + n) + 1 = n + (x + 1)
  BY SMT

\* Where the corners of a draw stand.
LEMMA CornersAreThere ==
  ASSUME NEW t, IsMesh(t), NEW k \in 1..Len(t.draws), NEW e \in 1..t.draws[k].count
  PROVE  \E i \in 1..Len(t.indices) : \E x \in Nat :
           /\ t.draws[k].start \in Nat /\ i = t.draws[k].start + e
           /\ x = t.indices[i] /\ x + 1 \in 1..Len(t.vertices)
  <1>1. /\ t.draws[k].start \in Nat /\ t.draws[k].count \in Nat
        /\ DrawFits(t.draws[k], t)
    BY DEF IsMesh, IsDraw
  <1>2. Len(t.vertices) \in Nat /\ Len(t.indices) \in Nat
    BY DEF IsMesh
  <1>3. PICK i \in 1..Len(t.indices) : i = t.draws[k].start + e
    BY <1>1, <1>2 DEF DrawFits
  <1>4. PICK x \in Nat : x = t.indices[i] /\ x < Len(t.vertices)
    BY <1>3 DEF IsMesh
  <1>5. x + 1 \in 1..Len(t.vertices)
    BY <1>2, <1>4
  <1> QED BY <1>1, <1>3, <1>4, <1>5

\* What an index of a sound mesh is.
LEMMA SoundIndex ==
  ASSUME NEW t, IsMesh(t), NEW k \in 1..Len(t.indices)
  PROVE  t.indices[k] \in Nat /\ t.indices[k] < Len(t.vertices)
  <1>1. PICK i \in Seq(Nat) : i = t.indices
    BY DEF IsMesh
  <1>2. i[k] \in Nat
    BY <1>1
  <1> QED BY <1>1, <1>2 DEF IsMesh

\* A mesh that was appended to is as sound as its parts: every index names a vertex
\* and every draw indices that are there (AppendMesh).
THEOREM AppendedIsSound ==
  ASSUME NEW m, NEW s, IsMesh(m), IsMesh(s), NEW a, a = Appended(m, s)
  PROVE  IsMesh(a)
  <1>1. IsBehind(a, m, s)
    BY AppendedParts
  <1>2. PICK vm \in Nat, vs \in Nat, im \in Nat, is \in Nat :
          /\ Len(m.vertices) = vm /\ Len(s.vertices) = vs /\ Len(a.vertices) = vm + vs
          /\ Len(m.indices) = im /\ Len(s.indices) = is /\ Len(a.indices) = im + is
    <2>1. /\ Len(m.vertices) \in Nat /\ Len(s.vertices) \in Nat
          /\ Len(a.vertices) = Len(m.vertices) + Len(s.vertices)
          /\ Len(m.indices) \in Nat /\ Len(s.indices) \in Nat
          /\ Len(a.indices) = Len(m.indices) + Len(s.indices)
      BY <1>1 DEF IsBehind
    <2> QED BY <2>1, Zenon
  <1>3. ASSUME NEW k \in 1..Len(a.indices)
        PROVE  a.indices[k] < Len(a.vertices)
    <2>1. k \in 1..im \/ \E j \in 1..is : k = im + j
      BY <1>2, Either
    <2>2. CASE k \in 1..im
      <3>1. PICK x \in Nat : x = m.indices[k] /\ x < vm
        BY <1>2, <2>2, SoundIndex
      <3>2. a.indices[k] = x
        BY <1>1, <1>2, <2>2, <3>1 DEF IsBehind
      <3>3. x < vm + vs
        BY <3>1, SMT
      <3> QED BY <1>2, <3>2, <3>3, Zenon
    <2>3. CASE \E j \in 1..is : k = im + j
      <3>1. PICK j \in 1..is : k = im + j
        BY <2>3
      <3>2. PICK x \in Nat : x = s.indices[j] /\ x < vs
        BY <1>2, <3>1, SoundIndex
      <3>3. a.indices[k] = x + vm
        BY <1>1, <1>2, <3>1, <3>2 DEF IsBehind
      <3>4. x + vm < vm + vs
        BY <3>2, SMT
      <3> QED BY <1>2, <3>3, <3>4, Zenon
    <2> QED BY <2>1, <2>2, <2>3
  <1>4. ASSUME NEW k \in 1..Len(a.draws)
        PROVE  IsDraw(a.draws[k]) /\ DrawFits(a.draws[k], a)
    <2>1. CASE k \in 1..Len(m.draws)
      <3>1. PICK d : d = m.draws[k]
        OBVIOUS
      <3>2. IsDraw(d) /\ DrawFits(d, m)
        BY <2>1, <3>1 DEF IsMesh
      <3>3. PICK start \in Nat, count \in Nat : start = d.start /\ count = d.count
        BY <3>2 DEF IsDraw
      <3>4. count # 0 /\ start <= im /\ count <= im - start
        BY <1>2, <3>2, <3>3, Zenon DEF DrawFits
      <3>5. count # 0 /\ start <= im + is /\ count <= (im + is) - start
        BY <3>4, SMT
      <3>6. DrawFits(d, a)
        BY <1>2, <3>3, <3>5, Zenon DEF DrawFits
      <3>7. a.draws[k] = d
        BY <1>1, <2>1, <3>1 DEF IsBehind
      <3> QED BY <3>2, <3>6, <3>7
    <2>2. CASE \E j \in 1..Len(s.draws) : k = Len(m.draws) + j
      <3>1. PICK j \in 1..Len(s.draws) : k = Len(m.draws) + j
        BY <2>2
      <3>2. PICK d, f : d = s.draws[j] /\ f = a.draws[k]
        OBVIOUS
      <3>3. IsDraw(d) /\ DrawFits(d, s)
        BY <3>1, <3>2 DEF IsMesh
      <3>4. f = [d EXCEPT !.start = @ + im]
        BY <1>1, <1>2, <3>1, <3>2 DEF IsBehind
      <3>5. IsDraw(f) /\ f.start = d.start + im /\ f.count = d.count
        BY <3>3, <3>4, Moved
      <3>6. PICK start \in Nat, count \in Nat : start = d.start /\ count = d.count
        BY <3>3 DEF IsDraw
      <3>7. count # 0 /\ start <= is /\ count <= is - start
        BY <1>2, <3>3, <3>6, Zenon DEF DrawFits
      <3>8. count # 0 /\ start + im <= im + is /\ count <= (im + is) - (start + im)
        BY <3>7, SMT
      <3>9. DrawFits(f, a)
        BY <1>2, <3>5, <3>6, <3>8, Zenon DEF DrawFits
      <3> QED BY <3>2, <3>5, <3>9
    <2>3. k \in 1..Len(m.draws) \/ \E j \in 1..Len(s.draws) : k = Len(m.draws) + j
      <3>1. PICK dm \in Nat, ds \in Nat : /\ Len(m.draws) = dm /\ Len(s.draws) = ds
                                          /\ Len(a.draws) = dm + ds
        BY <1>1 DEF IsBehind
      <3>2. k \in 1..(dm + ds)
        BY <3>1
      <3>3. k \in 1..dm \/ \E j \in 1..ds : k = dm + j
        BY <3>2, Either
      <3> QED BY <3>1, <3>3, Zenon
    <2> QED BY <2>1, <2>2, <2>3
  <1>5. (\E V : a.vertices \in Seq(V)) /\ a.indices \in Seq(Nat) /\ \E D : a.draws \in Seq(D)
    BY <1>1 DEF IsBehind
  <1> QED BY <1>3, <1>4, <1>5, Zenon DEF IsMesh

\* Each draw of either mesh shows, corner by corner, the vertices it showed before,
\* wherever its indices and its vertices came to lie (AppendMesh, which ComposeScene
\* and the extraction use alike).
THEOREM AppendedShowsTheSame ==
  ASSUME NEW m, NEW s, IsMesh(m), IsMesh(s), NEW a, a = Appended(m, s)
  PROVE  /\ \A k \in 1..Len(m.draws) : \A e \in 1..m.draws[k].count :
              Corner(a, a.draws[k], e) = Corner(m, m.draws[k], e)
         /\ \A k \in 1..Len(s.draws) : \A e \in 1..s.draws[k].count :
              Corner(a, a.draws[Len(m.draws) + k], e) = Corner(s, s.draws[k], e)
  <1>1. IsBehind(a, m, s)
    BY AppendedParts
  <1>2. ASSUME NEW k \in 1..Len(m.draws), NEW e \in 1..m.draws[k].count
        PROVE  Corner(a, a.draws[k], e) = Corner(m, m.draws[k], e)
    <2>1. PICK i \in 1..Len(m.indices) : \E x \in Nat :
            /\ m.draws[k].start \in Nat /\ i = m.draws[k].start + e
            /\ x = m.indices[i] /\ x + 1 \in 1..Len(m.vertices)
      BY CornersAreThere
    <2>2. PICK x \in Nat : x = m.indices[i] /\ x + 1 \in 1..Len(m.vertices)
      BY <2>1
    <2>3. a.draws[k] = m.draws[k] /\ a.indices[i] = x /\ a.vertices[x + 1] = m.vertices[x + 1]
      BY <1>1, <2>1, <2>2 DEF IsBehind
    <2> QED BY <2>1, <2>2, <2>3 DEF Corner
  <1>3. ASSUME NEW k \in 1..Len(s.draws), NEW e \in 1..s.draws[k].count
        PROVE  Corner(a, a.draws[Len(m.draws) + k], e) = Corner(s, s.draws[k], e)
    <2>1. PICK i \in 1..Len(s.indices) : \E x \in Nat :
            /\ s.draws[k].start \in Nat /\ i = s.draws[k].start + e
            /\ x = s.indices[i] /\ x + 1 \in 1..Len(s.vertices)
      BY CornersAreThere
    <2>2. PICK x \in Nat : x = s.indices[i] /\ x + 1 \in 1..Len(s.vertices)
      BY <2>1
    <2>3. PICK d : d = s.draws[k]
      OBVIOUS
    <2>4. PICK f : f = a.draws[Len(m.draws) + k]
      OBVIOUS
    <2>5. f = [d EXCEPT !.start = @ + Len(m.indices)]
      BY <1>1, <2>3, <2>4 DEF IsBehind
    <2>6. PICK vm \in Nat, im \in Nat : vm = Len(m.vertices) /\ im = Len(m.indices)
      BY <1>1 DEF IsBehind
    <2>7. IsDraw(d)
      BY <2>3 DEF IsMesh
    <2>8. f.start = d.start + im
      BY <2>5, <2>6, <2>7, Moved
    <2>9. f.start + e = im + i
      <3>1. PICK start \in Nat, count \in Nat :
              start = d.start /\ count = d.count /\ i = start + e /\ e \in 1..count
        BY <2>1, <2>3, <2>7 DEF IsDraw
      <3>2. (start + im) + e = im + (start + e)
        BY <3>1, SMT
      <3> QED BY <2>8, <3>1, <3>2
    <2>10. a.indices[im + i] = x + vm
      BY <1>1, <2>2, <2>6 DEF IsBehind
    <2>11. (x + vm) + 1 = vm + (x + 1)
      BY <2>2, <2>6, Shifted
    <2>12. a.vertices[vm + (x + 1)] = s.vertices[x + 1]
      BY <1>1, <2>2, <2>6 DEF IsBehind
    <2>13. Corner(s, d, e) = s.vertices[x + 1]
      BY <2>1, <2>2, <2>3 DEF Corner
    <2>14. Corner(a, f, e) = s.vertices[x + 1]
      BY <2>9, <2>10, <2>11, <2>12 DEF Corner
    <2> QED BY <2>3, <2>4, <2>13, <2>14
  <1> QED BY <1>2, <1>3

-----------------------------------------------------------------------------
(* The pipeline of a request (NifPipeline), for any request, any graph of  *)
(* objects and any files: the recursive functions it is built from, what   *)
(* each of its parts gives, and the invariant all of it adds up to.        *)

\* Induction: a number that is no member would have a least one before it.
LEMMA Upwards ==
  ASSUME NEW T \in SUBSET Nat, 0 \in T, \A n \in T : n + 1 \in T
  PROVE  T = Nat
  <1> SUFFICES ASSUME T # Nat PROVE FALSE
    OBVIOUS
  <1>1. PICK n \in Nat \ T : \A m \in Nat \ T : n <= m
    <2>1. PICK n \in Nat \ T : \A m \in Nat \ T : ~(<<m, n>> \in OpToRel(<, Nat))
      BY NatLessThanWellFounded, WFMin
    <2>2. \A m \in Nat \ T : ~(m < n)
      BY <2>1 DEF OpToRel
    <2> QED BY <2>2
  <1>2. n # 0 /\ n - 1 \in Nat /\ n - 1 \notin Nat \ T
    BY <1>1
  <1> QED BY <1>1, <1>2

IsList(s) == \E S : s \in Seq(S)

\* One step of the recursions.
PickOne(picked, s, K, k) == IF k \in K THEN Append(picked, s[k]) ELSE picked
WithChildren(S) == S \cup UNION {Range(Children[o]) : o \in S}

\* Picked goes up the places of a sequence.
Picks(after, s, K) ==
  /\ after[0] = <<>>
  /\ \A i \in 1..Len(s) : after[i] = PickOne(after[i - 1], s, K, i)
  /\ Picked(s, K) = after[Len(s)]

\* Every recursive function of the model has a value at each place it goes through.
LEMMA PickOnFold ==
  ASSUME NEW s, NEW K, Len(s) \in Nat
  PROVE  \E after : Picks(after, s, K)
  <1> DEFINE n == Len(s)
             Start == <<>>
             Step(acc, i) == PickOne(acc, s, K, i)
             F(k, f) == [i \in 0..k |-> IF i = 0 THEN Start ELSE Step(f[i - 1], i)]
             T == {k \in Nat : \E g : g = F(k, g)}
  <1>1. 0 \in T
    <2>1. [i \in 0..0 |-> Start] = F(0, [i \in 0..0 |-> Start])
      OBVIOUS
    <2> QED BY <2>1
  <1>2. ASSUME NEW k \in Nat, k \in T PROVE k + 1 \in T
    <2>1. PICK g : g = F(k, g)
      BY <1>2
    <2> DEFINE h == [i \in 0..(k + 1) |-> IF i <= k THEN g[i] ELSE Step(g[k], k + 1)]
    <2>2. h = F(k + 1, h)
      <3>1. \A i \in 0..(k + 1) : h[i] = IF i = 0 THEN Start ELSE Step(h[i - 1], i)
        <4> TAKE i \in 0..(k + 1)
        <4>1. CASE i = 0
          BY <2>1, <4>1
        <4>2. CASE i # 0 /\ i <= k
          <5>1. i - 1 \in 0..(k + 1) /\ i - 1 <= k /\ h[i - 1] = g[i - 1]
            BY <4>2
          <5>2. h[i] = g[i] /\ i \in 0..k
            BY <4>2
          <5>3. g[i] = Step(g[i - 1], i)
            BY <2>1, <4>2, <5>2
          <5> QED BY <4>2, <5>1, <5>2, <5>3
        <4>3. CASE i = k + 1
          <5>1. i - 1 = k /\ k \in 0..(k + 1) /\ k <= k /\ i # 0
            BY <4>3
          <5>2. h[k] = g[k]
            BY <5>1
          <5>3. ~(i <= k)
            BY <4>3
          <5>4. h[i] = Step(g[k], k + 1)
            BY <4>3, <5>3
          <5> QED BY <4>3, <5>1, <5>2, <5>4
        <4> QED BY <4>1, <4>2, <4>3
      <3>2. h = [i \in 0..(k + 1) |-> h[i]]
        OBVIOUS
      <3> QED BY <3>1, <3>2
    <2> HIDE DEF h, F
    <2>3. \E all : all = F(k + 1, all)
      BY <2>2
    <2> QED BY <2>3
  <1>3. n \in T
    <2>1. T \in SUBSET Nat
      OBVIOUS
    <2> HIDE DEF T
    <2> QED BY <1>1, <1>2, <2>1, Upwards
  <1> DEFINE after == CHOOSE all : all = F(n, all)
  <1>4. after = F(n, after)
    BY <1>3
  <1>5. Picked(s, K) = after[n]
    BY DEF Picked, PickOne
  <1> HIDE DEF after
  <1>6. \A i \in 0..n : after[i] = IF i = 0 THEN Start ELSE Step(after[i - 1], i)
    <2> DEFINE r == [i \in 0..n |-> IF i = 0 THEN Start ELSE Step(after[i - 1], i)]
    <2>1. \A i \in 0..n : r[i] = IF i = 0 THEN Start ELSE Step(after[i - 1], i)
      OBVIOUS
    <2>2. after = r
      BY <1>4
    <2> HIDE DEF r
    <2> QED BY <2>1, <2>2
  <1>7. 0 \in 0..n /\ \A i \in 1..n : i \in 0..n /\ i # 0
    OBVIOUS
  <1>8. after[0] = Start
    BY <1>6, <1>7
  <1>9. \A i \in 1..n : after[i] = Step(after[i - 1], i)
    BY <1>6, <1>7
  <1> QED BY <1>5, <1>8, <1>9 DEF Picks

\* AppendAddons goes through the addons of a record.
GoesThroughAddons(after, ps, item, race) ==
  /\ after[0] = [ok |-> TRUE, parts |-> ps, seen |-> {}, blank |-> FALSE]
  /\ \A i \in 1..Len(Armors[item.armor]) : 
       after[i] = AppendAddon(after[i - 1], Armors[item.armor][i], item, race)
  /\ AppendAddons(ps, item, race) = after[Len(Armors[item.armor])]

LEMMA AddonFold ==
  ASSUME NEW ps, NEW item, NEW race, Len(Armors[item.armor]) \in Nat
  PROVE  \E after : GoesThroughAddons(after, ps, item, race)
  <1> DEFINE n == Len(Armors[item.armor])
             Start == [ok |-> TRUE, parts |-> ps, seen |-> {}, blank |-> FALSE]
             Step(acc, i) == AppendAddon(acc, Armors[item.armor][i], item, race)
             F(k, f) == [i \in 0..k |-> IF i = 0 THEN Start ELSE Step(f[i - 1], i)]
             T == {k \in Nat : \E g : g = F(k, g)}
  <1>1. 0 \in T
    <2>1. [i \in 0..0 |-> Start] = F(0, [i \in 0..0 |-> Start])
      OBVIOUS
    <2> QED BY <2>1
  <1>2. ASSUME NEW k \in Nat, k \in T PROVE k + 1 \in T
    <2>1. PICK g : g = F(k, g)
      BY <1>2
    <2> DEFINE h == [i \in 0..(k + 1) |-> IF i <= k THEN g[i] ELSE Step(g[k], k + 1)]
    <2>2. h = F(k + 1, h)
      <3>1. \A i \in 0..(k + 1) : h[i] = IF i = 0 THEN Start ELSE Step(h[i - 1], i)
        <4> TAKE i \in 0..(k + 1)
        <4>1. CASE i = 0
          BY <2>1, <4>1
        <4>2. CASE i # 0 /\ i <= k
          <5>1. i - 1 \in 0..(k + 1) /\ i - 1 <= k /\ h[i - 1] = g[i - 1]
            BY <4>2
          <5>2. h[i] = g[i] /\ i \in 0..k
            BY <4>2
          <5>3. g[i] = Step(g[i - 1], i)
            BY <2>1, <4>2, <5>2
          <5> QED BY <4>2, <5>1, <5>2, <5>3
        <4>3. CASE i = k + 1
          <5>1. i - 1 = k /\ k \in 0..(k + 1) /\ k <= k /\ i # 0
            BY <4>3
          <5>2. h[k] = g[k]
            BY <5>1
          <5>3. ~(i <= k)
            BY <4>3
          <5>4. h[i] = Step(g[k], k + 1)
            BY <4>3, <5>3
          <5> QED BY <4>3, <5>1, <5>2, <5>4
        <4> QED BY <4>1, <4>2, <4>3
      <3>2. h = [i \in 0..(k + 1) |-> h[i]]
        OBVIOUS
      <3> QED BY <3>1, <3>2
    <2> HIDE DEF h, F
    <2>3. \E all : all = F(k + 1, all)
      BY <2>2
    <2> QED BY <2>3
  <1>3. n \in T
    <2>1. T \in SUBSET Nat
      OBVIOUS
    <2> HIDE DEF T
    <2> QED BY <1>1, <1>2, <2>1, Upwards
  <1> DEFINE after == CHOOSE all : all = F(n, all)
  <1>4. after = F(n, after)
    BY <1>3
  <1>5. AppendAddons(ps, item, race) = after[n]
    BY DEF AppendAddons
  <1> HIDE DEF after
  <1>6. \A i \in 0..n : after[i] = IF i = 0 THEN Start ELSE Step(after[i - 1], i)
    <2> DEFINE r == [i \in 0..n |-> IF i = 0 THEN Start ELSE Step(after[i - 1], i)]
    <2>1. \A i \in 0..n : r[i] = IF i = 0 THEN Start ELSE Step(after[i - 1], i)
      OBVIOUS
    <2>2. after = r
      BY <1>4
    <2> HIDE DEF r
    <2> QED BY <2>1, <2>2
  <1>7. 0 \in 0..n /\ \A i \in 1..n : i \in 0..n /\ i # 0
    OBVIOUS
  <1>8. after[0] = Start
    BY <1>6, <1>7
  <1>9. \A i \in 1..n : after[i] = Step(after[i - 1], i)
    BY <1>6, <1>7
  <1> QED BY <1>5, <1>8, <1>9 DEF GoesThroughAddons

\* AppendResolvedArmorParts goes through the items.
GoesThroughArmors(after, items, race) ==
  /\ after[0] = Parts(<<>>)
  /\ \A i \in 1..Len(items) : after[i] = AppendArmor(after[i - 1], items[i], race)
  /\ AppendResolvedArmorParts(items, race) = after[Len(items)]

LEMMA ArmorFold ==
  ASSUME NEW items, NEW race, Len(items) \in Nat
  PROVE  \E after : GoesThroughArmors(after, items, race)
  <1> DEFINE n == Len(items)
             Start == Parts(<<>>)
             Step(acc, i) == AppendArmor(acc, items[i], race)
             F(k, f) == [i \in 0..k |-> IF i = 0 THEN Start ELSE Step(f[i - 1], i)]
             T == {k \in Nat : \E g : g = F(k, g)}
  <1>1. 0 \in T
    <2>1. [i \in 0..0 |-> Start] = F(0, [i \in 0..0 |-> Start])
      OBVIOUS
    <2> QED BY <2>1
  <1>2. ASSUME NEW k \in Nat, k \in T PROVE k + 1 \in T
    <2>1. PICK g : g = F(k, g)
      BY <1>2
    <2> DEFINE h == [i \in 0..(k + 1) |-> IF i <= k THEN g[i] ELSE Step(g[k], k + 1)]
    <2>2. h = F(k + 1, h)
      <3>1. \A i \in 0..(k + 1) : h[i] = IF i = 0 THEN Start ELSE Step(h[i - 1], i)
        <4> TAKE i \in 0..(k + 1)
        <4>1. CASE i = 0
          BY <2>1, <4>1
        <4>2. CASE i # 0 /\ i <= k
          <5>1. i - 1 \in 0..(k + 1) /\ i - 1 <= k /\ h[i - 1] = g[i - 1]
            BY <4>2
          <5>2. h[i] = g[i] /\ i \in 0..k
            BY <4>2
          <5>3. g[i] = Step(g[i - 1], i)
            BY <2>1, <4>2, <5>2
          <5> QED BY <4>2, <5>1, <5>2, <5>3
        <4>3. CASE i = k + 1
          <5>1. i - 1 = k /\ k \in 0..(k + 1) /\ k <= k /\ i # 0
            BY <4>3
          <5>2. h[k] = g[k]
            BY <5>1
          <5>3. ~(i <= k)
            BY <4>3
          <5>4. h[i] = Step(g[k], k + 1)
            BY <4>3, <5>3
          <5> QED BY <4>3, <5>1, <5>2, <5>4
        <4> QED BY <4>1, <4>2, <4>3
      <3>2. h = [i \in 0..(k + 1) |-> h[i]]
        OBVIOUS
      <3> QED BY <3>1, <3>2
    <2> HIDE DEF h, F
    <2>3. \E all : all = F(k + 1, all)
      BY <2>2
    <2> QED BY <2>3
  <1>3. n \in T
    <2>1. T \in SUBSET Nat
      OBVIOUS
    <2> HIDE DEF T
    <2> QED BY <1>1, <1>2, <2>1, Upwards
  <1> DEFINE after == CHOOSE all : all = F(n, all)
  <1>4. after = F(n, after)
    BY <1>3
  <1>5. AppendResolvedArmorParts(items, race) = after[n]
    BY DEF AppendResolvedArmorParts
  <1> HIDE DEF after
  <1>6. \A i \in 0..n : after[i] = IF i = 0 THEN Start ELSE Step(after[i - 1], i)
    <2> DEFINE r == [i \in 0..n |-> IF i = 0 THEN Start ELSE Step(after[i - 1], i)]
    <2>1. \A i \in 0..n : r[i] = IF i = 0 THEN Start ELSE Step(after[i - 1], i)
      OBVIOUS
    <2>2. after = r
      BY <1>4
    <2> HIDE DEF r
    <2> QED BY <2>1, <2>2
  <1>7. 0 \in 0..n /\ \A i \in 1..n : i \in 0..n /\ i # 0
    OBVIOUS
  <1>8. after[0] = Start
    BY <1>6, <1>7
  <1>9. \A i \in 1..n : after[i] = Step(after[i - 1], i)
    BY <1>6, <1>7
  <1> QED BY <1>5, <1>8, <1>9 DEF GoesThroughArmors

\* Partitions goes through the pieces of a shape.
GoesThroughPieces(after, origin, shape, material, lost) ==
  /\ after[0] = Result("Accepted", NoMesh)
  /\ \A i \in 1..Len(shape.pieces) : 
       after[i] = AppendPartition(after[i - 1], origin, shape, i, material, lost)
  /\ Partitions(origin, shape, material, lost) = after[Len(shape.pieces)]

LEMMA PieceFold ==
  ASSUME NEW origin, NEW shape, NEW material, NEW lost, Len(shape.pieces) \in Nat
  PROVE  \E after : GoesThroughPieces(after, origin, shape, material, lost)
  <1> DEFINE n == Len(shape.pieces)
             Start == Result("Accepted", NoMesh)
             Step(acc, i) == AppendPartition(acc, origin, shape, i, material, lost)
             F(k, f) == [i \in 0..k |-> IF i = 0 THEN Start ELSE Step(f[i - 1], i)]
             T == {k \in Nat : \E g : g = F(k, g)}
  <1>1. 0 \in T
    <2>1. [i \in 0..0 |-> Start] = F(0, [i \in 0..0 |-> Start])
      OBVIOUS
    <2> QED BY <2>1
  <1>2. ASSUME NEW k \in Nat, k \in T PROVE k + 1 \in T
    <2>1. PICK g : g = F(k, g)
      BY <1>2
    <2> DEFINE h == [i \in 0..(k + 1) |-> IF i <= k THEN g[i] ELSE Step(g[k], k + 1)]
    <2>2. h = F(k + 1, h)
      <3>1. \A i \in 0..(k + 1) : h[i] = IF i = 0 THEN Start ELSE Step(h[i - 1], i)
        <4> TAKE i \in 0..(k + 1)
        <4>1. CASE i = 0
          BY <2>1, <4>1
        <4>2. CASE i # 0 /\ i <= k
          <5>1. i - 1 \in 0..(k + 1) /\ i - 1 <= k /\ h[i - 1] = g[i - 1]
            BY <4>2
          <5>2. h[i] = g[i] /\ i \in 0..k
            BY <4>2
          <5>3. g[i] = Step(g[i - 1], i)
            BY <2>1, <4>2, <5>2
          <5> QED BY <4>2, <5>1, <5>2, <5>3
        <4>3. CASE i = k + 1
          <5>1. i - 1 = k /\ k \in 0..(k + 1) /\ k <= k /\ i # 0
            BY <4>3
          <5>2. h[k] = g[k]
            BY <5>1
          <5>3. ~(i <= k)
            BY <4>3
          <5>4. h[i] = Step(g[k], k + 1)
            BY <4>3, <5>3
          <5> QED BY <4>3, <5>1, <5>2, <5>4
        <4> QED BY <4>1, <4>2, <4>3
      <3>2. h = [i \in 0..(k + 1) |-> h[i]]
        OBVIOUS
      <3> QED BY <3>1, <3>2
    <2> HIDE DEF h, F
    <2>3. \E all : all = F(k + 1, all)
      BY <2>2
    <2> QED BY <2>3
  <1>3. n \in T
    <2>1. T \in SUBSET Nat
      OBVIOUS
    <2> HIDE DEF T
    <2> QED BY <1>1, <1>2, <2>1, Upwards
  <1> DEFINE after == CHOOSE all : all = F(n, all)
  <1>4. after = F(n, after)
    BY <1>3
  <1>5. Partitions(origin, shape, material, lost) = after[n]
    BY DEF Partitions
  <1> HIDE DEF after
  <1>6. \A i \in 0..n : after[i] = IF i = 0 THEN Start ELSE Step(after[i - 1], i)
    <2> DEFINE r == [i \in 0..n |-> IF i = 0 THEN Start ELSE Step(after[i - 1], i)]
    <2>1. \A i \in 0..n : r[i] = IF i = 0 THEN Start ELSE Step(after[i - 1], i)
      OBVIOUS
    <2>2. after = r
      BY <1>4
    <2> HIDE DEF r
    <2> QED BY <2>1, <2>2
  <1>7. 0 \in 0..n /\ \A i \in 1..n : i \in 0..n /\ i # 0
    OBVIOUS
  <1>8. after[0] = Start
    BY <1>6, <1>7
  <1>9. \A i \in 1..n : after[i] = Step(after[i - 1], i)
    BY <1>6, <1>7
  <1> QED BY <1>5, <1>8, <1>9 DEF GoesThroughPieces

\* LoadTextures goes through what a draw asks for.
GoesThroughAsks(after, m, cache) ==
  /\ after[0] = [views |-> [s \in Slots |-> NoView], cache |-> cache]
  /\ \A i \in 1..Len(Asks(m)) : after[i] = AddView(after[i - 1], Asks(m)[i])
  /\ LoadTextures(m, cache) = after[Len(Asks(m))]

LEMMA ViewFold ==
  ASSUME NEW m, NEW cache, Len(Asks(m)) \in Nat
  PROVE  \E after : GoesThroughAsks(after, m, cache)
  <1> DEFINE n == Len(Asks(m))
             Start == [views |-> [s \in Slots |-> NoView], cache |-> cache]
             Step(acc, i) == AddView(acc, Asks(m)[i])
             F(k, f) == [i \in 0..k |-> IF i = 0 THEN Start ELSE Step(f[i - 1], i)]
             T == {k \in Nat : \E g : g = F(k, g)}
  <1>1. 0 \in T
    <2>1. [i \in 0..0 |-> Start] = F(0, [i \in 0..0 |-> Start])
      OBVIOUS
    <2> QED BY <2>1
  <1>2. ASSUME NEW k \in Nat, k \in T PROVE k + 1 \in T
    <2>1. PICK g : g = F(k, g)
      BY <1>2
    <2> DEFINE h == [i \in 0..(k + 1) |-> IF i <= k THEN g[i] ELSE Step(g[k], k + 1)]
    <2>2. h = F(k + 1, h)
      <3>1. \A i \in 0..(k + 1) : h[i] = IF i = 0 THEN Start ELSE Step(h[i - 1], i)
        <4> TAKE i \in 0..(k + 1)
        <4>1. CASE i = 0
          BY <2>1, <4>1
        <4>2. CASE i # 0 /\ i <= k
          <5>1. i - 1 \in 0..(k + 1) /\ i - 1 <= k /\ h[i - 1] = g[i - 1]
            BY <4>2
          <5>2. h[i] = g[i] /\ i \in 0..k
            BY <4>2
          <5>3. g[i] = Step(g[i - 1], i)
            BY <2>1, <4>2, <5>2
          <5> QED BY <4>2, <5>1, <5>2, <5>3
        <4>3. CASE i = k + 1
          <5>1. i - 1 = k /\ k \in 0..(k + 1) /\ k <= k /\ i # 0
            BY <4>3
          <5>2. h[k] = g[k]
            BY <5>1
          <5>3. ~(i <= k)
            BY <4>3
          <5>4. h[i] = Step(g[k], k + 1)
            BY <4>3, <5>3
          <5> QED BY <4>3, <5>1, <5>2, <5>4
        <4> QED BY <4>1, <4>2, <4>3
      <3>2. h = [i \in 0..(k + 1) |-> h[i]]
        OBVIOUS
      <3> QED BY <3>1, <3>2
    <2> HIDE DEF h, F
    <2>3. \E all : all = F(k + 1, all)
      BY <2>2
    <2> QED BY <2>3
  <1>3. n \in T
    <2>1. T \in SUBSET Nat
      OBVIOUS
    <2> HIDE DEF T
    <2> QED BY <1>1, <1>2, <2>1, Upwards
  <1> DEFINE after == CHOOSE all : all = F(n, all)
  <1>4. after = F(n, after)
    BY <1>3
  <1>5. LoadTextures(m, cache) = after[n]
    BY DEF LoadTextures
  <1> HIDE DEF after
  <1>6. \A i \in 0..n : after[i] = IF i = 0 THEN Start ELSE Step(after[i - 1], i)
    <2> DEFINE r == [i \in 0..n |-> IF i = 0 THEN Start ELSE Step(after[i - 1], i)]
    <2>1. \A i \in 0..n : r[i] = IF i = 0 THEN Start ELSE Step(after[i - 1], i)
      OBVIOUS
    <2>2. after = r
      BY <1>4
    <2> HIDE DEF r
    <2> QED BY <2>1, <2>2
  <1>7. 0 \in 0..n /\ \A i \in 1..n : i \in 0..n /\ i # 0
    OBVIOUS
  <1>8. after[0] = Start
    BY <1>6, <1>7
  <1>9. \A i \in 1..n : after[i] = Step(after[i - 1], i)
    BY <1>6, <1>7
  <1> QED BY <1>5, <1>8, <1>9 DEF GoesThroughAsks

\* BuildMeshResources goes through the draws of a mesh.
GoesThroughDraws(after, mesh) ==
  /\ after[0] = [draws |-> <<>>, cache |-> <<>>]
  /\ \A i \in 1..Len(mesh.draws) : after[i] = AddDraw(after[i - 1], mesh.draws[i], mesh)
  /\ BuildMeshResources(mesh) = after[Len(mesh.draws)].draws

LEMMA DrawFold ==
  ASSUME NEW mesh, Len(mesh.draws) \in Nat
  PROVE  \E after : GoesThroughDraws(after, mesh)
  <1> DEFINE n == Len(mesh.draws)
             Start == [draws |-> <<>>, cache |-> <<>>]
             Step(acc, i) == AddDraw(acc, mesh.draws[i], mesh)
             F(k, f) == [i \in 0..k |-> IF i = 0 THEN Start ELSE Step(f[i - 1], i)]
             T == {k \in Nat : \E g : g = F(k, g)}
  <1>1. 0 \in T
    <2>1. [i \in 0..0 |-> Start] = F(0, [i \in 0..0 |-> Start])
      OBVIOUS
    <2> QED BY <2>1
  <1>2. ASSUME NEW k \in Nat, k \in T PROVE k + 1 \in T
    <2>1. PICK g : g = F(k, g)
      BY <1>2
    <2> DEFINE h == [i \in 0..(k + 1) |-> IF i <= k THEN g[i] ELSE Step(g[k], k + 1)]
    <2>2. h = F(k + 1, h)
      <3>1. \A i \in 0..(k + 1) : h[i] = IF i = 0 THEN Start ELSE Step(h[i - 1], i)
        <4> TAKE i \in 0..(k + 1)
        <4>1. CASE i = 0
          BY <2>1, <4>1
        <4>2. CASE i # 0 /\ i <= k
          <5>1. i - 1 \in 0..(k + 1) /\ i - 1 <= k /\ h[i - 1] = g[i - 1]
            BY <4>2
          <5>2. h[i] = g[i] /\ i \in 0..k
            BY <4>2
          <5>3. g[i] = Step(g[i - 1], i)
            BY <2>1, <4>2, <5>2
          <5> QED BY <4>2, <5>1, <5>2, <5>3
        <4>3. CASE i = k + 1
          <5>1. i - 1 = k /\ k \in 0..(k + 1) /\ k <= k /\ i # 0
            BY <4>3
          <5>2. h[k] = g[k]
            BY <5>1
          <5>3. ~(i <= k)
            BY <4>3
          <5>4. h[i] = Step(g[k], k + 1)
            BY <4>3, <5>3
          <5> QED BY <4>3, <5>1, <5>2, <5>4
        <4> QED BY <4>1, <4>2, <4>3
      <3>2. h = [i \in 0..(k + 1) |-> h[i]]
        OBVIOUS
      <3> QED BY <3>1, <3>2
    <2> HIDE DEF h, F
    <2>3. \E all : all = F(k + 1, all)
      BY <2>2
    <2> QED BY <2>3
  <1>3. n \in T
    <2>1. T \in SUBSET Nat
      OBVIOUS
    <2> HIDE DEF T
    <2> QED BY <1>1, <1>2, <2>1, Upwards
  <1> DEFINE after == CHOOSE all : all = F(n, all)
  <1>4. after = F(n, after)
    BY <1>3
  <1>5. BuildMeshResources(mesh) = after[n].draws
    BY DEF BuildMeshResources
  <1> HIDE DEF after
  <1>6. \A i \in 0..n : after[i] = IF i = 0 THEN Start ELSE Step(after[i - 1], i)
    <2> DEFINE r == [i \in 0..n |-> IF i = 0 THEN Start ELSE Step(after[i - 1], i)]
    <2>1. \A i \in 0..n : r[i] = IF i = 0 THEN Start ELSE Step(after[i - 1], i)
      OBVIOUS
    <2>2. after = r
      BY <1>4
    <2> HIDE DEF r
    <2> QED BY <2>1, <2>2
  <1>7. 0 \in 0..n /\ \A i \in 1..n : i \in 0..n /\ i # 0
    OBVIOUS
  <1>8. after[0] = Start
    BY <1>6, <1>7
  <1>9. \A i \in 1..n : after[i] = Step(after[i - 1], i)
    BY <1>6, <1>7
  <1> QED BY <1>5, <1>8, <1>9 DEF GoesThroughDraws

\* ComposeScene goes through the meshes.
GoesThroughMeshes(after) ==
  /\ after[0] = NoMesh
  /\ \A i \in 1..Len(meshes) : after[i] = Appended(after[i - 1], Owned(meshes[i]))
  /\ ComposeScene = after[Len(meshes)]

LEMMA ComposeFold ==
  ASSUME Len(meshes) \in Nat
  PROVE  \E after : GoesThroughMeshes(after)
  <1> DEFINE n == Len(meshes)
             Start == NoMesh
             Step(acc, i) == Appended(acc, Owned(meshes[i]))
             F(k, f) == [i \in 0..k |-> IF i = 0 THEN Start ELSE Step(f[i - 1], i)]
             T == {k \in Nat : \E g : g = F(k, g)}
  <1>1. 0 \in T
    <2>1. [i \in 0..0 |-> Start] = F(0, [i \in 0..0 |-> Start])
      OBVIOUS
    <2> QED BY <2>1
  <1>2. ASSUME NEW k \in Nat, k \in T PROVE k + 1 \in T
    <2>1. PICK g : g = F(k, g)
      BY <1>2
    <2> DEFINE h == [i \in 0..(k + 1) |-> IF i <= k THEN g[i] ELSE Step(g[k], k + 1)]
    <2>2. h = F(k + 1, h)
      <3>1. \A i \in 0..(k + 1) : h[i] = IF i = 0 THEN Start ELSE Step(h[i - 1], i)
        <4> TAKE i \in 0..(k + 1)
        <4>1. CASE i = 0
          BY <2>1, <4>1
        <4>2. CASE i # 0 /\ i <= k
          <5>1. i - 1 \in 0..(k + 1) /\ i - 1 <= k /\ h[i - 1] = g[i - 1]
            BY <4>2
          <5>2. h[i] = g[i] /\ i \in 0..k
            BY <4>2
          <5>3. g[i] = Step(g[i - 1], i)
            BY <2>1, <4>2, <5>2
          <5> QED BY <4>2, <5>1, <5>2, <5>3
        <4>3. CASE i = k + 1
          <5>1. i - 1 = k /\ k \in 0..(k + 1) /\ k <= k /\ i # 0
            BY <4>3
          <5>2. h[k] = g[k]
            BY <5>1
          <5>3. ~(i <= k)
            BY <4>3
          <5>4. h[i] = Step(g[k], k + 1)
            BY <4>3, <5>3
          <5> QED BY <4>3, <5>1, <5>2, <5>4
        <4> QED BY <4>1, <4>2, <4>3
      <3>2. h = [i \in 0..(k + 1) |-> h[i]]
        OBVIOUS
      <3> QED BY <3>1, <3>2
    <2> HIDE DEF h, F
    <2>3. \E all : all = F(k + 1, all)
      BY <2>2
    <2> QED BY <2>3
  <1>3. n \in T
    <2>1. T \in SUBSET Nat
      OBVIOUS
    <2> HIDE DEF T
    <2> QED BY <1>1, <1>2, <2>1, Upwards
  <1> DEFINE after == CHOOSE all : all = F(n, all)
  <1>4. after = F(n, after)
    BY <1>3
  <1>5. ComposeScene = after[n]
    BY DEF ComposeScene
  <1> HIDE DEF after
  <1>6. \A i \in 0..n : after[i] = IF i = 0 THEN Start ELSE Step(after[i - 1], i)
    <2> DEFINE r == [i \in 0..n |-> IF i = 0 THEN Start ELSE Step(after[i - 1], i)]
    <2>1. \A i \in 0..n : r[i] = IF i = 0 THEN Start ELSE Step(after[i - 1], i)
      OBVIOUS
    <2>2. after = r
      BY <1>4
    <2> HIDE DEF r
    <2> QED BY <2>1, <2>2
  <1>7. 0 \in 0..n /\ \A i \in 1..n : i \in 0..n /\ i # 0
    OBVIOUS
  <1>8. after[0] = Start
    BY <1>6, <1>7
  <1>9. \A i \in 1..n : after[i] = Step(after[i - 1], i)
    BY <1>6, <1>7
  <1> QED BY <1>5, <1>8, <1>9 DEF GoesThroughMeshes

\* Reach goes down the levels.
GoesDown(after, object) ==
  /\ after[0] = {object}
  /\ \A i \in 1..Cardinality(SceneObjects) : after[i] = WithChildren(after[i - 1])
  /\ Reach(object) = after[Cardinality(SceneObjects)]

LEMMA DescendFold ==
  ASSUME NEW object, Cardinality(SceneObjects) \in Nat
  PROVE  \E after : GoesDown(after, object)
  <1> DEFINE n == Cardinality(SceneObjects)
             Start == {object}
             Step(acc, i) == WithChildren(acc)
             F(k, f) == [i \in 0..k |-> IF i = 0 THEN Start ELSE Step(f[i - 1], i)]
             T == {k \in Nat : \E g : g = F(k, g)}
  <1>1. 0 \in T
    <2>1. [i \in 0..0 |-> Start] = F(0, [i \in 0..0 |-> Start])
      OBVIOUS
    <2> QED BY <2>1
  <1>2. ASSUME NEW k \in Nat, k \in T PROVE k + 1 \in T
    <2>1. PICK g : g = F(k, g)
      BY <1>2
    <2> DEFINE h == [i \in 0..(k + 1) |-> IF i <= k THEN g[i] ELSE Step(g[k], k + 1)]
    <2>2. h = F(k + 1, h)
      <3>1. \A i \in 0..(k + 1) : h[i] = IF i = 0 THEN Start ELSE Step(h[i - 1], i)
        <4> TAKE i \in 0..(k + 1)
        <4>1. CASE i = 0
          BY <2>1, <4>1
        <4>2. CASE i # 0 /\ i <= k
          <5>1. i - 1 \in 0..(k + 1) /\ i - 1 <= k /\ h[i - 1] = g[i - 1]
            BY <4>2
          <5>2. h[i] = g[i] /\ i \in 0..k
            BY <4>2
          <5>3. g[i] = Step(g[i - 1], i)
            BY <2>1, <4>2, <5>2
          <5> QED BY <4>2, <5>1, <5>2, <5>3
        <4>3. CASE i = k + 1
          <5>1. i - 1 = k /\ k \in 0..(k + 1) /\ k <= k /\ i # 0
            BY <4>3
          <5>2. h[k] = g[k]
            BY <5>1
          <5>3. ~(i <= k)
            BY <4>3
          <5>4. h[i] = Step(g[k], k + 1)
            BY <4>3, <5>3
          <5> QED BY <4>3, <5>1, <5>2, <5>4
        <4> QED BY <4>1, <4>2, <4>3
      <3>2. h = [i \in 0..(k + 1) |-> h[i]]
        OBVIOUS
      <3> QED BY <3>1, <3>2
    <2> HIDE DEF h, F
    <2>3. \E all : all = F(k + 1, all)
      BY <2>2
    <2> QED BY <2>3
  <1>3. n \in T
    <2>1. T \in SUBSET Nat
      OBVIOUS
    <2> HIDE DEF T
    <2> QED BY <1>1, <1>2, <2>1, Upwards
  <1> DEFINE after == CHOOSE all : all = F(n, all)
  <1>4. after = F(n, after)
    BY <1>3
  <1>5. Reach(object) = after[n]
    BY DEF Reach, WithChildren
  <1> HIDE DEF after
  <1>6. \A i \in 0..n : after[i] = IF i = 0 THEN Start ELSE Step(after[i - 1], i)
    <2> DEFINE r == [i \in 0..n |-> IF i = 0 THEN Start ELSE Step(after[i - 1], i)]
    <2>1. \A i \in 0..n : r[i] = IF i = 0 THEN Start ELSE Step(after[i - 1], i)
      OBVIOUS
    <2>2. after = r
      BY <1>4
    <2> HIDE DEF r
    <2> QED BY <2>1, <2>2
  <1>7. 0 \in 0..n /\ \A i \in 1..n : i \in 0..n /\ i # 0
    OBVIOUS
  <1>8. after[0] = Start
    BY <1>6, <1>7
  <1>9. \A i \in 1..n : after[i] = Step(after[i - 1], i)
    BY <1>6, <1>7
  <1> QED BY <1>5, <1>8, <1>9 DEF GoesDown

-----------------------------------------------------------------------------
(* What the draws of a mesh show.                                          *)

\* The first corner of a draw tells which piece it draws.
First(m, i) == Corner(m, m.draws[i], 1)
PieceOf(v)  == <<v.part, v.shape, v.piece>>

\* A draw is one piece of one shape, corner by corner.
ShowsPiece(m, i) ==
  LET v       == First(m, i)
      indices == Shapes[v.shape].pieces[v.piece].g.indices
  IN  /\ "object" \in DOMAIN m.draws[i]
      /\ m.draws[i].count = Len(indices)
      /\ \A e \in 1..m.draws[i].count :
           Corner(m, m.draws[i], e) =
             [part |-> v.part, shape |-> v.shape, piece |-> v.piece, number |-> indices[e]]

Honest(m) ==
  /\ IsMesh(m) /\ m = [vertices |-> m.vertices, indices |-> m.indices, draws |-> m.draws]
  /\ \A i \in 1..Len(m.draws) : ShowsPiece(m, i)
  /\ \A i, j \in 1..Len(m.draws) : i # j => PieceOf(First(m, i)) # PieceOf(First(m, j))

\* The draws are of these parts, shapes and pieces.
From(m, P, S, K) ==
  \A i \in 1..Len(m.draws) :
    First(m, i).part \in P /\ First(m, i).shape \in S /\ First(m, i).piece \in K

\* What is under the roots of a part.
Roots(p) == IF Live(p) THEN Range(p.roots) ELSE {Models[p.low]}
UnderPart(p) == UNION {Reach(r) : r \in Roots(p) \cap SceneObjects}

\* What a request resolved to: models by path, or one actor.
IsModel(p) == /\ ~Live(p)
              /\ p = [object |-> p.object, low |-> p.low, high |-> p.high,
                      overrides |-> p.overrides, visible |-> p.visible]
IsActor(p) == /\ Live(p)
              /\ p = [object |-> p.object, root |-> p.root, roots |-> p.roots, visible |-> p.visible]
              /\ IsList(p.roots)
AreParts(ps) ==
  /\ IsList(ps) /\ Len(ps) # 0
  /\ \A k \in 1..Len(ps) : IsModel(ps[k]) \/ IsActor(ps[k])

IsExtraction(x) ==
  /\ x = [mesh |-> x.mesh, accepted |-> x.accepted, skipped |-> x.skipped, matched |-> x.matched,
          next |-> x.next, visited |-> x.visited, malformed |-> x.malformed, unreadable |-> x.unreadable]
  /\ x.accepted \in Nat /\ x.skipped \in Nat /\ IsFiniteSet(x.visited)
  /\ x.accepted + x.skipped = Cardinality(x.visited \cap DOMAIN Shapes)

\* The geometry of an extraction is of part p, of the objects that were visited.
Extracts(x, p) == IsExtraction(x) /\ Honest(x.mesh) /\ From(x.mesh, {p}, x.visited, Nat)

\* A draw's views are the textures it asks for.
ViewsAsAsked(d) ==
  \A k \in 1..Len(Asks(d.material)) :
    LET ask == Asks(d.material)[k]
    IN  d.views[ask.slot] = ReadTexture(NormalizeTextureResourcePath(ask.path), ask)

\* d is draw i of a mesh, with its textures.
IsBuilt(d, m, i) ==
  /\ d.object = m.draws[i].object /\ d.start = m.draws[i].start /\ d.count = m.draws[i].count
  /\ ViewsAsAsked(d)

\* The resources of a mesh: each of its draws.
IsBuiltFrom(ds, m) ==
  /\ IsList(ds) /\ Len(ds) = Len(m.draws)
  /\ \A k \in 1..Len(m.draws) : IsBuilt(ds[k], m, k)

\* What is on screen draws pieces, each with its textures.
IsScene(s) == Honest(s.mesh) /\ IsBuiltFrom(s.draws, s.mesh)

\* The k-th part, extracted.
IsOnePart(mesh, p, k) ==
  /\ mesh.object = p.object /\ mesh.visible = p.visible
  /\ Honest(mesh.mesh) /\ From(mesh.mesh, {k}, UnderPart(p), Nat)

\* The low endpoint of the k-th part, which has a high one.
IsHalf(mesh, p, k) ==
  /\ ~Live(p) /\ p.high # NoPath
  /\ Honest(mesh) /\ From(mesh, {k}, UnderPart(p), Nat)

\* The draws of the first n parts are there, each with its object.
Composed(m, n, ms, ps) ==
  /\ \A i \in 1..Len(m.draws) :
       /\ First(m, i).part \in 1..n
       /\ First(m, i).shape \in UnderPart(ps[First(m, i).part])
       /\ m.draws[i].object = ms[First(m, i).part].object
  /\ \A p \in 1..n : \E i \in 1..Len(m.draws) : First(m, i).part = p

\* The objects on a stack.
Pending(s) == {s[k].object : k \in 1..Len(s)}

\* The children of what has a transform have one, or are still to come.
IsCollecting(s, T, left) ==
  /\ IsList(s) /\ T \subseteq Finite
  /\ \A o \in T : Range(Children[o]) \ left \subseteq T \cup Pending(s)

\* Only what has a transform is walked.
IsWalking(s, T, left) ==
  /\ IsList(s) /\ T \subseteq Finite /\ Pending(s) \subseteq T
  /\ \A o \in T : Range(Children[o]) \ left \subseteq T

-----------------------------------------------------------------------------
(* The invariant of the pipeline.                                          *)

Working == phase \in {"demand", "submitted", "collect", "walk", "compose"}

Accepted ==
  /\ phase # "idle" => request \in Requests /\ Accepts(request)
  /\ Working \/ outcome = "Ready" => parts = Resolve(request).parts /\ AreParts(parts)

\* Every part that was extracted is there, and one at a time is in hand.
PartByPart ==
  /\ IsList(meshes) /\ at \in Nat
  /\ Working \/ outcome = "Ready" => \A k \in 1..Len(meshes) : IsOnePart(meshes[k], parts[k], k)
  /\ phase \in {"demand", "submitted", "collect", "walk"} => at = Len(meshes) + 1 /\ at <= Len(parts)
  /\ phase = "compose" \/ outcome = "Ready" => Len(meshes) = Len(parts)

HalfDone ==
  phase \in {"collect", "walk"} =>
    \/ endpoint = "low"
    \/ endpoint = "high" /\ IsHalf(low, parts[at], at)

Collecting == phase = "collect" => found = NoExtraction /\ IsCollecting(stack, transforms, detached)

Walking ==
  phase = "walk" =>
    /\ IsWalking(stack, transforms, detached)
    /\ Extracts(found, at)
    /\ endpoint = "low" => /\ Pending(stack) \subseteq UnderPart(parts[at])
                           /\ found.visited \subseteq UnderPart(parts[at])

Drawable == IsScene(scene)

Shows ==
  /\ outcome = "Ready" => /\ phase = "idle"
                          /\ Composed(scene.mesh, Len(meshes), meshes, parts)
                          /\ scene.shown = Shown
                          /\ Composable(meshes)
  /\ phase = "idle" /\ outcome # "Ready" => scene = NoScene

PipelineInv == Accepted /\ PartByPart /\ HalfDone /\ Collecting /\ Walking /\ Drawable /\ Shows

-----------------------------------------------------------------------------
(* Lists.                                                                  *)

\* A list and its places.
LEMMA ListFacts ==
  ASSUME NEW s, IsList(s)
  PROVE  Len(s) \in Nat /\ DOMAIN s = 1..Len(s) /\ s \in Seq(Range(s))
  <1>1. PICK S : s \in Seq(S)
    BY DEF IsList
  <1>2. Len(s) \in Nat /\ DOMAIN s = 1..Len(s)
    BY <1>1
  <1>3. \A k \in 1..Len(s) : s[k] \in Range(s)
    BY <1>2 DEF Range
  <1>4. s \in Seq(Range(s))
    BY <1>1, <1>2, <1>3
  <1> QED BY <1>2, <1>4

\* t is s with x behind it.
IsLonger(t, s, x) ==
  /\ IsList(t) /\ Len(s) \in Nat /\ Len(t) = Len(s) + 1
  /\ \A k \in 1..Len(s) : t[k] = s[k]
  /\ t[Len(s) + 1] = x

\* A list with one more at its end.
LEMMA Longer ==
  ASSUME NEW s, IsList(s), NEW x
  PROVE  IsLonger(Append(s, x), s, x)
  <1>1. PICK S : s \in Seq(S)
    BY DEF IsList
  <1>2. PICK t : t = Append(s, x)
    OBVIOUS
  <1>3. s \in Seq(S \cup {x}) /\ x \in S \cup {x}
    BY <1>1
  <1>4. t \in Seq(S \cup {x})
    BY <1>2, <1>3
  <1>5. IsList(t)
    BY <1>4 DEF IsList
  <1>6. Len(s) \in Nat /\ Len(t) = Len(s) + 1 /\ t[Len(s) + 1] = x
    BY <1>2, <1>3
  <1>7. \A k \in 1..Len(s) : t[k] = s[k]
    BY <1>2, <1>3
  <1> QED BY <1>2, <1>5, <1>6, <1>7 DEF IsLonger

\* What is picked stood at one of the places, and what stands there is picked.
IsPicked(p, s, K) ==
  /\ IsList(p)
  /\ \A j \in 1..Len(p) : \E k \in K \cap (1..Len(s)) : p[j] = s[k]
  /\ \A k \in K \cap (1..Len(s)) : \E j \in 1..Len(p) : p[j] = s[k]

\* Picked gives the members at the places asked for, and no others.
LEMMA PickedFacts ==
  ASSUME NEW s, IsList(s), NEW K
  PROVE  IsPicked(Picked(s, K), s, K)
  <1> DEFINE n == Len(s)
             Good(q, i) == /\ IsList(q)
                           /\ \A j \in 1..Len(q) : \E k \in K \cap (1..i) : q[j] = s[k]
                           /\ \A k \in K \cap (1..i) : \E j \in 1..Len(q) : q[j] = s[k]
  <1>1. n \in Nat
    BY ListFacts
  <1>2. PICK after : Picks(after, s, K)
    BY <1>1, PickOnFold
  <1> DEFINE T == {i \in Nat : i <= n => Good(after[i], i)}
  <1>3. 0 \in T
    <2>1. IsList(<<>>) /\ Len(<<>>) = 0 /\ 1..0 = {}
      <3>1. <<>> \in Seq({})
        OBVIOUS
      <3> QED BY <3>1 DEF IsList
    <2> QED BY <1>2, <2>1 DEF Picks
  <1>4. ASSUME NEW i \in Nat, i \in T, i + 1 <= n PROVE Good(after[i + 1], i + 1)
    <2>1. Good(after[i], i)
      BY <1>1, <1>4
    <2>2. PICK q : q = after[i]
      OBVIOUS
    <2>3. i + 1 \in 1..n /\ (i + 1) - 1 = i
      BY <1>1, <1>4
    <2>4. after[i + 1] = PickOne(q, s, K, i + 1)
      BY <1>2, <2>2, <2>3 DEF Picks
    <2> HIDE DEF T
    <2>5. 1..(i + 1) = (1..i) \cup {i + 1}
      BY <1>4
    <2>6. CASE i + 1 \notin K
      <3>1. after[i + 1] = q
        BY <2>4, <2>6 DEF PickOne
      <3>2. K \cap (1..(i + 1)) = K \cap (1..i)
        BY <2>5, <2>6
      <3> QED BY <2>1, <2>2, <3>1, <3>2
    <2>7. CASE i + 1 \in K
      <3>1. PICK t : t = after[i + 1]
        OBVIOUS
      <3>2. t = Append(q, s[i + 1])
        BY <2>4, <2>7, <3>1 DEF PickOne
      <3>3. /\ IsList(t) /\ Len(q) \in Nat /\ Len(t) = Len(q) + 1
            /\ \A k \in 1..Len(q) : t[k] = q[k]
            /\ t[Len(q) + 1] = s[i + 1]
        <4>1. IsList(q)
          BY <2>1, <2>2
        <4> HIDE DEF Good, n
        <4>2. IsLonger(t, q, s[i + 1])
          BY <3>2, <4>1, Longer
        <4> QED BY <4>2 DEF IsLonger
      <3>4. 1..Len(t) = (1..Len(q)) \cup {Len(q) + 1}
        BY <3>3
      <3>5. K \cap (1..(i + 1)) = (K \cap (1..i)) \cup {i + 1}
        BY <2>5, <2>7
      <3>6. \A j \in 1..Len(t) : \E k \in K \cap (1..(i + 1)) : t[j] = s[k]
        BY <2>1, <2>2, <3>3, <3>4, <3>5
      <3>7. \A k \in K \cap (1..(i + 1)) : \E j \in 1..Len(t) : t[j] = s[k]
        BY <2>1, <2>2, <3>3, <3>4, <3>5
      <3> QED BY <3>1, <3>3, <3>6, <3>7
    <2> QED BY <2>6, <2>7
  <1> HIDE DEF Good
  <1>5. T = Nat
    <2>1. \A i \in T : i + 1 \in T
      BY <1>4
    <2>2. T \in SUBSET Nat
      OBVIOUS
    <2> HIDE DEF T
    <2> QED BY <1>3, <2>1, <2>2, Upwards
  <1>6. Good(after[n], n)
    BY <1>1, <1>5
  <1> QED BY <1>2, <1>6 DEF Good, Picks, IsPicked

-----------------------------------------------------------------------------
(* What is at or under an object.                                          *)

\* An object reaches itself, and what it reaches reaches its children.
LEMMA ReachFacts ==
  ASSUME NEW object \in SceneObjects
  PROVE  /\ object \in Reach(object)
         /\ \A o \in Reach(object) : o \in SceneObjects /\ Range(Children[o]) \subseteq Reach(object)
  <1> DEFINE n == Cardinality(SceneObjects)
             Closed(S) == WithChildren(S) = S
  <1>1. n \in Nat /\ IsFiniteSet(SceneObjects)
    BY GraphAssumption, FS_CardinalityType
  <1>2. PICK after : GoesDown(after, object)
    BY <1>1, DescendFold
  <1> DEFINE Good(S, i) == /\ object \in S /\ S \subseteq SceneObjects
                           /\ Closed(S) \/ Cardinality(S) >= i + 1
             T == {i \in Nat : i <= n => Good(after[i], i)}
  <1>3. ASSUME NEW S, S \subseteq SceneObjects
        PROVE  S \subseteq WithChildren(S) /\ WithChildren(S) \subseteq SceneObjects
    <2>1. \A o \in S : Range(Children[o]) \subseteq SceneObjects
      BY <1>3, GraphAssumption DEF Range
    <2> QED BY <1>3, <2>1 DEF WithChildren
  <1>4. 0 \in T
    <2>1. Cardinality({object}) = 1
      BY FS_Singleton
    <2> QED BY <1>2, <2>1 DEF GoesDown
  <1>5. ASSUME NEW i \in Nat, i \in T, i + 1 <= n PROVE Good(after[i + 1], i + 1)
    <2>1. Good(after[i], i)
      BY <1>1, <1>5
    <2>2. PICK S : S = after[i]
      OBVIOUS
    <2>3. i + 1 \in 1..n /\ (i + 1) - 1 = i
      BY <1>1, <1>5
    <2> HIDE DEF T
    <2>4. after[i + 1] = WithChildren(S)
      BY <1>2, <2>2, <2>3 DEF GoesDown
    <2>5. CASE Closed(S)
      BY <2>1, <2>2, <2>4, <2>5
    <2>6. CASE ~Closed(S)
      <3>1. PICK U : U = WithChildren(S)
        OBVIOUS
      <3>2. S \subseteq U /\ U \subseteq SceneObjects /\ U # S
        BY <1>3, <2>1, <2>2, <2>6, <3>1
      <3>3. IsFiniteSet(U) /\ IsFiniteSet(S)
        BY <1>1, <3>2, FS_Subset
      <3>4. Cardinality(S) < Cardinality(U) /\ Cardinality(S) \in Nat /\ Cardinality(U) \in Nat
        BY <3>2, <3>3, FS_Subset, FS_CardinalityType
      <3>5. Cardinality(S) >= i + 1
        BY <2>1, <2>2, <2>6
      <3>6. Cardinality(U) >= (i + 1) + 1
        BY <3>4, <3>5
      <3> QED BY <2>1, <2>2, <2>4, <3>1, <3>2, <3>6
    <2> QED BY <2>5, <2>6
  <1>6. T = Nat
    <2>1. \A i \in T : i + 1 \in T
      <3> HIDE DEF Good
      <3> QED BY <1>5
    <2>2. T \in SUBSET Nat
      OBVIOUS
    <2> HIDE DEF T
    <2> QED BY <1>4, <2>1, <2>2, Upwards
  <1>7. PICK S : S = Reach(object)
    OBVIOUS
  <1>8. Good(S, n)
    <2> HIDE DEF Good
    <2> QED BY <1>1, <1>2, <1>6, <1>7 DEF GoesDown
  <1>9. Cardinality(S) <= n
    BY <1>1, <1>8, FS_Subset
  <1>10. Cardinality(S) \in Nat
    BY <1>1, <1>8, FS_Subset, FS_CardinalityType
  <1>11. Closed(S)
    BY <1>1, <1>8, <1>9, <1>10
  <1>12. \A o \in S : Range(Children[o]) \subseteq S
    BY <1>11 DEF WithChildren
  <1> QED BY <1>7, <1>8, <1>12

-----------------------------------------------------------------------------
(* What a request resolves to.                                             *)

AreModels(ps) == IsList(ps) /\ \A k \in 1..Len(ps) : IsModel(ps[k])

\* A list made from another, place by place.
LEMMA ListOf ==
  ASSUME NEW s, IsList(s), NEW t, t = [k \in DOMAIN s |-> t[k]]
  PROVE  IsList(t) /\ Len(t) = Len(s)
  <1>1. DOMAIN s = 1..Len(s) /\ Len(s) \in Nat
    BY ListFacts
  <1>2. \A k \in 1..Len(s) : t[k] \in Range(t)
    BY <1>1 DEF Range
  <1>3. t \in Seq(Range(t)) /\ Len(t) = Len(s)
    BY <1>1, <1>2
  <1> QED BY <1>3 DEF IsList

\* One more model.
LEMMA ModelMore ==
  ASSUME NEW ps, AreModels(ps), NEW p, IsModel(p)
  PROVE  AreModels(Append(ps, p))
  <1>1. PICK t : t = Append(ps, p)
    OBVIOUS
  <1>2. IsLonger(t, ps, p)
    BY <1>1, Longer DEF AreModels
  <1>3. 1..Len(t) = (1..Len(ps)) \cup {Len(ps) + 1}
    BY <1>2 DEF IsLonger
  <1> QED BY <1>1, <1>2, <1>3 DEF IsLonger, AreModels

\* No models yet.
LEMMA NoModels == AreModels(<<>>)
  <1>1. <<>> \in Seq({}) /\ Len(<<>>) = 0
    OBVIOUS
  <1> QED BY <1>1 DEF AreModels, IsList

IsResolving(a) == /\ a = [ok |-> a.ok, parts |-> a.parts, seen |-> a.seen, blank |-> a.blank]
                  /\ AreModels(a.parts)

\* An addon leaves the models so far as they were, and adds one or none.
LEMMA AppendAddonKeeps ==
  ASSUME NEW a, IsResolving(a), NEW addon, NEW item, NEW race
  PROVE  IsResolving(AppendAddon(a, addon, item, race))
  <1> DEFINE d     == Addons[addon]
             paths == ResolveArmorModelPaths(d.model, d.weighted)
             seen  == [a EXCEPT !.seen = @ \cup {addon}]
             one == [object |-> item.object, low |-> paths.low, high |-> paths.high,
                       overrides |-> SubSeq(d.swaps.held, 1, d.swaps.count), visible |-> item.visible]
  <1>1. IsModel(one)
    BY DEF IsModel, Live
  <1>2. AreModels(Append(a.parts, one))
    BY <1>1, ModelMore DEF IsResolving
  <1>3. PICK ps : ps = Append(a.parts, one)
    OBVIOUS
  <1>4. \/ AppendAddon(a, addon, item, race) = a
        \/ AppendAddon(a, addon, item, race) = seen
        \/ AppendAddon(a, addon, item, race) = [seen EXCEPT !.blank = TRUE]
        \/ AppendAddon(a, addon, item, race) = [seen EXCEPT !.ok = FALSE]
        \/ AppendAddon(a, addon, item, race) = [seen EXCEPT !.parts = Append(@, one)]
    BY DEF AppendAddon
  <1>5. /\ a = [ok |-> a.ok, parts |-> a.parts, seen |-> a.seen, blank |-> a.blank]
        /\ AreModels(a.parts)
    BY DEF IsResolving
  <1>6. PICK s : s = a.seen \cup {addon}
    OBVIOUS
  <1>7. PICK sn : sn = seen
    OBVIOUS
  <1>8. sn = [ok |-> a.ok, parts |-> a.parts, seen |-> s, blank |-> a.blank]
    BY <1>5, <1>6, <1>7
  <1> HIDE DEF d, paths, one, seen
  <1>9. [sn EXCEPT !.parts = Append(@, one)]
          = [ok |-> a.ok, parts |-> ps, seen |-> s, blank |-> a.blank]
    BY <1>3, <1>8
  <1>10. PICK yes, no : yes = TRUE /\ no = FALSE
    OBVIOUS
  <1>11. [sn EXCEPT !.blank = yes] = [ok |-> a.ok, parts |-> a.parts, seen |-> s, blank |-> yes]
    BY <1>8
  <1>12. [sn EXCEPT !.ok = no] = [ok |-> no, parts |-> a.parts, seen |-> s, blank |-> a.blank]
    BY <1>8
  <1>13. ASSUME NEW b, NEW ok, NEW qs, NEW x, NEW y, AreModels(qs),
                b = [ok |-> ok, parts |-> qs, seen |-> x, blank |-> y]
         PROVE  IsResolving(b)
    BY <1>13 DEF IsResolving
  <1>14. AreModels(ps)
    BY <1>2, <1>3
  <1>15. \/ AppendAddon(a, addon, item, race) = a
         \/ AppendAddon(a, addon, item, race) = sn
         \/ AppendAddon(a, addon, item, race) = [sn EXCEPT !.blank = yes]
         \/ AppendAddon(a, addon, item, race) = [sn EXCEPT !.ok = no]
         \/ AppendAddon(a, addon, item, race) = [sn EXCEPT !.parts = Append(@, one)]
    BY <1>4, <1>7, <1>10, Zenon
  <1>16. IsResolving(a) /\ AreModels(a.parts)
    BY <1>5
  <1> QED BY <1>9, <1>11, <1>12, <1>13, <1>14, <1>8, <1>15, <1>16, Zenon

\* So do all addons of a record.
LEMMA AddonsKeep ==
  ASSUME NEW ps, AreModels(ps), NEW item, NEW race, item.armor \in DOMAIN Armors
  PROVE  AreModels(AppendAddons(ps, item, race).parts)
  <1>1. PICK addons : addons = Armors[item.armor]
    OBVIOUS
  <1>2. PICK n \in Nat : n = Len(addons)
    BY <1>1, RecordsAssumption
  <1>3. PICK after : GoesThroughAddons(after, ps, item, race)
    BY <1>1, <1>2, AddonFold
  <1> DEFINE T == {i \in Nat : i <= n => IsResolving(after[i])}
  <1>4. 0 \in T
    BY <1>3 DEF GoesThroughAddons, IsResolving
  <1>5. ASSUME NEW i \in Nat, i \in T PROVE i + 1 \in T
    <2>1. SUFFICES ASSUME i + 1 <= n PROVE IsResolving(after[i + 1])
      OBVIOUS
    <2>2. i + 1 \in 1..n /\ (i + 1) - 1 = i /\ IsResolving(after[i])
      BY <1>5, <2>1
    <2>3. after[i + 1] = AppendAddon(after[i], addons[i + 1], item, race)
      BY <1>1, <1>2, <1>3, <2>2 DEF GoesThroughAddons
    <2> HIDE DEF T
    <2> QED BY <2>2, <2>3, AppendAddonKeeps
  <1>6. T = Nat
    <2>1. T \in SUBSET Nat
      OBVIOUS
    <2> HIDE DEF T
    <2> QED BY <1>4, <1>5, <2>1, Upwards
  <1>7. IsResolving(after[n])
    BY <1>6
  <1> QED BY <1>1, <1>2, <1>3, <1>7 DEF GoesThroughAddons, IsResolving

\* So do all records of a request.
LEMMA ArmorsKeep ==
  ASSUME NEW items, IsList(items), NEW race
  PROVE  AreModels(AppendResolvedArmorParts(items, race).parts)
  <1>1. PICK n \in Nat : n = Len(items)
    BY ListFacts
  <1>2. PICK after : GoesThroughArmors(after, items, race)
    BY <1>1, ArmorFold
  <1> DEFINE T == {i \in Nat : i <= n => AreModels(after[i].parts)}
  <1>3. 0 \in T
    BY <1>2, NoModels DEF GoesThroughArmors, Parts
  <1>4. ASSUME NEW i \in Nat, i \in T PROVE i + 1 \in T
    <2>1. SUFFICES ASSUME i + 1 <= n PROVE AreModels(after[i + 1].parts)
      OBVIOUS
    <2>2. i + 1 \in 1..n /\ (i + 1) - 1 = i /\ AreModels(after[i].parts)
      BY <1>4, <2>1
    <2>3. PICK acc : acc = after[i]
      OBVIOUS
    <2>4. PICK item : item = items[i + 1]
      OBVIOUS
    <2>5. after[i + 1] = AppendArmor(acc, item, race)
      BY <1>1, <1>2, <2>2, <2>3, <2>4 DEF GoesThroughArmors
    <2> HIDE DEF T
    <2>6. CASE ~acc.ok
      BY <2>2, <2>3, <2>5, <2>6 DEF AppendArmor
    <2>7. CASE acc.ok /\ item.armor \notin DOMAIN Armors
      BY <2>5, <2>7, NoModels DEF AppendArmor, Refused
    <2>8. CASE acc.ok /\ item.armor \in DOMAIN Armors
      <3>1. AppendArmor(acc, item, race).parts = AppendAddons(acc.parts, item, race).parts
        BY <2>8 DEF AppendArmor
      <3> QED BY <2>2, <2>3, <2>5, <2>8, <3>1, AddonsKeep
    <2> QED BY <2>6, <2>7, <2>8
  <1>5. T = Nat
    <2>1. T \in SUBSET Nat
      OBVIOUS
    <2> HIDE DEF T
    <2> QED BY <1>3, <1>4, <2>1, Upwards
  <1>6. AreModels(after[n].parts)
    BY <1>5
  <1> QED BY <1>1, <1>2, <1>6 DEF GoesThroughArmors

\* A list of at least one model is what is asked of the parts.
LEMMA ModelsAreParts ==
  ASSUME NEW ps, AreModels(ps), ps # <<>>
  PROVE  AreParts(ps)
  <1>1. PICK S : ps \in Seq(S)
    BY DEF AreModels, IsList
  <1>2. Len(ps) # 0
    BY <1>1
  <1> QED BY <1>2 DEF AreModels, AreParts

\* What an actor wears is a list of roots.
LEMMA RootsAreListed ==
  ASSUME NEW biped, IsList(biped), NEW sources
  PROVE  IsList(BipedRoots(biped, sources))
  <1> DEFINE wanted == {k \in DOMAIN biped : Wanted(biped[k], sources)}
             K      == {k \in wanted : \A j \in wanted : biped[j].clone = biped[k].clone => k <= j}
  <1>1. PICK slots : slots = Picked(biped, K)
    OBVIOUS
  <1>2. IsList(slots)
    <2> HIDE DEF K
    <2> QED BY <1>1, PickedFacts DEF IsPicked
  <1>3. PICK t : t = [k \in DOMAIN slots |-> slots[k].clone]
    OBVIOUS
  <1>4. BipedRoots(biped, sources) = t
    BY <1>1, <1>3 DEF BipedRoots
  <1>5. t = [k \in DOMAIN slots |-> t[k]]
    BY <1>3
  <1> QED BY <1>2, <1>4, <1>5, ListOf

\* So it is with the head.
LEMMA RootMore ==
  ASSUME NEW roots, IsList(roots), NEW root
  PROVE  IsList(AddRoot(roots, root))
  BY Longer DEF AddRoot, IsLonger

\* What an accepted request resolved to are parts.
LEMMA ResolvedParts ==
  ASSUME NEW r \in Requests, Accepts(r), Resolve(r).ok
  PROVE  AreParts(Resolve(r).parts)
  <1>1. r.kind \in {"scene", "weighted", "armor", "actor"}
    BY RequestsAssumption
  <1>2. r.kind # "actor" => IsList(r.objects)
    BY RequestsAssumption DEF IsList
  <1>3. ASSUME r.kind \in {"scene", "weighted"}, NEW ps, ps = [k \in DOMAIN r.objects |-> ps[k]],
               \A k \in DOMAIN r.objects : IsModel(ps[k])
        PROVE  AreParts(ps)
    <2>1. HandlesAreSound(r.objects)
      BY <1>3 DEF Accepts
    <2>2. Len(r.objects) \in Nat /\ DOMAIN r.objects = 1..Len(r.objects) /\ Len(r.objects) # 0
      BY <1>2, <1>3, <2>1, ListFacts, RecordsAssumption DEF HandlesAreSound
    <2>3. IsList(ps) /\ Len(ps) = Len(r.objects)
      BY <1>2, <1>3, ListOf
    <2> QED BY <1>3, <2>2, <2>3 DEF AreParts
  <1>4. CASE r.kind = "scene"
    <2>1. PICK ps : ps = [k \in DOMAIN r.objects |-> PlainPart(r.objects[k])]
      OBVIOUS
    <2>2. Resolve(r).parts = ps
      BY <1>4, <2>1 DEF Resolve, Parts
    <2>3. \A k \in DOMAIN r.objects : IsModel(ps[k])
      BY <2>1 DEF PlainPart, IsModel, Live
    <2>4. ps = [k \in DOMAIN r.objects |-> ps[k]]
      BY <2>1
    <2> QED BY <1>3, <1>4, <2>2, <2>3, <2>4
  <1>5. CASE r.kind = "weighted"
    <2>1. PICK ps : ps = [k \in DOMAIN r.objects |-> WeightedPart(r.objects[k])]
      OBVIOUS
    <2>2. Resolve(r).parts = ps
      BY <1>5, <2>1 DEF Resolve, Parts
    <2>3. \A k \in DOMAIN r.objects : IsModel(ps[k])
      BY <2>1 DEF WeightedPart, PlainPart, IsModel, Live
    <2>4. ps = [k \in DOMAIN r.objects |-> ps[k]]
      BY <2>1
    <2> QED BY <1>3, <1>5, <2>2, <2>3, <2>4
  <1>6. CASE r.kind = "armor"
    <2>1. PICK ps : ps = AppendResolvedArmorParts(r.objects, r.race).parts
      OBVIOUS
    <2>2. Resolve(r) = ResolveArmor(r) /\ Resolve(r) # Refused
      BY <1>6 DEF Resolve, Refused
    <2>3. Resolve(r).parts = ps /\ ps # <<>>
      BY <2>1, <2>2 DEF ResolveArmor, Parts
    <2>4. AreModels(ps)
      BY <1>2, <1>6, <2>1, ArmorsKeep
    <2> QED BY <2>3, <2>4, ModelsAreParts
  <1>7. CASE r.kind = "actor"
    <2>1. PICK actor : actor = Actors[r.actor]
      OBVIOUS
    <2> DEFINE worn  == r.sources \cap {"equipment", "skin"} # {}
               biped == IF worn THEN BipedRoots(actor.biped, r.sources) ELSE <<>>
               roots == IF "head" \in r.sources THEN AddRoot(biped, actor.face) ELSE biped
    <2>2. Resolve(r) = ResolveActor(r) /\ Resolve(r) # Refused
      BY <1>7 DEF Resolve, Refused
    <2>3. /\ r.actor \in DOMAIN Actors
          /\ Resolve(r) = Parts(<<
                [object |-> r.actor, root |-> actor.root, roots |-> roots, visible |-> TRUE]>>)
      BY <2>1, <2>2 DEF ResolveActor
    <2>4. IsList(actor.biped)
      BY <2>1, <2>3, RecordsAssumption DEF IsList
    <2>5. IsList(biped)
      BY <2>4, RootsAreListed, NoModels DEF AreModels
    <2> HIDE DEF biped
    <2>6. IsList(roots)
      BY <2>5, RootMore
    <2>7. PICK p : p = [object |-> r.actor, root |-> actor.root, roots |-> roots, visible |-> TRUE]
      OBVIOUS
    <2>8. IsActor(p)
      <3> HIDE DEF roots
      <3> QED BY <2>6, <2>7 DEF IsActor, Live
    <2>9. Resolve(r).parts = <<p>>
      <3> HIDE DEF roots, worn
      <3>1. Resolve(r) = Parts(<<p>>)
        BY <2>3, <2>7, Zenon
      <3> QED BY <3>1 DEF Parts
    <2>10. <<p>> \in Seq({p}) /\ Len(<<p>>) = 1 /\ \A k \in 1..1 : <<p>>[k] = p
      OBVIOUS
    <2>11. IsList(<<p>>)
      BY <2>10 DEF IsList
    <2> QED BY <2>8, <2>9, <2>10, <2>11 DEF AreParts
  <1> QED BY <1>1, <1>4, <1>5, <1>6, <1>7

-----------------------------------------------------------------------------
(* Meshes that show pieces.                                                *)

\* The lengths of a mesh are numbers.
LEMMA MeshNumbers ==
  ASSUME NEW m, IsMesh(m)
  PROVE  /\ Len(m.draws) \in Nat /\ Len(m.indices) \in Nat /\ Len(m.vertices) \in Nat
         /\ \A i \in 1..Len(m.draws) : /\ m.draws[i].count \in Nat /\ 1 \in 1..m.draws[i].count
                                       /\ m.draws[i].start \in Nat
  <1>1. Len(m.draws) \in Nat /\ Len(m.indices) \in Nat /\ Len(m.vertices) \in Nat
    BY DEF IsMesh
  <1>2. ASSUME NEW i \in 1..Len(m.draws)
        PROVE  m.draws[i].count \in Nat /\ 1 \in 1..m.draws[i].count /\ m.draws[i].start \in Nat
    <2>1. IsDraw(m.draws[i]) /\ DrawFits(m.draws[i], m)
      BY DEF IsMesh
    <2>2. m.draws[i].count \in Nat /\ m.draws[i].count # 0 /\ m.draws[i].start \in Nat
      BY <2>1 DEF IsDraw, DrawFits
    <2> QED BY <2>2
  <1> QED BY <1>1, <1>2

\* The draws of a mesh s behind those of m.
Follows(a, m, s) ==
  /\ Len(m.draws) \in Nat /\ Len(s.draws) \in Nat /\ Len(a.draws) = Len(m.draws) + Len(s.draws)
  /\ \A i \in 1..Len(m.draws) : /\ First(a, i) = First(m, i)
                                /\ a.draws[i].object = m.draws[i].object
                                /\ ShowsPiece(a, i)
  /\ \A i \in 1..Len(s.draws) : /\ First(a, Len(m.draws) + i) = First(s, i)
                                /\ a.draws[Len(m.draws) + i].object = s.draws[i].object
                                /\ ShowsPiece(a, Len(m.draws) + i)

\* A draw shows the same when its corners are the same.
LEMMA ShowsTheSame ==
  ASSUME NEW m, IsMesh(m), NEW i \in 1..Len(m.draws), ShowsPiece(m, i), NEW a, NEW j,
         "object" \in DOMAIN a.draws[j], a.draws[j].count = m.draws[i].count,
         \A e \in 1..m.draws[i].count : Corner(a, a.draws[j], e) = Corner(m, m.draws[i], e)
  PROVE  First(a, j) = First(m, i) /\ ShowsPiece(a, j)
  <1>1. First(a, j) = First(m, i)
    BY MeshNumbers DEF First
  <1> QED BY <1>1 DEF ShowsPiece

\* Behind another mesh the draws of both show the same corners as before.
LEMMA AppendedFollows ==
  ASSUME NEW m, NEW s, Honest(m), Honest(s), NEW a, a = Appended(m, s)
  PROVE  IsMesh(a) /\ Follows(a, m, s)
  <1>1. IsMesh(m) /\ IsMesh(s)
    BY DEF Honest
  <1>2. IsMesh(a)
    BY <1>1, AppendedIsSound
  <1>3. /\ \A k \in 1..Len(m.draws) : \A e \in 1..m.draws[k].count :
              Corner(a, a.draws[k], e) = Corner(m, m.draws[k], e)
        /\ \A k \in 1..Len(s.draws) : \A e \in 1..s.draws[k].count :
              Corner(a, a.draws[Len(m.draws) + k], e) = Corner(s, s.draws[k], e)
    BY <1>1, AppendedShowsTheSame
  <1>4. IsBehind(a, m, s)
    BY <1>1, AppendedParts
  <1>5. ASSUME NEW i \in 1..Len(m.draws)
        PROVE  /\ First(a, i) = First(m, i) /\ a.draws[i].object = m.draws[i].object
               /\ ShowsPiece(a, i)
    <2>1. a.draws[i] = m.draws[i] /\ ShowsPiece(m, i)
      BY <1>4 DEF IsBehind, Honest
    <2>2. "object" \in DOMAIN a.draws[i]
      BY <2>1 DEF ShowsPiece
    <2>3. First(a, i) = First(m, i) /\ ShowsPiece(a, i)
      BY <1>1, <1>3, <2>1, <2>2, ShowsTheSame
    <2> QED BY <2>1, <2>3
  <1>6. ASSUME NEW i \in 1..Len(s.draws)
        PROVE  /\ First(a, Len(m.draws) + i) = First(s, i)
               /\ a.draws[Len(m.draws) + i].object = s.draws[i].object
               /\ ShowsPiece(a, Len(m.draws) + i)
    <2>1. PICK d : d = s.draws[i]
      OBVIOUS
    <2>2. PICK f : f = a.draws[Len(m.draws) + i]
      OBVIOUS
    <2>3. PICK n \in Nat : n = Len(m.indices)
      BY <1>1, MeshNumbers
    <2>4. f = [d EXCEPT !.start = @ + n]
      BY <1>4, <2>1, <2>2, <2>3 DEF IsBehind
    <2>5. ShowsPiece(s, i) /\ IsDraw(d) /\ "object" \in DOMAIN d
      BY <2>1 DEF Honest, IsMesh, ShowsPiece
    <2>6. f.count = d.count
      BY <2>4, <2>5, Moved
    <2>7. "object" \in DOMAIN f /\ f.object = d.object
      BY <2>4, <2>5 DEF IsDraw
    <2>8. PICK j : j = Len(m.draws) + i
      OBVIOUS
    <2>9. "object" \in DOMAIN a.draws[j] /\ a.draws[j].count = s.draws[i].count
      BY <2>1, <2>2, <2>6, <2>7, <2>8
    <2>10. \A e \in 1..s.draws[i].count : Corner(a, a.draws[j], e) = Corner(s, s.draws[i], e)
      BY <1>3, <2>8
    <2>11. First(a, j) = First(s, i) /\ ShowsPiece(a, j)
      BY <1>1, <2>5, <2>9, <2>10, ShowsTheSame
    <2> QED BY <2>1, <2>2, <2>7, <2>8, <2>11
  <1>7. Len(m.draws) \in Nat /\ Len(s.draws) \in Nat /\ Len(a.draws) = Len(m.draws) + Len(s.draws)
    BY <1>4 DEF IsBehind
  <1> QED BY <1>2, <1>5, <1>6, <1>7 DEF Follows

\* Two honest meshes of which no part, no shape or no piece is the same are honest
\* behind each other.
LEMMA Together ==
  ASSUME NEW m, NEW s, Honest(m), Honest(s), NEW a, a = Appended(m, s),
         NEW P, NEW S, NEW K, From(m, P, S, K), NEW Q, NEW U, NEW L, From(s, Q, U, L),
         P \cap Q = {} \/ S \cap U = {} \/ K \cap L = {}
  PROVE  Honest(a) /\ From(a, P \cup Q, S \cup U, K \cup L) /\ Follows(a, m, s)
  <1>1. IsMesh(a) /\ Follows(a, m, s)
    BY AppendedFollows
  <1>2. PICK p \in Nat, q \in Nat : p = Len(m.draws) /\ q = Len(s.draws) /\ Len(a.draws) = p + q
    BY <1>1 DEF Follows
  <1>3. \A i \in 1..(p + q) : i \in 1..p \/ \E j \in 1..q : i = p + j
    BY Either
  <1>4. \A i \in 1..p : /\ First(a, i) = First(m, i) /\ ShowsPiece(a, i)
                        /\ First(a, i).part \in P /\ First(a, i).shape \in S /\ First(a, i).piece \in K
    BY <1>1, <1>2 DEF Follows, From
  <1>5. \A j \in 1..q : /\ First(a, p + j) = First(s, j) /\ ShowsPiece(a, p + j)
                        /\ First(a, p + j).part \in Q /\ First(a, p + j).shape \in U
                        /\ First(a, p + j).piece \in L
    BY <1>1, <1>2 DEF Follows, From
  <1>6. a = [vertices |-> a.vertices, indices |-> a.indices, draws |-> a.draws]
    BY DEF Appended
  <1>7. ASSUME NEW i \in 1..Len(a.draws)
        PROVE  /\ ShowsPiece(a, i)
               /\ First(a, i).part \in P \cup Q /\ First(a, i).shape \in S \cup U
               /\ First(a, i).piece \in K \cup L
    <2>1. i \in 1..p \/ \E j \in 1..q : i = p + j
      BY <1>2, <1>3
    <2>2. CASE i \in 1..p
      BY <1>4, <2>2
    <2>3. CASE \E j \in 1..q : i = p + j
      <3>1. PICK j \in 1..q : i = p + j
        BY <2>3
      <3> QED BY <1>5, <3>1
    <2> QED BY <2>1, <2>2, <2>3
  <1>8. From(a, P \cup Q, S \cup U, K \cup L)
    BY <1>7 DEF From
  <1>9. ASSUME NEW i \in 1..p, NEW j \in 1..q
        PROVE  PieceOf(First(a, i)) # PieceOf(First(a, p + j))
    BY <1>4, <1>5 DEF PieceOf
  <1>10. ASSUME NEW i \in 1..p, NEW j \in 1..p, i # j
         PROVE  PieceOf(First(a, i)) # PieceOf(First(a, j))
    BY <1>2, <1>4, <1>10 DEF Honest
  <1>11. ASSUME NEW i \in 1..q, NEW j \in 1..q, i # j
         PROVE  PieceOf(First(a, p + i)) # PieceOf(First(a, p + j))
    BY <1>2, <1>5, <1>11 DEF Honest
  <1>12. ASSUME NEW i \in 1..Len(a.draws), NEW j \in 1..Len(a.draws), i # j
         PROVE  PieceOf(First(a, i)) # PieceOf(First(a, j))
    <2>1. i \in 1..(p + q) /\ j \in 1..(p + q)
      BY <1>2
    <2>2. CASE i \in 1..p /\ j \in 1..p
      BY <1>10, <1>12, <2>2
    <2>3. CASE i \in 1..p /\ \E k \in 1..q : j = p + k
      BY <1>9, <2>3
    <2>4. CASE j \in 1..p /\ \E k \in 1..q : i = p + k
      <3>1. PICK k \in 1..q : i = p + k
        BY <2>4
      <3>2. PieceOf(First(a, j)) # PieceOf(First(a, p + k))
        BY <1>9, <2>4
      <3> QED BY <3>1, <3>2
    <2>5. CASE (\E k \in 1..q : i = p + k) /\ (\E k \in 1..q : j = p + k)
      <3>1. PICK k \in 1..q : i = p + k
        BY <2>5
      <3>2. PICK l \in 1..q : j = p + l
        BY <2>5
      <3>3. k # l
        BY <1>12, <3>1, <3>2
      <3> QED BY <1>11, <3>1, <3>2, <3>3
    <2> QED BY <1>3, <2>1, <2>2, <2>3, <2>4, <2>5
  <1> QED BY <1>1, <1>6, <1>7, <1>8, <1>12 DEF Honest

\* The mesh without draws.
LEMMA EmptyIsHonest ==
  /\ Honest(NoMesh) /\ Len(NoMesh.draws) = 0
  /\ \A P, S, K : From(NoMesh, P, S, K)
  <1>1. PICK e : e = <<>>
    OBVIOUS
  <1>2. e \in Seq({}) /\ e \in Seq(Nat) /\ Len(e) = 0
    BY <1>1
  <1>3. NoMesh.vertices = e /\ NoMesh.indices = e /\ NoMesh.draws = e
    BY <1>1 DEF NoMesh
  <1>4. NoMesh = [vertices |-> NoMesh.vertices, indices |-> NoMesh.indices, draws |-> NoMesh.draws]
    BY DEF NoMesh
  <1>5. 1..0 = {}
    OBVIOUS
  <1>6. IsMesh(NoMesh)
    BY <1>2, <1>3, <1>5 DEF IsMesh
  <1> QED BY <1>2, <1>3, <1>4, <1>5, <1>6 DEF Honest, From

\* More parts, shapes or pieces may be named than there are.
LEMMA Wider ==
  ASSUME NEW m, NEW P, NEW S, NEW K, From(m, P, S, K), NEW Q, NEW U, NEW L,
         P \subseteq Q, S \subseteq U, K \subseteq L
  PROVE  From(m, Q, U, L)
  BY DEF From

\* The object of its draws is none of what they show.
LEMMA OwnedFacts ==
  ASSUME NEW p, Honest(p.mesh), NEW m, m = p.mesh, NEW o, o = Owned(p)
  PROVE  /\ Honest(o) /\ Len(o.draws) = Len(m.draws)
         /\ \A i \in 1..Len(m.draws) : First(o, i) = First(m, i) /\ o.draws[i].object = p.object
  <1>1. IsMesh(m) /\ m = [vertices |-> m.vertices, indices |-> m.indices, draws |-> m.draws]
    BY DEF Honest
  <1>2. PICK moved : moved = [k \in DOMAIN m.draws |-> [m.draws[k] EXCEPT !.object = p.object]]
    OBVIOUS
  <1>3. o = [m EXCEPT !.draws = moved]
    BY <1>2 DEF Owned
  <1>4. o = [vertices |-> m.vertices, indices |-> m.indices, draws |-> moved]
    BY <1>1, <1>3
  <1>5. o.vertices = m.vertices /\ o.indices = m.indices /\ o.draws = moved
    BY <1>4
  <1>6. IsList(m.draws) /\ moved = [k \in DOMAIN m.draws |-> moved[k]]
    BY <1>1, <1>2 DEF IsMesh, IsList
  <1>7. IsList(moved) /\ Len(moved) = Len(m.draws) /\ DOMAIN m.draws = 1..Len(m.draws)
    BY <1>6, ListOf, ListFacts
  <1>8. ASSUME NEW i \in 1..Len(m.draws)
        PROVE  /\ IsDraw(o.draws[i]) /\ DrawFits(o.draws[i], o)
               /\ First(o, i) = First(m, i) /\ o.draws[i].object = p.object
               /\ ShowsPiece(o, i)
    <2>1. PICK d : d = m.draws[i]
      OBVIOUS
    <2>2. PICK e : e = o.draws[i]
      OBVIOUS
    <2>3. e = [d EXCEPT !.object = p.object]
      BY <1>2, <1>5, <1>7, <2>1, <2>2
    <2>4. IsDraw(d) /\ DrawFits(d, m) /\ ShowsPiece(m, i) /\ "object" \in DOMAIN d
      BY <2>1 DEF Honest, IsMesh, ShowsPiece
    <2>5. e.object = p.object /\ e.start = d.start /\ e.count = d.count /\ "object" \in DOMAIN e
      BY <2>3, <2>4 DEF IsDraw
    <2>6. IsDraw(e)
      BY <2>3, <2>4 DEF IsDraw
    <2>7. DrawFits(e, o)
      BY <1>5, <2>4, <2>5 DEF DrawFits
    <2>8. \A x \in 1..m.draws[i].count : Corner(o, o.draws[i], x) = Corner(m, m.draws[i], x)
      BY <1>5, <2>1, <2>2, <2>5 DEF Corner
    <2>9. First(o, i) = First(m, i) /\ ShowsPiece(o, i)
      BY <1>1, <2>1, <2>2, <2>4, <2>5, <2>8, ShowsTheSame
    <2> QED BY <2>2, <2>5, <2>6, <2>7, <2>9
  <1>9. IsMesh(o)
    <2>1. \E D : o.draws \in Seq(D)
      BY <1>5, <1>7 DEF IsList
    <2> QED BY <1>1, <1>5, <1>7, <1>8, <2>1 DEF IsMesh
  <1>10. \A i, j \in 1..Len(o.draws) : i # j => PieceOf(First(o, i)) # PieceOf(First(o, j))
    BY <1>5, <1>7, <1>8 DEF Honest
  <1>11. Len(o.draws) = Len(m.draws)
    BY <1>5, <1>7
  <1>12. o = [vertices |-> o.vertices, indices |-> o.indices, draws |-> o.draws]
    BY <1>4
  <1> QED BY <1>8, <1>9, <1>10, <1>11, <1>12 DEF Honest

-----------------------------------------------------------------------------
(* What a shape gives.                                                     *)

\* A piece that is accepted is a mesh of one draw, which is that piece.
LEMMA DecodedFacts ==
  ASSUME NEW g, NEW n, NEW skinned, NEW stream,
         DecodeRendererGeometry(g, n, skinned, stream) = "Accepted"
  PROVE  n # 0 /\ g.indices # <<>> /\ \A k \in DOMAIN g.indices : ~(g.indices[k] >= n)
  <1>1. /\ n # 0 /\ g.indices # <<>>
        /\ DecodePackedGeometry(n * LayoutOf(g.desc).stride, n, g.contents, g.indices,
                                 LayoutOf(g.desc), stream) = "None"
    BY DEF DecodeRendererGeometry
  <1> QED BY <1>1, AcceptedFacts

\* A decoded piece is honest: its one draw shows it.
LEMMA PieceIsHonest ==
  ASSUME NEW o \in DOMAIN Shapes, NEW k \in DOMAIN Shapes[o].pieces, NEW shape, shape = Shapes[o],
         NEW lost, Verdict(shape, shape.pieces[k].g, lost) = "Accepted",
         NEW p, NEW material, NEW m, m = PieceMesh([part |-> p, shape |-> o], shape, k, material)
  PROVE  Honest(m) /\ From(m, {p}, {o}, {k})
  <1>1. PICK g : g = shape.pieces[k].g
    OBVIOUS
  <1>2. PICK n \in Nat : n = shape.n
    BY ShapesAssumption
  <1>3. PICK is \in Seq(Nat) : is = g.indices
    BY <1>1, ShapesAssumption
  <1>4. "indices" \in DOMAIN g
    BY <1>1, ShapesAssumption
  <1>5. PICK h : h = IF lost THEN Unreadable(g) ELSE g
    OBVIOUS
  <1>6. h.indices = is
    BY <1>3, <1>4, <1>5 DEF Unreadable
  <1>7. DecodeRendererGeometry(h, n, shape.skinned, PositionStream(shape)) = "Accepted"
    BY <1>1, <1>2, <1>5 DEF Verdict
  <1>8. n # 0 /\ is # <<>> /\ \A i \in DOMAIN is : ~(is[i] >= n)
    BY <1>6, <1>7, DecodedFacts
  <1>9. PICK count \in Nat \ {0} : count = Len(is) /\ DOMAIN is = 1..count
    BY <1>8
  <1>10. PICK vs : vs = [v \in 1..n |-> [part |-> p, shape |-> o, piece |-> k, number |-> v - 1]]
    OBVIOUS
  <1>11. PICK d : d = [object |-> 0, start |-> 0, count |-> count, material |-> material]
    OBVIOUS
  <1>12. PICK ds : ds = <<d>>
    OBVIOUS
  <1>13. m = [vertices |-> vs, indices |-> is, draws |-> ds]
    BY <1>1, <1>2, <1>3, <1>9, <1>10, <1>11, <1>12 DEF PieceMesh
  <1>14. m.vertices = vs /\ m.indices = is /\ m.draws = ds
    BY <1>13
  <1>15. ds \in Seq({d}) /\ Len(ds) = 1 /\ ds[1] = d /\ \A i \in 1..1 : i = 1
    BY <1>12
  <1>16. PICK V : V = {vs[v] : v \in 1..n}
    OBVIOUS
  <1>17. vs \in Seq(V) /\ Len(vs) = n
    BY <1>10, <1>16
  <1>18. IsDraw(d) /\ d.start = 0 /\ d.count = count /\ "object" \in DOMAIN d
    BY <1>11 DEF IsDraw
  <1>19. DrawFits(d, m)
    BY <1>9, <1>14, <1>18 DEF DrawFits
  <1>20. \A i \in 1..count : is[i] \in Nat /\ is[i] < n /\ is[i] + 1 \in 1..n /\ (is[i] + 1) - 1 = is[i]
    BY <1>8, <1>9
  <1>21. IsMesh(m)
    <2>1. \A i \in 1..Len(m.indices) : m.indices[i] < Len(m.vertices)
      BY <1>9, <1>14, <1>17, <1>20
    <2>2. \A i \in 1..Len(m.draws) : IsDraw(m.draws[i]) /\ DrawFits(m.draws[i], m)
      BY <1>14, <1>15, <1>18, <1>19
    <2> QED BY <1>14, <1>15, <1>17, <2>1, <2>2 DEF IsMesh
  <1>22. ASSUME NEW e \in 1..count
         PROVE  Corner(m, m.draws[1], e) = [part |-> p, shape |-> o, piece |-> k, number |-> is[e]]
    <2>1. m.draws[1].start + e = e
      BY <1>14, <1>15, <1>18
    <2>2. Corner(m, m.draws[1], e) = vs[is[e] + 1]
      BY <1>14, <2>1 DEF Corner
    <2> QED BY <1>10, <1>20, <2>2
  <1>23. First(m, 1) = [part |-> p, shape |-> o, piece |-> k, number |-> is[1]]
    BY <1>9, <1>22 DEF First
  <1>24. First(m, 1).part = p /\ First(m, 1).shape = o /\ First(m, 1).piece = k
    BY <1>23
  <1>25. is = Shapes[o].pieces[k].g.indices
    BY <1>1, <1>3
  <1>26. ShowsPiece(m, 1)
    <2>1. m.draws[1].count = count /\ "object" \in DOMAIN m.draws[1]
      BY <1>14, <1>15, <1>18
    <2>2. PICK v : v = First(m, 1) /\ v.part = p /\ v.shape = o /\ v.piece = k
      BY <1>24
    <2>3. Shapes[v.shape].pieces[v.piece].g.indices = is
      BY <1>25, <2>2
    <2> QED BY <1>9, <1>22, <2>1, <2>2, <2>3, Zenon DEF ShowsPiece
  <1> QED BY <1>13, <1>14, <1>15, <1>21, <1>24, <1>26 DEF Honest, From

\* The partitions of a shape so far: a failure, or the first i of its pieces.
IsPartial(acc, p, o, i) ==
  acc.is = "Accepted" => Honest(acc.mesh) /\ From(acc.mesh, {p}, {o}, 1..i)

\* AppendPartition puts one piece of the shape behind those before it.
LEMMA PartitionKeeps ==
  ASSUME NEW o \in DOMAIN Shapes, NEW shape, shape = Shapes[o], NEW i \in Nat,
         i + 1 \in DOMAIN shape.pieces, NEW p, NEW material, NEW lost,
         NEW acc, IsPartial(acc, p, o, i),
         NEW next_,
         next_ = AppendPartition(acc, [part |-> p, shape |-> o], shape, i + 1, material, lost)
  PROVE  IsPartial(next_, p, o, i + 1)
  <1> SUFFICES ASSUME next_.is = "Accepted"
               PROVE  Honest(next_.mesh) /\ From(next_.mesh, {p}, {o}, 1..(i + 1))
    BY DEF IsPartial
  <1> DEFINE origin  == [part |-> p, shape |-> o]
             piece   == shape.pieces[i + 1]
             decoded == PieceMesh(origin, shape, i + 1, material)
  <1>1. /\ acc.is = "Accepted"
        /\ Verdict(shape, piece.g, i + 1 \in lost) = "Accepted"
        /\ next_ = Result("Accepted", Appended(acc.mesh, decoded))
    <2>1. \A mesh : Result("Malformed", mesh).is = "Malformed"
      BY DEF Result
    <2>2. \A mesh : Result(Verdict(shape, piece.g, i + 1 \in lost), mesh).is =
                      Verdict(shape, piece.g, i + 1 \in lost)
      BY DEF Result
    <2> HIDE DEF piece, decoded
    <2> QED BY <2>1, <2>2 DEF AppendPartition, piece, decoded
  <1>2. PICK s : s = decoded
    OBVIOUS
  <1>3. Honest(s) /\ From(s, {p}, {o}, {i + 1})
    BY <1>1, <1>2, PieceIsHonest
  <1>4. PICK m : m = acc.mesh
    OBVIOUS
  <1>5. Honest(m) /\ From(m, {p}, {o}, 1..i)
    BY <1>1, <1>4 DEF IsPartial
  <1>6. PICK a : a = Appended(m, s)
    OBVIOUS
  <1>7. (1..i) \cap {i + 1} = {} /\ (1..i) \cup {i + 1} = 1..(i + 1)
    OBVIOUS
  <1>8. Honest(a) /\ From(a, {p} \cup {p}, {o} \cup {o}, (1..i) \cup {i + 1})
    <2> HIDE DEF decoded
    <2> QED BY <1>3, <1>5, <1>6, <1>7, Together
  <1>9. {p} \cup {p} = {p} /\ {o} \cup {o} = {o}
    OBVIOUS
  <1>10. next_.mesh = a
    BY <1>1, <1>2, <1>4, <1>6 DEF Result
  <1> QED BY <1>7, <1>8, <1>9, <1>10

\* The pieces of a shape become one mesh, a draw for each.
LEMMA PartitionsHonest ==
  ASSUME NEW o \in DOMAIN Shapes, NEW shape, shape = Shapes[o], NEW p, NEW material, NEW lost,
         NEW r, r = Partitions([part |-> p, shape |-> o], shape, material, lost), r.is = "Accepted"
  PROVE  Honest(r.mesh) /\ From(r.mesh, {p}, {o}, Nat)
  <1>1. PICK n \in Nat : n = Len(shape.pieces) /\ DOMAIN shape.pieces = 1..n
    BY ShapesAssumption
  <1>2. PICK origin : origin = [part |-> p, shape |-> o]
    OBVIOUS
  <1>3. PICK after : GoesThroughPieces(after, origin, shape, material, lost)
    BY <1>1, PieceFold
  <1> DEFINE T == {i \in Nat : i <= n => IsPartial(after[i], p, o, i)}
  <1>4. 0 \in T
    <2>1. after[0].mesh = NoMesh
      BY <1>3 DEF GoesThroughPieces, Result
    <2> QED BY <2>1, EmptyIsHonest DEF IsPartial
  <1>5. ASSUME NEW i \in Nat, i \in T PROVE i + 1 \in T
    <2>1. SUFFICES ASSUME i + 1 <= n PROVE IsPartial(after[i + 1], p, o, i + 1)
      OBVIOUS
    <2>2. i + 1 \in 1..n /\ (i + 1) - 1 = i /\ IsPartial(after[i], p, o, i)
      BY <1>5, <2>1
    <2>3. after[i + 1] = AppendPartition(after[i], origin, shape, i + 1, material, lost)
      BY <1>1, <1>3, <2>2 DEF GoesThroughPieces
    <2> HIDE DEF T
    <2> QED BY <1>1, <1>2, <2>2, <2>3, PartitionKeeps
  <1>6. T = Nat
    <2>1. T \in SUBSET Nat
      OBVIOUS
    <2> HIDE DEF T
    <2> QED BY <1>4, <1>5, <2>1, Upwards
  <1>7. IsPartial(after[n], p, o, n)
    BY <1>6
  <1>8. r = after[n]
    BY <1>1, <1>2, <1>3 DEF GoesThroughPieces
  <1>9. Honest(r.mesh) /\ From(r.mesh, {p}, {o}, 1..n)
    BY <1>7, <1>8 DEF IsPartial
  <1> QED BY <1>9, Wider

\* ExtractShape gives geometry of the shape only.
LEMMA ShapeHonest ==
  ASSUME NEW o \in DOMAIN Shapes, NEW p, NEW has, NEW material, NEW lost,
         NEW r, r = ExtractShape([part |-> p, shape |-> o], Shapes[o], has, material, lost),
         r.is = "Accepted"
  PROVE  Honest(r.mesh) /\ From(r.mesh, {p}, {o}, Nat)
  <1>1. PICK shape : shape = Shapes[o]
    OBVIOUS
  <1>2. PICK origin : origin = [part |-> p, shape |-> o]
    OBVIOUS
  <1>3. \A is, mesh : Result(is, mesh).is = is /\ Result(is, mesh).mesh = mesh
    BY DEF Result
  <1>4. CASE shape.skinned
    <2>1. r = ExtractSkinnedShape(origin, shape, has, material, lost)
      BY <1>1, <1>2, <1>4 DEF ExtractShape
    <2>2. r = Partitions(origin, shape, material, lost)
      BY <1>3, <2>1 DEF ExtractSkinnedShape
    <2> QED BY <1>1, <1>2, <2>2, PartitionsHonest
  <1>5. CASE ~shape.skinned
    <2>1. r = ExtractRigidShape(origin, shape, material, lost)
      BY <1>1, <1>2, <1>5 DEF ExtractShape
    <2>2. PICK verdict : verdict = Verdict(shape, shape.pieces[1].g, 1 \in lost)
      OBVIOUS
    <2>3. verdict = "Accepted" /\ r.mesh = PieceMesh(origin, shape, 1, material)
      BY <1>3, <2>1, <2>2 DEF ExtractRigidShape
    <2>4. 1 \in DOMAIN Shapes[o].pieces
      BY <1>1, <1>5, ShapesAssumption
    <2>5. Honest(r.mesh) /\ From(r.mesh, {p}, {o}, {1})
      BY <1>1, <1>2, <2>2, <2>3, <2>4, PieceIsHonest
    <2> QED BY <2>5, Wider
  <1> QED BY <1>4, <1>5

-----------------------------------------------------------------------------
(* What a visit of an object adds.                                         *)

\* An extraction is whole: all of its fields are there.
IsWhole(x) ==
  x = [mesh |-> x.mesh, accepted |-> x.accepted, skipped |-> x.skipped, matched |-> x.matched,
       next |-> x.next, visited |-> x.visited, malformed |-> x.malformed, unreadable |-> x.unreadable]

\* A record of an extraction, field by field.
LEMMA FieldsOf ==
  ASSUME NEW m, NEW a, NEW s, NEW t, NEW n, NEW v, NEW f, NEW u,
         NEW x, x = [mesh |-> m, accepted |-> a, skipped |-> s, matched |-> t, next |-> n,
                     visited |-> v, malformed |-> f, unreadable |-> u]
  PROVE  IsWhole(x) /\ x.mesh = m /\ x.accepted = a /\ x.skipped = s /\ x.visited = v
  <1>1. /\ x.mesh = m /\ x.accepted = a /\ x.skipped = s /\ x.visited = v
        /\ x.matched = t /\ x.next = n /\ x.malformed = f /\ x.unreadable = u
    OBVIOUS
  <1> QED BY <1>1, Zenon DEF IsWhole

\* The shape o was visited, not yet counted: V was visited before.
HasCome(x, V, o, p) ==
  /\ IsWhole(x) /\ IsFiniteSet(V) /\ o \in DOMAIN Shapes \ V /\ x.visited = V \cup {o}
  /\ x.accepted \in Nat /\ x.skipped \in Nat
  /\ x.accepted + x.skipped = Cardinality(V \cap DOMAIN Shapes)
  /\ Honest(x.mesh) /\ From(x.mesh, {p}, V, Nat)

\* What shape o gave, if it gave anything.
Gives(r, o, p) == r.is = "Accepted" => Honest(r.mesh) /\ From(r.mesh, {p}, {o}, Nat)

\* What a shape gave, in an extraction that has just visited it.
LEMMA CountedKeeps ==
  ASSUME NEW x, NEW V, NEW o, NEW p, HasCome(x, V, o, p), NEW r, Gives(r, o, p),
         NEW y, y = Counted(x, r)
  PROVE  Extracts(y, p) /\ y.visited = x.visited
  <1>1. /\ IsWhole(x) /\ IsFiniteSet(V) /\ o \in DOMAIN Shapes \ V /\ x.visited = V \cup {o}
         /\ x.accepted \in Nat /\ x.skipped \in Nat
         /\ x.accepted + x.skipped = Cardinality(V \cap DOMAIN Shapes)
         /\ Honest(x.mesh) /\ From(x.mesh, {p}, V, Nat)
    BY DEF HasCome
  <1>2. PICK S : S = V \cap DOMAIN Shapes
    OBVIOUS
  <1>3. PICK W : W = V \cup {o}
    OBVIOUS
  <1>4. W \cap DOMAIN Shapes = S \cup {o} /\ o \notin S
    BY <1>2, <1>3, <1>1
  <1>5. IsFiniteSet(S) /\ IsFiniteSet(W)
    BY <1>2, <1>3, <1>1, FS_Subset, FS_AddElement
  <1>6. PICK c \in Nat : c = Cardinality(S)
    BY <1>5, FS_CardinalityType
  <1>7. Cardinality(W \cap DOMAIN Shapes) = c + 1
    BY <1>4, <1>5, <1>6, FS_AddElement
  <1>8. PICK a \in Nat, s \in Nat : a = x.accepted /\ s = x.skipped /\ a + s = c
    BY <1>2, <1>6, <1>1
  <1>9. PICK m0, t, n, f0, u0 : /\ m0 = x.mesh /\ t = x.matched /\ n = x.next
                                 /\ f0 = x.malformed /\ u0 = x.unreadable
    OBVIOUS
  <1>10. x = [mesh |-> m0, accepted |-> a, skipped |-> s, matched |-> t, next |-> n,
             visited |-> W, malformed |-> f0, unreadable |-> u0]
    BY <1>3, <1>8, <1>9, <1>1, Zenon DEF IsWhole
  <1>11. CASE r.is = "Accepted" /\ CanAppend(x.mesh, r.mesh)
    <2>1. PICK m : m = Appended(x.mesh, r.mesh)
      OBVIOUS
    <2>2. Honest(m) /\ From(m, {p} \cup {p}, V \cup {o}, Nat \cup Nat)
      <3>1. Honest(r.mesh) /\ From(r.mesh, {p}, {o}, Nat)
        BY <1>11 DEF Gives
      <3>2. V \cap {o} = {}
        BY <1>1
      <3>3. PICK head, tail : head = x.mesh /\ tail = r.mesh
        OBVIOUS
      <3>4. Honest(head) /\ Honest(tail) /\ From(head, {p}, V, Nat) /\ From(tail, {p}, {o}, Nat)
        BY <1>1, <3>1, <3>3
      <3>5. m = Appended(head, tail)
        BY <2>1, <3>3
      <3> QED BY <3>2, <3>4, <3>5, Together
    <2>3. {p} \cup {p} = {p} /\ Nat \cup Nat = Nat
      OBVIOUS
    <2>4. PICK b \in Nat : b = a + 1
      BY <1>8
    <2>5. y = [x EXCEPT !.mesh = m, !.accepted = b]
      <3>1. y = [x EXCEPT !.mesh = Appended(x.mesh, r.mesh), !.accepted = x.accepted + 1]
        BY <1>11 DEF Counted
      <3> QED BY <1>8, <2>1, <2>4, <3>1
    <2>6. y = [mesh |-> m, accepted |-> b, skipped |-> s, matched |-> t, next |-> n,
               visited |-> W, malformed |-> f0, unreadable |-> u0]
      BY <1>10, <2>5
    <2>7. IsWhole(y) /\ y.mesh = m /\ y.accepted = b /\ y.skipped = s /\ y.visited = W
      BY <2>6, FieldsOf
    <2>8. b + s = c + 1
      BY <1>8, <2>4
    <2> QED
      BY <1>1, <1>3, <1>5, <1>7, <1>8, <2>2, <2>3, <2>4, <2>7, <2>8
      DEF Extracts, IsExtraction, IsWhole
  <1>12. CASE ~(r.is = "Accepted" /\ CanAppend(x.mesh, r.mesh))
    <2>1. PICK f, u : /\ f = (x.malformed \/ r.is \in {"Accepted", "Malformed"})
                      /\ u = (x.unreadable \/ r.is = "ReadbackFailed")
      OBVIOUS
    <2>2. PICK b \in Nat : b = s + 1
      BY <1>8
    <2>3. y = [x EXCEPT !.skipped = x.skipped + 1,
                        !.malformed  = x.malformed \/ r.is \in {"Accepted", "Malformed"},
                        !.unreadable = x.unreadable \/ r.is = "ReadbackFailed"]
      BY <1>12 DEF Counted
    <2>4. y = [x EXCEPT !.skipped = b, !.malformed = f, !.unreadable = u]
      BY <1>8, <2>1, <2>2, <2>3, Zenon
    <2>5. y = [mesh |-> m0, accepted |-> a, skipped |-> b, matched |-> t, next |-> n,
               visited |-> W, malformed |-> f, unreadable |-> u]
      BY <1>10, <2>4
    <2>6. IsWhole(y) /\ y.mesh = x.mesh /\ y.accepted = a /\ y.skipped = b /\ y.visited = W
      BY <1>9, <2>5, FieldsOf
    <2>7. a + b = c + 1
      BY <1>8, <2>2
    <2>8. From(x.mesh, {p}, W, Nat)
      BY <1>3, <1>1, Wider
    <2> QED
      BY <1>1, <1>3, <1>5, <1>7, <1>8, <2>2, <2>6, <2>7, <2>8
      DEF Extracts, IsExtraction, IsWhole
  <1> QED BY <1>11, <1>12

\* VisitShape adds the shape to the mesh or counts it as skipped.
LEMMA VisitShapeKeeps ==
  ASSUME NEW x, NEW p, Extracts(x, p), NEW o \in DOMAIN Shapes, o \notin x.visited,
         NEW overrides, NEW live, NEW has, NEW lost,
         NEW y, y = VisitShape([x EXCEPT !.visited = @ \cup {o}], o, p, overrides, live, has, lost)
  PROVE  Extracts(y, p) /\ y.visited = x.visited \cup {o}
  <1>1. PICK V : V = x.visited
    OBVIOUS
  <1>2. PICK seen : seen = [x EXCEPT !.visited = @ \cup {o}]
    OBVIOUS
  <1>3. PICK override : override = FindTextureOverride(overrides, Shapes[o].name, seen.next)
    OBVIOUS
  <1>4. PICK material :
          material = Material(Shapes[o], live, IF override = 0 THEN <<>> ELSE <<overrides[override]>>)
    OBVIOUS
  <1>5. PICK more, number :
          more = seen.matched + (IF override = 0 THEN 0 ELSE 1) /\ number = seen.next + 1
    OBVIOUS
  <1>6. PICK r : r = ExtractShape([part |-> p, shape |-> o], Shapes[o], has, material, lost)
    OBVIOUS
  <1>7. PICK z : z = [seen EXCEPT !.next = @ + 1, !.matched = @ + (IF override = 0 THEN 0 ELSE 1)]
    OBVIOUS
  <1>8. y = Counted(z, r)
    <2>1. y = Counted([seen EXCEPT !.next = @ + 1, !.matched = @ + (IF override = 0 THEN 0 ELSE 1)],
                      ExtractShape([part |-> p, shape |-> o], Shapes[o], has, material, lost))
      BY <1>2, <1>3, <1>4 DEF VisitShape
    <2> QED BY <1>6, <1>7, <2>1
  <1>9. IsWhole(x) /\ IsExtraction(x) /\ Honest(x.mesh) /\ From(x.mesh, {p}, V, Nat)
    BY <1>1 DEF Extracts, IsExtraction, IsWhole
  <1>10. seen = [mesh |-> x.mesh, accepted |-> x.accepted, skipped |-> x.skipped, matched |-> x.matched,
                 next |-> x.next, visited |-> V \cup {o}, malformed |-> x.malformed,
                 unreadable |-> x.unreadable]
    BY <1>1, <1>2, <1>9 DEF IsWhole
  <1>11. z = [mesh |-> x.mesh, accepted |-> x.accepted, skipped |-> x.skipped, matched |-> more,
              next |-> number, visited |-> V \cup {o}, malformed |-> x.malformed,
              unreadable |-> x.unreadable]
    BY <1>5, <1>7, <1>10
  <1>12. IsWhole(z) /\ z.mesh = x.mesh /\ z.accepted = x.accepted /\ z.skipped = x.skipped
         /\ z.visited = V \cup {o}
    BY <1>11, FieldsOf
  <1>13. Gives(r, o, p)
    BY <1>6, ShapeHonest DEF Gives
  <1>14. /\ x.accepted \in Nat /\ x.skipped \in Nat /\ IsFiniteSet(V) /\ o \notin V
         /\ x.accepted + x.skipped = Cardinality(V \cap DOMAIN Shapes)
    BY <1>1, <1>9 DEF IsExtraction
  <1>15. /\ z.accepted \in Nat /\ z.skipped \in Nat
         /\ z.accepted + z.skipped = Cardinality(V \cap DOMAIN Shapes)
    BY <1>12, <1>14
  <1>16. Honest(z.mesh) /\ From(z.mesh, {p}, V, Nat)
    BY <1>9, <1>12
  <1>17. HasCome(z, V, o, p)
    BY <1>12, <1>14, <1>15, <1>16 DEF HasCome
  <1>18. \A w : w = Counted(z, r) => Extracts(w, p) /\ w.visited = z.visited
    BY <1>13, <1>17, CountedKeeps
  <1> QED BY <1>1, <1>8, <1>12, <1>18

\* Whatever is visited, the geometry is honest and every shape was counted.
LEMMA VisitKeeps ==
  ASSUME NEW x, NEW p, Extracts(x, p), NEW node, NEW overrides, NEW live, NEW has, node \in has,
         NEW lost,
         NEW y, y = Visit(x, node, p, overrides, live, has, lost)
  PROVE  Extracts(y, p) /\ y.visited = x.visited \cup {node}
  <1>1. PICK seen : seen = [x EXCEPT !.visited = @ \cup {node}]
    OBVIOUS
  <1>2. PICK V : V = x.visited
    OBVIOUS
  <1>3. IsWhole(x) /\ IsExtraction(x) /\ Honest(x.mesh) /\ From(x.mesh, {p}, V, Nat)
    BY <1>2 DEF Extracts, IsExtraction, IsWhole
  <1>4. PICK W : W = V \cup {node}
    OBVIOUS
  <1>5. seen = [mesh |-> x.mesh, accepted |-> x.accepted, skipped |-> x.skipped, matched |-> x.matched,
                next |-> x.next, visited |-> W, malformed |-> x.malformed,
                unreadable |-> x.unreadable]
    BY <1>1, <1>2, <1>3, <1>4 DEF IsWhole
  <1>6. PICK a \in Nat, s \in Nat :
          a = x.accepted /\ s = x.skipped /\ a + s = Cardinality(V \cap DOMAIN Shapes)
    BY <1>2, <1>3 DEF IsExtraction
  <1>7. IsFiniteSet(V) /\ IsFiniteSet(W) /\ From(x.mesh, {p}, W, Nat)
    <2>1. IsFiniteSet(V)
      BY <1>2, <1>3 DEF IsExtraction
    <2> QED BY <1>3, <1>4, <2>1, FS_AddElement, Wider
  <1>8. CASE node \in x.visited
    <2>1. ~Enters(x, node, live, has)
      BY <1>8 DEF Enters
    <2>2. y = x
      <3> DEFINE Shape  == VisitShape(seen, node, p, overrides, live, has, lost)
                 Hidden == [seen EXCEPT !.skipped = @ + (IF node \in DOMAIN Shapes THEN 1 ELSE 0)]
                 Lost   == [seen EXCEPT !.malformed = TRUE]
      <3>1. y = CASE Enters(x, node, live, has) -> IF node \in DOMAIN Shapes THEN Shape ELSE seen
                  [] node \in x.visited -> x
                  [] node \notin x.visited /\ live /\ node \in Culled -> Hidden
                  [] OTHER -> Lost
        BY <1>1 DEF Visit
      <3> HIDE DEF Shape, Hidden, Lost
      <3> QED BY <1>8, <2>1, <3>1
    <2>3. x.visited \cup {node} = x.visited
      BY <1>8
    <2> QED BY <2>2, <2>3
  <1>9. CASE node \notin x.visited /\ node \notin DOMAIN Shapes
    <2>1. y = seen \/ y = [seen EXCEPT !.skipped = @ + 0]
      BY <1>1, <1>9 DEF Visit, Enters
    <2>2. [seen EXCEPT !.skipped = @ + 0] = seen
      BY <1>5, <1>6
    <2>3. /\ IsWhole(seen) /\ seen.mesh = x.mesh /\ seen.accepted = a
          /\ seen.skipped = s /\ seen.visited = W
      BY <1>5, <1>6, FieldsOf
    <2>4. W \cap DOMAIN Shapes = V \cap DOMAIN Shapes
      BY <1>4, <1>9
    <2>5. Extracts(seen, p)
      BY <1>3, <1>6, <1>7, <2>3, <2>4 DEF Extracts, IsExtraction, IsWhole
    <2> QED BY <1>2, <1>4, <2>1, <2>2, <2>3, <2>5
  <1>10. CASE node \notin x.visited /\ node \in DOMAIN Shapes
    <2>1. CASE live /\ node \in Culled
      <3>1. y = [seen EXCEPT !.skipped = @ + 1]
        BY <1>1, <1>10, <2>1 DEF Visit, Enters
      <3>2. y = [mesh |-> x.mesh, accepted |-> a, skipped |-> s + 1, matched |-> x.matched,
                 next |-> x.next, visited |-> W, malformed |-> x.malformed,
                 unreadable |-> x.unreadable]
        BY <1>5, <1>6, <3>1
      <3>3. IsWhole(y) /\ y.mesh = x.mesh /\ y.accepted = a /\ y.skipped = s + 1 /\ y.visited = W
        BY <3>2, FieldsOf
      <3>4. PICK S : S = V \cap DOMAIN Shapes
        OBVIOUS
      <3>5. W \cap DOMAIN Shapes = S \cup {node} /\ node \notin S
        BY <1>2, <1>4, <1>10, <3>4
      <3>6. IsFiniteSet(S) /\ Cardinality(S) = a + s
        BY <1>6, <1>7, <3>4, FS_Subset
      <3>7. Cardinality(W \cap DOMAIN Shapes) = (a + s) + 1
        BY <3>5, <3>6, FS_AddElement
      <3>8. a + (s + 1) = (a + s) + 1 /\ s + 1 \in Nat
        BY <1>6
      <3> QED BY <1>2, <1>3, <1>4, <1>7, <3>3, <3>7, <3>8 DEF Extracts, IsExtraction, IsWhole
    <2>2. CASE ~(live /\ node \in Culled)
      <3>1. y = VisitShape(seen, node, p, overrides, live, has, lost)
        BY <1>1, <1>10, <2>2 DEF Visit, Enters
      <3> QED BY <1>1, <1>10, <3>1, VisitShapeKeeps
    <2> QED BY <2>1, <2>2
  <1> QED BY <1>8, <1>9, <1>10

-----------------------------------------------------------------------------
(* What a draw asks for.                                                   *)

\* No two places of a list ask for the same slot.
OneEach(s) ==
  /\ IsList(s)
  /\ \A j, k \in 1..Len(s) : s[j].slot = s[k].slot => j = k

\* All of a list is from a set, and all of the set is in the list.
Holds(s, X) == OneEach(s) /\ Range(s) = X

\* One list behind another that asks for other slots.
LEMMA HoldsBoth ==
  ASSUME NEW s, NEW X, Holds(s, X), NEW t, NEW Y, Holds(t, Y),
         \A x \in X, y \in Y : x.slot # y.slot, NEW u, u = s \o t
  PROVE  Holds(u, X \cup Y)
  <1>1. PICK S, T : s \in Seq(S) /\ t \in Seq(T)
    BY DEF Holds, OneEach, IsList
  <1>2. PICK m \in Nat, n \in Nat : m = Len(s) /\ n = Len(t) /\ DOMAIN s = 1..m /\ DOMAIN t = 1..n
    BY <1>1
  <1>3. /\ u \in Seq(S \cup T) /\ Len(u) = m + n
        /\ \A k \in 1..m : u[k] = s[k]
        /\ \A k \in 1..n : u[m + k] = t[k]
    BY <1>1, <1>2, Behind
  <1>4. DOMAIN u = 1..(m + n) /\ IsList(u)
    BY <1>2, <1>3 DEF IsList
  <1>5. \A k \in 1..m : s[k] \in X
    BY <1>2 DEF Holds, Range
  <1>6. \A k \in 1..n : t[k] \in Y
    BY <1>2 DEF Holds, Range
  <1>7. \A k \in 1..(m + n) : k \in 1..m \/ \E j \in 1..n : k = m + j
    BY Either
  <1>8. \A k \in 1..m : k \in 1..(m + n)
    BY <1>2
  <1>9. \A k \in 1..n : m + k \in 1..(m + n)
    BY <1>2
  <1>10. Range(u) = X \cup Y
    <2>1. \A k \in 1..(m + n) : u[k] \in X \cup Y
      BY <1>3, <1>5, <1>6, <1>7
    <2>2. \A x \in X : \E k \in 1..m : x = s[k]
      BY <1>2 DEF Holds, Range
    <2>3. \A y \in Y : \E k \in 1..n : y = t[k]
      BY <1>2 DEF Holds, Range
    <2>4. \A x \in X \cup Y : \E k \in 1..(m + n) : x = u[k]
      <3>1. ASSUME NEW x \in X PROVE \E k \in 1..(m + n) : x = u[k]
        BY <1>3, <1>8, <2>2
      <3>2. ASSUME NEW y \in Y PROVE \E k \in 1..(m + n) : y = u[k]
        <4>1. PICK k \in 1..n : y = t[k]
          BY <2>3
        <4>2. PICK i : i = m + k
          OBVIOUS
        <4>3. i \in 1..(m + n) /\ y = u[i]
          BY <1>3, <1>9, <4>1, <4>2
        <4> QED BY <4>3
      <3> QED BY <3>1, <3>2
    <2>5. Range(u) = {u[k] : k \in 1..(m + n)}
      BY <1>4 DEF Range
    <2>6. ASSUME NEW z PROVE z \in Range(u) <=> z \in X \cup Y
      <3>1. z \in Range(u) <=> \E k \in 1..(m + n) : z = u[k]
        BY <2>5, Zenon
      <3> QED BY <2>1, <2>4, <3>1, Zenon
    <2> QED BY <2>6, Zenon
  <1>11. ASSUME NEW j \in 1..(m + n), NEW k \in 1..(m + n), u[j].slot = u[k].slot
         PROVE  j = k
    <2>1. CASE j \in 1..m /\ k \in 1..m
      BY <1>2, <1>3, <1>11, <2>1 DEF Holds, OneEach
    <2>2. CASE j \in 1..m /\ \E i \in 1..n : k = m + i
      BY <1>3, <1>5, <1>6, <1>11, <2>2
    <2>3. CASE k \in 1..m /\ \E i \in 1..n : j = m + i
      BY <1>3, <1>5, <1>6, <1>11, <2>3
    <2>4. CASE (\E i \in 1..n : j = m + i) /\ \E i \in 1..n : k = m + i
      <3>1. PICK a \in 1..n, b \in 1..n : j = m + a /\ k = m + b
        BY <2>4
      <3>2. t[a].slot = t[b].slot
        BY <1>3, <1>11, <3>1
      <3> QED BY <1>2, <3>1, <3>2 DEF Holds, OneEach
    <2> QED BY <1>7, <2>1, <2>2, <2>3, <2>4
  <1> QED BY <1>3, <1>4, <1>10, <1>11 DEF Holds, OneEach

\* A list of one.
LEMMA HoldsOne ==
  ASSUME NEW x
  PROVE  Holds(<<x>>, {x})
  <1>1. PICK s : s = <<x>>
    OBVIOUS
  <1>2. s \in Seq({x}) /\ Len(s) = 1 /\ s[1] = x /\ DOMAIN s = {1} /\ 1..1 = {1}
    BY <1>1
  <1>3. IsList(s)
    BY <1>2 DEF IsList
  <1> QED BY <1>1, <1>2, <1>3 DEF Holds, OneEach, Range

\* The list of none.
LEMMA HoldsNone == Holds(<<>>, {})
  <1>1. PICK s : s = <<>>
    OBVIOUS
  <1>2. s \in Seq({}) /\ Len(s) = 0 /\ DOMAIN s = {} /\ 1..0 = {}
    BY <1>1
  <1>3. IsList(s)
    BY <1>2 DEF IsList
  <1> QED BY <1>1, <1>2, <1>3 DEF Holds, OneEach, Range

AskFor(m, s, srgb, cube) == [slot |-> s, path |-> m.path[s], srgb |-> srgb, cube |-> cube]

\* What is asked for a material, of each slot once.
Wants(m) ==
  {AskFor(m, "diffuse", TRUE, FALSE), AskFor(m, "specular", FALSE, FALSE)}
  \cup (IF m.tangentSpace \/ m.modelSpace THEN {AskFor(m, "normal", FALSE, FALSE)} ELSE {})
  \cup (IF m.environment
        THEN {AskFor(m, "environment", TRUE, TRUE), AskFor(m, "environmentMask", FALSE, FALSE)}
        ELSE {})
  \cup (IF m.feature = "faceGen"
        THEN {AskFor(m, "faceTint", TRUE, FALSE), AskFor(m, "faceDetail", TRUE, FALSE)} ELSE {})

\* A draw asks for what its material wants, each slot once.
LEMMA AsksFacts ==
  ASSUME NEW m
  PROVE  Holds(Asks(m), Wants(m)) /\ \A ask \in Wants(m) : ask.slot \in Slots
  <1>1. PICK di, no, sp, en, ma, ti, de :
          /\ di = AskFor(m, "diffuse", TRUE, FALSE) /\ no = AskFor(m, "normal", FALSE, FALSE)
          /\ sp = AskFor(m, "specular", FALSE, FALSE) /\ en = AskFor(m, "environment", TRUE, TRUE)
          /\ ma = AskFor(m, "environmentMask", FALSE, FALSE)
          /\ ti = AskFor(m, "faceTint", TRUE, FALSE) /\ de = AskFor(m, "faceDetail", TRUE, FALSE)
    OBVIOUS
  <1>2. /\ di.slot = "diffuse" /\ no.slot = "normal" /\ sp.slot = "specular" /\ en.slot = "environment"
        /\ ma.slot = "environmentMask" /\ ti.slot = "faceTint" /\ de.slot = "faceDetail"
    BY <1>1 DEF AskFor
  <1>3. PICK n, e, f :
          /\ n = IF m.tangentSpace \/ m.modelSpace THEN <<no>> ELSE <<>>
          /\ e = IF m.environment THEN <<en>> \o <<ma>> ELSE <<>>
          /\ f = IF m.feature = "faceGen" THEN <<ti>> \o <<de>> ELSE <<>>
    OBVIOUS
  <1>4. PICK N, E, F :
          /\ N = IF m.tangentSpace \/ m.modelSpace THEN {no} ELSE {}
          /\ E = IF m.environment THEN {en} \cup {ma} ELSE {}
          /\ F = IF m.feature = "faceGen" THEN {ti} \cup {de} ELSE {}
    OBVIOUS
  <1>5. Asks(m) = (((<<di>> \o n) \o <<sp>>) \o e) \o f
    BY <1>1, <1>3 DEF Asks, AskFor
  <1>6. Wants(m) = ((({di} \cup N) \cup {sp}) \cup E) \cup F
    BY <1>1, <1>4 DEF Wants
  <1>7. Holds(n, N) /\ \A x \in N : x.slot = "normal"
    BY <1>2, <1>3, <1>4, HoldsOne, HoldsNone
  <1>8. Holds(e, E) /\ \A x \in E : x.slot \in {"environment", "environmentMask"}
    <2>1. PICK u : u = <<en>> \o <<ma>>
      OBVIOUS
    <2>2. Holds(u, {en} \cup {ma})
      <3>1. PICK a, b : a = <<en>> /\ b = <<ma>>
        OBVIOUS
      <3>2. Holds(a, {en}) /\ Holds(b, {ma}) /\ \A x \in {en}, y \in {ma} : x.slot # y.slot
        BY <1>2, <3>1, HoldsOne
      <3> QED BY <2>1, <3>1, <3>2, HoldsBoth
    <2> QED BY <1>2, <1>3, <1>4, <2>1, <2>2, HoldsNone
  <1>9. Holds(f, F) /\ \A x \in F : x.slot \in {"faceTint", "faceDetail"}
    <2>1. PICK u : u = <<ti>> \o <<de>>
      OBVIOUS
    <2>2. Holds(u, {ti} \cup {de})
      <3>1. PICK a, b : a = <<ti>> /\ b = <<de>>
        OBVIOUS
      <3>2. Holds(a, {ti}) /\ Holds(b, {de}) /\ \A x \in {ti}, y \in {de} : x.slot # y.slot
        BY <1>2, <3>1, HoldsOne
      <3> QED BY <2>1, <3>1, <3>2, HoldsBoth
    <2> QED BY <1>2, <1>3, <1>4, <2>1, <2>2, HoldsNone
  <1>10. PICK s1, s2, s3, s4, s5, s6 :
           /\ s1 = <<di>> /\ s2 = s1 \o n /\ s3 = <<sp>> /\ s4 = s2 \o s3 /\ s5 = s4 \o e /\ s6 = s5 \o f
    OBVIOUS
  <1>11. PICK S2, S4, S5, S6 : S2 = {di} \cup N /\ S4 = S2 \cup {sp} /\ S5 = S4 \cup E /\ S6 = S5 \cup F
    OBVIOUS
  <1>12. Holds(s1, {di}) /\ Holds(s3, {sp})
    BY <1>10, HoldsOne
  <1>13. Holds(s2, S2) /\ \A x \in S2 : x.slot \in {"diffuse", "normal"}
    <2>1. \A x \in {di}, y \in N : x.slot # y.slot
      BY <1>2, <1>7
    <2>2. Holds(s2, {di} \cup N)
      BY <1>7, <1>10, <1>12, <2>1, HoldsBoth
    <2> QED BY <1>2, <1>7, <1>11, <2>2
  <1>14. Holds(s4, S4) /\ \A x \in S4 : x.slot \in {"diffuse", "normal", "specular"}
    <2>1. \A x \in S2, y \in {sp} : x.slot # y.slot
      BY <1>2, <1>13
    <2>2. Holds(s4, S2 \cup {sp})
      BY <1>10, <1>12, <1>13, <2>1, HoldsBoth
    <2> QED BY <1>2, <1>11, <1>13, <2>2
  <1>15. Holds(s5, S5) /\ \A x \in S5 : x.slot \in SetSlots
    <2>1. \A x \in S4, y \in E : x.slot # y.slot
      BY <1>8, <1>14
    <2>2. Holds(s5, S4 \cup E)
      BY <1>8, <1>10, <1>14, <2>1, HoldsBoth
    <2> QED BY <1>8, <1>11, <1>14, <2>2 DEF SetSlots
  <1>16. Holds(s6, S6) /\ \A x \in S6 : x.slot \in Slots
    <2>1. \A x \in S5, y \in F : x.slot # y.slot
      BY <1>9, <1>15 DEF SetSlots
    <2>2. Holds(s6, S5 \cup F)
      BY <1>9, <1>10, <1>15, <2>1, HoldsBoth
    <2> QED BY <1>9, <1>11, <1>15, <2>2 DEF Slots, FaceSlots
  <1>17. Asks(m) = s6 /\ Wants(m) = S6
    BY <1>5, <1>6, <1>10, <1>11
  <1> QED BY <1>16, <1>17

-----------------------------------------------------------------------------
(* Textures and their cache.                                               *)

\* What the cache holds is what is read.
IsTrue(cache) ==
  \A k \in DOMAIN cache : \A path, ask : k = CacheKey(path, ask) => cache[k] = ReadTexture(path, ask)

\* The texture a use of a path asks for.
Asked(ask) == ReadTexture(NormalizeTextureResourcePath(ask.path), ask)

\* A path that names no texture gives none.
LEMMA NothingIsNowhere ==
  ASSUME NEW ask, ask.path = NoPath \/ NormalizeTextureResourcePath(ask.path) = NoPath
  PROVE  Asked(ask) = NoView
  <1>1. NormalizeTextureResourcePath(NoPath) = NoPath
    <2>1. PICK d : d = Directory("textures")
      OBVIOUS
    <2>2. d.ext = ""
      BY <2>1 DEF Directory, Component
    <2>3. PICK e, q : e = <<>> /\ q = <<d>> \o e
      OBVIOUS
    <2>4. e \in Seq({}) /\ Len(e) = 0 /\ <<d>> \in Seq({d}) /\ Len(<<d>>) = 1
      BY <2>3
    <2>5. Len(q) = 1 /\ q[1] = d
      BY <2>3, <2>4
    <2>6. Without(e, "data") = e /\ Under(e, "textures") = q
      BY <2>1, <2>3, <2>4 DEF Without, Under, Starts
    <2>7. ~Ends(q, "dds")
      BY <2>2, <2>5 DEF Ends
    <2> QED BY <2>3, <2>6, <2>7 DEF NormalizeTextureResourcePath, NoPath
  <1>2. NormalizeTextureResourcePath(ask.path) = NoPath
    BY <1>1
  <1> QED BY <1>2, FilesAssumption DEF Asked, ReadTexture

\* Whatever was read before, what is loaded is what is asked for.
LEMMA LoadedAsAsked ==
  ASSUME NEW ask, NEW cache, IsTrue(cache), NEW l, l = LoadTextureResource(ask, cache)
  PROVE  l.view = Asked(ask) /\ IsTrue(l.cache)
  <1>1. PICK path : path = NormalizeTextureResourcePath(ask.path)
    OBVIOUS
  <1>2. PICK key : key = CacheKey(path, ask)
    OBVIOUS
  <1>3. PICK texture : texture = IF key \in DOMAIN cache THEN cache[key] ELSE ReadTexture(path, ask)
    OBVIOUS
  <1>4. texture = ReadTexture(path, ask)
    BY <1>2, <1>3 DEF IsTrue
  <1>5. PICK more : more = [k \in DOMAIN cache \cup {key} |-> IF k = key THEN texture ELSE cache[k]]
    OBVIOUS
  <1>6. IsTrue(more)
    <2>1. SUFFICES ASSUME NEW k \in DOMAIN cache \cup {key}, NEW p, NEW a, k = CacheKey(p, a)
                   PROVE  more[k] = ReadTexture(p, a)
      BY <1>5 DEF IsTrue
    <2>2. CASE k = key
      <3>1. p = path /\ a.srgb = ask.srgb /\ a.cube = ask.cube
        BY <1>2, <2>1, <2>2 DEF CacheKey
      <3>2. ReadTexture(p, a) = ReadTexture(path, ask)
        BY <3>1 DEF ReadTexture
      <3> QED BY <1>4, <1>5, <2>2, <3>2
    <2>3. CASE k # key
      BY <1>5, <2>1, <2>3 DEF IsTrue
    <2> QED BY <2>2, <2>3
  <1>7. CASE ask.path = NoPath \/ path = NoPath
    <2>1. l = [view |-> NoView, cache |-> cache]
      BY <1>1, <1>7 DEF LoadTextureResource
    <2>2. Asked(ask) = NoView
      BY <1>1, <1>7, NothingIsNowhere
    <2> QED BY <2>1, <2>2
  <1>8. CASE ~(ask.path = NoPath \/ path = NoPath)
    <2>1. l = [view |-> texture, cache |-> more]
      BY <1>1, <1>2, <1>3, <1>5, <1>8 DEF LoadTextureResource
    <2>2. Asked(ask) = texture
      BY <1>1, <1>4 DEF Asked
    <2> QED BY <1>6, <2>1, <2>2
  <1> QED BY <1>7, <1>8

\* The first i textures of a draw are those it asks for.
LoadedUpTo(acc, m, i) ==
  IsTrue(acc.cache) /\ \A k \in 1..i : acc.views[Asks(m)[k].slot] = Asked(Asks(m)[k])

\* Whatever the cache holds from draws before, a draw gets the textures it asks for.
LEMMA LoadTexturesAsAsked ==
  ASSUME NEW m, NEW cache, IsTrue(cache), NEW l, l = LoadTextures(m, cache)
  PROVE  LoadedUpTo(l, m, Len(Asks(m)))
  <1>1. PICK asks : asks = Asks(m)
    OBVIOUS
  <1>2. OneEach(asks) /\ IsList(asks)
    BY <1>1, AsksFacts DEF Holds, OneEach
  <1>3. PICK n \in Nat : n = Len(asks) /\ DOMAIN asks = 1..n
    BY <1>2, ListFacts
  <1>4. \A k \in 1..n : asks[k].slot \in Slots
    BY <1>1, <1>3, AsksFacts DEF Holds, Range
  <1>5. PICK after : GoesThroughAsks(after, m, cache)
    BY <1>1, <1>3, ViewFold
  <1> DEFINE T == {i \in Nat : i <= n => LoadedUpTo(after[i], m, i)}
  <1>6. 0 \in T
    <2>1. after[0].cache = cache /\ 1..0 = {}
      BY <1>5 DEF GoesThroughAsks
    <2> QED BY <2>1 DEF LoadedUpTo
  <1>7. ASSUME NEW i \in Nat, i \in T PROVE i + 1 \in T
    <2>1. SUFFICES ASSUME i + 1 <= n PROVE LoadedUpTo(after[i + 1], m, i + 1)
      OBVIOUS
    <2>2. i + 1 \in 1..n /\ (i + 1) - 1 = i /\ LoadedUpTo(after[i], m, i)
      BY <1>7, <2>1
    <2>3. PICK acc, ask : acc = after[i] /\ ask = asks[i + 1]
      OBVIOUS
    <2>4. after[i + 1] = AddView(acc, ask)
      BY <1>1, <1>3, <1>5, <2>2, <2>3 DEF GoesThroughAsks
    <2>5. PICK r : r = LoadTextureResource(ask, acc.cache)
      OBVIOUS
    <2> HIDE DEF T
    <2>6. r.view = Asked(ask) /\ IsTrue(r.cache)
      BY <2>2, <2>3, <2>5, LoadedAsAsked DEF LoadedUpTo
    <2>7. PICK views : views = [s \in Slots |-> IF s = ask.slot THEN r.view ELSE acc.views[s]]
      OBVIOUS
    <2>8. after[i + 1] = [views |-> views, cache |-> r.cache]
      BY <2>4, <2>5, <2>7 DEF AddView
    <2>9. ASSUME NEW k \in 1..(i + 1) PROVE views[asks[k].slot] = Asked(asks[k])
      <3>1. k \in 1..n /\ (k = i + 1 \/ (k \in 1..i /\ k # i + 1))
        BY <1>3, <2>2
      <3>2. asks[k].slot \in Slots
        BY <1>4, <3>1
      <3>3. CASE k = i + 1
        BY <2>3, <2>6, <2>7, <3>2, <3>3
      <3>4. CASE k \in 1..i /\ k # i + 1
        <4>1. asks[k].slot # ask.slot
          BY <1>2, <1>3, <2>2, <2>3, <3>1, <3>4 DEF OneEach
        <4>2. acc.views[asks[k].slot] = Asked(asks[k])
          BY <1>1, <2>2, <2>3, <3>4 DEF LoadedUpTo
        <4> QED BY <2>7, <3>2, <4>1, <4>2
      <3> QED BY <3>1, <3>3, <3>4
    <2>10. after[i + 1].views = views /\ after[i + 1].cache = r.cache
      BY <2>8
    <2> QED BY <1>1, <2>6, <2>9, <2>10 DEF LoadedUpTo
  <1>8. T = Nat
    <2>1. T \in SUBSET Nat
      OBVIOUS
    <2> HIDE DEF T
    <2> QED BY <1>6, <1>7, <2>1, Upwards
  <1>9. LoadedUpTo(after[n], m, n)
    BY <1>8
  <1> QED BY <1>1, <1>3, <1>5, <1>9 DEF GoesThroughAsks

-----------------------------------------------------------------------------
(* The draws of a scene.                                                   *)

BuiltUpTo(acc, m, i) ==
  /\ IsTrue(acc.cache) /\ IsList(acc.draws) /\ Len(acc.draws) = i
  /\ \A k \in 1..i : IsBuilt(acc.draws[k], m, k)

\* AddDraw adds a draw with the textures it asks for.
LEMMA AddDrawKeeps ==
  ASSUME NEW m, NEW i \in Nat, NEW d, d = m.draws[i + 1], DrawFits(d, m),
         NEW acc, BuiltUpTo(acc, m, i), NEW done, done = AddDraw(acc, d, m)
  PROVE  BuiltUpTo(done, m, i + 1)
  <1>1. PICK l : l = LoadTextures(d.material, acc.cache)
    OBVIOUS
  <1>2. LoadedUpTo(l, d.material, Len(Asks(d.material)))
    <2>1. PICK c : c = acc.cache /\ IsTrue(c)
      BY DEF BuiltUpTo
    <2>2. PICK material : material = d.material
      OBVIOUS
    <2>3. l = LoadTextures(material, c)
      BY <1>1, <2>1, <2>2
    <2> QED BY <2>1, <2>2, <2>3, LoadTexturesAsAsked
  <1>3. PICK e : e = [object |-> d.object, start |-> d.start, count |-> d.count,
                      material |-> d.material, views |-> l.views]
    OBVIOUS
  <1>4. done = [draws |-> Append(acc.draws, e), cache |-> l.cache]
    BY <1>1, <1>3 DEF AddDraw
  <1>5. PICK ds : ds = Append(acc.draws, e)
    OBVIOUS
  <1>6. done.draws = ds /\ done.cache = l.cache
    BY <1>4, <1>5
  <1>7. IsLonger(ds, acc.draws, e)
    BY <1>5, Longer DEF BuiltUpTo
  <1>8. ViewsAsAsked(e)
    <2>1. e.views = l.views /\ e.material = d.material
      BY <1>3
    <2> QED BY <1>2, <2>1 DEF ViewsAsAsked, LoadedUpTo, Asked
  <1>9. IsBuilt(e, m, i + 1)
    BY <1>3, <1>8 DEF IsBuilt
  <1>10. IsList(ds) /\ Len(ds) = i + 1 /\ ds[i + 1] = e /\ \A k \in 1..i : ds[k] = acc.draws[k]
    BY <1>7 DEF IsLonger, BuiltUpTo
  <1>11. \A k \in 1..(i + 1) : k = i + 1 \/ k \in 1..i
    OBVIOUS
  <1>12. \A k \in 1..(i + 1) : IsBuilt(ds[k], m, k)
    BY <1>9, <1>10, <1>11 DEF BuiltUpTo
  <1>13. IsTrue(l.cache)
    BY <1>2 DEF LoadedUpTo
  <1> QED BY <1>6, <1>10, <1>12, <1>13 DEF BuiltUpTo

\* BuildMeshResources gives every draw of a mesh that is sound.
LEMMA EveryDrawIsBuilt ==
  ASSUME NEW m, IsMesh(m)
  PROVE  IsBuiltFrom(BuildMeshResources(m), m)
  <1>1. PICK n \in Nat : n = Len(m.draws)
    BY MeshNumbers
  <1>2. PICK after : GoesThroughDraws(after, m)
    BY <1>1, DrawFold
  <1> DEFINE T == {i \in Nat : i <= n => BuiltUpTo(after[i], m, i)}
  <1>3. 0 \in T
    <2>1. PICK e : e = <<>>
      OBVIOUS
    <2>2. after[0].draws = e /\ after[0].cache = e /\ DOMAIN e = {} /\ e \in Seq({}) /\ Len(e) = 0
      BY <1>2, <2>1 DEF GoesThroughDraws
    <2>3. IsTrue(e)
      BY <2>2, Zenon DEF IsTrue
    <2>4. IsList(e)
      BY <2>2 DEF IsList
    <2>5. 1..0 = {}
      OBVIOUS
    <2>6. BuiltUpTo(after[0], m, 0)
      BY <2>2, <2>3, <2>4, <2>5, Zenon DEF BuiltUpTo
    <2> QED BY <2>6
  <1>4. ASSUME NEW i \in Nat, i \in T PROVE i + 1 \in T
    <2>1. SUFFICES ASSUME i + 1 <= n PROVE BuiltUpTo(after[i + 1], m, i + 1)
      OBVIOUS
    <2>2. i + 1 \in 1..n /\ (i + 1) - 1 = i /\ BuiltUpTo(after[i], m, i)
      BY <1>4, <2>1
    <2>3. PICK acc, d : acc = after[i] /\ d = m.draws[i + 1]
      OBVIOUS
    <2>4. after[i + 1] = AddDraw(acc, d, m)
      BY <1>1, <1>2, <2>2, <2>3 DEF GoesThroughDraws
    <2>5. DrawFits(d, m)
      BY <1>1, <2>2, <2>3 DEF IsMesh
    <2> HIDE DEF T
    <2> QED BY <2>2, <2>3, <2>4, <2>5, AddDrawKeeps
  <1>5. T = Nat
    <2>1. T \in SUBSET Nat
      OBVIOUS
    <2> HIDE DEF T
    <2> QED BY <1>3, <1>4, <2>1, Upwards
  <1>6. BuiltUpTo(after[n], m, n)
    BY <1>5
  <1>7. BuildMeshResources(m) = after[n].draws
    BY <1>1, <1>2 DEF GoesThroughDraws
  <1> QED BY <1>1, <1>6, <1>7 DEF BuiltUpTo, IsBuiltFrom

-----------------------------------------------------------------------------
(* The scene of all parts.                                                 *)

AllShapes == UNION {UnderPart(parts[k]) : k \in 1..Len(parts)}

\* The first n parts behind each other.
UpToPart(m, n) == Honest(m) /\ From(m, 1..n, AllShapes, Nat) /\ Composed(m, n, meshes, parts)

\* Owned gives the draws of a part their object and leaves what they show.
LEMMA OwnedPart ==
  ASSUME NEW k \in 1..Len(parts), IsOnePart(meshes[k], parts[k], k), NEW o, o = Owned(meshes[k])
  PROVE  /\ Honest(o) /\ From(o, {k}, AllShapes, Nat)
         /\ Len(o.draws) = Len(meshes[k].mesh.draws)
         /\ \A i \in 1..Len(o.draws) :
              /\ First(o, i).part = k /\ First(o, i).shape \in UnderPart(parts[k])
              /\ o.draws[i].object = meshes[k].object
  <1>1. PICK p, m : p = meshes[k] /\ m = p.mesh
    OBVIOUS
  <1>2. Honest(m) /\ From(m, {k}, UnderPart(parts[k]), Nat)
    BY <1>1 DEF IsOnePart
  <1>3. /\ Honest(o) /\ Len(o.draws) = Len(m.draws)
        /\ \A i \in 1..Len(m.draws) : First(o, i) = First(m, i) /\ o.draws[i].object = p.object
    BY <1>1, <1>2, OwnedFacts
  <1>4. From(o, {k}, UnderPart(parts[k]), Nat)
    BY <1>2, <1>3 DEF From
  <1>5. UnderPart(parts[k]) \subseteq AllShapes
    BY DEF AllShapes
  <1>6. From(o, {k}, AllShapes, Nat)
    BY <1>4, <1>5, Wider
  <1> QED BY <1>1, <1>3, <1>4, <1>6 DEF From

\* The mesh of a part behind those before it.
LEMMA OneMorePart ==
  ASSUME NEW n \in Nat, n + 1 \in 1..Len(parts), IsOnePart(meshes[n + 1], parts[n + 1], n + 1),
         Len(meshes[n + 1].mesh.draws) # 0,
         NEW m, UpToPart(m, n), NEW a, a = Appended(m, Owned(meshes[n + 1]))
  PROVE  UpToPart(a, n + 1)
  <1>1. PICK k : k = n + 1
    OBVIOUS
  <1>2. PICK s : s = Owned(meshes[k])
    OBVIOUS
  <1>3. k \in 1..Len(parts) /\ IsOnePart(meshes[k], parts[k], k) /\ a = Appended(m, s)
    BY <1>1, <1>2
  <1>4. /\ Honest(s) /\ From(s, {k}, AllShapes, Nat) /\ Len(s.draws) # 0
        /\ \A i \in 1..Len(s.draws) :
             /\ First(s, i).part = k /\ First(s, i).shape \in UnderPart(parts[k])
             /\ s.draws[i].object = meshes[k].object
    <2>1. \A o : o = Owned(meshes[k]) =>
            /\ Honest(o) /\ From(o, {k}, AllShapes, Nat)
            /\ Len(o.draws) = Len(meshes[k].mesh.draws)
            /\ \A i \in 1..Len(o.draws) :
                 /\ First(o, i).part = k /\ First(o, i).shape \in UnderPart(parts[k])
                 /\ o.draws[i].object = meshes[k].object
      BY <1>3, OwnedPart
    <2> QED BY <1>1, <1>2, <2>1
  <1>5. Honest(m) /\ From(m, 1..n, AllShapes, Nat) /\ Composed(m, n, meshes, parts)
    BY DEF UpToPart
  <1>6. (1..n) \cap {k} = {} /\ (1..n) \cup {k} = 1..(n + 1) /\ AllShapes \cup AllShapes = AllShapes
        /\ Nat \cup Nat = Nat
    BY <1>1
  <1>7. PICK A : A = AllShapes
    OBVIOUS
  <1>8. PICK P, Q : P = 1..n /\ Q = {k}
    OBVIOUS
  <1>9. Honest(a) /\ From(a, P \cup Q, A \cup A, Nat \cup Nat) /\ Follows(a, m, s)
    <2>1. From(m, P, A, Nat) /\ From(s, Q, A, Nat) /\ P \cap Q = {}
      BY <1>4, <1>5, <1>6, <1>7, <1>8
    <2> QED BY <1>3, <1>4, <1>5, <2>1, Together
  <1>10. Honest(a) /\ From(a, 1..(n + 1), AllShapes, Nat)
    BY <1>6, <1>7, <1>8, <1>9
  <1>11. PICK p \in Nat, q \in Nat : p = Len(m.draws) /\ q = Len(s.draws) /\ Len(a.draws) = p + q
    BY <1>9 DEF Follows
  <1>12. \A i \in 1..(p + q) : i \in 1..p \/ \E j \in 1..q : i = p + j
    BY Either
  <1>13. ASSUME NEW i \in 1..p
         PROVE  /\ First(a, i).part \in 1..n
                /\ First(a, i).shape \in UnderPart(parts[First(a, i).part])
                /\ a.draws[i].object = meshes[First(a, i).part].object
    <2>1. First(a, i) = First(m, i) /\ a.draws[i].object = m.draws[i].object
      BY <1>9, <1>11 DEF Follows
    <2> QED BY <1>5, <1>11, <2>1 DEF Composed
  <1>14. ASSUME NEW j \in 1..q
         PROVE  /\ First(a, p + j).part = k
                /\ First(a, p + j).shape \in UnderPart(parts[First(a, p + j).part])
                /\ a.draws[p + j].object = meshes[First(a, p + j).part].object
    <2>1. First(a, p + j) = First(s, j) /\ a.draws[p + j].object = s.draws[j].object
      BY <1>9, <1>11 DEF Follows
    <2> QED BY <1>4, <1>11, <2>1
  <1>15. ASSUME NEW i \in 1..Len(a.draws)
         PROVE  /\ First(a, i).part \in 1..(n + 1)
                /\ First(a, i).shape \in UnderPart(parts[First(a, i).part])
                /\ a.draws[i].object = meshes[First(a, i).part].object
    <2>1. i \in 1..p \/ \E j \in 1..q : i = p + j
      BY <1>11, <1>12
    <2>2. CASE i \in 1..p
      BY <1>13, <2>2
    <2>3. CASE \E j \in 1..q : i = p + j
      <3>1. PICK j \in 1..q : i = p + j
        BY <2>3
      <3>2. k \in 1..(n + 1)
        BY <1>1
      <3> QED BY <1>14, <3>1, <3>2
    <2> QED BY <2>1, <2>2, <2>3
  <1>16. ASSUME NEW r \in 1..(n + 1) PROVE \E i \in 1..Len(a.draws) : First(a, i).part = r
    <2>1. CASE r = k
      <3>1. q # 0
        BY <1>4, <1>11
      <3>2. 1 \in 1..q /\ p + 1 \in 1..(p + q)
        BY <3>1
      <3> QED BY <1>11, <1>14, <2>1, <3>2
    <2>2. CASE r \in 1..n
      <3>1. PICK i \in 1..p : First(m, i).part = r
        BY <1>5, <1>11, <2>2 DEF Composed
      <3>2. i \in 1..(p + q)
        OBVIOUS
      <3>3. First(a, i) = First(m, i)
        BY <1>9, <1>11 DEF Follows
      <3> QED BY <1>11, <3>1, <3>2, <3>3
    <2> QED BY <1>1, <2>1, <2>2
  <1>17. Composed(a, n + 1, meshes, parts)
    BY <1>15, <1>16 DEF Composed
  <1> QED BY <1>10, <1>17 DEF UpToPart

\* ComposeScene puts every part on screen.
LEMMA ComposedFromParts ==
  ASSUME IsList(meshes), Len(meshes) = Len(parts),
         \A k \in 1..Len(meshes) : IsOnePart(meshes[k], parts[k], k),
         \A k \in 1..Len(meshes) : Len(meshes[k].mesh.draws) # 0
  PROVE  Honest(ComposeScene) /\ Composed(ComposeScene, Len(meshes), meshes, parts)
  <1>1. PICK n \in Nat : n = Len(meshes)
    BY ListFacts
  <1>2. PICK after : GoesThroughMeshes(after)
    BY <1>1, ComposeFold
  <1> DEFINE T == {i \in Nat : i <= n => UpToPart(after[i], i)}
  <1>3. 0 \in T
    <2>1. after[0] = NoMesh /\ 1..0 = {}
      BY <1>2 DEF GoesThroughMeshes
    <2>2. Composed(NoMesh, 0, meshes, parts)
      BY <2>1, EmptyIsHonest DEF Composed
    <2> QED BY <2>1, <2>2, EmptyIsHonest DEF UpToPart
  <1>4. ASSUME NEW i \in Nat, i \in T PROVE i + 1 \in T
    <2>1. SUFFICES ASSUME i + 1 <= n PROVE UpToPart(after[i + 1], i + 1)
      OBVIOUS
    <2>2. i + 1 \in 1..n /\ (i + 1) - 1 = i /\ UpToPart(after[i], i)
      BY <1>4, <2>1
    <2>3. PICK m : m = after[i]
      OBVIOUS
    <2>4. after[i + 1] = Appended(m, Owned(meshes[i + 1]))
      BY <1>1, <1>2, <2>2, <2>3 DEF GoesThroughMeshes
    <2>5. /\ i + 1 \in 1..Len(parts) /\ IsOnePart(meshes[i + 1], parts[i + 1], i + 1)
          /\ Len(meshes[i + 1].mesh.draws) # 0
      BY <1>1, <2>2
    <2> HIDE DEF T
    <2> QED BY <2>2, <2>3, <2>4, <2>5, OneMorePart
  <1>5. T = Nat
    <2>1. T \in SUBSET Nat
      OBVIOUS
    <2> HIDE DEF T
    <2> QED BY <1>3, <1>4, <2>1, Upwards
  <1>6. UpToPart(after[n], n)
    BY <1>5
  <1> QED BY <1>1, <1>2, <1>6 DEF GoesThroughMeshes, UpToPart

-----------------------------------------------------------------------------
(* The objects still to visit.                                             *)

\* What is on a stack that was pushed upon.
LEMMA PendingBoth ==
  ASSUME NEW x, IsList(x), NEW t, IsList(t), NEW u, u = x \o t
  PROVE  IsList(u) /\ Pending(u) = Pending(x) \cup Pending(t)
  <1>1. PICK S, T : x \in Seq(S) /\ t \in Seq(T)
    BY DEF IsList
  <1>2. PICK m \in Nat, n \in Nat : m = Len(x) /\ n = Len(t)
    BY <1>1
  <1>3. /\ u \in Seq(S \cup T) /\ Len(u) = m + n
        /\ \A k \in 1..m : u[k] = x[k]
        /\ \A k \in 1..n : u[m + k] = t[k]
    BY <1>1, <1>2, Behind
  <1>4. \A k \in 1..(m + n) : k \in 1..m \/ \E j \in 1..n : k = m + j
    BY Either
  <1>5. \A k \in 1..m : k \in 1..(m + n)
    BY <1>2
  <1>6. \A k \in 1..n : m + k \in 1..(m + n)
    BY <1>2
  <1>7. ASSUME NEW o PROVE o \in Pending(u) <=> o \in Pending(x) \cup Pending(t)
    <2>1. /\ o \in Pending(u) <=> \E k \in 1..(m + n) : o = u[k].object
          /\ o \in Pending(x) <=> \E k \in 1..m : o = x[k].object
          /\ o \in Pending(t) <=> \E k \in 1..n : o = t[k].object
      BY <1>2, <1>3, Zenon DEF Pending
    <2>2. ASSUME NEW k \in 1..(m + n), o = u[k].object PROVE o \in Pending(x) \cup Pending(t)
      <3>1. CASE k \in 1..m
        BY <1>3, <2>1, <2>2, <3>1
      <3>2. CASE \E j \in 1..n : k = m + j
        BY <1>3, <2>1, <2>2, <3>2
      <3> QED BY <1>4, <3>1, <3>2
    <2>3. ASSUME NEW k \in 1..m, o = x[k].object PROVE o \in Pending(u)
      BY <1>3, <1>5, <2>1, <2>3
    <2>4. ASSUME NEW k \in 1..n, o = t[k].object PROVE o \in Pending(u)
      <3>1. PICK i : i = m + k
        OBVIOUS
      <3>2. i \in 1..(m + n) /\ o = u[i].object
        BY <1>3, <1>6, <2>4, <3>1
      <3> QED BY <2>1, <3>2
    <2> QED BY <2>1, <2>2, <2>3, <2>4
  <1> QED BY <1>3, <1>7 DEF IsList

\* A stack of one object, and of none.
LEMMA PendingOne ==
  /\ IsList(<<>>) /\ Pending(<<>>) = {}
  /\ \A e : IsList(<<e>>) /\ Pending(<<e>>) = {e.object}
  <1>1. PICK s : s = <<>>
    OBVIOUS
  <1>2. s \in Seq({}) /\ Len(s) = 0 /\ 1..0 = {}
    BY <1>1
  <1>3. IsList(s) /\ Pending(s) = {}
    BY <1>2 DEF IsList, Pending
  <1>4. ASSUME NEW e PROVE IsList(<<e>>) /\ Pending(<<e>>) = {e.object}
    <2>1. PICK t : t = <<e>>
      OBVIOUS
    <2>2. t \in Seq({e}) /\ Len(t) = 1 /\ t[1] = e /\ 1..1 = {1}
      BY <2>1
    <2>3. IsList(t) /\ Pending(t) = {e.object}
      BY <2>2 DEF IsList, Pending
    <2> QED BY <2>1, <2>3
  <1> QED BY <1>1, <1>3, <1>4

\* The top of a stack is on it.
LEMMA PendingTop ==
  ASSUME NEW s, IsList(s), s # <<>>
  PROVE  IsList(Tail(s)) /\ Pending(s) = {Head(s).object} \cup Pending(Tail(s))
  <1>1. PICK S : s \in Seq(S)
    BY DEF IsList
  <1>2. PICK t, e : t = Tail(s) /\ e = Head(s)
    OBVIOUS
  <1>3. t \in Seq(S) /\ s = <<e>> \o t
    BY <1>1, <1>2
  <1>4. PICK f : f = <<e>>
    OBVIOUS
  <1>5. IsList(t) /\ IsList(f) /\ Pending(f) = {e.object} /\ s = f \o t
    BY <1>3, <1>4, PendingOne DEF IsList
  <1>6. Pending(s) = Pending(f) \cup Pending(t)
    BY <1>5, PendingBoth
  <1> QED BY <1>2, <1>5, <1>6

\* u has x in the place of the top of s.
Replaces(u, x, s, rest) ==
  /\ IsList(u) /\ Pending(u) = Pending(x) \cup rest
  /\ Pending(s) = {Head(s).object} \cup rest

\* The stack once its top was looked at.
LEMMA NextStack ==
  ASSUME NEW s, IsList(s), s # <<>>, NEW x, IsList(x), NEW u, u = x \o Tail(s)
  PROVE  \E rest : Replaces(u, x, s, rest)
  <1>1. PICK t : t = Tail(s)
    OBVIOUS
  <1>2. IsList(t) /\ Pending(s) = {Head(s).object} \cup Pending(t)
    BY <1>1, PendingTop
  <1>3. IsList(u) /\ Pending(u) = Pending(x) \cup Pending(t)
    BY <1>1, <1>2, PendingBoth
  <1>4. Replaces(u, x, s, Pending(t))
    BY <1>2, <1>3 DEF Replaces
  <1> QED BY <1>4

\* The entries of a stack for what is there.
Entries(there, depth) == [k \in DOMAIN there |-> [object |-> there[k], depth |-> depth]]

\* The objects of the roots that are picked.
LEMMA PendingPicked ==
  ASSUME NEW s, IsList(s), NEW K, K \subseteq DOMAIN s, NEW depth, NEW t,
         t = Entries(Picked(s, K), depth)
  PROVE  IsList(t) /\ Pending(t) = {s[k] : k \in K}
  <1>1. PICK there : there = Picked(s, K)
    OBVIOUS
  <1>2. /\ IsList(there)
        /\ \A j \in 1..Len(there) : \E k \in K \cap (1..Len(s)) : there[j] = s[k]
        /\ \A k \in K \cap (1..Len(s)) : \E j \in 1..Len(there) : there[j] = s[k]
    BY <1>1, PickedFacts DEF IsPicked
  <1>3. K \cap (1..Len(s)) = K
    BY ListFacts
  <1>4. t = [k \in DOMAIN there |-> [object |-> there[k], depth |-> depth]]
    BY <1>1 DEF Entries
  <1>5. t = [k \in DOMAIN there |-> t[k]]
    BY <1>4
  <1>6. IsList(t) /\ Len(t) = Len(there) /\ DOMAIN there = 1..Len(there)
    BY <1>2, <1>5, ListOf, ListFacts
  <1>7. \A j \in 1..Len(there) : t[j].object = there[j]
    BY <1>6, <1>4
  <1>8. ASSUME NEW o PROVE o \in Pending(t) <=> o \in {s[k] : k \in K}
    <2>1. o \in Pending(t) <=> \E j \in 1..Len(there) : o = there[j]
      BY <1>6, <1>7 DEF Pending
    <2>2. o \in {s[k] : k \in K} <=> \E k \in K : o = s[k]
      BY Zenon
    <2> QED BY <1>2, <1>3, <2>1, <2>2
  <1> QED BY <1>6, <1>8

\* Below gives children that are still there.
LEMMA BelowFacts ==
  ASSUME NEW top, top.object \in SceneObjects
  PROVE  IsList(Below(top)) /\ Pending(Below(top)) = Range(Children[top.object]) \ detached
  <1>1. PICK children : children = Children[top.object]
    OBVIOUS
  <1>2. IsList(children)
    BY <1>1, GraphAssumption DEF IsList
  <1>3. PICK K : K = {k \in DOMAIN children : children[k] \notin detached}
    OBVIOUS
  <1>4. PICK depth : depth = top.depth + 1
    OBVIOUS
  <1>5. PICK t : t = Entries(Picked(children, K), depth)
    OBVIOUS
  <1>6. Below(top) = t
    BY <1>1, <1>3, <1>4, <1>5 DEF Below, Entries
  <1>7. K \subseteq DOMAIN children
    BY <1>3
  <1>8. IsList(t) /\ Pending(t) = {children[k] : k \in K}
    BY <1>2, <1>5, <1>7, PendingPicked
  <1>9. {children[k] : k \in K} = Range(children) \ detached
    BY <1>3 DEF Range
  <1> QED BY <1>1, <1>6, <1>8, <1>9

\* An object more has a transform, and its children are to come.
LEMMA CollectOne ==
  ASSUME NEW s, NEW T, NEW left, IsCollecting(s, T, left), s # <<>>, NEW o, o = Head(s).object,
         o \in T \cup Finite, NEW x, IsList(x),
         o \in T \/ Pending(x) = Range(Children[o]) \ left,
         NEW u, u = x \o Tail(s)
  PROVE  IsCollecting(u, T \cup {o}, left)
  <1>1. /\ IsList(s) /\ T \subseteq Finite
        /\ \A c \in T : Range(Children[c]) \ left \subseteq T \cup Pending(s)
    BY DEF IsCollecting
  <1>2. PICK rest : Replaces(u, x, s, rest)
    BY <1>1, NextStack
  <1>3. IsList(u) /\ Pending(u) = Pending(x) \cup rest /\ Pending(s) = {o} \cup rest
    BY <1>2 DEF Replaces
  <1>4. ASSUME NEW c \in T \cup {o}
        PROVE  Range(Children[c]) \ left \subseteq (T \cup {o}) \cup Pending(u)
    <2>1. CASE c \in T
      BY <1>1, <1>3, <2>1
    <2>2. CASE c \notin T
      BY <1>3, <2>2
    <2> QED BY <2>1, <2>2
  <1>5. T \cup {o} \subseteq Finite
    BY <1>1
  <1> QED BY <1>3, <1>4, <1>5 DEF IsCollecting

\* One object is walked, and maybe its children are to be.
IsNext(s, T, left, o, x, u) ==
  /\ IsWalking(s, T, left) /\ s # <<>> /\ o = Head(s).object /\ u = x \o Tail(s)
  /\ IsList(x) /\ Pending(x) \subseteq Range(Children[o]) \ left

\* One object is walked, and maybe its children are to be.
LEMMA WalkOne ==
  ASSUME NEW s, NEW T, NEW left, NEW o, NEW x, NEW u, IsNext(s, T, left, o, x, u)
  PROVE  /\ o \in T /\ IsWalking(u, T, left) /\ o \in Pending(s)
         /\ Pending(u) \subseteq Range(Children[o]) \cup Pending(s)
  <1> USE DEF IsNext
  <1>1. /\ IsList(s) /\ T \subseteq Finite /\ Pending(s) \subseteq T
        /\ \A c \in T : Range(Children[c]) \ left \subseteq T
    BY DEF IsWalking
  <1>2. PICK rest : Replaces(u, x, s, rest)
    BY <1>1, NextStack
  <1>3. IsList(u) /\ Pending(u) = Pending(x) \cup rest /\ Pending(s) = {o} \cup rest
    BY <1>2 DEF Replaces
  <1>4. o \in T /\ o \in Pending(s)
    BY <1>1, <1>3
  <1>5. Pending(u) \subseteq T
    BY <1>1, <1>3, <1>4
  <1>6. Pending(u) \subseteq Range(Children[o]) \cup Pending(s)
    BY <1>3
  <1> QED BY <1>1, <1>3, <1>4, <1>5, <1>6 DEF IsWalking

\* Whatever is under a part has its children there.
LEMMA UnderIsClosed ==
  ASSUME NEW p, NEW o \in UnderPart(p)
  PROVE  o \in SceneObjects /\ Range(Children[o]) \subseteq UnderPart(p)
  <1>1. PICK r \in Roots(p) \cap SceneObjects : o \in Reach(r)
    BY DEF UnderPart
  <1>2. o \in SceneObjects /\ Range(Children[o]) \subseteq Reach(r)
    BY <1>1, ReachFacts
  <1>3. Reach(r) \subseteq UnderPart(p)
    BY <1>1 DEF UnderPart
  <1> QED BY <1>2, <1>3

\* A root is under its part.
LEMMA RootsAreUnder ==
  ASSUME NEW p, NEW r \in Roots(p), r \in SceneObjects
  PROVE  r \in UnderPart(p)
  BY ReachFacts DEF UnderPart

-----------------------------------------------------------------------------
(* The steps keep the invariant.                                           *)

\* No scene.
LEMMA EmptyIsScene == IsScene(NoScene)
  <1>1. PICK e : e = <<>>
    OBVIOUS
  <1>2. NoScene.mesh = NoMesh /\ NoScene.draws = e
    BY <1>1 DEF NoScene
  <1>3. e \in Seq({}) /\ Len(e) = 0 /\ 1..0 = {}
    BY <1>1
  <1>4. IsList(e)
    BY <1>3 DEF IsList
  <1>5. IsBuiltFrom(e, NoMesh)
    BY <1>3, <1>4, EmptyIsHonest DEF IsBuiltFrom
  <1> QED BY <1>2, <1>5, EmptyIsHonest DEF IsScene

\* An extraction that has visited nothing.
LEMMA EmptyExtracts ==
  ASSUME NEW p, NEW x, NEW f, x = [NoExtraction EXCEPT !.malformed = f]
  PROVE  Extracts(x, p) /\ x.visited = {}
  <1>1. PICK m, a, s, c, n, v, u :
          m = NoMesh /\ a = 0 /\ s = 0 /\ c = 0 /\ n = 0 /\ v = {} /\ u = FALSE
    OBVIOUS
  <1>2. x = [mesh |-> m, accepted |-> a, skipped |-> s, matched |-> c, next |-> n, visited |-> v,
             malformed |-> f, unreadable |-> u]
    <2>1. NoExtraction = [mesh |-> m, accepted |-> a, skipped |-> s, matched |-> c, next |-> n,
                          visited |-> v, malformed |-> u, unreadable |-> u]
      BY <1>1 DEF NoExtraction
    <2> QED BY <2>1
  <1>3. IsWhole(x) /\ x.mesh = m /\ x.accepted = a /\ x.skipped = s /\ x.visited = v
    <2>1. PICK y : y = x
      OBVIOUS
    <2>2. y = [mesh |-> m, accepted |-> a, skipped |-> s, matched |-> c, next |-> n, visited |-> v,
               malformed |-> f, unreadable |-> u]
      BY <1>2, <2>1
    <2>3. IsWhole(y) /\ y.mesh = m /\ y.accepted = a /\ y.skipped = s /\ y.visited = v
      BY ONLY <2>2, FieldsOf
    <2> QED BY <2>1, <2>3
  <1>4. /\ IsFiniteSet(v) /\ Cardinality(v \cap DOMAIN Shapes) = 0
        /\ a \in Nat /\ s \in Nat /\ a + s = 0
    <2>1. {} \cap DOMAIN Shapes = {}
      OBVIOUS
    <2> QED BY <1>1, <2>1, FS_EmptySet
  <1>5. IsExtraction(x)
    BY <1>3, <1>4 DEF IsExtraction, IsWhole
  <1> QED BY <1>1, <1>3, <1>5, EmptyIsHonest DEF Extracts

\* What is shown follows from the parts alone.
LEMMA ShownAgain ==
  ASSUME meshes' = meshes
  PROVE  Shown' = Shown
  BY DEF Shown

\* The invariant holds at the start.
LEMMA PipelineInitially == PipelineInit => PipelineInv
  <1> SUFFICES ASSUME PipelineInit PROVE PipelineInv
    OBVIOUS
  <1> USE DEF PipelineInit
  <1>1. phase = "idle" /\ outcome = "Empty" /\ scene = NoScene /\ meshes = <<>> /\ at = 1
    OBVIOUS
  <1>2. Accepted /\ HalfDone /\ Collecting /\ Walking
    BY <1>1 DEF Accepted, HalfDone, Collecting, Walking, Working
  <1>3. PartByPart
    BY <1>1, PendingOne DEF PartByPart, Working
  <1>4. Drawable
    BY <1>1, EmptyIsScene DEF Drawable
  <1>5. Shows
    BY <1>1 DEF Shows
  <1> QED BY <1>2, <1>3, <1>4, <1>5 DEF PipelineInv

\* Nothing of what the invariant is about.
LEMMA UntouchedKeeps ==
  ASSUME PipelineInv, UNCHANGED <<request, phase, hand, detached, scene, outcome>>
  PROVE  PipelineInv'
  <1>1. /\ request' = request /\ phase' = phase /\ detached' = detached /\ scene' = scene
        /\ outcome' = outcome /\ parts' = parts /\ at' = at /\ endpoint' = endpoint /\ stack' = stack
        /\ transforms' = transforms /\ found' = found /\ low' = low /\ meshes' = meshes
    BY DEF hand
  <1>2. Accepted'
    BY <1>1 DEF PipelineInv, Accepted, Working
  <1>3. PartByPart'
    BY <1>1 DEF PipelineInv, PartByPart, Working
  <1>4. HalfDone'
    BY <1>1 DEF PipelineInv, HalfDone
  <1>5. Collecting'
    BY <1>1 DEF PipelineInv, Collecting
  <1>6. Walking'
    BY <1>1 DEF PipelineInv, Walking
  <1>7. Drawable'
    BY <1>1 DEF PipelineInv, Drawable
  <1>8. Shows'
    BY <1>1, ShownAgain DEF PipelineInv, Shows
  <1> QED BY <1>2, <1>3, <1>4, <1>5, <1>6, <1>7, <1>8 DEF PipelineInv

\* A request that fails leaves nothing on screen.
LEMMA FailsKeeps ==
  ASSUME NEW why, why # "Ready", Fails(why), IsList(meshes'), at' \in Nat
  PROVE  PipelineInv'
  <1>1. phase' = "idle" /\ scene' = NoScene /\ outcome' # "Ready"
    BY DEF Fails
  <1>2. Accepted' /\ HalfDone' /\ Collecting' /\ Walking'
    BY <1>1 DEF Accepted, HalfDone, Collecting, Walking, Working
  <1>3. PartByPart'
    BY <1>1 DEF PartByPart, Working
  <1>4. Drawable'
    BY <1>1, EmptyIsScene DEF Drawable
  <1>5. Shows'
    BY <1>1 DEF Shows
  <1> QED BY <1>2, <1>3, <1>4, <1>5 DEF PipelineInv

\* A request at work leaves on screen what was there.
LEMMA SceneStays ==
  ASSUME PipelineInv, phase # "idle", phase' # "idle", UNCHANGED <<scene, outcome>>
  PROVE  Drawable' /\ Shows' /\ outcome # "Ready" /\ outcome' # "Ready"
  <1>1. outcome # "Ready" /\ outcome' # "Ready" /\ IsScene(scene)
    BY DEF PipelineInv, Shows, Drawable
  <1> QED BY <1>1 DEF Drawable, Shows

\* An extraction begins with one object to visit.
LEMMA BeginsKeeps ==
  ASSUME NEW root, Begins(root)
  PROVE  phase' = "collect" /\ Collecting' /\ Walking'
  <1>1. PICK e : e = [object |-> root, depth |-> 0]
    OBVIOUS
  <1>2. phase' = "collect" /\ stack' = <<e>> /\ transforms' = {} /\ found' = NoExtraction
    BY <1>1 DEF Begins
  <1>3. IsList(stack')
    BY <1>2, PendingOne
  <1>4. IsCollecting(stack', transforms', detached')
    BY <1>2, <1>3 DEF IsCollecting
  <1> QED BY <1>2, <1>4 DEF Collecting, Walking

\* The part in hand.
LEMMA PartInHand ==
  ASSUME PipelineInv, phase \in {"demand", "submitted", "collect", "walk"}
  PROVE  /\ at \in 1..Len(parts) /\ at = Len(meshes) + 1 /\ Len(meshes) \in Nat /\ Len(parts) \in Nat
         /\ IsModel(parts[at]) \/ IsActor(parts[at])
  <1>1. IsList(meshes) /\ at \in Nat /\ at = Len(meshes) + 1 /\ at <= Len(parts)
    BY DEF PipelineInv, PartByPart
  <1>2. AreParts(parts)
    BY DEF PipelineInv, Accepted, Working
  <1>3. Len(meshes) \in Nat /\ Len(parts) \in Nat
    BY <1>1, <1>2, ListFacts DEF AreParts
  <1>4. at \in 1..Len(parts)
    BY <1>1, <1>3
  <1> QED BY <1>1, <1>2, <1>3, <1>4 DEF AreParts

\* A request is made.
LEMMA AskKeeps ==
  ASSUME PipelineInv, NEW r \in Requests, Ask(r)
  PROVE  PipelineInv'
  <1>1. CASE ~Accepts(r)
    BY <1>1, UntouchedKeeps DEF Ask
  <1>2. CASE Accepts(r)
    <2>1. /\ request' = r /\ phase' = "resolve" /\ outcome' = "Loading" /\ scene' = scene
          /\ meshes' = meshes /\ at' = at
      BY <1>2 DEF Ask, hand
    <2>2. Accepted' /\ HalfDone' /\ Collecting' /\ Walking' /\ Shows'
      BY <1>2, <2>1 DEF Accepted, HalfDone, Collecting, Walking, Working, Shows
    <2>3. PartByPart'
      BY <2>1 DEF PipelineInv, PartByPart, Working
    <2>4. Drawable'
      BY <2>1 DEF PipelineInv, Drawable
    <2> QED BY <2>2, <2>3, <2>4 DEF PipelineInv
  <1> QED BY <1>1, <1>2

\* It resolves to parts, or fails.
LEMMA TaskResolvesKeeps ==
  ASSUME PipelineInv, TaskResolves
  PROVE  PipelineInv'
  <1>1. /\ phase = "resolve" /\ parts' = Resolve(request).parts /\ at' = 1 /\ meshes' = <<>>
        /\ request' = request
    BY DEF TaskResolves
  <1>2. IsList(meshes') /\ Len(meshes') = 0 /\ at' \in Nat /\ 1..0 = {}
    BY <1>1, PendingOne
  <1>3. CASE ~Resolve(request).ok
    <2>1. Fails("Unsupported")
      BY <1>3 DEF TaskResolves
    <2> QED BY <1>2, <2>1, FailsKeeps
  <1>4. CASE Resolve(request).ok
    <2>1. phase' \in {"demand", "submitted"} /\ UNCHANGED <<scene, outcome>>
      BY <1>4 DEF TaskResolves
    <2>2. Drawable' /\ Shows' /\ outcome' # "Ready"
      BY <1>1, <2>1, SceneStays
    <2>3. request \in Requests /\ Accepts(request)
      BY <1>1 DEF PipelineInv, Accepted
    <2>4. AreParts(parts')
      BY <1>1, <1>4, <2>3, ResolvedParts
    <2>5. Accepted'
      BY <1>1, <2>3, <2>4 DEF Accepted
    <2>6. HalfDone' /\ Collecting' /\ Walking'
      BY <2>1 DEF HalfDone, Collecting, Walking
    <2>7. Len(parts') \in Nat /\ Len(parts') # 0
      BY <2>4, ListFacts DEF AreParts
    <2>8. PartByPart'
      BY <1>1, <1>2, <2>1, <2>2, <2>7 DEF PartByPart
    <2> QED BY <2>2, <2>5, <2>6, <2>8 DEF PipelineInv
  <1> QED BY <1>3, <1>4

\* The models of its parts are there, or not.
LEMMA TaskDemandsKeeps ==
  ASSUME PipelineInv, TaskDemands
  PROVE  PipelineInv'
  <1>1. phase = "demand" /\ request' = request /\ parts' = parts /\ at' = at /\ meshes' = meshes
    BY DEF TaskDemands, hand
  <1>2. IsList(meshes) /\ at \in Nat
    BY DEF PipelineInv, PartByPart
  <1>3. Fails("Failed") \/ (phase' = "submitted" /\ UNCHANGED <<scene, outcome>>)
    BY DEF TaskDemands
  <1>4. CASE Fails("Failed")
    BY <1>1, <1>2, <1>4, FailsKeeps
  <1>5. CASE phase' = "submitted" /\ UNCHANGED <<scene, outcome>>
    <2>1. Drawable' /\ Shows' /\ outcome' # "Ready"
      BY <1>1, <1>5, SceneStays
    <2>2. Accepted'
      BY <1>1, <1>5 DEF PipelineInv, Accepted, Working
    <2>3. HalfDone' /\ Collecting' /\ Walking'
      BY <1>5 DEF HalfDone, Collecting, Walking
    <2>4. PartByPart'
      BY <1>1, <1>5, <2>1 DEF PipelineInv, PartByPart, Working
    <2> QED BY <2>1, <2>2, <2>3, <2>4 DEF PipelineInv
  <1> QED BY <1>3, <1>4, <1>5

\* A root leaves the 3D of the actor.
LEMMA ActorChangesKeeps ==
  ASSUME PipelineInv, NEW object, ActorChanges(object)
  PROVE  PipelineInv'
  <1>1. /\ phase = "submitted" /\ phase' = "submitted" /\ request' = request /\ parts' = parts
        /\ at' = at /\ meshes' = meshes /\ UNCHANGED <<scene, outcome>>
    BY DEF ActorChanges, hand
  <1>2. Drawable' /\ Shows' /\ outcome' # "Ready"
    BY <1>1, SceneStays
  <1>3. Accepted'
    BY <1>1 DEF PipelineInv, Accepted, Working
  <1>4. HalfDone' /\ Collecting' /\ Walking'
    BY <1>1 DEF HalfDone, Collecting, Walking
  <1>5. PartByPart'
    BY <1>1, <1>2 DEF PipelineInv, PartByPart, Working
  <1> QED BY <1>2, <1>3, <1>4, <1>5 DEF PipelineInv

\* The first part is begun.
LEMMA PrepareStartsKeeps ==
  ASSUME PipelineInv, PrepareStarts
  PROVE  PipelineInv'
  <1>1. /\ phase = "submitted" /\ request' = request /\ parts' = parts
        /\ at' = at /\ meshes' = meshes /\ UNCHANGED <<scene, outcome>>
    BY DEF PrepareStarts
  <1>2. endpoint' = "low" /\ Begins(IF Live(part) THEN part.root ELSE Models[part.low])
    BY DEF PrepareStarts, BeginsPart
  <1>3. phase' = "collect" /\ Collecting' /\ Walking'
    BY <1>2, BeginsKeeps
  <1>4. Drawable' /\ Shows' /\ outcome' # "Ready"
    BY <1>1, <1>3, SceneStays
  <1>5. Accepted'
    BY <1>1, <1>3 DEF PipelineInv, Accepted, Working
  <1>6. HalfDone'
    BY <1>2 DEF HalfDone
  <1>7. PartByPart'
    BY <1>1, <1>3, <1>4 DEF PipelineInv, PartByPart, Working
  <1> QED BY <1>3, <1>4, <1>5, <1>6, <1>7 DEF PipelineInv

\* A step of an extraction, which leaves alone what is not its own.
LEMMA Extracting ==
  ASSUME PipelineInv, phase \in {"collect", "walk"}, phase' \in {"collect", "walk"},
         UNCHANGED <<request, parts, at, endpoint, low, meshes, scene, outcome>>
  PROVE  Accepted' /\ PartByPart' /\ HalfDone' /\ Drawable' /\ Shows'
  <1>1. Drawable' /\ Shows' /\ outcome' # "Ready"
    BY SceneStays
  <1>2. Accepted'
    BY DEF PipelineInv, Accepted, Working
  <1>3. PartByPart'
    BY <1>1 DEF PipelineInv, PartByPart, Working
  <1>4. HalfDone'
    BY DEF PipelineInv, HalfDone
  <1> QED BY <1>1, <1>2, <1>3, <1>4

\* One object gets its transform, or the extraction ends.
LEMMA CollectKeeps ==
  ASSUME PipelineInv, Collect
  PROVE  PipelineInv'
  <1>1. PICK top : top = Head(stack)
    OBVIOUS
  <1>2. PICK x : x = IF top.object \in transforms THEN <<>> ELSE Below(top)
    OBVIOUS
  <1>3. /\ phase = "collect" /\ stack # <<>>
        /\ UNCHANGED <<request, parts, at, endpoint, found, low, meshes, detached>>
    BY DEF Collect
  <1>4. \/ Fails("Failed")
        \/ /\ transforms' = transforms \cup {top.object} /\ stack' = x \o Tail(stack)
           /\ top.object \in transforms \cup Finite /\ UNCHANGED <<phase, scene, outcome>>
    BY <1>1, <1>2 DEF Collect
  <1>5. CASE Fails("Failed")
    <2>1. IsList(meshes') /\ at' \in Nat
      BY <1>3 DEF PipelineInv, PartByPart
    <2> QED BY <1>5, <2>1, FailsKeeps
  <1>6. CASE /\ transforms' = transforms \cup {top.object} /\ stack' = x \o Tail(stack)
             /\ top.object \in transforms \cup Finite /\ UNCHANGED <<phase, scene, outcome>>
    <2>1. Accepted' /\ PartByPart' /\ HalfDone' /\ Drawable' /\ Shows'
      BY <1>3, <1>6, Extracting
    <2>2. found = NoExtraction /\ IsCollecting(stack, transforms, detached)
      BY <1>3 DEF PipelineInv, Collecting
    <2>3. top.object \in SceneObjects
      BY <1>6, <2>2, GraphAssumption DEF IsCollecting
    <2>4. IsList(x) /\ (top.object \in transforms \/ Pending(x) = Range(Children[top.object]) \ detached)
      BY <1>2, <2>3, BelowFacts, PendingOne
    <2>5. IsCollecting(stack', transforms', detached')
      <3>1. PICK o : o = top.object
        OBVIOUS
      <3>2. PICK u : u = stack'
        OBVIOUS
      <3>3. PICK s, T, left : s = stack /\ T = transforms /\ left = detached
        OBVIOUS
      <3>4. /\ IsCollecting(s, T, left) /\ s # <<>> /\ o = Head(s).object /\ o \in T \cup Finite
            /\ o \in T \/ Pending(x) = Range(Children[o]) \ left
            /\ u = x \o Tail(s)
        BY <1>1, <1>3, <1>6, <2>2, <2>4, <3>1, <3>2, <3>3
      <3>5. IsCollecting(u, T \cup {o}, left)
        BY <2>4, <3>4, CollectOne
      <3> QED BY <1>3, <1>6, <3>1, <3>2, <3>3, <3>5
    <2>6. Collecting' /\ Walking'
      BY <1>3, <1>6, <2>2, <2>5 DEF Collecting, Walking
    <2> QED BY <2>1, <2>6 DEF PipelineInv
  <1> QED BY <1>4, <1>5, <1>6

\* The roots that have a transform are put on the stack.
LEMMA WalkStartsKeeps ==
  ASSUME PipelineInv, WalkStarts
  PROVE  PipelineInv'
  <1>1. PICK roots : roots = IF Live(part) THEN part.roots
                             ELSE <<Models[IF endpoint = "low" THEN part.low ELSE part.high]>>
    OBVIOUS
  <1>2. PICK K : K = {k \in DOMAIN roots : roots[k] \in transforms}
    OBVIOUS
  <1>3. PICK there : there = Picked(roots, K)
    OBVIOUS
  <1>4. /\ phase = "collect" /\ stack = <<>> /\ phase' = "walk"
        /\ stack' = [k \in DOMAIN there |-> [object |-> there[k], depth |-> 0]]
        /\ found' = [found EXCEPT !.malformed = Len(there) < Len(roots)]
        /\ UNCHANGED <<request, parts, at, endpoint, transforms, low, meshes, detached, scene, outcome>>
    BY <1>1, <1>2, <1>3 DEF WalkStarts
  <1>5. Accepted' /\ PartByPart' /\ HalfDone' /\ Drawable' /\ Shows'
    BY <1>4, Extracting
  <1>6. found = NoExtraction /\ IsCollecting(stack, transforms, detached)
    BY <1>4 DEF PipelineInv, Collecting
  <1>7. IsModel(parts[at]) \/ IsActor(parts[at])
    BY <1>4, PartInHand
  <1>8. IsList(roots)
    <2>1. CASE Live(part)
      BY <1>1, <1>7, <2>1 DEF part, IsModel, IsActor
    <2>2. CASE ~Live(part)
      BY <1>1, <2>2, PendingOne
    <2> QED BY <2>1, <2>2
  <1>9. stack' = Entries(Picked(roots, K), 0)
    BY <1>3, <1>4 DEF Entries
  <1>10. IsList(stack') /\ Pending(stack') = {roots[k] : k \in K}
    <2>1. PICK u, z : u = stack' /\ z = 0
      OBVIOUS
    <2>2. K \subseteq DOMAIN roots /\ u = Entries(Picked(roots, K), z)
      BY <1>2, <1>9, <2>1
    <2>3. IsList(u) /\ Pending(u) = {roots[k] : k \in K}
      BY <1>8, <2>2, PendingPicked
    <2> QED BY <2>1, <2>3
  <1>11. Pending(stack') \subseteq transforms
    BY <1>2, <1>10
  <1>12. IsWalking(stack', transforms', detached')
    <2>1. Pending(stack) = {}
      BY <1>4, PendingOne
    <2> QED BY <1>4, <1>6, <1>10, <1>11, <2>1 DEF IsCollecting, IsWalking
  <1>13. Extracts(found', at') /\ found'.visited = {}
    <2>1. PICK f : f = (Len(there) < Len(roots))
      OBVIOUS
    <2>2. PICK x, p : x = found' /\ p = at'
      OBVIOUS
    <2>3. x = [NoExtraction EXCEPT !.malformed = f]
      BY <1>4, <1>6, <2>1, <2>2
    <2>4. Extracts(x, p) /\ x.visited = {}
      BY <2>3, EmptyExtracts
    <2> QED BY <2>2, <2>4
  <1>14. ASSUME endpoint = "low", NEW o \in Pending(stack') PROVE o \in UnderPart(parts[at])
    <2>1. PICK k \in DOMAIN roots : o = roots[k] /\ o \in transforms
      BY <1>2, <1>10
    <2>2. o \in SceneObjects
      BY <1>6, <2>1, GraphAssumption DEF IsCollecting
    <2>3. o \in Roots(parts[at])
      <3>1. CASE Live(part)
        BY <1>1, <2>1, <3>1 DEF Roots, Range, part
      <3>2. CASE ~Live(part)
        <4>1. roots = <<Models[part.low]>>
          BY <1>1, <1>14, <3>2
        <4>2. o = Models[part.low]
          BY <2>1, <4>1
        <4> QED BY <3>2, <4>2 DEF Roots, part
      <3> QED BY <3>1, <3>2
    <2> QED BY <2>2, <2>3, RootsAreUnder
  <1>15. Collecting' /\ Walking'
    BY <1>4, <1>12, <1>13, <1>14 DEF Collecting, Walking
  <1> QED BY <1>5, <1>15 DEF PipelineInv

\* One object is walked.
LEMMA WalkKeeps ==
  ASSUME PipelineInv, NEW lost, Walk(lost)
  PROVE  PipelineInv'
  <1>1. PICK top, o : top = Head(stack) /\ o = top.object
    OBVIOUS
  <1>2. PICK x : x = IF Enters(found, o, Live(part), transforms) THEN Below(top) ELSE <<>>
    OBVIOUS
  <1>3. /\ phase = "walk" /\ stack # <<>> /\ phase' = "walk"
        /\ found' = Visit(found, o, at, Overrides, Live(part), transforms, lost)
        /\ stack' = x \o Tail(stack)
        /\ UNCHANGED <<request, parts, at, endpoint, transforms, low, meshes, detached, scene, outcome>>
    BY <1>1, <1>2 DEF Walk
  <1>4. Accepted' /\ PartByPart' /\ HalfDone' /\ Drawable' /\ Shows'
    BY <1>3, Extracting
  <1>5. /\ IsWalking(stack, transforms, detached) /\ Extracts(found, at)
        /\ endpoint = "low" => /\ Pending(stack) \subseteq UnderPart(parts[at])
                               /\ found.visited \subseteq UnderPart(parts[at])
    BY <1>3 DEF PipelineInv, Walking
  <1>6. PICK s, T, left, u, f, g, p :
          /\ s = stack /\ T = transforms /\ left = detached /\ u = stack'
          /\ f = found /\ g = found' /\ p = at
    OBVIOUS
  <1>7. IsWalking(s, T, left) /\ s # <<>> /\ o = Head(s).object /\ u = x \o Tail(s)
    BY <1>1, <1>3, <1>5, <1>6
  <1>8. o \in SceneObjects
    <2>1. IsList(s) /\ Pending(s) \subseteq T /\ T \subseteq Finite
      BY <1>7 DEF IsWalking
    <2>2. o \in Pending(s)
      BY <1>7, <2>1, PendingTop
    <2> QED BY <2>1, <2>2, GraphAssumption
  <1>9. IsList(x) /\ Pending(x) \subseteq Range(Children[o]) \ left
    BY <1>1, <1>2, <1>6, <1>8, BelowFacts, PendingOne
  <1>10. /\ o \in T /\ IsWalking(u, T, left) /\ o \in Pending(s)
         /\ Pending(u) \subseteq Range(Children[o]) \cup Pending(s)
    <2>1. IsNext(s, T, left, o, x, u)
      BY <1>7, <1>9 DEF IsNext
    <2> QED BY <2>1, WalkOne
  <1>11. Extracts(g, p) /\ g.visited = f.visited \cup {o}
    <2>1. PICK overrides, live : overrides = Overrides /\ live = Live(part)
      OBVIOUS
    <2>2. Extracts(f, p) /\ g = Visit(f, o, p, overrides, live, T, lost)
      BY <1>3, <1>5, <1>6, <2>1
    <2> QED BY <1>10, <2>2, VisitKeeps
  <1>12. ASSUME endpoint = "low"
         PROVE  Pending(u) \subseteq UnderPart(parts[at]) /\ g.visited \subseteq UnderPart(parts[at])
    <2>1. PICK under : under = UnderPart(parts[at])
      OBVIOUS
    <2>2. Pending(s) \subseteq under /\ f.visited \subseteq under
      BY <1>5, <1>6, <1>12, <2>1
    <2>3. Range(Children[o]) \subseteq under
      BY <1>10, <2>1, <2>2, UnderIsClosed
    <2> QED BY <1>10, <1>11, <2>1, <2>2, <2>3
  <1>13. Collecting' /\ Walking'
    BY <1>3, <1>6, <1>10, <1>11, <1>12 DEF Collecting, Walking
  <1> QED BY <1>4, <1>13 DEF PipelineInv

\* What was extracted of a part.
LEMMA FoundFacts ==
  ASSUME PipelineInv, phase = "walk"
  PROVE  /\ Extracts(found, at) /\ Honest(found.mesh)
         /\ endpoint = "low" => From(found.mesh, {at}, UnderPart(parts[at]), Nat)
  <1>1. /\ Extracts(found, at)
        /\ endpoint = "low" => found.visited \subseteq UnderPart(parts[at])
    BY DEF PipelineInv, Walking
  <1>2. PICK m, p, U, V : m = found.mesh /\ p = at /\ U = UnderPart(parts[at]) /\ V = found.visited
    OBVIOUS
  <1>3. Honest(m) /\ From(m, {p}, V, Nat)
    BY <1>1, <1>2 DEF Extracts
  <1>4. V \subseteq U => From(m, {p}, U, Nat)
    BY <1>3, Wider
  <1> QED BY <1>1, <1>2, <1>3, <1>4

\* An endpoint gives nothing.
LEMMA ExtractionFailsKeeps ==
  ASSUME PipelineInv, ExtractionFails
  PROVE  PipelineInv'
  <1>1. \E why : why # "Ready" /\ Fails(why)
    BY DEF ExtractionFails
  <1>2. IsList(meshes') /\ at' \in Nat
    BY DEF ExtractionFails, hand, PipelineInv, PartByPart
  <1> QED BY <1>1, <1>2, FailsKeeps

\* The low endpoint is there, and the high one is begun.
LEMMA LowExtractedKeeps ==
  ASSUME PipelineInv, LowExtracted
  PROVE  PipelineInv'
  <1>1. /\ phase = "walk" /\ endpoint = "low" /\ endpoint' = "high" /\ low' = found.mesh
        /\ ~Live(parts[at]) /\ parts[at].high # NoPath
        /\ Begins(Models[parts[at].high])
        /\ UNCHANGED <<request, parts, at, meshes, detached, scene, outcome>>
    BY DEF LowExtracted, Extracted, HasHigh, part
  <1>2. phase' = "collect" /\ Collecting' /\ Walking'
    BY <1>1, BeginsKeeps
  <1>3. Drawable' /\ Shows' /\ outcome' # "Ready"
    BY <1>1, <1>2, SceneStays
  <1>4. Accepted'
    BY <1>1, <1>2 DEF PipelineInv, Accepted, Working
  <1>5. PartByPart'
    BY <1>1, <1>2, <1>3 DEF PipelineInv, PartByPart, Working
  <1>6. HalfDone'
    <2>1. IsHalf(low', parts'[at'], at')
      BY <1>1, FoundFacts DEF IsHalf
    <2> QED BY <1>1, <2>1 DEF HalfDone
  <1> QED BY <1>2, <1>3, <1>4, <1>5, <1>6 DEF PipelineInv

\* A part more is there.
LEMMA PartMore ==
  ASSUME PipelineInv, phase = "walk", NEW m, IsOnePart(m, parts[at], at),
         parts' = parts, meshes' = Append(meshes, m)
  PROVE  /\ IsList(meshes') /\ Len(meshes') = at
         /\ \A k \in 1..Len(meshes') : IsOnePart(meshes'[k], parts'[k], k)
  <1>1. at = Len(meshes) + 1 /\ Len(meshes) \in Nat
    BY PartInHand
  <1>2. IsList(meshes) /\ \A k \in 1..Len(meshes) : IsOnePart(meshes[k], parts[k], k)
    BY DEF PipelineInv, PartByPart, Working
  <1>3. IsLonger(meshes', meshes, m)
    BY <1>2, Longer
  <1>4. \A k \in 1..at : k = at \/ k \in 1..Len(meshes)
    BY <1>1
  <1> QED BY <1>1, <1>2, <1>3, <1>4 DEF IsLonger

\* A part is there; the next one is begun or the scene composed.
LEMMA PartExtractedKeeps ==
  ASSUME PipelineInv, PartExtracted
  PROVE  PipelineInv'
  <1>1. PICK weighted : weighted = IF HasHigh THEN InterpolateWeightMeshes(low, found.mesh)
                                   ELSE [is |-> "None", mesh |-> found.mesh]
    OBVIOUS
  <1>2. PICK failure : failure = PartFailure(weighted)
    OBVIOUS
  <1>3. PICK m : m = [object |-> part.object, visible |-> part.visible, mesh |-> weighted.mesh]
    OBVIOUS
  <1>4. phase = "walk" /\ (HasHigh => endpoint = "high")
    BY DEF PartExtracted, Extracted
  <1>5. request' = request /\ parts' = parts /\ low' = low /\ detached' = detached
    BY DEF PartExtracted
  <1>6. CASE failure # "None"
    <2>1. Fails(failure) /\ meshes' = meshes /\ at' = at
      BY <1>1, <1>2, <1>6 DEF PartExtracted
    <2>2. failure # "Ready"
      BY <1>2 DEF PartFailure
    <2>3. IsList(meshes') /\ at' \in Nat
      BY <2>1 DEF PipelineInv, PartByPart
    <2> QED BY <2>1, <2>2, <2>3, FailsKeeps
  <1>7. CASE failure = "None"
    <2>1. /\ meshes' = Append(meshes, m) /\ UNCHANGED <<scene, outcome>>
          /\ at < Len(parts) \/ phase' = "compose"
          /\ IF at < Len(parts)
             THEN at' = at + 1 /\ BeginsPart(parts[at + 1])
             ELSE UNCHANGED <<at, endpoint, stack, transforms, found>>
      BY <1>1, <1>2, <1>3, <1>7 DEF PartExtracted
    <2>2. Honest(weighted.mesh) /\ From(weighted.mesh, {at}, UnderPart(parts[at]), Nat)
      <3>1. CASE HasHigh
        <4>1. IsHalf(low, parts[at], at)
          BY <1>4, <3>1 DEF PipelineInv, HalfDone
        <4>2. weighted.is = "None"
          BY <1>2, <1>7 DEF PartFailure
        <4>3. weighted.mesh = low
          BY <1>1, <3>1, <4>2 DEF InterpolateWeightMeshes
        <4> QED BY <4>1, <4>3 DEF IsHalf
      <3>2. CASE ~HasHigh
        <4>1. endpoint = "low"
          BY <1>4, <3>2 DEF PipelineInv, HalfDone, IsHalf, HasHigh, part
        <4>2. weighted.mesh = found.mesh
          BY <1>1, <3>2
        <4> QED BY <1>4, <4>1, <4>2, FoundFacts
      <3> QED BY <3>1, <3>2
    <2>3. IsOnePart(m, parts[at], at)
      BY <1>3, <2>2 DEF IsOnePart, part
    <2>4. /\ IsList(meshes') /\ Len(meshes') = at
          /\ \A k \in 1..Len(meshes') : IsOnePart(meshes'[k], parts'[k], k)
      BY <1>4, <1>5, <2>1, <2>3, PartMore
    <2>5. at \in 1..Len(parts) /\ Len(parts) \in Nat
      BY <1>4, PartInHand
    <2>6. CASE at < Len(parts)
      <3>1. at' = at + 1 /\ BeginsPart(parts[at + 1])
        BY <2>1, <2>6
      <3>2. endpoint' = "low" /\ phase' = "collect" /\ Collecting' /\ Walking'
        BY <3>1, BeginsKeeps DEF BeginsPart
      <3>3. Drawable' /\ Shows' /\ outcome' # "Ready"
        BY <1>4, <2>1, <3>2, SceneStays
      <3>4. Accepted'
        BY <1>4, <1>5, <3>2 DEF PipelineInv, Accepted, Working
      <3>5. PartByPart'
        <4>1. at' \in Nat /\ at' = Len(meshes') + 1 /\ at' <= Len(parts')
          BY <1>5, <2>4, <2>5, <2>6, <3>1
        <4> QED BY <2>4, <3>2, <3>3, <4>1 DEF PartByPart
      <3>6. HalfDone'
        BY <3>2 DEF HalfDone
      <3> QED BY <3>2, <3>3, <3>4, <3>5, <3>6 DEF PipelineInv
    <2>7. CASE ~(at < Len(parts))
      <3>1. phase' = "compose" /\ at' = at
        BY <2>1, <2>7
      <3>2. Drawable' /\ Shows' /\ outcome' # "Ready"
        BY <1>4, <2>1, <3>1, SceneStays
      <3>3. Accepted'
        BY <1>4, <1>5, <3>1 DEF PipelineInv, Accepted, Working
      <3>4. HalfDone' /\ Collecting' /\ Walking'
        BY <3>1 DEF HalfDone, Collecting, Walking
      <3>5. PartByPart'
        <4>1. at' \in Nat /\ Len(meshes') = Len(parts')
          BY <1>5, <2>4, <2>5, <2>7, <3>1
        <4> QED BY <2>4, <3>1, <3>2, <4>1 DEF PartByPart
      <3> QED BY <3>2, <3>3, <3>4, <3>5 DEF PipelineInv
    <2> QED BY <2>6, <2>7
  <1> QED BY <1>6, <1>7

\* The scene is put on screen, or is not.
LEMMA PublishKeeps ==
  ASSUME PipelineInv, NEW works, Publish(works)
  PROVE  PipelineInv'
  <1>1. PICK mesh : mesh = ComposeScene
    OBVIOUS
  <1>2. phase = "compose" /\ UNCHANGED <<request, hand, detached>>
    BY DEF Publish
  <1>3. /\ parts' = parts /\ meshes' = meshes /\ at' = at /\ request' = request
    BY <1>2 DEF hand
  <1>4. /\ IsList(meshes) /\ at \in Nat /\ Len(meshes) = Len(parts)
        /\ \A k \in 1..Len(meshes) : IsOnePart(meshes[k], parts[k], k)
    BY <1>2 DEF PipelineInv, PartByPart, Working
  <1>5. CASE Fails("Failed")
    BY <1>3, <1>4, <1>5, FailsKeeps
  <1>6. CASE /\ Composable(meshes)
             /\ scene' = [mesh |-> mesh, draws |-> BuildMeshResources(mesh), shown |-> Shown]
             /\ outcome' = "Ready" /\ phase' = "idle"
    <2>1. Len(meshes) \in Nat /\ DOMAIN meshes = 1..Len(meshes)
      BY <1>4, ListFacts
    <2>2. ASSUME NEW k \in 1..Len(meshes) PROVE Len(meshes[k].mesh.draws) # 0
      <3>1. meshes[k].mesh.draws # <<>>
        BY <1>6, <2>1 DEF Composable
      <3>2. \E D : meshes[k].mesh.draws \in Seq(D)
        BY <1>4 DEF IsOnePart, Honest, IsMesh
      <3> QED BY <3>1, <3>2
    <2>3. Honest(mesh) /\ Composed(mesh, Len(meshes), meshes, parts)
      BY <1>1, <1>4, <2>2, ComposedFromParts
    <2>4. PICK ds : ds = BuildMeshResources(mesh)
      OBVIOUS
    <2>5. IsBuiltFrom(ds, mesh)
      BY <2>3, <2>4, EveryDrawIsBuilt DEF Honest
    <2>6. scene'.mesh = mesh /\ scene'.draws = ds /\ scene'.shown = Shown
      BY <1>6, <2>4
    <2>7. Drawable'
      BY <2>3, <2>5, <2>6 DEF Drawable, IsScene
    <2>8. Shows'
      BY <1>3, <1>6, <2>3, <2>6, ShownAgain DEF Shows
    <2>9. Accepted'
      BY <1>2, <1>3, <1>6 DEF PipelineInv, Accepted, Working
    <2>10. HalfDone' /\ Collecting' /\ Walking'
      BY <1>6 DEF HalfDone, Collecting, Walking
    <2>11. PartByPart'
      BY <1>3, <1>4, <1>6 DEF PartByPart
    <2> QED BY <2>7, <2>8, <2>9, <2>10, <2>11 DEF PipelineInv
  <1>7. \/ Fails("Failed")
        \/ /\ Composable(meshes)
           /\ scene' = [mesh |-> mesh, draws |-> BuildMeshResources(mesh), shown |-> Shown]
           /\ outcome' = "Ready" /\ phase' = "idle"
    BY <1>1 DEF Publish
  <1> QED BY <1>5, <1>6, <1>7

\* From the request to the screen: what was accepted is what is resolved, every part
\* is extracted in its turn, of its own objects, and what is on screen is all parts,
\* each draw a piece of its shape with the textures its material asks for.
THEOREM PipelineInvariant == PipelineSpec => []PipelineInv
  <1>1. ASSUME PipelineInv, [PipelineNext]_pipelineVars PROVE PipelineInv'
    <2>1. CASE UNCHANGED pipelineVars
      BY <1>1, <2>1, UntouchedKeeps DEF pipelineVars
    <2>2. ASSUME NEW r \in Requests, Ask(r) PROVE PipelineInv'
      BY <1>1, <2>2, AskKeeps
    <2>3. CASE TaskResolves
      BY <1>1, <2>3, TaskResolvesKeeps
    <2>4. CASE TaskDemands
      BY <1>1, <2>4, TaskDemandsKeeps
    <2>5. ASSUME NEW object \in SceneObjects, ActorChanges(object) PROVE PipelineInv'
      BY <1>1, <2>5, ActorChangesKeeps
    <2>6. CASE PrepareStarts
      BY <1>1, <2>6, PrepareStartsKeeps
    <2>7. CASE Collect
      BY <1>1, <2>7, CollectKeeps
    <2>8. CASE WalkStarts
      BY <1>1, <2>8, WalkStartsKeeps
    <2>9. ASSUME NEW lost, Walk(lost) PROVE PipelineInv'
      BY <1>1, <2>9, WalkKeeps
    <2>10. CASE ExtractionFails
      BY <1>1, <2>10, ExtractionFailsKeeps
    <2>11. CASE LowExtracted
      BY <1>1, <2>11, LowExtractedKeeps
    <2>12. CASE PartExtracted
      BY <1>1, <2>12, PartExtractedKeeps
    <2>13. ASSUME NEW works \in BOOLEAN, Publish(works) PROVE PipelineInv'
      BY <1>1, <2>13, PublishKeeps
    <2> QED
      BY <1>1, <2>1, <2>2, <2>3, <2>4, <2>5, <2>6, <2>7, <2>8, <2>9, <2>10, <2>11, <2>12, <2>13
      DEF PipelineNext
  <1> QED BY <1>1, PipelineInitially, PTL DEF PipelineSpec

-----------------------------------------------------------------------------
(* What the invariant says of the screen.                                  *)

\* A draw on screen is a draw of the scene's mesh.
LEMMA OnScreen ==
  ASSUME PipelineInv, NEW i \in DOMAIN scene.draws, NEW d, d = scene.draws[i]
  PROVE  /\ i \in 1..Len(scene.mesh.draws) /\ IsBuilt(d, scene.mesh, i)
         /\ ShowsPiece(scene.mesh, i) /\ Origin(d) = First(scene.mesh, i)
  <1>1. IsScene(scene)
    BY DEF PipelineInv, Drawable
  <1>2. IsList(scene.draws) /\ Len(scene.draws) = Len(scene.mesh.draws)
    BY <1>1 DEF IsScene, IsBuiltFrom
  <1>3. i \in 1..Len(scene.mesh.draws)
    BY <1>2, ListFacts
  <1>4. IsBuilt(d, scene.mesh, i) /\ ShowsPiece(scene.mesh, i)
    BY <1>1, <1>3 DEF IsScene, IsBuiltFrom, Honest
  <1>5. d.start = scene.mesh.draws[i].start
    BY <1>4 DEF IsBuilt
  <1> QED BY <1>3, <1>4, <1>5 DEF Origin, First, Corner

\* All of a part's geometry is from where it may come from.
LEMMA UnderItsSource ==
  ASSUME NEW p
  PROVE  UnderPart(p) \subseteq Source(p)
  <1>1. CASE Live(p)
    BY <1>1 DEF UnderPart, Roots, Source
  <1>2. CASE ~Live(p)
    <2>1. Roots(p) = {Models[p.low]} /\ Source(p) = Reach(Models[p.low])
      BY <1>2 DEF Roots, Source
    <2> QED BY <2>1 DEF UnderPart
  <1> QED BY <1>1, <1>2

\* The parts of a scene that is ready, and what is shown of them.
LEMMA PartsOnScreen ==
  ASSUME PipelineInv, outcome = "Ready"
  PROVE  /\ parts = Resolve(request).parts /\ DOMAIN parts = 1..Len(meshes)
         /\ Composed(scene.mesh, Len(meshes), meshes, parts)
         /\ \A p \in 1..Len(meshes) :
              /\ meshes[p].object = parts[p].object
              /\ scene.shown[parts[p].object] = parts[p].visible
  <1>1. parts = Resolve(request).parts /\ AreParts(parts)
    BY DEF PipelineInv, Accepted
  <1>2. /\ IsList(meshes) /\ Len(meshes) = Len(parts)
        /\ \A p \in 1..Len(meshes) : IsOnePart(meshes[p], parts[p], p)
    BY DEF PipelineInv, PartByPart
  <1>3. DOMAIN parts = 1..Len(meshes) /\ DOMAIN meshes = 1..Len(meshes)
    BY <1>1, <1>2, ListFacts DEF AreParts
  <1>4. Composed(scene.mesh, Len(meshes), meshes, parts) /\ scene.shown = Shown /\ Composable(meshes)
    BY DEF PipelineInv, Shows
  <1>5. ASSUME NEW p \in 1..Len(meshes)
        PROVE  meshes[p].object = parts[p].object /\ scene.shown[parts[p].object] = parts[p].visible
    <2>1. meshes[p].object = parts[p].object /\ meshes[p].visible = parts[p].visible
      BY <1>2 DEF IsOnePart
    <2>2. PICK o : o = meshes[p].object
      OBVIOUS
    <2>3. PICK q : q = CHOOSE r \in DOMAIN meshes : meshes[r].object = o
      OBVIOUS
    <2>4. q \in DOMAIN meshes /\ meshes[q].object = o
      BY <1>3, <2>2, <2>3
    <2>5. meshes[q].visible = meshes[p].visible
      BY <1>3, <1>4, <2>2, <2>4 DEF Composable
    <2>6. Shown[o] = meshes[q].visible
      BY <1>3, <2>2, <2>3 DEF Shown
    <2> QED BY <1>4, <2>1, <2>2, <2>5, <2>6
  <1> QED BY <1>1, <1>3, <1>4, <1>5

\* EveryPartShows: a scene that is Ready shows every part its request resolved to
\* (ResolveArmor, ResolveActor or the paths given), from the objects of that part's
\* model and with the visibility asked; after a failure nothing is on screen.
THEOREM PipelineShowsEveryPart == PipelineSpec => []EveryPartShows
  <1>1. ASSUME PipelineInv PROVE EveryPartShows
    <2>1. phase = "idle" /\ outcome # "Ready" => scene = NoScene
      BY <1>1 DEF PipelineInv, Shows
    <2>2. PICK resolved : resolved = Resolve(request).parts
      OBVIOUS
    <2>3. ASSUME outcome = "Ready", NEW p \in DOMAIN resolved
          PROVE  \E d \in Range(scene.draws) :
                   /\ d.object = resolved[p].object
                   /\ Origin(d).part = p
                   /\ Origin(d).shape \in Source(resolved[p])
      <3>1. parts = resolved /\ p \in 1..Len(meshes)
        BY <1>1, <2>2, <2>3, PartsOnScreen
      <3>2. Composed(scene.mesh, Len(meshes), meshes, parts) /\ meshes[p].object = parts[p].object
        BY <1>1, <2>3, <3>1, PartsOnScreen
      <3>3. PICK i \in 1..Len(scene.mesh.draws) : First(scene.mesh, i).part = p
        BY <3>1, <3>2 DEF Composed
      <3>4. /\ First(scene.mesh, i).shape \in UnderPart(parts[p])
            /\ scene.mesh.draws[i].object = meshes[p].object
        BY <3>2, <3>3 DEF Composed
      <3>5. i \in DOMAIN scene.draws
        BY <1>1, ListFacts DEF PipelineInv, Drawable, IsScene, IsBuiltFrom
      <3>6. PICK d : d = scene.draws[i]
        OBVIOUS
      <3>7. d \in Range(scene.draws)
        BY <3>5, <3>6 DEF Range
      <3>8. IsBuilt(d, scene.mesh, i) /\ Origin(d) = First(scene.mesh, i)
        BY <1>1, <3>5, <3>6, OnScreen
      <3>9. d.object = resolved[p].object
        BY <3>1, <3>2, <3>4, <3>8 DEF IsBuilt
      <3>10. Origin(d).part = p /\ Origin(d).shape \in Source(resolved[p])
        BY <3>1, <3>3, <3>4, <3>8, UnderItsSource
      <3> QED BY <3>7, <3>9, <3>10
    <2>4. ASSUME outcome = "Ready", NEW d \in Range(scene.draws)
          PROVE  \E p \in DOMAIN resolved :
                   d.object = resolved[p].object /\ scene.shown[d.object] = resolved[p].visible
      <3>1. PICK i \in DOMAIN scene.draws : d = scene.draws[i]
        BY DEF Range
      <3>2. i \in 1..Len(scene.mesh.draws) /\ IsBuilt(d, scene.mesh, i)
        BY <1>1, <3>1, OnScreen
      <3>3. PICK p : p = First(scene.mesh, i).part
        OBVIOUS
      <3>4. p \in 1..Len(meshes) /\ scene.mesh.draws[i].object = meshes[p].object
        BY <1>1, <2>4, <3>2, <3>3, PartsOnScreen DEF Composed
      <3>5. /\ parts = resolved /\ p \in DOMAIN resolved /\ meshes[p].object = parts[p].object
            /\ scene.shown[parts[p].object] = parts[p].visible
        BY <1>1, <2>2, <2>4, <3>4, PartsOnScreen
      <3>6. d.object = resolved[p].object
        BY <3>2, <3>4, <3>5 DEF IsBuilt
      <3> QED BY <3>5, <3>6
    <2> QED BY <2>1, <2>2, <2>3, <2>4 DEF EveryPartShows, ShowsAll
  <1> QED BY <1>1, PipelineInvariant, PTL

\* DrawsOwnGeometry: through every AppendMesh, from piece to shape to model to scene, a
\* draw keeps the corners of the one piece it was decoded from, and its object.
THEOREM EveryDrawShowsItsOwn == PipelineSpec => []DrawsOwnGeometry
  <1>1. ASSUME PipelineInv PROVE DrawsOwnGeometry
    <2>1. SUFFICES ASSUME outcome = "Ready", NEW d \in Range(scene.draws),
                          NEW origin, origin = Origin(d),
                          NEW indices, indices = Shapes[origin.shape].pieces[origin.piece].g.indices
                   PROVE  /\ d.object = meshes[origin.part].object
                          /\ d.count = Len(indices)
                          /\ \A k \in 1..d.count :
                               scene.mesh.vertices[scene.mesh.indices[d.start + k] + 1] =
                                 [origin EXCEPT !.number = indices[k]]
      BY DEF DrawsOwnGeometry
    <2>2. PICK i \in DOMAIN scene.draws : d = scene.draws[i]
      BY DEF Range
    <2>3. /\ i \in 1..Len(scene.mesh.draws) /\ IsBuilt(d, scene.mesh, i)
          /\ ShowsPiece(scene.mesh, i) /\ origin = First(scene.mesh, i)
      BY <1>1, <2>1, <2>2, OnScreen
    <2>4. PICK m, e : m = scene.mesh /\ e = m.draws[i]
      OBVIOUS
    <2>5. d.object = e.object /\ d.start = e.start /\ d.count = e.count
      BY <2>3, <2>4 DEF IsBuilt
    <2>6. d.object = meshes[origin.part].object
      BY <1>1, <2>1, <2>3, <2>4, <2>5, PartsOnScreen DEF Composed
    <2>7. /\ e.count = Len(indices)
          /\ \A k \in 1..e.count :
               Corner(m, e, k) = [part |-> origin.part, shape |-> origin.shape, piece |-> origin.piece,
                                  number |-> indices[k]]
      BY <2>1, <2>3, <2>4 DEF ShowsPiece
    <2>8. 1 \in 1..e.count
      <3>1. e.count \in Nat /\ e.count # 0
        BY <1>1, <2>3, <2>4 DEF PipelineInv, Drawable, IsScene, Honest, IsMesh, IsDraw, DrawFits
      <3> QED BY <3>1
    <2>9. origin = [part |-> origin.part, shape |-> origin.shape, piece |-> origin.piece,
                    number |-> indices[1]]
      BY <2>3, <2>4, <2>7, <2>8 DEF First
    <2>10. ASSUME NEW k \in 1..d.count
           PROVE  m.vertices[m.indices[d.start + k] + 1] = [origin EXCEPT !.number = indices[k]]
      <3>1. PICK p, s, c, n, j : /\ p = origin.part /\ s = origin.shape /\ c = origin.piece
                                 /\ n = indices[1] /\ j = indices[k]
        OBVIOUS
      <3>2. origin = [part |-> p, shape |-> s, piece |-> c, number |-> n]
        BY <2>9, <3>1
      <3>3. [origin EXCEPT !.number = j] = [part |-> p, shape |-> s, piece |-> c, number |-> j]
        BY <3>2
      <3>4. Corner(m, e, k) = [part |-> p, shape |-> s, piece |-> c, number |-> j]
        BY <2>5, <2>7, <2>10, <3>1
      <3> QED BY <2>5, <3>1, <3>3, <3>4 DEF Corner
    <2> QED BY <2>4, <2>5, <2>6, <2>7, <2>10
  <1> QED BY <1>1, PipelineInvariant, PTL

\* ShapesOnce: Traverse meets an object once however often it is a child, so that the
\* shapes visited are those drawn and skipped, and no piece of a part is drawn twice.
THEOREM ShapesAreExtractedOnce == PipelineSpec => []ShapesOnce
  <1>1. ASSUME PipelineInv PROVE ShapesOnce
    <2>1. ASSUME phase = "walk"
          PROVE  found.accepted + found.skipped = Cardinality(found.visited \cap DOMAIN Shapes)
      BY <1>1, <2>1 DEF PipelineInv, Walking, Extracts, IsExtraction
    <2>2. ASSUME NEW i \in DOMAIN scene.draws, NEW j \in DOMAIN scene.draws, i # j,
                 NEW a, a = Origin(scene.draws[i]), NEW b, b = Origin(scene.draws[j])
          PROVE  <<a.part, a.shape, a.piece>> # <<b.part, b.shape, b.piece>>
      <3>1. i \in 1..Len(scene.mesh.draws) /\ a = First(scene.mesh, i)
        BY <1>1, <2>2, OnScreen
      <3>2. j \in 1..Len(scene.mesh.draws) /\ b = First(scene.mesh, j)
        BY <1>1, <2>2, OnScreen
      <3>3. PieceOf(a) # PieceOf(b)
        BY <1>1, <2>2, <3>1, <3>2 DEF PipelineInv, Drawable, IsScene, Honest
      <3> QED BY <3>3 DEF PieceOf
    <2> QED BY <2>1, <2>2 DEF ShapesOnce
  <1> QED BY <1>1, PipelineInvariant, PTL

\* A texture that is there is in the colours and of the dimension asked.
LEMMA ReadAsAsked ==
  ASSUME NEW path, NEW ask, NEW texture, texture = ReadTexture(path, ask)
  PROVE  texture = NoView \/ (texture.srgb = ask.srgb /\ texture.cube = ask.cube)
  <1>1. PICK srgb, cube : srgb = ask.srgb /\ cube = ask.cube
    OBVIOUS
  <1>2. texture = NoView \/ texture = [path |-> path, srgb |-> srgb, cube |-> cube]
    BY <1>1 DEF ReadTexture
  <1>3. CASE texture = [path |-> path, srgb |-> srgb, cube |-> cube]
    BY <1>1, <1>3
  <1> QED BY <1>2, <1>3

\* The views of a draw that is asked for are as asked.
LEMMA WantedViews ==
  ASSUME NEW d, ViewsAsAsked(d), NEW ask \in Range(Asks(d.material))
  PROVE  d.views[ask.slot] = ReadTexture(NormalizeTextureResourcePath(ask.path), ask)
  <1>1. PICK s : s = Asks(d.material)
    OBVIOUS
  <1>2. IsList(s)
    BY <1>1, AsksFacts DEF Holds, OneEach
  <1>3. DOMAIN s = 1..Len(s)
    BY <1>2, ListFacts
  <1>4. PICK k \in 1..Len(s) : ask = s[k]
    BY <1>1, <1>3 DEF Range
  <1> QED BY <1>1, <1>4 DEF ViewsAsAsked

\* TexturesAsAsked: the texture cache of BuildMeshResources never gives a draw a view
\* read for another colour space or dimension, and the shader takes no branch without it.
THEOREM EveryTextureIsAsAsked == PipelineSpec => []TexturesAsAsked
  <1>1. ASSUME PipelineInv PROVE TexturesAsAsked
    <2>1. SUFFICES ASSUME NEW f \in Range(RenderFrame)
                   PROVE  /\ \A ask \in Range(Asks(f.draw.material)) :
                               f.draw.views[ask.slot]
                                 = ReadTexture(NormalizeTextureResourcePath(ask.path), ask)
                          /\ "faceGen" \in f.flags => \A s \in FaceSlots : f.draw.views[s].srgb
                          /\ "environmentMap" \in f.flags => f.draw.views["environment"].cube
                          /\ f.flags \cap {"normalMap", "modelSpaceNormal"} # {}
                               => ~f.draw.views["normal"].srgb
      BY DEF TexturesAsAsked
    <2>2. PICK i \in DOMAIN scene.draws :
            f = [draw |-> scene.draws[i],
                 flags |-> ShaderFlags(scene.draws[i].material, scene.draws[i].views)]
      BY <2>1 DEF Range, RenderFrame
    <2>3. PICK d, m, views : d = scene.draws[i] /\ m = d.material /\ views = d.views
      OBVIOUS
    <2>4. f.draw = d /\ f.flags = ShaderFlags(m, views)
      BY <2>2, <2>3
    <2>5. ViewsAsAsked(d)
      BY <1>1, <2>3, OnScreen DEF IsBuilt
    <2>6. \A ask \in Range(Asks(m)) :
            views[ask.slot] = ReadTexture(NormalizeTextureResourcePath(ask.path), ask)
      BY <2>3, <2>5, WantedViews
    <2>7. ASSUME NEW s, NEW srgb, NEW cube, AskFor(m, s, srgb, cube) \in Wants(m)
          PROVE  views[s] = NoView \/ (views[s].srgb = srgb /\ views[s].cube = cube)
      <3>1. PICK ask : ask = AskFor(m, s, srgb, cube)
        OBVIOUS
      <3>2. ask \in Range(Asks(m)) /\ ask.slot = s /\ ask.srgb = srgb /\ ask.cube = cube
        BY <2>7, <3>1, AsksFacts DEF Holds, AskFor
      <3>3. PICK path, texture : path = NormalizeTextureResourcePath(ask.path) /\ texture = views[s]
        OBVIOUS
      <3>4. texture = ReadTexture(path, ask)
        BY <2>6, <3>2, <3>3
      <3> QED BY <3>2, <3>3, <3>4, ReadAsAsked
    <2>8. ASSUME "faceGen" \in f.flags, NEW s \in FaceSlots PROVE views[s].srgb
      <3>1. m.feature = "faceGen" /\ views[s] # NoView
        BY <2>4, <2>8 DEF ShaderFlags
      <3>2. AskFor(m, s, TRUE, FALSE) \in Wants(m)
        BY <3>1 DEF Wants, FaceSlots
      <3>3. views[s].srgb = TRUE
        BY <2>7, <3>1, <3>2
      <3> QED BY <3>3
    <2>9. ASSUME "environmentMap" \in f.flags PROVE views["environment"].cube
      <3>1. m.environment /\ views["environment"] # NoView
        BY <2>4, <2>9 DEF ShaderFlags
      <3>2. AskFor(m, "environment", TRUE, TRUE) \in Wants(m)
        BY <3>1 DEF Wants
      <3>3. views["environment"].cube = TRUE
        BY <2>7, <3>1, <3>2
      <3> QED BY <3>3
    <2>10. ASSUME f.flags \cap {"normalMap", "modelSpaceNormal"} # {} PROVE ~views["normal"].srgb
      <3>1. (m.tangentSpace \/ m.modelSpace) /\ views["normal"] # NoView
        BY <2>4, <2>10 DEF ShaderFlags
      <3>2. AskFor(m, "normal", FALSE, FALSE) \in Wants(m)
        BY <3>1 DEF Wants
      <3>3. views["normal"].srgb = FALSE
        BY <2>7, <3>1, <3>2
      <3> QED BY <3>3
    <2> QED BY <2>3, <2>4, <2>6, <2>8, <2>9, <2>10
  <1> QED BY <1>1, PipelineInvariant, PTL
=============================================================================
