------------------------------ MODULE NifLoads ------------------------------
(***************************************************************************)
(* The NIF previews of one native surface (Meridian.NifView and            *)
(* Meridian.NifScene): mods ask for scenes from their own threads, the     *)
(* game's task thread loads the models and hands them to the surface's     *)
(* NifPreviewRenderer, and the present hook's Prepare extracts, builds and *)
(* draws what it finds handed over.                                        *)
(*                                                                         *)
(* A request takes a generation number first and makes itself the          *)
(* surface's requested one afterwards, so the numbers say nothing of the   *)
(* order; a result that is not of the requested generation is dropped      *)
(* wherever it is met.  The status is an atomic that Prepare stores        *)
(* outside the lock the requests hold.                                     *)
(*                                                                         *)
(* What a load finds in the game's data (NifRequests) and in the models    *)
(* (NifPipeline) is its outcome here.                                      *)
(***************************************************************************)
EXTENDS Naturals, Sequences, FiniteSets, Functions

CONSTANTS
  Loaders, Clearers, \* the threads that ask for scenes, and that clear them
  Objects,     \* the handles scenes give their objects
  Offers,      \* the scenes asked for: which objects, and are they visible?
  MaxLoads,    \* bound: the generations taken
  MaxAsks      \* bound: the calls of SetObjectVisible, SetCamera and FrameModel

ASSUME BoundsAssumption ==
  MaxLoads \in Nat /\ MaxAsks \in Nat

ASSUME OffersAssumption ==
  Offers \subseteq UNION {[shown : [S -> BOOLEAN], framed : BOOLEAN] :
                            S \in (SUBSET Objects) \ {{}}}

Callers == Loaders \cup Clearers

VARIABLES
  calls,       \* what each caller is in the middle of
  tasks,       \* the loads queued to the game's task thread
  task,        \* the load that thread works on
  next,        \* NextNifLoadGeneration's counter
  requested,   \* m_requestedGeneration
  status,      \* m_status
  pending,     \* m_pendingSceneBatch, or none
  clearDue,    \* m_clearPending
  toggles,     \* m_pendingVisibility
  camera,      \* m_camera: where it looks from, and its zoom and pan
  dirty,       \* m_cameraDirty
  model,       \* the generation whose buffers exist, 0 when none do
  visibility,  \* m_sceneVisibility
  graphics,    \* InitializeGraphics: not tried, up on the game's device or on
               \* one of our own that shares its frames, or failed for good
  frame,       \* the last frame drawn
  lent,        \* the transport's m_gameOwnedSlot >= 0
  prep,        \* Prepare on the render thread: where it is, what it took
  view,        \* what NativeSurfaceMenu draws: a frame or the checkerboard
  down,        \* the surface's BeginShutdown
  gone,        \* the interfaces shut down too, or the surface destroyed
  asked,       \* those calls so far
  begun,       \* history: the generations in the order they were begun
  built,       \* history: the place in begun of the newest scene built
  wish,        \* history: the objects toggled since the last load began
  strays,      \* history: objects whose toggle met another scene than its own
  raced        \* history: has Prepare stored a status over a newer request's?

callVars   == <<calls, tasks, task, next, asked>>
sharedVars == <<requested, pending, clearDue, toggles>>
sceneVars  == <<model, visibility, graphics>>
shownVars  == <<frame, view, lent>>
endVars    == <<down, gone>>
history    == <<begun, built, wish, strays, raced>>
vars == <<callVars, sharedVars, status, camera, dirty, sceneVars, shownVars,
          prep, endVars, history>>

\* Failed stands for Unsupported too.
Statuses == {"Empty", "Loading", "Ready", "Failed", "ShuttingDown"}
Generations == 1..MaxLoads
Nothing == [x \in {} |-> FALSE]            \* a map with no entry
Visibilities == UNION {[S -> BOOLEAN] : S \in SUBSET Objects}

NoBatch == [generation |-> 0, scene |-> [shown |-> Nothing, framed |-> FALSE]]
NoCall  == [at |-> "idle", batch |-> NoBatch]
Checkerboard == [of |-> 0, shown |-> Nothing, camera |-> [turn |-> 0, zoom |-> 0]]
IdlePrep == [at |-> "idle", clear |-> FALSE, batch |-> NoBatch, toggles |-> Nothing,
             whose |-> 0, changed |-> FALSE]

Cameras == [turn : 0..1, zoom : 0..1]
Frames  == [of : 0..MaxLoads, shown : Visibilities, camera : Cameras]
Batches == {NoBatch} \cup [generation : Generations, scene : Offers]

TypeOK ==
  /\ calls \in [Callers -> [at : {"idle", "load", "clear", "task"},
                            batch : {NoBatch} \cup
                              [generation : Generations, scene : Offers \cup {NoBatch.scene}]]]
  /\ tasks \in Seq(Batches \ {NoBatch})
  /\ task \in [at : {"idle", "load", "submit"}, batch : Batches]
  /\ next \in 1..(MaxLoads + 1) /\ requested \in 0..MaxLoads
  /\ status \in Statuses /\ pending \in Batches /\ clearDue \in BOOLEAN
  /\ toggles \in Visibilities /\ camera \in Cameras /\ dirty \in BOOLEAN
  /\ model \in 0..MaxLoads /\ visibility \in Visibilities
  /\ graphics \in {"untried", "game", "shared", "dead"}
  /\ frame \in Frames /\ view \in Frames /\ lent \in BOOLEAN
  /\ prep \in [at : {"idle", "taken", "build", "toggles", "render", "show"},
               clear : BOOLEAN, batch : Batches, toggles : Visibilities,
               whose : 0..MaxLoads, changed : BOOLEAN]
  /\ down \in {"no", "flagged", "done"} /\ gone \in BOOLEAN
  /\ begun \in Seq(Generations) /\ built \in 0..MaxLoads
  /\ wish \in Visibilities /\ strays \subseteq Objects /\ raced \in BOOLEAN

Init ==
  /\ calls = [c \in Callers |-> NoCall] /\ tasks = <<>> /\ task = NoCall
  /\ next = 1 /\ asked = 0
  /\ requested = 0 /\ pending = NoBatch /\ clearDue = FALSE /\ toggles = Nothing
  /\ status = "Empty" /\ camera = [turn |-> 0, zoom |-> 0] /\ dirty = FALSE
  /\ model = 0 /\ visibility = Nothing /\ graphics = "untried"
  /\ frame = Checkerboard /\ view = Checkerboard /\ lent = FALSE /\ prep = IdlePrep
  /\ down = "no" /\ gone = FALSE
  /\ begun = <<>> /\ built = 0 /\ wish = Nothing /\ strays = {} /\ raced = FALSE

ShuttingDown == down # "no"

-----------------------------------------------------------------------------
(* The calls of mods.                                                      *)

\* What a call that only concerns the renderer's shared part leaves alone.
RenderKept == UNCHANGED <<sceneVars, shownVars, prep, endVars>>

\* LoadModel and the Replace calls, once they found the request sound, and the
\* Clear calls take a generation of the counter all surfaces share.
TakesGeneration(c) ==
  /\ calls[c] = NoCall /\ ~gone /\ next <= MaxLoads
  /\ \/ /\ c \in Loaders /\ ~ShuttingDown
        /\ \E s \in Offers :
             calls' = [calls EXCEPT ![c] =
               [at |-> "load", batch |-> [generation |-> next, scene |-> s]]]
     \/ /\ c \in Clearers
        /\ calls' = [calls EXCEPT ![c] =
               [at |-> "clear", batch |-> [NoBatch EXCEPT !.generation = next]]]
  /\ next' = next + 1
  /\ UNCHANGED <<tasks, task, asked, sharedVars, status, camera, dirty, history>>
  /\ RenderKept

\* Everything a new request drops; a request that meets the shutdown does nothing.
BecomesRequested(g, clears, s) ==
  IF ShuttingDown
  THEN UNCHANGED <<sharedVars, status, history>>
  ELSE /\ requested' = g /\ status' = s
       /\ pending' = NoBatch /\ clearDue' = clears /\ toggles' = Nothing
       /\ begun' = Append(begun, g) /\ wish' = Nothing /\ strays' = {}
       /\ UNCHANGED <<built, raced>>

\* NifPreviewRenderer::BeginLoad.
BeginLoad(c) ==
  /\ calls[c].at = "load"
  /\ BecomesRequested(calls[c].batch.generation, FALSE, "Loading")
  /\ calls' = [calls EXCEPT ![c].at = "task"]
  /\ UNCHANGED <<tasks, task, next, asked, camera, dirty>> /\ RenderKept

\* Mutant of Clear: what is drawn is not cleared.
ClearLeavesScene(c) ==
  /\ calls[c].at = "clear"
  /\ BecomesRequested(calls[c].batch.generation, FALSE, "Empty")
  /\ calls' = [calls EXCEPT ![c] = NoCall]
  /\ UNCHANGED <<tasks, task, next, asked, camera, dirty>> /\ RenderKept

\* NifPreviewRenderer::Clear.
Clear(c) ==
  /\ calls[c].at = "clear"
  /\ BecomesRequested(calls[c].batch.generation, TRUE, "Empty")
  /\ calls' = [calls EXCEPT ![c] = NoCall]
  /\ UNCHANGED <<tasks, task, next, asked, camera, dirty>> /\ RenderKept

\* The load is queued to the game's task thread.
AddTask(c) ==
  /\ calls[c].at = "task"
  /\ tasks' = Append(tasks, calls[c].batch)
  /\ calls' = [calls EXCEPT ![c] = NoCall]
  /\ UNCHANGED <<task, next, asked, sharedVars, status, camera, dirty, history>>
  /\ RenderKept

\* m: b, the newer entries of m first.
With(m, o, b) == [x \in DOMAIN m \cup {o} |-> IF x = o THEN b ELSE m[x]]

\* SetObjectVisible: the wish waits for the next Prepare.
SetObjectVisible(o, b) ==
  /\ ~gone /\ ~ShuttingDown /\ asked < MaxAsks
  /\ asked' = asked + 1
  /\ toggles' = With(toggles, o, b)
  /\ wish' = With(wish, o, b) /\ strays' = strays \ {o}
  /\ UNCHANGED <<calls, tasks, task, next, requested, pending, clearDue,
                 status, camera, dirty, begun, built, raced>>
  /\ RenderKept

\* SetCamera and FrameModel write the camera under its lock, then mark it dirty;
\* FrameModel, for a scene that is ready, sets zoom and pan back and keeps the turn.
Poses(pose) ==
  /\ ~gone /\ ~ShuttingDown
  /\ camera' = pose /\ dirty' = TRUE
  /\ UNCHANGED <<calls, tasks, task, next, sharedVars, status, history>>
  /\ RenderKept

SetCamera ==
  /\ asked < MaxAsks /\ asked' = asked + 1
  /\ Poses([turn |-> 1 - camera.turn, zoom |-> 1])

FrameScene ==
  /\ status = "Ready" /\ asked < MaxAsks /\ asked' = asked + 1
  /\ Poses([camera EXCEPT !.zoom = 0])

-----------------------------------------------------------------------------
(* The game's task thread.                                                 *)

\* The task returns at once when the interface or the surface is gone.
TaskStarts ==
  /\ task = NoCall /\ tasks # <<>>
  /\ tasks' = Tail(tasks)
  /\ task' = IF gone THEN NoCall ELSE [at |-> "load", batch |-> Head(tasks)]
  /\ UNCHANGED <<calls, next, asked, sharedVars, status, camera, dirty, history>>
  /\ RenderKept

\* Mutant of TaskFails: the failure is told to nobody.
TaskFailsSilently ==
  /\ task.at = "load"
  /\ task' = NoCall
  /\ UNCHANGED <<calls, tasks, next, asked, sharedVars, status, camera, dirty, history>>
  /\ RenderKept

\* FailNifLoad: the records or the models were not there, or not usable.
TaskFails ==
  /\ task.at = "load"
  /\ task' = NoCall
  /\ IF ~ShuttingDown /\ task.batch.generation = requested
     THEN /\ pending' = NoBatch /\ clearDue' = TRUE /\ toggles' = Nothing
          /\ status' = "Failed"
     ELSE UNCHANGED <<pending, clearDue, toggles, status>>
  /\ UNCHANGED <<calls, tasks, next, asked, requested, camera, dirty, history>>
  /\ RenderKept

\* Every model was loaded; SubmitSceneBatch looks at the shutdown before it locks.
TaskLoads ==
  /\ task.at = "load"
  /\ task' = IF gone \/ ShuttingDown THEN NoCall ELSE [task EXCEPT !.at = "submit"]
  /\ UNCHANGED <<calls, tasks, next, asked, sharedVars, status, camera, dirty, history>>
  /\ RenderKept

\* Mutant of TaskSubmits: the load handed over makes itself the requested one.
TaskSubmitsAsRequested ==
  /\ task.at = "submit"
  /\ task' = NoCall
  /\ pending' = task.batch /\ requested' = task.batch.generation /\ clearDue' = FALSE
  /\ UNCHANGED <<calls, tasks, next, asked, toggles, status, camera, dirty, history>>
  /\ RenderKept

\* Under the lock only the generation is looked at.
TaskSubmits ==
  /\ task.at = "submit"
  /\ task' = NoCall
  /\ IF task.batch.generation = requested
     THEN pending' = task.batch /\ clearDue' = FALSE
     ELSE UNCHANGED <<pending, clearDue>>
  /\ UNCHANGED <<calls, tasks, next, asked, requested, toggles, status,
                 camera, dirty, history>>
  /\ RenderKept

-----------------------------------------------------------------------------
(* Prepare, by the render thread at every present.                         *)

CallsKept == UNCHANGED <<callVars, endVars>>

\* What was handed over is taken under the lock, all of it.
PrepareTakes ==
  /\ prep.at = "idle" /\ ~ShuttingDown
  /\ prep' = [at |-> "taken", clear |-> clearDue, batch |-> pending,
              toggles |-> toggles, whose |-> requested, changed |-> FALSE]
  /\ clearDue' = FALSE /\ pending' = NoBatch /\ toggles' = Nothing
  /\ UNCHANGED <<requested, status, camera, dirty, sceneVars, shownVars, history>>
  /\ CallsKept

\* ResetModelResources.
ResetModelResources ==
  model' = 0 /\ visibility' = Nothing /\ dirty' = FALSE

\* A clear is carried out, and a batch that is still the requested one is built.
PrepareChecks ==
  /\ prep.at = "taken"
  /\ IF prep.clear THEN ResetModelResources
                   ELSE UNCHANGED <<model, visibility, dirty>>
  /\ prep' = [prep EXCEPT !.at =
       IF prep.batch # NoBatch /\ prep.batch.generation = requested
       THEN "build" ELSE "toggles"]
  /\ UNCHANGED <<sharedVars, status, camera, graphics, shownVars, history>>
  /\ CallsKept

\* History: the status of a batch is stored when another request came meanwhile.
Overtakes(g) == raced' = (raced \/ g # requested)

\* Place(s, x): where x stands in s.
Place(s, x) == CHOOSE i \in DOMAIN s : s[i] = x

\* InitializeGraphics is tried once: the device, shaders and transport it makes
\* are kept, and a failure to make them is final.  The host's setting says whose
\* device it is.
InitializeGraphics(succeeds) ==
  /\ succeeds => graphics # "dead"
  /\ IF graphics = "untried"
     THEN graphics' \in (IF succeeds THEN {"game", "shared"} ELSE {"dead"})
     ELSE UNCHANGED graphics

\* Extracted, composed and uploaded: the old scene is replaced, and the camera is
\* framed by FrameModel if the load asked for that.
BuildSucceeds ==
  /\ prep.at = "build"
  /\ InitializeGraphics(TRUE)
  /\ model' = prep.batch.generation
  /\ visibility' = prep.batch.scene.shown
  /\ status' = "Ready"
  /\ camera' = IF prep.batch.scene.framed /\ ~ShuttingDown
               THEN [camera EXCEPT !.zoom = 0] ELSE camera
  /\ dirty' = TRUE
  /\ prep' = [prep EXCEPT !.at = "toggles"]
  /\ built' = Place(begun, model')
  /\ Overtakes(model')
  /\ UNCHANGED <<sharedVars, shownVars, begun, wish, strays>>
  /\ CallsKept

\* Any of it failed: nothing is left of the old scene either.
BuildFails ==
  /\ prep.at = "build"
  /\ ResetModelResources
  /\ \/ UNCHANGED graphics
     \/ \E succeeds \in BOOLEAN : InitializeGraphics(succeeds)
  /\ status' = "Failed"
  /\ prep' = [prep EXCEPT !.at = "toggles"]
  /\ Overtakes(prep.batch.generation)
  /\ UNCHANGED <<sharedVars, camera, shownVars, begun, built, wish, strays>>
  /\ CallsKept

\* Mutant of PutBack: what waits on replaces what was queued since.
PutBackAnyway(o) ==
  IF o \notin DOMAIN visibility /\ status = "Loading"
  THEN toggles' = With(toggles, o, prep.toggles[o])
  ELSE UNCHANGED toggles

\* A toggle of an object of the scene is applied; one of an unknown object waits
\* on while a load is under way, unless a newer toggle of it was queued since.
PutBack(o) ==
  IF o \notin DOMAIN visibility /\ status = "Loading" /\ o \notin DOMAIN toggles
  THEN toggles' = With(toggles, o, prep.toggles[o])
  ELSE UNCHANGED toggles

PrepareToggles(o) ==
  /\ prep.at = "toggles" /\ o \in DOMAIN prep.toggles
  /\ LET applies == o \in DOMAIN visibility /\ visibility[o] # prep.toggles[o]
     IN  /\ visibility' = IF applies THEN [visibility EXCEPT ![o] = prep.toggles[o]]
                                     ELSE visibility
         /\ prep' = [prep EXCEPT
              !.toggles = [x \in DOMAIN prep.toggles \ {o} |-> prep.toggles[x]],
              !.changed = @ \/ applies]
  /\ PutBack(o)
  /\ strays' = IF prep.whose = requested /\
                  (model = requested \/ (o \notin DOMAIN visibility /\ status = "Loading"))
               THEN strays ELSE strays \cup {o}
  /\ UNCHANGED <<requested, pending, clearDue, status, camera, dirty, model, graphics,
                 shownVars, begun, built, wish, raced>>
  /\ CallsKept

\* Mutant of PrepareDecides: only the camera and the size are looked at.
PrepareDecidesByCamera ==
  /\ prep.at = "toggles" /\ prep.toggles = Nothing
  /\ \E resized \in BOOLEAN :
       LET draws == status = "Ready" /\ (resized \/ dirty)
       IN  /\ prep' = [prep EXCEPT !.at = IF draws THEN "render" ELSE "show",
                                   !.changed = FALSE]
           /\ dirty' = (dirty /\ (~draws \/ resized))
  /\ UNCHANGED <<sharedVars, status, camera, sceneVars, shownVars, history>> /\ CallsKept

\* A scene that is ready is drawn when it, the camera or the surface's size
\* changed; a new size leaves the mark of the others standing.
PrepareDecides ==
  /\ prep.at = "toggles" /\ prep.toggles = Nothing
  /\ \E resized \in BOOLEAN :
       LET stale == dirty \/ prep.changed
           draws == status = "Ready" /\ (resized \/ stale)
       IN  /\ prep' = [prep EXCEPT !.at = IF draws THEN "render" ELSE "show",
                                   !.changed = FALSE]
           /\ dirty' = (stale /\ (~draws \/ resized))
  /\ UNCHANGED <<sharedVars, status, camera, sceneVars, shownVars, history>> /\ CallsKept

\* The frame of the scene there is, as its toggles and the camera last left it.
SceneNow == [of |-> model, shown |-> visibility, camera |-> camera]

\* RenderFrame, with the camera as it is now; it needs buffers to draw.
RenderSucceeds ==
  /\ prep.at = "render" /\ model # 0 /\ ~ShuttingDown
  /\ frame' = SceneNow
  /\ prep' = [prep EXCEPT !.at = "show"]
  /\ UNCHANGED <<sharedVars, status, camera, dirty, sceneVars, view, lent, history>>
  /\ CallsKept

\* Targets or a ring of a new size are not to be had (a ring that lends a slot is
\* not built anew), or the drawing fails: there is no frame of what was to be drawn.
RenderFails ==
  /\ prep.at = "render"
  /\ status' = "Failed"
  /\ frame' = Checkerboard
  /\ prep' = [prep EXCEPT !.at = "show"]
  /\ Overtakes(model)
  /\ UNCHANGED <<sharedVars, camera, dirty, sceneVars, view, lent, begun, built, wish,
                 strays>>
  /\ CallsKept

\* Is the view the transport's?  A slot it lends is never given back here: only
\* the layers of pages call ReleaseConsumedFrame.
TransportHolds == graphics = "shared" /\ lent

\* The last frame of a scene that is ready: the target itself on the game's
\* device, and otherwise what ConsumeSRV lends, which lends one slot at a time.
GetSurfaceView ==
  IF status = "Ready" /\ ~ShuttingDown /\ ~TransportHolds THEN frame ELSE Checkerboard

\* NativeSurfaceMenu::Prepare: the model's frame, or else the checkerboard.
PrepareShows ==
  /\ prep.at = "show"
  /\ view' = GetSurfaceView
  /\ lent' = (lent \/ (graphics = "shared" /\ GetSurfaceView # Checkerboard))
  /\ prep' = IdlePrep
  /\ UNCHANGED <<sharedVars, status, camera, dirty, sceneVars, frame, history>>
  /\ CallsKept

-----------------------------------------------------------------------------
(* The surface shuts down: flagged and not ready, then cleared and told.   *)

FlagsShutdown == down = "no" /\ down' = "flagged" /\ UNCHANGED <<sharedVars, status>>

TellsShutdown ==
  /\ down = "flagged" /\ down' = "done"
  /\ pending' = NoBatch /\ clearDue' = TRUE /\ toggles' = Nothing
  /\ status' = "ShuttingDown"
  /\ UNCHANGED requested

BeginShutdown ==
  /\ FlagsShutdown \/ TellsShutdown
  /\ UNCHANGED <<callVars, camera, dirty, sceneVars, shownVars, prep, gone, history>>

\* The interfaces follow, or the surface is released.
GoesAway ==
  /\ down = "done" /\ ~gone
  /\ gone' = TRUE
  /\ UNCHANGED <<callVars, sharedVars, status, camera, dirty, sceneVars, shownVars, prep,
                 down, history>>

-----------------------------------------------------------------------------
CallStep(c) == BeginLoad(c) \/ Clear(c) \/ AddTask(c)

TaskStep == TaskStarts \/ TaskFails \/ TaskLoads \/ TaskSubmits

PrepareStep ==
  \/ PrepareTakes \/ PrepareChecks \/ BuildSucceeds \/ BuildFails
  \/ PrepareDecides \/ RenderSucceeds \/ RenderFails \/ PrepareShows
  \/ \E o \in Objects : PrepareToggles(o)

Next ==
  \/ \E c \in Callers : TakesGeneration(c) \/ CallStep(c)
  \/ \E o \in Objects, b \in BOOLEAN : SetObjectVisible(o, b)
  \/ SetCamera \/ FrameScene
  \/ TaskStep \/ PrepareStep \/ BeginShutdown \/ GoesAway

\* A call and a shutdown that were begun go on, the game runs its tasks, and
\* every present prepares the surface; nobody has to make a call.
Fairness ==
  /\ \A c \in Callers : WF_vars(CallStep(c))
  /\ WF_vars(TaskStep)
  /\ WF_vars(PrepareStep)
  /\ WF_vars(ShuttingDown /\ BeginShutdown)

Spec == Init /\ [][Next]_vars /\ Fairness

-----------------------------------------------------------------------------
(* Properties.                                                             *)

\* Nothing is under way: no call, no task, no batch, no toggle, no Prepare.
Settled ==
  /\ \A c \in Callers : calls[c] = NoCall
  /\ tasks = <<>> /\ task = NoCall /\ pending = NoBatch /\ ~clearDue
  /\ toggles = Nothing /\ prep = IdlePrep /\ down = "no"

\* The scenes built follow the order in which their loads were begun: a scene
\* that was replaced never comes back from an older load that took longer.
OrderKept ==
  [][model' \notin {0, model} => Place(begun, model') > built]_vars

\* Once all is settled the surface has the scene that was asked for last or
\* none, its status says which unless Prepare stored one over a newer request's,
\* and no load is left unanswered.
SettledScene ==
  Settled => /\ model \in {0, requested}
             /\ status # "Loading"
             /\ status = "Ready" /\ ~raced => model = requested

\* What is drawn: the checkerboard without a scene that is ready; with one, that
\* scene, nothing of it missed, or the checkerboard if the transport lent its
\* one view to an earlier present.
ViewTellsScene ==
  Settled /\ ~dirty /\ ~raced =>
    IF status = "Ready" THEN view = SceneNow \/ (TransportHolds /\ view = Checkerboard)
                        ELSE view = Checkerboard

\* The same of every surface: the mesh replaces the checkerboard and stays.
ViewTellsEveryScene ==
  Settled /\ ~dirty /\ ~raced =>
    view = IF status = "Ready" THEN SceneNow ELSE Checkerboard

\* An object is shown as it was last toggled since the load of its scene was
\* begun, and otherwise as the load said: a toggle that comes while the models
\* are loaded waits for them, and the newer of two toggles wins.
ToggleKept ==
  Settled /\ status = "Ready" /\ ~raced =>
    \A o \in (DOMAIN visibility \cap DOMAIN wish) \ strays : visibility[o] = wish[o]

\* A load is answered: it does not stay Loading.
LoadAnswered == (status = "Loading") ~> (status # "Loading")

\* The same without an exception for a scene that replaces one with the same
\* object: the intent is preserved until the object arrives.
ToggleSurvivesLoad ==
  Settled /\ status = "Ready" /\ ~raced /\ requested = model =>
    \A o \in DOMAIN visibility \cap DOMAIN wish : visibility[o] = wish[o]
=============================================================================
