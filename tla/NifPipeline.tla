----------------------------- MODULE NifPipeline -----------------------------
(***************************************************************************)
(* One NIF request from the mod's call to the scene on screen: accepted or *)
(* refused, resolved to parts on the game's task thread, extracted object  *)
(* by object when the surface is next presented, weighted, composed and    *)
(* uploaded.  How several requests, clears, toggles and the surface's end  *)
(* interleave is NifLoads; here one request is taken at a time and seen to *)
(* its end.                                                                *)
(*                                                                         *)
(* Traverse and the two that collect transforms are recursive; here each   *)
(* has the stack of objects it has still to visit, first child on top.     *)
(***************************************************************************)
EXTENDS NifRequests, NifExtraction

CONSTANTS
  Requests,        \* the requests a mod may make
  Models,          \* the models there are: path -> root
  MaxNodes, MaxDepth,   \* MAX_MODEL_NODES, MAX_MODEL_DEPTH
  MaxRequests,     \* bound: requests made
  NoRequest

\* A request names its kind, and one for objects lists them.
ASSUME RequestsAssumption ==
  \A r \in Requests :
    /\ r.kind \in {"scene", "weighted", "armor", "actor"}
    /\ r.kind # "actor" => r.objects \in Seq(Range(r.objects))

VARIABLES
  request, answer, made,   \* the request in hand, what its caller was told, how many were made
  phase,
  parts, at, endpoint,     \* what the request resolved to, the part and the endpoint in hand
  stack, transforms,       \* the objects still to visit, those with a transform
  found,                   \* the extraction in hand
  low,                     \* the mesh of the low endpoint
  meshes,                  \* SceneMeshInput of every part so far
  detached,                \* objects that left the actor's 3D since the task ran
  scene, outcome,          \* what is on screen, and what GetStatus tells
  leftOut                  \* history: the shapes this request's parts go without

hand == <<parts, at, endpoint, stack, transforms, found, low, meshes>>
pipelineVars == <<request, answer, made, phase, hand, detached, scene, outcome, leftOut>>

Outcomes == {"Empty", "Loading", "Ready", "Unsupported", "Failed"}
Phases   == {"idle", "resolve", "demand", "submitted", "collect", "walk", "compose"}

NoScene == [mesh |-> NoMesh, draws |-> <<>>, shown |-> <<>>]

Live(part) == "roots" \in DOMAIN part
part == parts[at]

PipelineInit ==
  /\ request = NoRequest /\ answer = TRUE /\ made = 0
  /\ phase = "idle"
  /\ parts = <<>> /\ at = 1 /\ endpoint = "low"
  /\ stack = <<>> /\ transforms = {} /\ found = NoExtraction /\ low = NoMesh /\ meshes = <<>>
  /\ detached = {}
  /\ scene = NoScene /\ outcome = "Empty" /\ leftOut = {}

-----------------------------------------------------------------------------
(* The mod's call and the game's task.                                     *)

\* A request that is refused leaves the scene alone; one that is not leaves it on
\* screen until the new one is there or has failed.
Ask(r) ==
  /\ phase = "idle" /\ made < MaxRequests
  /\ made' = made + 1
  /\ answer' = Accepts(r)
  /\ IF Accepts(r)
     THEN request' = r /\ phase' = "resolve" /\ outcome' = "Loading"
     ELSE UNCHANGED <<request, phase, outcome>>
  /\ UNCHANGED <<hand, detached, scene, leftOut>>

\* FailLoad, and what Prepare does when a step of its own fails.
Fails(why) ==
  /\ phase' = "idle"
  /\ scene' = NoScene
  /\ outcome' = why

TaskResolves ==
  LET resolved == Resolve(request)
  IN  /\ phase = "resolve"
      /\ parts' = resolved.parts
      /\ at' = 1 /\ meshes' = <<>> /\ detached' = {} /\ leftOut' = {}
      /\ IF resolved.ok
         THEN /\ phase' = IF request.kind = "actor" THEN "submitted" ELSE "demand"
              /\ UNCHANGED <<scene, outcome>>
         ELSE Fails("Unsupported")
      /\ UNCHANGED <<request, answer, made, endpoint, stack, transforms, found, low>>

\* LoadAndSubmitRequestedScene: both endpoints of every part, or nothing.
TaskDemands ==
  /\ phase = "demand"
  /\ IF \A k \in DOMAIN parts :
          /\ parts[k].low \in DOMAIN Models
          /\ parts[k].high # NoPath => parts[k].high \in DOMAIN Models
     THEN phase' = "submitted" /\ UNCHANGED <<scene, outcome>>
     ELSE Fails("Failed")
  /\ UNCHANGED <<request, answer, made, hand, detached, leftOut>>

\* The game changes what a loaded actor wears before the surface is presented.
ActorChanges(object) ==
  /\ phase = "submitted" /\ Live(part)
  /\ object \in Range(part.roots) \ detached
  /\ detached' = detached \cup {object}
  /\ UNCHANGED <<request, answer, made, phase, hand, scene, outcome, leftOut>>

-----------------------------------------------------------------------------
(* Prepare: one extraction for every endpoint of every part.               *)

Begins(root) ==
  /\ stack' = <<[object |-> root, depth |-> 0]>>
  /\ transforms' = {}
  /\ found' = NoExtraction
  /\ phase' = "collect"

BeginsPart(p) ==
  /\ endpoint' = "low"
  /\ Begins(IF Live(p) THEN p.root ELSE Models[p.low])

PrepareStarts ==
  /\ phase = "submitted"
  /\ BeginsPart(part)
  /\ UNCHANGED <<request, answer, made, parts, at, low, meshes, detached, scene, outcome, leftOut>>

\* The children of an object, each one deeper.
Below(top) ==
  LET children == Children[top.object]
      there    == Picked(children, {k \in DOMAIN children : children[k] \notin detached})
  IN  [k \in DOMAIN there |-> [object |-> there[k], depth |-> top.depth + 1]]

\* CollectObjectTransforms and CollectLiveObjectTransforms, one object: too deep,
\* too many or a transform that is not finite ends the extraction.
Collect ==
  LET top == Head(stack)
  IN  /\ phase = "collect" /\ stack # <<>>
      /\ IF \/ top.depth > MaxDepth \/ Cardinality(transforms) >= MaxNodes
            \/ top.object \notin transforms \cup Finite
         THEN /\ Fails("Failed")
              /\ UNCHANGED <<stack, transforms>>
         ELSE /\ transforms' = transforms \cup {top.object}
              /\ stack' = (IF top.object \in transforms THEN <<>> ELSE Below(top)) \o Tail(stack)
              /\ UNCHANGED <<phase, scene, outcome>>
      /\ UNCHANGED <<request, answer, made, parts, at, endpoint, found, low, meshes, detached,
                     leftOut>>

\* Of an actor only the roots that are still in its 3D are walked.
WalkStarts ==
  LET roots == IF Live(part) THEN part.roots
               ELSE <<Models[IF endpoint = "low" THEN part.low ELSE part.high]>>
      there == Picked(roots, {k \in DOMAIN roots : roots[k] \in transforms})
  IN  /\ phase = "collect" /\ stack = <<>>
      /\ phase' = "walk"
      /\ stack' = [k \in DOMAIN there |-> [object |-> there[k], depth |-> 0]]
      /\ found' = [found EXCEPT !.malformed = Len(there) < Len(roots)]
      /\ UNCHANGED <<request, answer, made, parts, at, endpoint, transforms, low, meshes,
                     detached, scene, outcome, leftOut>>

\* History: a shape of the endpoint that will be drawn was skipped.
Skips(object) ==
  leftOut' = IF endpoint = "low" /\ found'.skipped # found.skipped
             THEN leftOut \cup {<<at, object>>} ELSE leftOut

Overrides == IF Live(part) THEN <<>> ELSE part.overrides

\* Traverse, one object; the GPU may fail to give one of its pieces back.
Walk(lost) ==
  LET top == Head(stack)
  IN  /\ phase = "walk" /\ stack # <<>>
      /\ found' = Visit(found, top.object, at, Overrides, Live(part), transforms, lost)
      /\ stack' = (IF Enters(found, top.object, Live(part), transforms) THEN Below(top) ELSE <<>>)
                    \o Tail(stack)
      /\ Skips(top.object)
      /\ UNCHANGED <<request, answer, made, phase, parts, at, endpoint, transforms, low, meshes,
                     detached, scene, outcome>>

-----------------------------------------------------------------------------
(* Prepare, after an extraction.                                           *)

Extracted == phase = "walk" /\ stack = <<>> /\ ExtractionStatus(found) = "Success"

HasHigh == ~Live(part) /\ part.high # NoPath

\* One endpoint that gives nothing fails the whole scene.
ExtractionFails ==
  /\ phase = "walk" /\ stack = <<>>
  /\ ExtractionStatus(found) # "Success"
  /\ Fails(IF ExtractionStatus(found) = "NoSupportedGeometry" THEN "Unsupported" ELSE "Failed")
  /\ UNCHANGED <<request, answer, made, hand, detached, leftOut>>

\* The low endpoint of a weighted model: the high one is next.
LowExtracted ==
  /\ Extracted /\ HasHigh /\ endpoint = "low"
  /\ low' = found.mesh
  /\ endpoint' = "high"
  /\ Begins(Models[part.high])
  /\ UNCHANGED <<request, answer, made, parts, at, meshes, detached, scene, outcome, leftOut>>

\* Why the part cannot be part of the scene, or None: its endpoints do not agree,
\* or it is too large for what room is left.
PartFailure(weighted) ==
  LET mesh == weighted.mesh
  IN  CASE weighted.is = "TopologyMismatch" -> "Unsupported"
        [] weighted.is # "None" -> "Failed"
        [] \/ Len(mesh.vertices) + TotalVertices(meshes) > MaxSceneVertices
           \/ Len(mesh.indices) + TotalIndices(meshes) > MaxSceneIndices -> "Failed"
        [] OTHER -> "None"

PartExtracted ==
  LET weighted == IF HasHigh THEN InterpolateWeightMeshes(low, found.mesh)
                  ELSE [is |-> "None", mesh |-> found.mesh]
      failure == PartFailure(weighted)
  IN  /\ Extracted /\ (HasHigh => endpoint = "high")
      /\ IF failure # "None" THEN Fails(failure) /\ UNCHANGED meshes
         ELSE /\ meshes' = Append(meshes,
                   [object |-> part.object, visible |-> part.visible, mesh |-> weighted.mesh])
              /\ at < Len(parts) \/ phase' = "compose"
              /\ UNCHANGED <<scene, outcome>>
      /\ IF failure = "None" /\ at < Len(parts)
         THEN at' = at + 1 /\ BeginsPart(parts[at + 1])
         ELSE UNCHANGED <<at, endpoint, stack, transforms, found>>
      /\ UNCHANGED <<request, answer, made, parts, low, detached, leftOut>>

\* ComposeScene: the meshes of all parts behind each other.
ComposeScene ==
  LET upTo[p \in 0..Len(meshes)] ==
        IF p = 0 THEN NoMesh ELSE Appended(upTo[p - 1], Owned(meshes[p]))
  IN  upTo[Len(meshes)]

\* A draw with its textures, if it fits.
AddDraw(acc, d, mesh) ==
  LET loaded == LoadTextures(d.material, acc.cache)
  IN  IF ~DrawFits(d, mesh) THEN acc
      ELSE [draws |-> Append(acc.draws, [object |-> d.object, start |-> d.start,
                        count |-> d.count, material |-> d.material, views |-> loaded.views]),
            cache |-> loaded.cache]

\* BuildMeshResources: one draw after another, with a cache that begins empty.
BuildMeshResources(mesh) ==
  LET upTo[k \in 0..Len(mesh.draws)] ==
        IF k = 0 THEN [draws |-> <<>>, cache |-> <<>>]
        ELSE AddDraw(upTo[k - 1], mesh.draws[k], mesh)
  IN  upTo[Len(mesh.draws)].draws

\* The first part of an object tells whether it is shown.
Shown == [o \in {meshes[p].object : p \in DOMAIN meshes} |->
            meshes[CHOOSE p \in DOMAIN meshes : meshes[p].object = o].visible]

\* InitializeGraphics and the creation of the buffers work, or not.
Publish(works) ==
  LET mesh == ComposeScene
  IN  /\ phase = "compose"
      /\ IF works /\ Composable(meshes) /\ BuildMeshResources(mesh) # <<>>
         THEN /\ scene' = [mesh |-> mesh, draws |-> BuildMeshResources(mesh), shown |-> Shown]
              /\ outcome' = "Ready"
              /\ phase' = "idle"
         ELSE Fails("Failed")
      /\ UNCHANGED <<request, answer, made, hand, detached, leftOut>>

\* RenderFrame: the draws of the objects that are shown, each with its branches of
\* the shader.
RenderFrame ==
  LET draw(k) == scene.draws[k]
  IN  [k \in {j \in DOMAIN scene.draws : scene.shown[draw(j).object]} |->
         [draw |-> draw(k), flags |-> ShaderFlags(draw(k).material, draw(k).views)]]

\* The pieces of a shape that can fail to be read back.
Losses(object) == IF object \in DOMAIN Shapes THEN DOMAIN Shapes[object].pieces ELSE {}

PipelineNext ==
  \/ \E r \in Requests : Ask(r)
  \/ TaskResolves
  \/ TaskDemands
  \/ \E object \in SceneObjects : ActorChanges(object)
  \/ PrepareStarts
  \/ Collect
  \/ WalkStarts
  \/ Walk({})
  \/ stack # <<>> /\ \E k \in Losses(Head(stack).object) : Walk({k})
  \/ ExtractionFails
  \/ LowExtracted
  \/ PartExtracted
  \/ \E works \in BOOLEAN : Publish(works)

PipelineSpec == PipelineInit /\ [][PipelineNext]_pipelineVars

-----------------------------------------------------------------------------
(* Properties.                                                             *)

\* The objects at or under one: no path down to one is longer than there are objects.
Reach(object) ==
  LET upTo[k \in 0..Cardinality(SceneObjects)] ==
        IF k = 0 THEN {object}
        ELSE LET above == upTo[k - 1] IN above \cup UNION {Range(Children[o]) : o \in above}
  IN  upTo[Cardinality(SceneObjects)]

\* Where the geometry of a part may come from.
Source(p) == IF Live(p) THEN UNION {Reach(r) : r \in Range(p.roots)} ELSE Reach(Models[p.low])

Origin(d) == scene.mesh.vertices[scene.mesh.indices[d.start + 1] + 1]

\* Every part has a draw of its own model, and every draw is shown or hidden as a
\* part of its object is.
ShowsAll(resolved) ==
  /\ \A p \in DOMAIN resolved : \E d \in Range(scene.draws) :
       /\ d.object = resolved[p].object
       /\ Origin(d).part = p
       /\ Origin(d).shape \in Source(resolved[p])
  /\ \A d \in Range(scene.draws) : \E p \in DOMAIN resolved :
       d.object = resolved[p].object /\ scene.shown[d.object] = resolved[p].visible

\* The draws of one shape of a part.
DrawsOf(p, o) == {d \in Range(scene.draws) : Origin(d).part = p /\ Origin(d).shape = o}

\* Of each model, every shape its graph has is drawn with all of its pieces, or was
\* left out and none of it is drawn.
ShowsEveryShape(resolved) ==
  \A p \in {q \in DOMAIN resolved : ~Live(resolved[q])} :
    \A o \in Source(resolved[p]) \cap DOMAIN Shapes :
      {Origin(d).piece : d \in DrawsOf(p, o)} =
        IF <<p, o>> \in leftOut THEN {} ELSE DOMAIN Shapes[o].pieces

\* A scene is published or it is not: when the request is Ready, every part it
\* resolved to, and every object it asked for but armor that is blank on purpose, is
\* on screen with geometry of its own model and the visibility asked; after a
\* failure nothing is on screen, and a request that was refused changes nothing.
EveryPartShows ==
  phase = "idle" =>
    IF outcome = "Ready" THEN ShowsAll(Resolve(request).parts) ELSE scene = NoScene

\* And it is published whole: of the model of a part that is Ready no shape is lost
\* or drawn by half but those its extraction skipped and counted.
WholeOrNothing ==
  /\ EveryPartShows
  /\ phase = "idle" /\ outcome = "Ready" => ShowsEveryShape(Resolve(request).parts)

\* What the author guide says of armor: a model that is missing, malformed or not
\* supported fails the request rather than give an incomplete outfit.
OutfitIsComplete ==
  phase = "idle" /\ outcome = "Ready" /\ request.kind = "armor" => leftOut = {}

\* What a draw draws is one piece of one shape, vertex by vertex as that shape has
\* it, whatever was appended before it, piece to shape to model to scene; and the
\* part it comes from is the one of its object.
DrawsOwnGeometry ==
  outcome = "Ready" => \A d \in Range(scene.draws) :
    LET origin  == Origin(d)
        indices == Shapes[origin.shape].pieces[origin.piece].g.indices
    IN  /\ d.object = meshes[origin.part].object
        /\ d.count = Len(indices)
        /\ \A k \in 1..d.count :
             scene.mesh.vertices[scene.mesh.indices[d.start + k] + 1] =
               [origin EXCEPT !.number = indices[k]]

\* However an object is reached, it is extracted once: no piece is drawn twice in a
\* part, and every shape visited was drawn or counted as skipped.
ShapesOnce ==
  /\ phase = "walk" => found.accepted + found.skipped = Cardinality(found.visited \cap DOMAIN Shapes)
  /\ \A i, j \in DOMAIN scene.draws :
       i # j => LET a == Origin(scene.draws[i])
                    b == Origin(scene.draws[j])
                IN  <<a.part, a.shape, a.piece>> # <<b.part, b.shape, b.piece>>

\* Every texture a frame is drawn with is the file its material names, decoded in
\* the colour space and of the dimension this use of it asks for, whichever draw
\* read the file first; and the shader takes a branch only with its textures.
TexturesAsAsked ==
  \A f \in Range(RenderFrame) :
    /\ \A ask \in Range(Asks(f.draw.material)) :
         f.draw.views[ask.slot] = ReadTexture(NormalizeTextureResourcePath(ask.path), ask)
    /\ "faceGen" \in f.flags => \A s \in FaceSlots : f.draw.views[s].srgb
    /\ "environmentMap" \in f.flags => f.draw.views["environment"].cube
    /\ f.flags \cap {"normalMap", "modelSpaceNormal"} # {} => ~f.draw.views["normal"].srgb

PipelineTypeOK ==
  /\ request \in Requests \cup {NoRequest} /\ answer \in BOOLEAN /\ made \in 0..MaxRequests
  /\ phase \in Phases /\ outcome \in Outcomes
  /\ at \in Nat \ {0} /\ endpoint \in {"low", "high"}
  /\ transforms \subseteq SceneObjects /\ detached \subseteq SceneObjects
  /\ \A k \in DOMAIN stack : stack[k].object \in SceneObjects
=============================================================================
