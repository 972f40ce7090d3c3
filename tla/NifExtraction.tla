---------------------------- MODULE NifExtraction ----------------------------
(***************************************************************************)
(* From the shapes of Skyrim's scene graph to the mesh of a preview        *)
(* (Render/SkyrimNifExtractor.cpp): what one shape gives, rigid or skinned,*)
(* and what a visit of one object of the graph adds to the extraction.     *)
(*                                                                         *)
(* Transforms are kept as far as they decide: whether an object's own is   *)
(* finite, whether a bone's can be inverted.  Positions are not computed:  *)
(* a vertex is where it comes from.  Actor tints are left out.             *)
(***************************************************************************)
EXTENDS NifMaterials, PreviewMesh

CONSTANTS
  Children,        \* the scene graph: the children of an object
  Shapes,          \* the objects that are shapes, and what each holds
  Finite,          \* the objects whose transform is finite
  Culled,          \* the objects the game does not draw
  MaxSkinBones, MaxSkinPartitions, MaxPartitionBones

SceneObjects == DOMAIN Children

\* Children stand in a list, and only objects there are have a transform.
ASSUME GraphAssumption ==
  /\ IsFiniteSet(SceneObjects) /\ Finite \subseteq SceneObjects
  /\ \A o \in SceneObjects : Children[o] \in Seq(SceneObjects)

\* A shape has a number of vertices and a list of pieces, each with its indices.
ASSUME ShapesAssumption ==
  \A o \in DOMAIN Shapes :
    /\ Shapes[o].n \in Nat /\ Shapes[o].skinned \in BOOLEAN
    /\ Shapes[o].pieces \in Seq(Range(Shapes[o].pieces))
    /\ Shapes[o].skinned \/ Len(Shapes[o].pieces) = 1
    /\ \A k \in DOMAIN Shapes[o].pieces :
         /\ "indices" \in DOMAIN Shapes[o].pieces[k].g
         /\ Shapes[o].pieces[k].g.indices \in Seq(Nat)

-----------------------------------------------------------------------------
(* A shape: [name, shader, n, pieces, skinned] and, when it is skinned,    *)
(* [bones, declared, dynamic, data]: its bones, the number of partitions   *)
(* the header names, and the bytes of its own positions when it has any.   *)
(* A rigid shape is of one piece, a skinned one of one for each partition. *)

\* The positions of a dynamic shape stand beside its vertices.
PositionStream(shape) ==
  IF shape.skinned /\ shape.dynamic
  THEN [bytes |-> 16 * shape.n, stride |-> 16, offset |-> 0] ELSE NoStream

\* The GPU does not give back what a buffer holds.
Unreadable(g) == [g EXCEPT !.vertexBuffer.bytes = 0, !.indexBuffer.bytes = 0]

Verdict(shape, g, lost) ==
  DecodeRendererGeometry(IF lost THEN Unreadable(g) ELSE g,
                         shape.n, shape.skinned, PositionStream(shape))

\* A decoded piece: its vertices tell where they come from, and it is one draw.
PieceMesh(origin, shape, k, material) ==
  [vertices |-> [v \in 1..shape.n |->
                   [part |-> origin.part, shape |-> origin.shape, piece |-> k, number |-> v - 1]],
   indices  |-> shape.pieces[k].g.indices,
   draws    |-> <<[object |-> 0, start |-> 0, count |-> Len(shape.pieces[k].g.indices),
                   material |-> material]>>]

Material(shape, live, override) ==
  LET m == ExtractMaterial(shape.shader, live)
  IN  IF override = <<>> THEN m ELSE ApplyTextureOverride(m, Head(override))

Result(is, mesh) == [is |-> is, mesh |-> mesh]

ExtractRigidShape(origin, shape, material, lost) ==
  LET verdict == Verdict(shape, shape.pieces[1].g, 1 \in lost)
  IN  Result(verdict, IF verdict = "Accepted" THEN PieceMesh(origin, shape, 1, material) ELSE NoMesh)

\* BuildSkinBones: a bone outside the model is put back from its bind pose.
BuildSkinBones(shape, transforms) ==
  CASE shape.bones = <<>> -> "Unsupported"
    [] Len(shape.bones) > MaxSkinBones -> "Malformed"
    [] \E b \in DOMAIN shape.bones :
         shape.bones[b].object \notin transforms /\ ~shape.bones[b].invertible -> "Malformed"
    [] OTHER -> "Accepted"

\* ApplyBindPoseSkinning: every influence is a bone and every vertex has one.
Skins(shape, piece) ==
  /\ \A b \in DOMAIN shape.bones : shape.bones[b].finite
  /\ \A i \in piece.influences : i < Len(shape.bones)
  /\ ~piece.weightless

\* The partitions, before any of them is read.
PartitionsAre(shape) ==
  CASE shape.declared = 0 -> "Unsupported"
    [] Len(shape.pieces) = 0 \/ Len(shape.pieces) > MaxSkinPartitions
         \/ Len(shape.pieces) # shape.declared -> "Malformed"
    [] shape.n = 0 \/ shape.n > MaxPreviewVertices -> "Malformed"
    [] shape.dynamic /\ shape.data < 16 * shape.n -> "Malformed"
    [] OTHER -> "Accepted"

\* The bones a partition names, and how many vertices it says it has.
PartitionIsSound(shape, piece) ==
  /\ Len(piece.palette) \in 1..MaxPartitionBones
  /\ \A i \in DOMAIN piece.palette : piece.palette[i] < Len(shape.bones)
  /\ piece.vertices \in 1..shape.n

\* Mutant of AppendPartition: the partitions that can be read are kept.
AppendsWhatItCan(acc, origin, shape, k, material, lost) ==
  LET piece   == shape.pieces[k]
      decoded == PieceMesh(origin, shape, k, material)
  IN  IF Verdict(shape, piece.g, k \in lost) = "Accepted" /\ CanAppend(acc.mesh, decoded)
      THEN Result("Accepted", Appended(acc.mesh, decoded)) ELSE acc

\* One partition after another; the first that fails decides for the shape.
AppendPartition(acc, origin, shape, k, material, lost) ==
  LET piece   == shape.pieces[k]
      verdict == Verdict(shape, piece.g, k \in lost)
      decoded == PieceMesh(origin, shape, k, material)
  IN  CASE acc.is # "Accepted" -> acc
        [] ~PartitionIsSound(shape, piece) -> Result("Malformed", NoMesh)
        [] verdict # "Accepted" -> Result(verdict, NoMesh)
        [] ~Skins(shape, piece) \/ ~CanAppend(acc.mesh, decoded) -> Result("Malformed", NoMesh)
        [] OTHER -> Result("Accepted", Appended(acc.mesh, decoded))

Partitions(origin, shape, material, lost) ==
  LET upTo[k \in 0..Len(shape.pieces)] ==
        IF k = 0 THEN Result("Accepted", NoMesh)
        ELSE AppendPartition(upTo[k - 1], origin, shape, k, material, lost)
  IN  upTo[Len(shape.pieces)]

ExtractSkinnedShape(origin, shape, transforms, material, lost) ==
  LET bones == BuildSkinBones(shape, transforms)
  IN  IF bones # "Accepted" THEN Result(bones, NoMesh)
      ELSE IF PartitionsAre(shape) # "Accepted" THEN Result(PartitionsAre(shape), NoMesh)
      ELSE Partitions(origin, shape, material, lost)

\* lost is the set of its pieces the GPU does not give back.
ExtractShape(origin, shape, transforms, material, lost) ==
  IF shape.skinned THEN ExtractSkinnedShape(origin, shape, transforms, material, lost)
  ELSE ExtractRigidShape(origin, shape, material, lost)

-----------------------------------------------------------------------------
(* An extraction (ExtractionResult, and what Traverse keeps beside it).    *)

NoExtraction ==
  [mesh |-> NoMesh, accepted |-> 0, skipped |-> 0, matched |-> 0,
   next |-> 0, visited |-> {}, malformed |-> FALSE, unreadable |-> FALSE]

\* What a shape gave is appended, or counted and left out.
Counted(x, r) ==
  LET whole == r.is = "Accepted" /\ CanAppend(x.mesh, r.mesh)
  IN  IF whole
      THEN [x EXCEPT !.mesh = Appended(@, r.mesh), !.accepted = @ + 1]
      ELSE [x EXCEPT !.skipped = @ + 1,
                     !.malformed  = @ \/ r.is \in {"Accepted", "Malformed"},
                     !.unreadable = @ \/ r.is = "ReadbackFailed"]

\* A shape takes the next number, and the texture its name or number calls for.
VisitShape(x, node, part, overrides, live, transforms, lost) ==
  LET shape == Shapes[node]
      found == FindTextureOverride(overrides, shape.name, x.next)
      material == Material(shape, live, IF found = 0 THEN <<>> ELSE <<overrides[found]>>)
  IN  Counted([x EXCEPT !.next = @ + 1, !.matched = @ + (IF found = 0 THEN 0 ELSE 1)],
              ExtractShape([part |-> part, shape |-> node], shape, transforms, material, lost))

\* Mutant of Enters: nothing remembers what was visited.
EntersAgain(x, node, live, transforms) ==
  ~(live /\ node \in Culled) /\ node \in transforms

\* Traverse looks at an object and goes on to its children.
Enters(x, node, live, transforms) ==
  node \notin x.visited /\ ~(live /\ node \in Culled) /\ node \in transforms

\* Traverse, one object: a culled one and one without a transform end it there.
Visit(x, node, part, overrides, live, transforms, lost) ==
  LET seen == [x EXCEPT !.visited = @ \cup {node}]
  IN  CASE Enters(x, node, live, transforms) ->
             IF node \in DOMAIN Shapes
             THEN VisitShape(seen, node, part, overrides, live, transforms, lost) ELSE seen
        [] node \in x.visited -> x
        [] node \notin x.visited /\ live /\ node \in Culled ->
             [seen EXCEPT !.skipped = @ + (IF node \in DOMAIN Shapes THEN 1 ELSE 0)]
        [] OTHER -> [seen EXCEPT !.malformed = TRUE]

\* What is told of an extraction once the graph was walked.
ExtractionStatus(x) ==
  CASE ~Empty(x.mesh) -> "Success"
    [] x.unreadable   -> "GpuReadbackFailed"
    [] x.malformed    -> "MalformedGeometry"
    [] OTHER          -> "NoSupportedGeometry"
=============================================================================
