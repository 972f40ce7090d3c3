---------------------------- MODULE PreviewMesh ----------------------------
(***************************************************************************)
(* The meshes a preview is put together from (Render/NifPreviewMesh.h): how*)
(* one is appended to another (AppendMesh), how two endpoints of a weighted*)
(* model are mixed (Render/NifWeightInterpolation.h) and how the parts of a*)
(* scene become one mesh (Render/NifSceneComposition.h).                   *)
(*                                                                         *)
(* A vertex is whatever tells where it comes from; indices count from 0.   *)
(***************************************************************************)
EXTENDS PackedGeometry, FiniteSets, SequencesExt

CONSTANTS
  MaxSceneParts, MaxSceneObjects,       \* SceneCompositionLimits
  MaxSceneVertices, MaxSceneIndices

NoMesh == [vertices |-> <<>>, indices |-> <<>>, draws |-> <<>>]

Meshes(Vertex, Draw) == [vertices : Seq(Vertex), indices : Seq(Nat), draws : Seq(Draw)]

\* Bounds are valid as soon as a vertex was included.
Empty(m) == m.vertices = <<>> \/ m.indices = <<>>

\* A draw range of at least one index, all of them there.
DrawFits(d, m) ==
  d.count # 0 /\ d.start <= Len(m.indices) /\ d.count <= Len(m.indices) - d.start

CanAppend(m, s) ==
  /\ ~Empty(s)
  /\ Len(m.vertices) + Len(s.vertices) <= MaxPreviewVertices
  /\ Len(m.indices) + Len(s.indices) <= MaxPreviewIndices
  /\ \A k \in DOMAIN s.draws : DrawFits(s.draws[k], s)

\* Mutant of Appended: indices are rebased by where the indices begin.
AppendedAtIndices(m, s) ==
  [vertices |-> m.vertices \o s.vertices,
   indices  |-> m.indices \o [k \in DOMAIN s.indices |-> s.indices[k] + Len(m.indices)],
   draws    |-> m.draws \o
     [k \in DOMAIN s.draws |-> [s.draws[k] EXCEPT !.start = @ + Len(m.indices)]]]

\* s behind m: its indices and its draw ranges are moved.
Appended(m, s) ==
  [vertices |-> m.vertices \o s.vertices,
   indices  |-> m.indices \o [k \in DOMAIN s.indices |-> s.indices[k] + Len(m.vertices)],
   draws    |-> m.draws \o
     [k \in DOMAIN s.draws |-> [s.draws[k] EXCEPT !.start = @ + Len(m.indices)]]]

-----------------------------------------------------------------------------
(* The two endpoints of a weighted model.                                  *)

SameTopology(low, high) ==
  /\ Len(low.vertices) = Len(high.vertices)
  /\ low.indices = high.indices
  /\ Len(low.draws) = Len(high.draws)
  /\ \A k \in DOMAIN low.draws :
       /\ low.draws[k].start = high.draws[k].start
       /\ low.draws[k].count = high.draws[k].count

\* Vertices in between, draws and materials of the low endpoint; the weight is
\* part of a vertex's position, which is left out.
InterpolateWeightMeshes(low, high) ==
  IF Empty(low) \/ Empty(high) \/ low.draws = <<>> \/ high.draws = <<>>
  THEN [is |-> "EmptyMesh", mesh |-> NoMesh]
  ELSE IF ~SameTopology(low, high) THEN [is |-> "TopologyMismatch", mesh |-> NoMesh]
  ELSE [is |-> "None", mesh |-> low]

-----------------------------------------------------------------------------
(* The scene: the meshes of its parts, each with the handle of its object. *)

\* A part is what ComposeScene is given of it: [object, visible, mesh].
TotalVertices(parts) == FoldLeft(LAMBDA sum, p : sum + Len(p.mesh.vertices), 0, parts)
TotalIndices(parts)  == FoldLeft(LAMBDA sum, p : sum + Len(p.mesh.indices), 0, parts)

\* One object has one visibility, every part has something to draw, and neither
\* the parts, the objects nor the whole scene are too many or too large.
Composable(parts) ==
  /\ Len(parts) \in 1..MaxSceneParts
  /\ 0 \notin {parts[p].object : p \in DOMAIN parts}
  /\ Cardinality({parts[p].object : p \in DOMAIN parts}) <= MaxSceneObjects
  /\ \A p, q \in DOMAIN parts :
       parts[p].object = parts[q].object => parts[p].visible = parts[q].visible
  /\ \A p \in DOMAIN parts :
       LET m == parts[p].mesh
       IN  /\ ~Empty(m) /\ m.draws # <<>>
           /\ \A k \in DOMAIN m.indices : m.indices[k] < Len(m.vertices)
           /\ \A k \in DOMAIN m.draws : DrawFits(m.draws[k], m)
  /\ TotalVertices(parts) <= MaxSceneVertices
  /\ TotalIndices(parts) <= MaxSceneIndices

\* The draws of a part are its object's.
Owned(part) ==
  [part.mesh EXCEPT !.draws = [k \in DOMAIN @ |-> [@[k] EXCEPT !.object = part.object]]]
=============================================================================
