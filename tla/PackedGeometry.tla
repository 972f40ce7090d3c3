--------------------------- MODULE PackedGeometry ---------------------------
(***************************************************************************)
(* The decoder of Skyrim's packed vertices (Render/PackedGeometryDecoder.h)*)
(* and the step in front of it that reads a shape's buffers                *)
(* (DecodeRendererGeometry in Render/SkyrimNifExtractor.cpp).              *)
(*                                                                         *)
(* A buffer is its length in bytes, a layout says where in a vertex each   *)
(* attribute stands, and what the bytes say of a vertex is one of Contents.*)
(***************************************************************************)
EXTENDS Integers, Sequences

CONSTANTS MaxPreviewVertices, MaxPreviewIndices

ASSUME PreviewLimits == MaxPreviewVertices \in Nat /\ MaxPreviewIndices \in Nat

Attributes == {"position", "normal", "tangent", "uv", "skinning"}

\* What is read of a vertex: positions are wider when they carry a tangent.
Width(a, l) ==
  CASE a = "position" -> IF "tangent" \in l.has THEN 16 ELSE 12
    [] a = "skinning" -> 12
    [] OTHER          -> 4

\* Where an attribute stands in a vertex of so many bytes.
Layouts == [stride : Nat, has : SUBSET Attributes, offset : [Attributes -> Nat]]

\* A stream of positions beside the vertices; of 0 bytes: there is none.
Streams  == [bytes : Nat, stride : Nat, offset : Nat]
NoStream == [bytes |-> 0, stride |-> 0, offset |-> 0]

Contents == {"sound", "infinite", "badWeights"}

Fits(offset, width, stride) == offset <= stride /\ width <= stride - offset

\* Every attribute there is fits into a vertex; a position is always read.
LayoutIsValid(l, stream) ==
  /\ l.stride # 0
  /\ IF stream.bytes # 0
     THEN stream.stride # 0 /\ Fits(stream.offset, Width("position", l), stream.stride)
     ELSE Fits(l.offset["position"], Width("position", l), l.stride)
  /\ \A a \in l.has \ {"position"} : Fits(l.offset[a], Width(a, l), l.stride)

\* The last position begins early enough.
StreamIsTruncated(n, l, stream) ==
  /\ stream.bytes # 0
  /\ \/ ~Fits(stream.offset, Width("position", l), stream.bytes)
     \/ n - 1 > (stream.bytes - stream.offset - Width("position", l)) \div stream.stride

\* The first vertex that does not decode tells.
Flaw(contents) ==
  LET bad == {v \in DOMAIN contents : contents[v] # "sound"}
  IN  IF bad = {} THEN "sound"
      ELSE contents[CHOOSE v \in bad : \A w \in bad : v <= w]

\* The checks in the order the decoder makes them.
DecodePackedGeometry(bytes, n, contents, indices, l, stream) ==
  CASE n = 0 \/ indices = <<>> -> "EmptyGeometry"
    [] n > MaxPreviewVertices \/ Len(indices) > MaxPreviewIndices -> "TooLarge"
    [] ~LayoutIsValid(l, stream) -> "InvalidLayout"
    [] StreamIsTruncated(n, l, stream) -> "TruncatedVertexBuffer"
    [] n > bytes \div l.stride -> "TruncatedVertexBuffer"
    [] Len(indices) % 3 # 0 -> "InvalidIndexCount"
    [] Flaw(contents) = "infinite" -> "NonFiniteVertex"
    [] Flaw(contents) = "badWeights" -> "InvalidSkinWeights"
    [] \E k \in DOMAIN indices : indices[k] >= n -> "IndexOutOfRange"
    [] OTHER -> "None"

\* What is read while vertex i is decoded: the attributes there are, and for a
\* tangent the fourth byte where the normal stands or would stand.
VertexReads(l, stream, i) ==
  LET at(offset, width) == [from |-> i * l.stride + offset, width |-> width]
  IN  {at(l.offset[a], Width(a, l)) : a \in l.has \ {"position"}}
      \cup (IF "tangent" \in l.has THEN {at(l.offset["normal"] + 3, 1)} ELSE {})
      \cup (IF stream.bytes = 0 THEN {at(l.offset["position"], Width("position", l))} ELSE {})

StreamRead(l, stream, i) ==
  [from |-> i * stream.stride + stream.offset, width |-> Width("position", l)]

-----------------------------------------------------------------------------
(* What Skyrim's vertex descriptor says becomes the layout.                *)

\* Vertex descriptors: the size of a vertex and the attributes it names.
Descriptors == Layouts

\* An attribute the descriptor does not have keeps the offset 0.
LayoutOf(d) ==
  [stride |-> d.stride, has |-> d.has,
   offset |-> [a \in Attributes |-> IF a \in d.has THEN d.offset[a] ELSE 0]]

\* A buffer as the renderer has it: the bytes themselves, whose length is taken
\* to be what is needed, or a GPU buffer of a certain size that is copied.
Copied(buffer, required) == buffer.raw \/ (required # 0 /\ required <= buffer.bytes)

\* DecodeRendererGeometry: a decoded mesh, or why there is none.
DecodeRendererGeometry(g, n, skinned, stream) ==
  LET l == LayoutOf(g.desc)
  IN  CASE n = 0 \/ g.indices = <<>> -> "Unsupported"
        [] "position" \notin l.has /\ stream.bytes = 0 -> "Unsupported"
        [] skinned /\ "skinning" \notin l.has -> "Unsupported"
        [] l.stride = 0 \/ n > MaxPreviewVertices \/ Len(g.indices) > MaxPreviewIndices -> "Malformed"
        [] ~Copied(g.vertexBuffer, n * l.stride) -> "ReadbackFailed"
        [] ~Copied(g.indexBuffer, 2 * Len(g.indices)) -> "ReadbackFailed"
        [] DecodePackedGeometry(n * l.stride, n, g.contents, g.indices, l, stream) # "None" -> "Malformed"
        [] OTHER -> "Accepted"
=============================================================================
