---------------------------- MODULE NifMaterials ----------------------------
(***************************************************************************)
(* The material of a shape: read from the shape's shader (ExtractMaterial),*)
(* replaced by an alternate texture (Render/NifTextureOverride.h), and     *)
(* turned into textures and shader flags when the scene is uploaded and    *)
(* drawn (Render/NifPreviewRenderer.cpp).                                  *)
(*                                                                         *)
(* Numbers of the material (colours, opacity, scales) are left out, and so *)
(* are the actor's tints, which no request sets.                           *)
(***************************************************************************)
EXTENDS ResourcePaths, SequencesExt

CONSTANT
  Files   \* the texture files there are, each "2d" or "cube"

ASSUME FilesAssumption == NoPath \notin DOMAIN Files

FaceSlots == {"faceTint", "faceDetail"}
SetSlots  == {"diffuse", "normal", "specular", "environment", "environmentMask"}
Slots     == SetSlots \cup FaceSlots

NoPaths == [s \in Slots |-> NoPath]

PlainMaterial ==
  [path |-> NoPaths, tangentSpace |-> FALSE, modelSpace |-> FALSE,
   environment |-> FALSE, feature |-> "generic"]

\* A normal map is in one of two spaces, if there is one.
WithNormals(m, inModelSpace) ==
  [m EXCEPT !.tangentSpace = ~inModelSpace /\ m.path["normal"] # NoPath,
            !.modelSpace   = inModelSpace /\ m.path["normal"] # NoPath]

\* What the texture set names; the face's textures first, which only a face has,
\* fall back to those the game holds.
SetPath(shader, s) ==
  IF s \in FaceSlots /\ shader.feature # "faceGen" THEN NoPath
  ELSE IF s \in DOMAIN shader.set THEN shader.set[s]
  ELSE IF s \in FaceSlots /\ s \in DOMAIN shader.held THEN shader.held[s]
  ELSE NoPath

FromSet(shader) ==
  LET m == [PlainMaterial EXCEPT
              !.feature = shader.feature, !.path = [s \in Slots |-> SetPath(shader, s)]]
  IN  [WithNormals(m, shader.modelSpace) EXCEPT !.environment =
         shader.feature = "environmentMap" /\ shader.reflects /\ m.path["environment"] # NoPath]

\* ExtractMaterial: of a live actor the textures the game holds are preferred.
ExtractMaterial(shader, live) ==
  LET m == FromSet(shader)
      held == [m EXCEPT !.path = [s \in Slots |->
                 IF s \in {"diffuse", "normal", "specular"} \cap DOMAIN shader.held
                 THEN shader.held[s] ELSE m.path[s]]]
  IN  IF ~shader.lighting THEN PlainMaterial
      ELSE IF live THEN WithNormals(held, shader.modelSpace)
      ELSE m

-----------------------------------------------------------------------------
(* Alternate textures of an armor model, by a shape's name or its number.  *)

\* FindTextureOverride: the first of its name, else the first of its number;
\* 0 when there is none.
FindTextureOverride(overrides, name, index) ==
  LET named  == {k \in DOMAIN overrides : name # "" /\ overrides[k].name = name}
      placed == {k \in DOMAIN overrides : overrides[k].index = index}
      First(ks) == CHOOSE k \in ks : \A j \in ks : k <= j
  IN  IF named # {} THEN First(named) ELSE IF placed # {} THEN First(placed) ELSE 0

\* ApplyTextureOverride: every path is replaced, and whether the normals are in
\* tangent space; that the shape's were in model space stays.
ApplyTextureOverride(m, o) ==
  [m EXCEPT !.path = [s \in Slots |->
              IF s = "specular" /\ o.noSpecular THEN NoPath
              ELSE IF s \in SetSlots THEN o.set[s] ELSE m.path[s]],
            !.tangentSpace = ~o.modelSpace /\ o.set["normal"] # NoPath,
            !.environment = m.environment /\ o.set["environment"] # NoPath]

-----------------------------------------------------------------------------
(* Textures.                                                               *)

\* What a draw asks for, in the order it does: a slot's path, whether its colours
\* are sRGB, and whether it must be a cube.
Asks(m) ==
  LET Ask(s, srgb, cube) == <<[slot |-> s, path |-> m.path[s], srgb |-> srgb, cube |-> cube]>>
  IN  Ask("diffuse", TRUE, FALSE)
      \o (IF m.tangentSpace \/ m.modelSpace THEN Ask("normal", FALSE, FALSE) ELSE <<>>)
      \o Ask("specular", FALSE, FALSE)
      \o (IF m.environment
          THEN Ask("environment", TRUE, TRUE) \o Ask("environmentMask", FALSE, FALSE) ELSE <<>>)
      \o (IF m.feature = "faceGen"
          THEN Ask("faceTint", TRUE, FALSE) \o Ask("faceDetail", TRUE, FALSE) ELSE <<>>)

NoView == [path |-> NoPath, srgb |-> FALSE, cube |-> FALSE]

\* The file read and decoded as asked, if it is there and of the right dimension.
ReadTexture(path, ask) ==
  IF path \in DOMAIN Files /\ Files[path] = (IF ask.cube THEN "cube" ELSE "2d")
  THEN [path |-> path, srgb |-> ask.srgb, cube |-> ask.cube]
  ELSE NoView

\* Mutant of CacheKey: the colour space is not part of it.
KeyWithoutColours(path, ask) == <<path, FALSE, ask.cube>>

CacheKey(path, ask) == <<path, ask.srgb, ask.cube>>

\* LoadTextureResource: [view, cache], where what could not be read is cached too.
LoadTextureResource(ask, cache) ==
  LET path == NormalizeTextureResourcePath(ask.path)
      key  == CacheKey(path, ask)
      view == IF key \in DOMAIN cache THEN cache[key] ELSE ReadTexture(path, ask)
  IN  IF ask.path = NoPath \/ path = NoPath
      THEN [view |-> NoView, cache |-> cache]
      ELSE [view |-> view,
            cache |-> [k \in DOMAIN cache \cup {key} |-> IF k = key THEN view ELSE cache[k]]]

\* One texture more of a draw.
AddView(acc, ask) ==
  LET loaded == LoadTextureResource(ask, acc.cache)
  IN  [views |-> [s \in Slots |-> IF s = ask.slot THEN loaded.view ELSE acc.views[s]],
       cache |-> loaded.cache]

\* The textures of one draw: [views, cache].
LoadTextures(m, cache) ==
  LET asks == Asks(m)
      upTo[k \in 0..Len(asks)] ==
        IF k = 0 THEN [views |-> [s \in Slots |-> NoView], cache |-> cache]
        ELSE AddView(upTo[k - 1], asks[k])
  IN  upTo[Len(asks)]

\* RenderFrame: the branches of the shader a draw takes.
ShaderFlags(m, views) ==
  {f \in {"normalMap", "modelSpaceNormal", "faceGen", "specularMap", "environmentMap"} :
     CASE f = "normalMap"        -> m.tangentSpace /\ views["normal"] # NoView
       [] f = "modelSpaceNormal" -> m.modelSpace /\ views["normal"] # NoView
       [] f = "faceGen"          -> m.feature = "faceGen" /\ \A s \in FaceSlots : views[s] # NoView
       [] f = "specularMap"      -> views["specular"] # NoView
       [] f = "environmentMap"   -> m.environment /\ views["environment"] # NoView}
=============================================================================
