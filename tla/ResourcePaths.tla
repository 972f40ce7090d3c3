--------------------------- MODULE ResourcePaths ---------------------------
(***************************************************************************)
(* The paths mods and models name resources by: of models under Data\Meshes*)
(* (Controllers/NifModelPath.h), of textures (Render/NifTexturePath.h) and *)
(* of worn armor (Controllers/NifArmorModelPath.h).                        *)
(*                                                                         *)
(* A path is the sequence of its components, whichever slash separates     *)
(* them; a leading slash is an empty first component.  A component has a   *)
(* name, an extension (a file's name is taken to have one character before *)
(* it, at least) and how the name ends where that is looked at.            *)
(* Letter case is left out (all comparisons ignore it and textures are     *)
(* stored in lower case), and so is the limit of 512 characters.           *)
(***************************************************************************)
EXTENDS Naturals, Sequences

CONSTANT Foul \* names with a colon or a control character

Component(name, ext, mark) == [name |-> name, ext |-> ext, mark |-> mark]
Directory(name) == Component(name, "", "")

NoPath == <<>>

Sound(p) == \A i \in DOMAIN p :
  p[i].name \notin Foul /\ (p[i].ext = "" => p[i].name \notin {"", ".", ".."})

Ends(p, ext) == p # NoPath /\ p[Len(p)].ext = ext

\* A leading directory is dropped, once.
Starts(p, dir)  == Len(p) > 1 /\ p[1] = Directory(dir)
Without(p, dir) == IF Starts(p, dir) THEN Tail(p) ELSE p
Under(p, dir)   == IF Starts(p, dir) THEN p ELSE <<Directory(dir)>> \o p

\* Both give the path a resource is found by, or no path.
NormalizeTextureResourcePath(p) ==
  LET q == Under(Without(p, "data"), "textures")
  IN  IF Sound(p) /\ Sound(q) /\ Ends(q, "dds") THEN q ELSE NoPath

NormalizeNifModelPath(p) ==
  LET q == Without(p, "meshes")
  IN  IF Sound(p) /\ Sound(q) /\ Ends(q, "nif") THEN q ELSE NoPath

-----------------------------------------------------------------------------
(* Armor models: a weighted one is a pair of files that end in _0 and _1.  *)

Mark(p) == p[Len(p)].mark
Marked(p, mark) == [p EXCEPT ![Len(p)].mark = mark]

\* blank.nif and *_blank.nif have no geometry on purpose.
IsIntentionalBlankArmorModelPath(p) == Ends(p, "nif") /\ Mark(p) = "blank"

Unresolved == [low |-> NoPath, high |-> NoPath]

\* The low and the high endpoint; a fixed model has no high one.
ResolveArmorModelPaths(p, weighted) ==
  LET q == NormalizeNifModelPath(p)
  IN  IF q = NoPath THEN Unresolved
      ELSE IF ~weighted THEN [low |-> q, high |-> NoPath]
      ELSE IF Mark(q) \in {"_0", "_1"} THEN [low |-> Marked(q, "_0"), high |-> Marked(q, "_1")]
      ELSE Unresolved
=============================================================================
