---------------------------- MODULE MCNifPipeline ----------------------------
(* A handful of models, two armor records with the cases of their addons,  *)
(* and one loaded actor whose hood hangs below its head: small, and every  *)
(* way a request can end is among them.                                    *)
EXTENDS NifPipeline, TLC

CONSTANT NoOne

Nif(name, mark) == <<Component(name, "nif", mark)>>
Texture(name)   == <<Directory("textures"), Component(name, "dds", "")>>
Short(name)     == <<Component(name, "dds", "")>>

SmallFiles ==
  Texture("steel") :> "2d" @@ Texture("steel_n") :> "2d" @@ Texture("sky") :> "cube"
    @@ Texture("skin") :> "2d"

-----------------------------------------------------------------------------
(* Buffers and shapes.                                                     *)

Offsets(p, n, t, u, w) == "position" :> p @@ "normal" :> n @@ "tangent" :> t @@ "uv" :> u @@ "skinning" :> w

RigidDesc == [stride |-> 20, has |-> {"position", "normal", "uv"}, offset |-> Offsets(0, 12, 0, 16, 0)]
SkinDesc  == [stride |-> 40, has |-> Attributes, offset |-> Offsets(0, 16, 20, 24, 28)]
BareDesc  == [stride |-> 20, has |-> {"normal", "uv", "skinning"}, offset |-> Offsets(0, 0, 0, 4, 8)]

Buffers(desc, n, indices, raw) ==
  [desc |-> desc, indices |-> indices, contents |-> [v \in 0..(n - 1) |-> "sound"],
   vertexBuffer |-> [raw |-> raw, bytes |-> n * desc.stride],
   indexBuffer  |-> [raw |-> raw, bytes |-> 2 * Len(indices)]]

Shader(set, held, feature) ==
  [lighting |-> TRUE, feature |-> feature, set |-> set, held |-> held,
   modelSpace |-> FALSE, reflects |-> feature = "environmentMap"]

\* The same file as diffuse and as specular map, named in two ways.
Steel  == Shader("diffuse" :> Texture("steel") @@ "specular" :> Short("steel")
                   @@ "normal" :> Short("steel_n"), <<>>, "generic")
Mirror == Shader("specular" :> Texture("steel") @@ "diffuse" :> Short("steel")
                   @@ "environment" :> Short("sky"), <<>>, "environmentMap")
Skin   == Shader("diffuse" :> Short("skin"), "faceTint" :> Short("skin")
                   @@ "faceDetail" :> Short("steel") @@ "normal" :> Short("skin"), "faceGen")

Quad == <<0, 1, 2, 2, 1, 3>>
Tri  == <<0, 2, 1>>

Rigid(name, n, indices, shader, raw) ==
  [name |-> name, shader |-> shader, n |-> n, skinned |-> FALSE,
   pieces |-> <<[g |-> Buffers(RigidDesc, n, indices, raw)]>>]

Partition(desc, n, indices) ==
  [g |-> Buffers(desc, n, indices, FALSE), palette |-> <<0, 1>>, vertices |-> n,
   influences |-> {0, 1}, weightless |-> FALSE]

\* One bone is in the model, the other is put back from its bind pose.
Skinned(name, n, shader, bone, pieces) ==
  [name |-> name, shader |-> shader, n |-> n, skinned |-> TRUE,
   bones |-> <<[object |-> bone, invertible |-> TRUE, finite |-> TRUE],
               [object |-> NoOne, invertible |-> TRUE, finite |-> TRUE]>>,
   declared |-> Len(pieces), dynamic |-> FALSE, data |-> 0, pieces |-> pieces]

Plate == Skinned("Plate", 4, Steel, "cuirass0", <<Partition(SkinDesc, 4, Tri), Partition(SkinDesc, 4, Quad)>>)
Face  == [Skinned("Face", 3, Skin, "skeleton", <<Partition(BareDesc, 3, Tri)>>)
            EXCEPT !.dynamic = TRUE, !.data = 48]

ModelShapes ==
  "plate0" :> Plate @@ "plate1" :> Plate
    @@ "strap0" :> Rigid("Strap", 3, Tri, Mirror, TRUE)
    @@ "strap1" :> Rigid("Strap", 3, Tri, Mirror, TRUE)
    @@ "gem"    :> Rigid("", 4, Quad, Mirror, FALSE)
    @@ "hole"   :> Rigid("Hole", 3, <<0, 1, 3>>, Steel, TRUE)
    @@ "dust"   :> Rigid("Dust", 0, <<>>, Steel, TRUE)
    @@ "brick"  :> Rigid("Brick", 9, Quad, Steel, TRUE)
    @@ "lone"   :> [Plate EXCEPT !.declared = 3]
    @@ "limp"   :> [Plate EXCEPT !.bones = <<>>]

ActorShapes ==
  "mail" :> Rigid("Mail", 3, Tri, Steel, TRUE) @@ "cloth" :> Rigid("Cloth", 3, Tri, Mirror, TRUE)
    @@ "face" :> Face @@ "scar" :> Rigid("Scar", 3, Tri, Steel, TRUE)
    @@ "chest" :> Rigid("Chest", 3, Tri, Skin, TRUE)

SmallShapes == ModelShapes @@ ActorShapes

\* gem is below ring in two ways, deep is deeper than a model may be.
SmallChildren ==
  [o \in {"cuirass0", "cuirass1", "boots0", "boots1", "ring", "setting", "holes", "ash", "bricks",
          "mixed", "crowd", "tower", "deep", "deeper", "deepest", "nan",
          "skeleton", "torso", "head", "hood"} \cup DOMAIN SmallShapes |->
     CASE o = "cuirass0" -> <<"plate0", "strap0">>
       [] o = "cuirass1" -> <<"plate1", "strap1">>
       [] o = "boots0"   -> <<"strap0", "plate0">>
       [] o = "boots1"   -> <<"plate1">>
       [] o = "ring"     -> <<"setting", "gem">>
       [] o = "setting"  -> <<"gem">>
       [] o = "holes"    -> <<"hole">>
       [] o = "mixed"    -> <<"hole", "lone", "limp", "strap0">>
       [] o = "crowd"    -> <<"plate0", "plate1", "strap0", "strap1", "gem", "hole", "dust", "brick", "lone">>
       [] o = "ash"      -> <<"dust">>
       [] o = "bricks"   -> <<"brick">>
       [] o = "tower"    -> <<"deep">>
       [] o = "deep"     -> <<"deeper">>
       [] o = "deeper"   -> <<"deepest">>
       [] o = "deepest"  -> <<"gem">>
       [] o = "skeleton" -> <<"torso", "head">>
       [] o = "torso"    -> <<"mail", "chest">>
       [] o = "head"     -> <<"face", "scar", "hood">>
       [] o = "hood"     -> <<"cloth">>
       [] OTHER -> <<>>]

SmallModels ==
  Nif("cuirass", "_0") :> "cuirass0" @@ Nif("cuirass", "_1") :> "cuirass1"
    @@ Nif("boots", "_0") :> "boots0" @@ Nif("boots", "_1") :> "boots1"
    @@ Nif("ring", "") :> "ring" @@ Nif("holes", "") :> "holes" @@ Nif("ash", "") :> "ash"
    @@ Nif("bricks", "") :> "bricks" @@ Nif("mixed", "") :> "mixed"
    @@ Nif("crowd", "") :> "crowd" @@ Nif("tower", "") :> "tower" @@ Nif("nan", "") :> "nan"

-----------------------------------------------------------------------------
(* Records and requests.                                                   *)

NoSwaps == [count |-> 0, held |-> <<>>]
Swap(name, index) ==
  [name |-> name, index |-> index, modelSpace |-> FALSE, noSpecular |-> FALSE,
   set |-> [s \in SetSlots |-> IF s = "environment" THEN Short("sky") ELSE Texture("steel")]]

Addon(races, model, weighted, swaps) ==
  [races |-> races, model |-> model, weighted |-> weighted, swaps |-> swaps]

SmallAddons ==
  "cuirass" :> Addon({1, 2}, Nif("cuirass", "_1"), TRUE, [count |-> 1, held |-> <<Swap("Plate", 9)>>])
    @@ "ring"   :> Addon({1}, Nif("ring", ""), FALSE, [count |-> 1, held |-> <<Swap("Band", 0)>>])
    @@ "blank"  :> Addon({1}, Nif("proxy", "blank"), TRUE, NoSwaps)
    @@ "bare"   :> Addon({1}, NoPath, FALSE, NoSwaps)
    @@ "plain"  :> Addon({1}, Nif("ring", ""), TRUE, NoSwaps)
    @@ "rags"   :> Addon({1}, Nif("mixed", ""), FALSE, NoSwaps)
    @@ "torn"   :> Addon({1}, Nif("ring", ""), FALSE, [count |-> 2, held |-> <<>>])

SmallArmors ==
  11 :> <<NoAddon, "cuirass", "bare", "cuirass", "ring">> @@ 12 :> <<"blank">> @@ 13 :> <<"bare">>
    @@ 14 :> <<"ring", "plain">> @@ 15 :> <<"torn">> @@ 17 :> <<"rags">>

Slot(armor, clone, isSkin) == [armor |-> armor, clone |-> clone, isSkin |-> isSkin]

\* The torso is worn and so is the hood, which hangs below the head.
SmallActors ==
  20 :> [root |-> "skeleton", face |-> "head",
         biped |-> <<Slot(TRUE, "hood", FALSE), Slot(TRUE, "mail", FALSE), Slot(TRUE, "hood", FALSE),
                     Slot(TRUE, "chest", TRUE), Slot(FALSE, "torso", FALSE), Slot(TRUE, NoNode, FALSE)>>]
    @@ 21 :> [root |-> "skeleton", face |-> NoNode, biped |-> <<Slot(FALSE, "mail", FALSE)>>]

Model(o, path) == [object |-> o, low |-> path, high |-> NoPath, visible |-> o # 2]
Pair(o, name)  == [Model(o, Nif(name, "_0")) EXCEPT !.high = Nif(name, "_1")]
Worn(o, armor) == [object |-> o, armor |-> armor, visible |-> o # 2]

SceneOf(objects)    == [kind |-> "scene", objects |-> objects]
WeightedOf(objects) == [kind |-> "weighted", objects |-> objects, soundWeight |-> TRUE]
ArmorOf(objects, race) == [kind |-> "armor", objects |-> objects, race |-> race, soundWeight |-> TRUE]
ActorOf(actor, sources) == [kind |-> "actor", actor |-> actor, sources |-> sources]

Good ==
  {SceneOf(<<Model(1, Nif("ring", "")), Model(2, Nif("mixed", ""))>>),
   WeightedOf(<<Pair(1, "cuirass"), Model(2, Nif("ring", ""))>>),
   ArmorOf(<<Worn(1, 11), Worn(2, 12)>>, 1), ArmorOf(<<Worn(1, 17)>>, 1),
   ActorOf(20, {"equipment", "head"})}

Bad ==
  {SceneOf(<<Model(1, Nif("ring", "")), Model(1, Nif("ring", ""))>>),
   SceneOf(<<Model(1, <<Directory("..")>> \o Nif("ring", ""))>>),
   SceneOf(<<Model(1, Nif("ring", "")), Model(2, Nif("lost", ""))>>),
   SceneOf(<<Model(2, Nif("ring", "")), Model(1, Nif("ash", "")), Model(3, Nif("ring", ""))>>),
   SceneOf(<<Model(1, Nif("holes", ""))>>),
   SceneOf(<<Model(1, Nif("tower", ""))>>),
   SceneOf(<<Model(1, Nif("crowd", ""))>>), SceneOf(<<Model(1, Nif("nan", ""))>>),
   SceneOf(<<Model(1, Nif("bricks", "")), Model(2, Nif("bricks", ""))>>),
   WeightedOf(<<Pair(1, "boots")>>),
   [WeightedOf(<<Pair(1, "cuirass")>>) EXCEPT !.soundWeight = FALSE],
   ArmorOf(<<Worn(1, 11), Worn(2, 13)>>, 1), ArmorOf(<<Worn(1, 14)>>, 1), ArmorOf(<<Worn(1, 15)>>, 1),
   ArmorOf(<<Worn(1, 12)>>, 1), ArmorOf(<<Worn(1, 11)>>, 3), ArmorOf(<<Worn(1, 16)>>, 1),
   ActorOf(21, {"head"}), ActorOf(21, {"equipment"}), ActorOf(22, {"skin"})}

SmallRequests == Good \cup Bad
SmallFinite   == SceneObjects \ {"nan"}
=============================================================================
