---------------------------- MODULE NifRequests ----------------------------
(***************************************************************************)
(* What a mod may ask of Meridian.NifScene and the parts it resolves to    *)
(* (Controllers/NifSceneAPIController.cpp): models by path, weighted       *)
(* models, worn armor by its record, the appearance of a loaded actor.     *)
(*                                                                         *)
(* A part is one model of the scene to be: the handle of its object, the   *)
(* paths of its endpoints, its alternate textures, whether it is shown.    *)
(* Null pointers and short structures are left out; a weight is sound when *)
(* it is finite and within 0 to 100.                                       *)
(***************************************************************************)
EXTENDS ResourcePaths, FiniteSets, SequencesExt

CONSTANTS
  MaxObjects,         \* MAX_SCENE_OBJECTS
  MaxResolvedParts,   \* MAX_RESOLVED_SCENE_PARTS
  MaxOverrides,       \* MAX_MODEL_TEXTURE_OVERRIDES
  Races,              \* the races there are
  Armors,             \* armor records: the addons of each, NoAddon for a null one
  Addons,             \* what an addon is: [races, model, weighted, swaps]
  Actors,             \* loaded actors: [biped, face], see QueueActorAppearanceScene
  NoAddon, NoSet, NoNode

\* Addons and slots stand in a list.
ASSUME RecordsAssumption ==
  /\ MaxObjects \in Nat
  /\ \A a \in DOMAIN Armors : Armors[a] \in Seq(Range(Armors[a]))
  /\ \A a \in DOMAIN Actors : Actors[a].biped \in Seq(Range(Actors[a].biped))

\* What stands at the places K of a sequence, in its order.
Picked(s, K) ==
  LET upTo[k \in 0..Len(s)] ==
        IF k = 0 THEN <<>>
        ELSE IF k \in K THEN Append(upTo[k - 1], s[k]) ELSE upTo[k - 1]
  IN  upTo[Len(s)]

\* Handles are not 0, which is no object, and not used twice.
HandlesAreSound(objects) ==
  /\ Len(objects) \in 1..MaxObjects
  /\ \A k \in DOMAIN objects : objects[k].object # 0
  /\ \A j, k \in DOMAIN objects : objects[j].object = objects[k].object => j = k

PlainPart(o) ==
  [object |-> o.object, low |-> NormalizeNifModelPath(o.low), high |-> NoPath,
   overrides |-> <<>>, visible |-> o.visible]

WeightedPart(o) == [PlainPart(o) EXCEPT !.high = NormalizeNifModelPath(o.high)]

Refused    == [ok |-> FALSE, parts |-> <<>>]
Parts(seq) == [ok |-> TRUE, parts |-> seq]

\* ReplaceScene and ReplaceWeightedScene answer the caller: every path is safe.
\* A weighted object may do without a high endpoint.
PathsAreSound(request) == \A k \in DOMAIN request.objects :
  LET o == request.objects[k]
  IN  /\ NormalizeNifModelPath(o.low) # NoPath
      /\ request.kind = "weighted" /\ o.high # NoPath => NormalizeNifModelPath(o.high) # NoPath

Accepts(request) ==
  CASE request.kind = "scene"    -> HandlesAreSound(request.objects) /\ PathsAreSound(request)
    [] request.kind = "weighted" -> /\ HandlesAreSound(request.objects)
                                    /\ PathsAreSound(request)
                                    /\ request.soundWeight
    [] request.kind = "armor"    -> /\ HandlesAreSound(request.objects)
                                    /\ \A k \in DOMAIN request.objects : request.objects[k].armor # 0
                                    /\ request.race # 0
                                    /\ request.soundWeight
    [] request.kind = "actor"    -> /\ request.actor # 0
                                    /\ request.sources # {}
                                    /\ request.sources \subseteq {"equipment", "skin", "head"}

-----------------------------------------------------------------------------
(* Armor: every addon of a record that fits the race gives a model.        *)

\* The alternate textures of a model: [count, held] of what is declared and held.
CopyTextureOverrides(swaps) ==
  /\ swaps.count <= MaxOverrides
  /\ swaps.count # 0 => swaps.held # <<>> /\ \A k \in DOMAIN swaps.held : swaps.held[k].set # NoSet

\* One addon after another: ok turns FALSE for good, and blank tells that a model
\* without geometry was left out on purpose.
AppendAddon(acc, addon, item, race) ==
  LET a     == Addons[addon]
      paths == ResolveArmorModelPaths(a.model, a.weighted)
      seen  == [acc EXCEPT !.seen = @ \cup {addon}]
  IN  CASE ~acc.ok \/ addon = NoAddon -> acc
        [] race \notin a.races \/ addon \in acc.seen -> acc
        [] a.model = NoPath -> seen
        [] IsIntentionalBlankArmorModelPath(a.model) -> [seen EXCEPT !.blank = TRUE]
        [] \/ paths = Unresolved
           \/ Len(acc.parts) >= MaxResolvedParts
           \/ ~CopyTextureOverrides(a.swaps) -> [seen EXCEPT !.ok = FALSE]
        [] OTHER ->
             [seen EXCEPT !.parts = Append(@,
                [object |-> item.object, low |-> paths.low, high |-> paths.high,
                 overrides |-> SubSeq(a.swaps.held, 1, a.swaps.count), visible |-> item.visible])]

\* The addons of a record, one after another.
AppendAddons(parts, item, race) ==
  LET addons == Armors[item.armor]
      upTo[k \in 0..Len(addons)] ==
        IF k = 0 THEN [ok |-> TRUE, parts |-> parts, seen |-> {}, blank |-> FALSE]
        ELSE AppendAddon(upTo[k - 1], addons[k], item, race)
  IN  upTo[Len(addons)]

\* A record of which nothing is left is an error, unless it was blank on purpose.
AppendArmor(acc, item, race) ==
  LET done == AppendAddons(acc.parts, item, race)
  IN  IF ~acc.ok THEN acc
      ELSE IF item.armor \notin DOMAIN Armors THEN Refused
      ELSE [ok    |-> done.ok /\ (Len(done.parts) > Len(acc.parts) \/ done.blank),
            parts |-> done.parts]

AppendResolvedArmorParts(items, race) ==
  LET upTo[k \in 0..Len(items)] ==
        IF k = 0 THEN Parts(<<>>) ELSE AppendArmor(upTo[k - 1], items[k], race)
  IN  upTo[Len(items)]

\* QueueRequestedArmorScene, on the game's task thread.
ResolveArmor(request) ==
  LET resolved == AppendResolvedArmorParts(request.objects, request.race)
  IN  IF request.race \notin Races \/ ~resolved.ok \/ resolved.parts = <<>>
      THEN Refused ELSE Parts(resolved.parts)

-----------------------------------------------------------------------------
(* A loaded actor: the roots in its 3D of what it wears, skin and head.    *)

\* ClassifyBipedSource.
SourceOf(slot) == IF slot.isSkin THEN "skin" ELSE "equipment"

\* A slot holds an armor (or something else) and the clone of its model, and is
\* what the actor's skin is made of, or not.
Wanted(slot, sources) ==
  slot.armor /\ slot.clone # NoNode /\ SourceOf(slot) \in sources

AddRoot(roots, root) == IF Contains(roots, root) THEN roots ELSE Append(roots, root)

\* A root that several slots share is taken once.
BipedRoots(biped, sources) ==
  LET wanted == {k \in DOMAIN biped : Wanted(biped[k], sources)}
      slots  == Picked(biped, {k \in wanted :
                  \A j \in wanted : biped[j].clone = biped[k].clone => k <= j})
  IN  [k \in DOMAIN slots |-> slots[k].clone]

\* An actor is [root, biped, face]; the biped is a sequence of slots, empty when
\* there is none.
ResolveActor(request) ==
  LET actor == Actors[request.actor]
      worn  == request.sources \cap {"equipment", "skin"} # {}
      head  == "head" \in request.sources
      roots == LET biped == IF worn THEN BipedRoots(actor.biped, request.sources) ELSE <<>>
               IN  IF head THEN AddRoot(biped, actor.face) ELSE biped
  IN  IF \/ request.actor \notin DOMAIN Actors
         \/ actor.root = NoNode
         \/ worn /\ actor.biped = <<>>
         \/ head /\ actor.face = NoNode
         \/ roots = <<>>
      THEN Refused
      ELSE Parts(<<[object |-> request.actor, root |-> actor.root, roots |-> roots, visible |-> TRUE]>>)

\* What a request stands for once it is on the task thread.
Resolve(request) ==
  CASE request.kind = "scene"    -> Parts([k \in DOMAIN request.objects |-> PlainPart(request.objects[k])])
    [] request.kind = "weighted" -> Parts([k \in DOMAIN request.objects |-> WeightedPart(request.objects[k])])
    [] request.kind = "armor"    -> ResolveArmor(request)
    [] request.kind = "actor"    -> ResolveActor(request)
=============================================================================
