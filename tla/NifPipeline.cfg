SPECIFICATION PipelineSpec
CONSTANTS
  MaxObjects = 3
  MaxResolvedParts = 4
  MaxOverrides = 2
  Races = {1, 2}
  Armors <- SmallArmors
  Addons <- SmallAddons
  Actors <- SmallActors
  NoAddon = NoAddon
  NoSet = NoSet
  NoNode = NoNode
  NoOne = NoOne
  NoRequest = NoRequest
  Foul = {"foul"}
  Files <- SmallFiles
  Children <- SmallChildren
  Shapes <- SmallShapes
  Finite <- SmallFinite
  Culled = {"scar"}
  Models <- SmallModels
  Requests <- SmallRequests
  MaxRequests = 2
  MaxNodes = 9
  MaxDepth = 3
  MaxSkinBones = 4
  MaxSkinPartitions = 2
  MaxPartitionBones = 2
  MaxPreviewVertices = 16
  MaxPreviewIndices = 24
  MaxSceneParts = 4
  MaxSceneObjects = 3
  MaxSceneVertices = 17
  MaxSceneIndices = 30
CHECK_DEADLOCK FALSE
INVARIANTS
  WholeOrNothing
  DrawsOwnGeometry
  ShapesOnce
  TexturesAsAsked
