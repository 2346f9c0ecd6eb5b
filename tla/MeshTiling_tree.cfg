CONSTANTS
    Triangles = {1, 2, 3, 4}
    Elements = {1, 2, 3}
    Shapes <- SampleShapes
    Meshes <- OrderedMeshes
    Budget = 1
    MaxDepth = 3
    MaxGroups = 2
    PathWidth = 2
SPECIFICATION FairSpec
INVARIANTS EachPlacedOnce LeavesWithinBudget ErrorsShrink
PROPERTY TilingEnds
CHECK_DEADLOCK FALSE
