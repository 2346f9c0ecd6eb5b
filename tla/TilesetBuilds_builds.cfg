CONSTANTS
    Tilesets <- TwoTilesets
    NoTileset = NoTileset
    MaxFaults = 1
    MaxCrashes = 1
SPECIFICATION FairSpec
INVARIANTS ReadyIsServed KilledOnlyDeleted DeletedBuildIsUndone
PROPERTY BuildsSettle
CHECK_DEADLOCK FALSE
