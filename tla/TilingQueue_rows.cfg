CONSTANTS
    older = older
    photos = photos
    imagery = imagery
    Assets = {photos, imagery}
    Jobs <- TwoJobs
    PhotoSets = {photos}
    ServedAsUploaded = {imagery}
    Annotatable = {imagery}
    Checkable = {}
    Versions = {}
    VersionNumber <- NoNumbers
    MostVersionsKept = 1
    MaxFaults = 1
    MaxCrashes = 1
    NoJob = NoJob
    NoAsset = NoAsset
SPECIFICATION Spec
INVARIANTS OneRunPerAsset ToldOnceAsRecorded TilingHasRun
PROPERTIES DoneAfterAsset UploadedStaysReady LifecycleSpec
CHECK_DEADLOCK FALSE
