CONSTANTS
    older = older
    photos = photos
    imagery = imagery
    Assets = {photos}
    Jobs <- TwoJobs
    PhotoSets = {photos}
    ServedAsUploaded = {}
    Annotatable = {photos}
    Checkable = {}
    Versions = {}
    VersionNumber <- NoNumbers
    MostVersionsKept = 1
    MaxFaults = 1
    MaxCrashes = 1
    NoJob = NoJob
    NoAsset = NoAsset
SPECIFICATION FairSpec
PROPERTY JobsSettle
CHECK_DEADLOCK FALSE
