CONSTANTS
    older = older
    photos = photos
    imagery = imagery
    Assets = {photos, older}
    Jobs <- TwoJobs
    PhotoSets = {photos}
    ServedAsUploaded = {}
    Annotatable = {}
    Checkable = {older}
    Versions = {older, photos}
    VersionNumber <- Numbers
    MostVersionsKept = 1
    MaxFaults = 0
    MaxCrashes = 0
    NoJob = NoJob
    NoAsset = NoAsset
SPECIFICATION Spec
INVARIANTS OneTilerAtATime OrphansAreOwned
CHECK_DEADLOCK FALSE
