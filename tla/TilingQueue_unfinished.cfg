CONSTANTS
    older = older
    photos = photos
    imagery = imagery
    Assets = {photos, older}
    Jobs <- TwoJobs
    PhotoSets = {photos}
    ServedAsUploaded = {}
    Annotatable = {}
    Checkable = {}
    Versions = {older, photos}
    VersionNumber <- Numbers
    MostVersionsKept = 1
    MaxFaults = 0
    MaxCrashes = 0
    NoJob = NoJob
    NoAsset = NoAsset
SPECIFICATION Spec

PROPERTY UnfinishedVersionLeftAlone
CHECK_DEADLOCK FALSE
