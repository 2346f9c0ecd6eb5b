CONSTANTS
    a1 = a1  c1 = c1  c2 = c2
    Assets = {a1}
    Completers = {c1, c2}
    NoAsset = NoAsset
    MostAwaiting = 1
    MaxMishaps = 3
SPECIFICATION FairSpec
INVARIANTS TakenOnce UploadingIsAccounted FilesAreOwned
PROPERTY UploadsSettle
CHECK_DEADLOCK FALSE
