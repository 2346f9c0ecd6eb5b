CONSTANTS
    older = older
    newer = newer
    Assets = {older, newer}
    Reports = {r0, r1, r2}
    Earlier = {r0}
    NoReport = NoReport
    Pairs <- OnePair
    Slots = 1
    Checks = {k1, k2}
    Checkable = {newer}
    Deletable = {newer}
    MaxMishaps = 1
    MaxCrashes = 1
SYMMETRY Alike
SPECIFICATION Spec
INVARIANTS CompleteHasFile UnfinishedIsAtWork DoneHasReport OneCheckAtWork
PROPERTY OnlyFailedAreReplaced
CHECK_DEADLOCK FALSE
