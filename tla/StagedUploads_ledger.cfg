CONSTANTS
    r1 = r1  r2 = r2  r3 = r3  k = k  s1 = s1  s2 = s2
    Requests = {r1, r2, r3}
    NoRequest = NoRequest
    Keys = {k}
    Sessions <- TwoSessions
    KeyOf <- TwoKeyOf
    Parts <- TwoParts
    MaxBody = 2
    ByteCap = 3
    FileCap = 3
    SessionCap = 1
    MaxFaults = 1
    MaxCrashes = 1
SPECIFICATION Spec
INVARIANTS LedgerCoversDisk QuietLedgerExact CapsHold CompletedAsListed
CHECK_DEADLOCK FALSE
