\* Reliable transport, no logout: the cache design's own correctness.
CONSTANTS
    M = M   A = A   B = B   E = E   Aid1 = Aid1   Aid2 = Aid2
    NoAID = NoAID   NoFile = NoFile
    MFID <- M
    FIDs <- MCFIDs
    DFs <- MCDFs
    EFs <- MCEFs
    DFsWithFCI <- MCDFsWithFCI
    AIDs <- MCAIDs
    AIDOf <- MCAIDOf
    Requests <- MCRequests
    MaxFaults = 0
    Operations <- OpsNoLogout
SPECIFICATION Spec
INVARIANT TypeOK
INVARIANT CacheCoherent
INVARIANT SelectsOnlyBelowCachedPrefix
