\* logout moves the card to the MF and leaves the cache as it was.
CONSTANTS
    M = M   A = A   B = B   E = E   Aid1 = Aid1   Aid2 = Aid2
    NoAID = NoAID   NoFile = NoFile
    MFID <- M
    FIDs <- MCFIDs
    DFs <- MCDFs
    EFs <- MCEFs
    DFsWithFCI <- MCDFsWithFCI
    AIDs <- MCAIDs
    AIDOf <- MCAIDOf
    Requests <- MCRequests
    MaxFaults = 0
    Operations <- OpsAll
SPECIFICATION Spec
INVARIANT CacheCoherent
