\* Every entry point, one lost request or answer: the DF/EF heuristic.
CONSTANTS
    M = M   A = A   B = B   E = E   Aid1 = Aid1   Aid2 = Aid2
    NoAID = NoAID   NoFile = NoFile
    MFID <- M
    FIDs <- MCFIDs
    DFs <- MCDFs
    EFs <- MCEFs
    DFsWithFCI <- MCDFsWithFCI
    AIDs <- MCAIDs
    AIDOf <- MCAIDOf
    Requests <- MCRequests
    MaxFaults = 1
    Operations <- OpsAll
SPECIFICATION Spec
INVARIANT FidClassificationSound
