\* Chunked key import, key generation and the serial cache with one transport
\* failure anywhere in a behaviour.
CONSTANTS
    K = K   V1 = V1   V2 = V2   NoKey = NoKey   NoByte = NoByte
    KIDs <- MCKIDs
    Versions <- MCVersions
    KeyLens <- MCKeyLens
    Modes = {0, 1}
    STARCOS_WKEY_CSIZE = 124
    MaxFaults = 1
    GenBits = {16, 24}
    StaleBytes = {0, 255}
    Generated = Generated
    CardDataAnswers <- MCCardDataAnswers
SPECIFICATION Spec
INVARIANT TypeOK
INVARIANT KeyIntactAfterSuccess
INVARIANT ChunkPlanPerSpec
INVARIANT GenKeyModulusPerSpec
INVARIANT SerialFromCard
