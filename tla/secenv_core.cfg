\* One lost request or answer, with the caller contract: the signing-command
\* choice, and the session state against the card's templates.
CONSTANTS
    K1 = K1   K2 = K2
    NoTemplate = NoTemplate   NoSecOp = NoSecOp   NoFix = NoFix
    NoAlgRef = NoAlgRef   NoEnv = NoEnv   NoSig = NoSig
    Keys <- MCKeys
    SigKeys <- MCSigKeys
    MaxFaults = 1
    Hashes <- MCHashes
SPECIFICATION Spec
INVARIANT TypeOK
INVARIANT SignatureUsesLastEnv
INVARIANT EnvInstalledAsPromised
