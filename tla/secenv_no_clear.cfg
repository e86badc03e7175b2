\* Spec 4.7: compute_signature always clears sec_ops and fix_digestInfo.
CONSTANTS
    K1 = K1   K2 = K2
    NoTemplate = NoTemplate   NoSecOp = NoSecOp   NoFix = NoFix
    NoAlgRef = NoAlgRef   NoEnv = NoEnv   NoSig = NoSig
    Keys <- MCKeys
    SigKeys <- MCSigKeys
    MaxFaults = 0
SPECIFICATION Spec
INVARIANT SecOpsClearedAfterSign
