\* create_file of EFs of every structure, then SELECT of the EF created.
CONSTANTS
    KeyRefNone = KeyRefNone   NoAcl = NoAcl
    SC_FILE_TYPE_DF = 4   SC_FILE_TYPE_WORKING_EF = 1
    SC_FILE_EF_UNKNOWN = 0   SC_FILE_EF_TRANSPARENT = 1
    SC_FILE_EF_LINEAR_FIXED = 2   SC_FILE_EF_CYCLIC = 6
    SC_AC_OP_READ = 0   SC_AC_OP_WRITE = 3   SC_AC_OP_ERASE = 2   SC_AC_OP_CREATE = 3
    SC_AC_NONE <- MCNone
    SC_AC_CHV <- MCChv
    SC_AC_PRO <- MCPro
    SC_AC_NEVER <- MCNever
    SC_AC_KEY_REF_NONE <- KeyRefNone
    NoEntry <- NoAcl
    FileReqs <- MCFileReqs
    CtlReqs <- MCCtlReqs
    MaxFaults = 1
SPECIFICATION Spec
INVARIANT EfRoundTrip
