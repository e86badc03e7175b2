--------------------------- MODULE MCStarcosCreate ---------------------------
(* create_file requests for the MF, one DF (with and without an AID) and   *)
(* one EF of each structure create_file accepts, each with an ACL that     *)
(* gives every operation the same entry: none, the framework's e_never and *)
(* e_none, a CHV for the local PIN 0x81 and the global PIN 2, and SM (PRO). *)
EXTENDS StarcosCreate

CONSTANTS KeyRefNone, NoAcl

MCNever == 0 .. 31     \* SC_AC_NEVER   0xFFFFFFFF
MCChv   == {0}         \* SC_AC_CHV     0x01
MCPro   == {2}         \* SC_AC_PRO     0x04
MCNone  == {}          \* SC_AC_NONE    0x00

Ops == 0 .. 3
Entries ==
    {NoAcl,
     [method |-> MCNever, key_ref |-> KeyRefNone],   \* e_never
     [method |-> MCNone,  key_ref |-> KeyRefNone],   \* e_none
     [method |-> MCChv,   key_ref |-> 129],
     [method |-> MCChv,   key_ref |-> 2],
     [method |-> MCPro,   key_ref |-> KeyRefNone]}
Acls == {[o \in Ops |-> e] : e \in Entries}

Base(type, id, size, name, acl) ==
    [type |-> type, id |-> id, size |-> size, name |-> name, acl |-> acl,
     ef_structure |-> 0, record_count |-> 0, record_length |-> 0]

MFReqs == {Base(4, 16128, 8192, <<>>, a) : a \in Acls}
DFReqs == {Base(4, 20480, 1024, n, a) : n \in {<<>>, <<160, 1>>}, a \in Acls}
EFReqs == {[Base(1, 20481, 32, <<>>, a) EXCEPT !.ef_structure = s,
                                                !.record_count = 2,
                                                !.record_length = 16]
           : s \in {1, 2, 6}, a \in Acls}

MCFileReqs == MFReqs \cup DFReqs \cup EFReqs

\* card_ctl CREATE_FILE: headers a caller built itself (here the ones
\* create_file builds for an ACL without entries, the EF one for another
\* FID), under each type tag, and under a tag card_ctl does not know.
CtlHeader(f) == ProcessAcl(f).header
NoAcls == [o \in Ops |-> NoAcl]
MCCtlReqs ==
    {[type |-> "MF_DATA", header |-> CtlHeader(Base(4, 16128, 8192, <<>>, NoAcls))],
     [type |-> "DF_DATA", header |-> CtlHeader(Base(4, 20480, 1024, <<>>, NoAcls))],
     [type |-> "EF_DATA", header |-> CtlHeader([Base(1, 20482, 32, <<>>, NoAcls)
                                               EXCEPT !.ef_structure = 1])],
     [type |-> "KEY_DATA", header |-> <<>>]}
====
