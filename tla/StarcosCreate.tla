---------------------------- MODULE StarcosCreate ----------------------------
(***************************************************************************)
(* starcos_create_file (card-starcos.c 823-852) with starcos_process_acl   *)
(* (554-677) and process_acl_entry (520-542) building the MF, DF and EF    *)
(* headers, the CREATE / REGISTER DF / CREATE END APDUs (689-802), and    *)
(* process_fci (125-216) decoding what the card later answers to a SELECT *)
(* of a created EF.  Bytes are naturals 0..255; the framework's constants *)
(* (types.h) are CONSTANTS, and a bit mask is the set of its bit numbers, *)
(* so that SC_AC_NEVER = 0xFFFFFFFF is 0..31.                             *)
(***************************************************************************)
EXTENDS Naturals, Sequences, TLC

CONSTANTS
    SC_FILE_TYPE_DF, SC_FILE_TYPE_WORKING_EF,
    SC_FILE_EF_UNKNOWN, SC_FILE_EF_TRANSPARENT, SC_FILE_EF_LINEAR_FIXED,
    SC_FILE_EF_CYCLIC,
    SC_AC_OP_READ, SC_AC_OP_WRITE, SC_AC_OP_ERASE, SC_AC_OP_CREATE,
    SC_AC_NONE, SC_AC_CHV, SC_AC_PRO, SC_AC_NEVER,  \* bit sets
    SC_AC_KEY_REF_NONE,
    NoEntry,     \* file->acl[op] == NULL
    FileReqs,    \* sc_file_t descriptors a caller may pass to create_file
    CtlReqs,     \* sc_starcos_create_data [type, header] a caller may pass
                 \* to card_ctl CREATE_FILE
    MaxFaults

STARCOS_AC_ALWAYS == 159   \* 0x9f
STARCOS_AC_NEVER  == 95    \* 0x5f

Hi(x) == (x \div 256) % 256
Lo(x) == x % 256
Zeros(n) == [i \in 1 .. n |-> 0]
Low4(x) == x % 16

\* sc_file_get_acl_entry (framework): the entry, or the static e_never /
\* e_none entries it returns for the sentinel pointers; NoEntry for NULL.
Entry(f, op) == f.acl[op]
Meets(method, bits) == method \cap bits # {}

\* Line 520: STARCOS_PINID2STATE.
PinIdToState(a) == IF Low4(a) = 1 THEN Low4(a) ELSE 15 - (Low4(a) \div 2)

\* key_ref & 0x80 ? 0x10 : 0x00
Msb(k) == IF (k \div 128) % 2 = 1 THEN 16 ELSE 0

\* process_acl_entry (lines 522-542).
ProcessAclEntry(f, op, def) ==
    LET e == Entry(f, op) IN
    CASE e = NoEntry -> def
      [] Meets(e.method, SC_AC_CHV) ->
           CASE e.key_ref = SC_AC_KEY_REF_NONE -> def
             [] Low4(e.key_ref) = 1 -> Msb(e.key_ref) + 1
             [] OTHER -> Msb(e.key_ref) + PinIdToState(e.key_ref)
      [] Meets(e.method, SC_AC_NEVER) -> STARCOS_AC_NEVER
      [] OTHER -> def

\* file->acl[op] && method & SC_AC_PRO ? 0x03 (combined mode) : 0x00
SmFor(f, op) ==
    IF Entry(f, op) # NoEntry /\ Meets(Entry(f, op).method, SC_AC_PRO) THEN 3 ELSE 0

\* Lines 646-648: for (tmp = 0, r = 0; tmp != 0 && r < 4; r++) ...
RECURSIVE SmLoop(_, _, _)
SmLoop(f, tmp, r) ==
    IF tmp # 0 /\ r < 4
    THEN SmLoop(f, IF SmFor(f, r) = 3 THEN 3 ELSE tmp, r + 1)
    ELSE tmp

\* Lines 652-671: switch (file->type) over the EF structure constants.
EfTail(f) ==
    CASE f.type = SC_FILE_EF_TRANSPARENT  -> <<129, Hi(f.size), Lo(f.size)>>
      [] f.type = SC_FILE_EF_LINEAR_FIXED -> <<130, Lo(f.record_count), Lo(f.record_length)>>
      [] f.type = SC_FILE_EF_CYCLIC       -> <<132, Lo(f.record_count), Lo(f.record_length)>>
      [] OTHER -> <<>>

\* starcos_process_acl (lines 554-677): [rc, kind, header, size].
ProcessAcl(f) ==
    LET ac(op) == ProcessAclEntry(f, op, STARCOS_AC_ALWAYS)
        sm     == SmFor(f, SC_AC_OP_CREATE)
        isf    == <<(f.size \div 1024) % 256, (f.size \div 4) % 256>>
        aid    == IF f.name # <<>>
                  THEN <<Lo(Len(f.name))>> \o f.name \o Zeros(16 - Len(f.name))
                  ELSE <<2, Hi(f.id), Lo(f.id)>> \o Zeros(14)
    IN
    CASE f.type = SC_FILE_TYPE_DF /\ f.id = 16128 ->              \* 0x3f00
           [rc |-> "OK", kind |-> "MF",
            header |-> <<1, 2, 3, 4, 5, 6, 7, 8, Hi(f.size), Lo(f.size)>> \o isf
                       \o <<ac(SC_AC_OP_CREATE), ac(SC_AC_OP_CREATE),
                            ac(SC_AC_OP_CREATE), ac(SC_AC_OP_CREATE), sm, sm, sm>>]
      [] f.type = SC_FILE_TYPE_DF ->
           [rc |-> "OK", kind |-> "DF",
            header |-> <<Hi(f.id), Lo(f.id)>> \o aid \o isf
                       \o <<ac(SC_AC_OP_CREATE), ac(SC_AC_OP_CREATE), sm, sm>>]
      [] f.type = SC_FILE_TYPE_WORKING_EF /\ EfTail(f) # <<>> ->
           [rc |-> "OK", kind |-> "EF",
            header |-> <<Hi(f.id), Lo(f.id), ac(SC_AC_OP_READ), ac(SC_AC_OP_WRITE),
                         ac(SC_AC_OP_ERASE)>>
                       \o <<STARCOS_AC_ALWAYS, STARCOS_AC_ALWAYS, STARCOS_AC_ALWAYS,
                            STARCOS_AC_ALWAYS, 0, 0, SmLoop(f, 0, 0), 0>>
                       \o EfTail(f)]
      [] OTHER -> [rc |-> "INVALID_ARGS", kind |-> "none", header |-> <<>>]

-----------------------------------------------------------------------------
(* Status words: starcos_errors (lines 43-59) and starcos_check_sw        *)
(* (1244-1271); what the table leaves to the ISO driver is reduced to the *)
(* words the card model below answers.                                    *)

StarcosErrors ==
    [sw \in {26112, 26352} |-> "INCORRECT_PARAMETERS"]           \* 6600 66F0
    @@ [sw \in {27120} |-> "NOT_ALLOWED"]                        \* 69F0
    @@ [sw \in {27273, 27274} |-> "FILE_ALREADY_EXISTS"]         \* 6A89 6A8A
    @@ [sw \in {28417, 28418, 28419, 28421, 28424, 28545} |-> "CARD_CMD_FAILED"]
    @@ [sw \in {28423} |-> "FILE_NOT_FOUND"]                     \* 6F07
    @@ [sw \in {28426, 28427} |-> "INCORRECT_PARAMETERS"]        \* 6F0A 6F0B

IsoCheckSw(sw) ==
    CASE sw = 27266 -> "FILE_NOT_FOUND"     \* 6A82
      [] sw = 27013 -> "NOT_ALLOWED"        \* 6985
      [] OTHER      -> "CARD_CMD_FAILED"

CheckSw(sw) ==
    CASE sw \div 256 = 144 -> "OK"                                  \* 90xx
      [] sw \div 256 = 99 /\ (sw % 256) \div 16 = 12 -> "PIN_CODE_INCORRECT" \* 63Cx
      [] sw \in DOMAIN StarcosErrors -> StarcosErrors[sw]
      [] OTHER -> IsoCheckSw(sw)

-----------------------------------------------------------------------------
(* process_fci (lines 125-216).  FindTag is sc_asn1_find_tag (framework)  *)
(* over one-byte tags and lengths.                                         *)

RECURSIVE FindTag(_, _)
FindTag(p, tag) ==
    IF Len(p) < 2 THEN <<>>
    ELSE IF p[1] = tag THEN SubSeq(p, 3, 2 + p[2])
    ELSE FindTag(SubSeq(p, 3 + p[2], Len(p)), tag)

ProcessFci(buf) ==
    LET len == buf[2]
        p   == SubSeq(buf, 3, 2 + len)
        t80 == FindTag(p, 128)
        t82 == FindTag(p, 130)
        dflt == [type |-> SC_FILE_TYPE_WORKING_EF, ef_structure |-> SC_FILE_EF_UNKNOWN,
                 record_length |-> 0, size |-> IF Len(t80) >= 2
                                              THEN t80[1] * 256 + t80[2] ELSE 0]
    IN
    CASE Len(buf) < 2       -> [rc |-> "INTERNAL"]
      [] buf[1] # 111       -> [rc |-> "INVALID_DATA"]           \* 0x6f
      [] Len(buf) - 2 < len -> [rc |-> "INVALID_DATA"]
      [] OTHER ->
           [rc |-> "OK"] @@
           CASE Len(t82) = 1 /\ t82[1] \in {1, 17} ->
                  [dflt EXCEPT !.ef_structure = SC_FILE_EF_TRANSPARENT]
             [] Len(t82) = 3 /\ t82[2] = 33 ->
                  CASE t82[1] = 2 -> [dflt EXCEPT !.ef_structure = SC_FILE_EF_LINEAR_FIXED,
                                                  !.record_length = t82[3]]
                    [] t82[1] = 7 -> [dflt EXCEPT !.ef_structure = SC_FILE_EF_CYCLIC,
                                                  !.record_length = t82[3]]
                    [] t82[1] = 23 -> [dflt EXCEPT !.record_length = t82[3]]
                    [] OTHER -> dflt
             [] OTHER -> dflt

-----------------------------------------------------------------------------
(* The card: files by FID ([kind, header]), DFs registered by REGISTER DF, *)
(* and DFs whose ACs CREATE END activated.  CREATE of an existing FID is  *)
(* refused with 6A89, CREATE DF of an unregistered DF with 6985, a second *)
(* REGISTER DF with 6A8A.  A created EF answers SELECT with an FCI built  *)
(* from its header's structure tail.                                      *)

VARIABLES
    files,    \* the card's files
    reg,      \* the card's registered DFs
    active,   \* DFs (and the MF) whose access conditions are active
    faults,   \* transport failures so far
    made,     \* history: the request each file on the card was created from
    last      \* history: the last call

vars == <<files, reg, active, faults, made, last>>

SW_OK          == 36864   \* 9000
SW_EXISTS      == 27273   \* 6A89
SW_APP_EXISTS  == 27274   \* 6A8A
SW_NOT_ALLOWED == 27013   \* 6985
SW_NOT_FOUND   == 27266   \* 6A82

CardCreate(c, kind, fid, h) ==
    IF fid \in DOMAIN c.files THEN {[card |-> c, sw |-> SW_EXISTS]}
    ELSE IF kind = "DF" /\ fid \notin c.reg THEN {[card |-> c, sw |-> SW_NOT_ALLOWED]}
    ELSE {[card |-> [c EXCEPT !.files = @ @@ (fid :> [kind |-> kind, header |-> h])],
           sw |-> SW_OK]}

CardRegister(c, fid) ==
    IF fid \in c.reg THEN {[card |-> c, sw |-> SW_APP_EXISTS]}
    ELSE {[card |-> [c EXCEPT !.reg = @ \cup {fid}], sw |-> SW_OK]}

CardCreateEnd(c, fid) ==
    IF fid \in DOMAIN c.files /\ c.files[fid].kind \in {"MF", "DF"}
    THEN {[card |-> [c EXCEPT !.active = @ \cup {fid}], sw |-> SW_OK]}
    ELSE {[card |-> c, sw |-> SW_NOT_FOUND]}

CardFci(h) ==
    CASE h[14] = 129 -> <<111, 7, 128, 2, h[15], h[16], 130, 1, 1>>
      [] h[14] = 130 -> <<111, 5, 130, 3, 2, 33, h[16]>>
      [] h[14] = 132 -> <<111, 5, 130, 3, 7, 33, h[16]>>

\* sc_transmit_apdu: the answer, or (while faults remain) a failure with the
\* request lost or with the card having executed it.
Transmit(st, answers) ==
    {[st |-> [st EXCEPT !.card = a.card], ok |-> TRUE, sw |-> a.sw] : a \in answers}
    \cup (IF st.faults < MaxFaults
          THEN {[st |-> [st EXCEPT !.faults = @ + 1], ok |-> FALSE, sw |-> 0]}
               \cup {[st |-> [st EXCEPT !.card = a.card, !.faults = @ + 1],
                      ok |-> FALSE, sw |-> 0] : a \in answers}
          ELSE {})

-----------------------------------------------------------------------------
(* The driver's create calls.                                              *)

Out(st, rc) == [st |-> st, rc |-> rc]
Answer(d) == Out(d.st, IF d.ok THEN CheckSw(d.sw) ELSE "TRANSMIT")
FidOf(h) == h[1] * 256 + h[2]

\* One CREATE (E0) of a header: transmit, then check_sw on the answer.
CreateOne(st, kind, fid, h) ==
    {Answer(d) : d \in Transmit(st, CardCreate(st.card, kind, fid, h))}

\* starcos_create_mf (689-705): CREATE MF (P1 = 00) of the 19-byte header.
CreateMf(st, h) == CreateOne(st, "MF", 16128, h)

\* starcos_create_ef (765-781): CREATE EF (P1 = 03) of the 16-byte header,
\* whose first two bytes are the FID.
CreateEf(st, h) == CreateOne(st, "EF", FidOf(h), h)

\* starcos_create_df (718-755): REGISTER DF, whose status word is never
\* looked at, then CREATE DF.
CreateDf(st, h) ==
    UNION {IF ~d1.ok THEN {Out(d1.st, "TRANSMIT")}
           ELSE CreateOne(d1.st, "DF", FidOf(h), h)
           : d1 \in Transmit(st, CardRegister(st.card, FidOf(h)))}

\* starcos_create_file (823-852).
CreateFile(st, f) ==
    LET p == ProcessAcl(f) IN
    CASE f.type \notin {SC_FILE_TYPE_DF, SC_FILE_TYPE_WORKING_EF} -> {Out(st, "INVALID_ARGS")}
      [] p.rc # "OK"     -> {Out(st, p.rc)}
      [] p.kind = "MF"   -> CreateMf(st, p.header)
      [] p.kind = "DF"   -> CreateDf(st, p.header)
      [] OTHER           -> CreateEf(st, p.header)

\* starcos_card_ctl, SC_CARDCTL_STARCOS_CREATE_FILE (1310-1320): the
\* caller's prebuilt header goes to create_mf, create_df or create_ef by
\* its type tag; any other tag is SC_ERROR_INTERNAL.
CtlCreateFile(st, d) ==
    CASE d.type = "MF_DATA" -> CreateMf(st, d.header)
      [] d.type = "DF_DATA" -> CreateDf(st, d.header)
      [] d.type = "EF_DATA" -> CreateEf(st, d.header)
      [] OTHER              -> {Out(st, "INTERNAL")}

\* starcos_create_end (794-812).
CreateEnd(st, f) ==
    IF f.type # SC_FILE_TYPE_DF THEN {Out(st, "INVALID_ARGS")}
    ELSE {Answer(d) : d \in Transmit(st, CardCreateEnd(st.card, f.id))}

St == [card |-> [files |-> files, reg |-> reg, active |-> active], faults |-> faults]

Apply(r) ==
    /\ files' = r.st.card.files
    /\ reg' = r.st.card.reg
    /\ active' = r.st.card.active
    /\ faults' = r.st.faults

CreateFileCall(f) ==
    \E r \in CreateFile(St, f) :
       /\ Apply(r)
       /\ made' = [x \in DOMAIN r.st.card.files |->
                     IF x \in DOMAIN files THEN made[x] ELSE f]
       /\ last' = [op |-> "create", req |-> f, rc |-> r.rc]

CtlCreateFileCall(d) ==
    \E r \in CtlCreateFile(St, d) :
       /\ Apply(r)
       /\ made' = [x \in DOMAIN r.st.card.files |->
                     IF x \in DOMAIN files THEN made[x] ELSE d]
       /\ last' = [op |-> "ctl", req |-> d, rc |-> r.rc]

CreateEndCall(f) ==
    \E r \in CreateEnd(St, f) :
       /\ Apply(r)
       /\ last' = [op |-> "end", req |-> f, rc |-> r.rc]
       /\ UNCHANGED made

\* starcos_select_fid on a created EF (334-359): the FCI the card returns
\* goes through process_fci.
SelectCreatedEf(fid) ==
    /\ fid \in DOMAIN files
    /\ files[fid].kind = "EF"
    /\ last' = [op |-> "fci", fid |-> fid, decoded |-> ProcessFci(CardFci(files[fid].header))]
    /\ UNCHANGED <<files, reg, active, faults, made>>

Init ==
    /\ files = <<>>
    /\ reg = {}
    /\ active = {}
    /\ faults = 0
    /\ made = <<>>
    /\ last = [op |-> "none"]

Next ==
    \/ \E f \in FileReqs : CreateFileCall(f) \/ CreateEndCall(f)
    \/ \E d \in CtlReqs : CtlCreateFileCall(d)
    \/ \E fid \in DOMAIN files : SelectCreatedEf(fid)

Spec == Init /\ [][Next]_vars

-----------------------------------------------------------------------------
(* Properties.                                                             *)

Kinds == {"MF", "DF", "EF"}
RCs == {"OK", "TRANSMIT", "INVALID_ARGS", "INCORRECT_PARAMETERS", "NOT_ALLOWED",
        "FILE_ALREADY_EXISTS", "CARD_CMD_FAILED", "FILE_NOT_FOUND", "PIN_CODE_INCORRECT",
        "INTERNAL"}

TypeOK ==
    /\ DOMAIN files \subseteq 0 .. 65535
    /\ \A x \in DOMAIN files : files[x].kind \in Kinds /\ files[x].header \in Seq(0 .. 255)
    /\ reg \subseteq 0 .. 65535
    /\ active \subseteq DOMAIN files
    /\ faults \in 0 .. MaxFaults
    /\ DOMAIN made = DOMAIN files
    /\ \A x \in DOMAIN made : made[x] \in FileReqs \cup CtlReqs
    /\ last.op \in {"none", "create", "ctl", "end", "fci"}
    /\ last.op \in {"create", "ctl", "end"} => last.rc \in RCs

\* Spec section 4.4, "ACL byte encoding": an absent entry gives the default,
\* a CHV entry its PIN state (0x01 for the SO PIN, 0x0F - (kref & 0x0F) >> 1
\* otherwise, 0x10 added for a local key reference), a NEVER entry 0x5F, any
\* other entry the default.
SpecAc(e, def) ==
    CASE e = NoEntry -> def
      [] e.method = SC_AC_CHV /\ e.key_ref # SC_AC_KEY_REF_NONE ->
           Msb(e.key_ref) + (IF Low4(e.key_ref) = 1 THEN 1
                             ELSE 15 - (Low4(e.key_ref) \div 2))
      [] e.method = SC_AC_NEVER -> STARCOS_AC_NEVER
      [] OTHER -> def

\* The access-condition bytes of a header, and what the spec says they are.
AcBytes(file) ==
    CASE file.kind = "MF" -> SubSeq(file.header, 13, 16)
      [] file.kind = "DF" -> SubSeq(file.header, 22, 23)
      [] file.kind = "EF" -> SubSeq(file.header, 3, 5)

SpecAcBytes(f, kind) ==
    LET ac(op) == SpecAc(f.acl[op], STARCOS_AC_ALWAYS) IN
    CASE kind = "MF" -> [i \in 1 .. 4 |-> ac(SC_AC_OP_CREATE)]
      [] kind = "DF" -> [i \in 1 .. 2 |-> ac(SC_AC_OP_CREATE)]
      [] kind = "EF" -> <<ac(SC_AC_OP_READ), ac(SC_AC_OP_WRITE), ac(SC_AC_OP_ERASE)>>

\* Every file create_file put on the card carries the access conditions the
\* spec's encoding gives its ACL: in particular an operation the caller
\* marked NEVER is refused by the card, not left open (process_acl_entry,
\* lines 522-542, tests the CHV bit before the NEVER mask).
AclEncodedPerSpec ==
    \A x \in {y \in DOMAIN files : made[y] \in FileReqs} :
       AcBytes(files[x]) = SpecAcBytes(made[x], files[x].kind)

\* Spec section 8, round-trip law: a SELECT of an EF that create_file made
\* decodes (process_fci) to the structure it was created with, and to its
\* size (transparent) or record length (record EFs).  It depends on the
\* structure tail starcos_process_acl writes (lines 652-671).
EfRoundTrip ==
    (last.op = "fci" /\ made[last.fid] \in FileReqs) =>
      LET f == made[last.fid]  d == last.decoded IN
      /\ d.rc = "OK"
      /\ d.ef_structure = f.ef_structure
      /\ f.ef_structure = SC_FILE_EF_TRANSPARENT => d.size = f.size
      /\ f.ef_structure # SC_FILE_EF_TRANSPARENT => d.record_length = f.record_length

====
