--------------------------- MODULE StarcosKeyWrite ---------------------------
(***************************************************************************)
(* starcos_write_key (card-starcos.c 885-954): install a key header in the *)
(* card's internal secret file (ISF) and stream the key into it in chunks  *)
(* of STARCOS_WKEY_CSIZE bytes, each chunk carrying its offset in two      *)
(* bytes; and starcos_gen_key (965-1011): generate a key pair in a KID and *)
(* read its public modulus back; and starcos_get_serialnr (1273-1304):   *)
(* GET CARD DATA and the serial cache.  One action per call; the APDUs, the *)
(* card's answers and the transport failures happen within it.  Key bytes  *)
(* are positions 0..len-1 holding the version of the key they belong to.   *)
(***************************************************************************)
EXTENDS Naturals, Sequences
LOCAL INSTANCE SequencesExt

CONSTANTS
    KIDs,               \* key identifiers
    Versions,           \* keys (header and material) a caller may write
    KeyLens,            \* key_len values enumerated
    Modes,              \* P1 values; 0 installs a header first
    STARCOS_WKEY_CSIZE, \* chunk size (124 in the code)
    MaxFaults,          \* transport failures allowed in one behaviour
    GenBits,            \* key_length values (bits) gen_key is called with
    StaleBytes,         \* what uninitialised bytes of rbuf may hold
    Generated,          \* the private key GENERATE KEY puts in a KID
    CardDataAnswers,    \* [sw, data] a card may answer GET CARD DATA with
    NoKey, NoByte

MaxLen == CHOOSE m \in KeyLens : \A l \in KeyLens : l <= m
Pos    == 0 .. MaxLen - 1

\* A call's input: sc_starcos_wkey_data with key present or NULL.  A NULL
\* key comes with key_len 0 (a NULL key with key_len > 0 and mode # 0 would
\* be read through a NULL pointer at line 936).
Requests == {r \in [kid : KIDs, mode : Modes, ver : Versions, len : KeyLens,
                    present : BOOLEAN] : r.present \/ r.len = 0}

VARIABLES
    hdr,     \* the card: the key header installed per KID
    rec,     \* the card: the key bytes per KID
    pub,     \* the card: the public modulus (MSB first) per KID, <<>> if none
    faults,  \* transport failures so far
    cardData,  \* the card: its (fixed) answer to GET CARD DATA
    serialnr,  \* card->serialnr: the cached serial, <<>> while len is 0
    last     \* history: [op, req, rc, sent, out] of the last call

vars == <<hdr, rec, pub, faults, cardData, serialnr, last>>

-----------------------------------------------------------------------------
(* The card.  WRITE KEY with tag C1 installs a header and starts an empty  *)
(* record; with tag C2 it writes the bytes at the offset it decodes from   *)
(* two bytes, and refuses (6A88) a KID without a header.                   *)

CardInstallHeader(c, kid, v) ==
    {[card |-> [hdr |-> [c.hdr EXCEPT ![kid] = v],
                rec |-> [c.rec EXCEPT ![kid] = [i \in Pos |-> NoByte]],
                pub |-> [c.pub EXCEPT ![kid] = <<>>]],
      sw |-> "9000", resp |-> <<>>]}

CardWriteChunk(c, kid, off, clen, v) ==
    IF c.hdr[kid] = NoKey THEN {[card |-> c, sw |-> "6A88", resp |-> <<>>]}
    ELSE {[card |-> [c EXCEPT !.rec[kid] =
                       [i \in Pos |-> IF off <= i /\ i < off + clen THEN v
                                      ELSE c.rec[kid][i]]],
           sw |-> "9000", resp |-> <<>>]}

\* GENERATE KEY replaces the KID's key by a generated one of key_length
\* bits (it needs a header); READ PUBLIC KEY answers 18 bytes of key
\* information followed by the modulus least significant byte first.
CardModulus(n) == [i \in 1 .. n |-> i]

CardGenerate(c, kid, bits) ==
    IF c.hdr[kid] = NoKey THEN {[card |-> c, sw |-> "6A88", resp |-> <<>>]}
    ELSE {[card |-> [c EXCEPT !.rec[kid] = [i \in Pos |-> Generated],
                              !.pub[kid] = CardModulus(bits \div 8)],
           sw |-> "9000", resp |-> <<>>]}

CardReadPublicKey(c, kid) ==
    IF c.pub[kid] = <<>> THEN {[card |-> c, sw |-> "6A88", resp |-> <<>>]}
    ELSE {[card |-> c, sw |-> "9000",
           resp |-> [i \in 1 .. 18 |-> 0] \o Reverse(c.pub[kid])]}

\* sc_transmit_apdu: the answer, or (while faults remain) a failure with the
\* request lost or with the card having executed it.
Transmit(st, answers) ==
    {[st |-> [st EXCEPT !.card = a.card], ok |-> TRUE, sw |-> a.sw, resp |-> a.resp]
     : a \in answers}
    \cup (IF st.faults < MaxFaults
          THEN {[st |-> [st EXCEPT !.faults = @ + 1], ok |-> FALSE, sw |-> "none",
                 resp |-> <<>>]}
               \cup {[st |-> [st EXCEPT !.card = a.card, !.faults = @ + 1],
                      ok |-> FALSE, sw |-> "none", resp |-> <<>>] : a \in answers}
          ELSE {})

CheckSw(sw) == IF sw = "6A88" THEN "DATA_NOT_FOUND" ELSE "CARD_CMD_FAILED"

-----------------------------------------------------------------------------
(* The driver.                                                             *)

\* Lines 934-935: the offset as the card reads it from sbuf[3], sbuf[4].
WireOffset(offset) == ((offset \div 256) % 256) * 256 + (offset % 256)

Out(st, rc, sent) == [st |-> st, rc |-> rc, sent |-> sent]

\* Mutant: a chunk one byte short of STARCOS_WKEY_CSIZE.
ChunkLenShort(tlen) ==
    IF tlen < STARCOS_WKEY_CSIZE THEN tlen ELSE STARCOS_WKEY_CSIZE - 1

\* Line 930: u8 clen = tlen < STARCOS_WKEY_CSIZE ? tlen : STARCOS_WKEY_CSIZE.
ChunkLen(tlen) ==
    (IF tlen < STARCOS_WKEY_CSIZE THEN tlen ELSE STARCOS_WKEY_CSIZE) % 256

\* Mutant: offset not advanced after a chunk.
NextOffsetStuck(offset, clen) == offset

\* Mutant: the next chunk starts one byte after the end of this one.
NextOffsetPastChunk(offset, clen) == offset + clen + 1

\* Line 949: offset += clen.
NextOffset(offset, clen) == offset + clen

\* Lines 926-953: while (tlen) send a chunk; stop at the first failure.
\* sent is the history of [offset, clen] of the chunks sent.
RECURSIVE Chunks(_, _, _, _, _)
Chunks(st, req, tlen, offset, sent) ==
    IF tlen = 0 THEN {Out(st, "OK", sent)}
    ELSE LET clen  == ChunkLen(tlen)
             sent2 == Append(sent, [offset |-> offset, clen |-> clen])
         IN UNION {IF ~d.ok THEN {Out(d.st, "TRANSMIT", sent2)}
                   ELSE IF d.sw # "9000" THEN {Out(d.st, CheckSw(d.sw), sent2)}
                   ELSE Chunks(d.st, req, tlen - clen, NextOffset(offset, clen), sent2)
                   : d \in Transmit(st, CardWriteChunk(st.card, req.kid,
                                          WireOffset(offset), clen, req.ver))}

\* starcos_write_key (lines 897-954).
WriteKey(st, req) ==
    LET material(s) ==
          IF ~req.present /\ req.mode = 0 THEN {Out(s, "OK", <<>>)}
          ELSE Chunks(s, req, req.len, 0, <<>>)
    IN IF req.mode # 0 THEN material(st)
       ELSE UNION {IF ~d.ok THEN {Out(d.st, "TRANSMIT", <<>>)}
                   ELSE IF d.sw # "9000" THEN {Out(d.st, CheckSw(d.sw), <<>>)}
                   ELSE material(d.st)
                   : d \in Transmit(st, CardInstallHeader(st.card, req.kid, req.ver))}

\* Lines 976-977: key_length sent as two bytes, (u8)(bits >> 8), (u8)bits.
WireBits(bits) == ((bits \div 256) % 256) * 256 + (bits % 256)

\* Byte j (1-based) of rbuf after an answer of Len(resp) bytes: beyond the
\* answer, rbuf is uninitialised stack memory (any of StaleBytes).
RbufAt(resp, j, stale) == IF j <= Len(resp) THEN resp[j] ELSE stale

\* Mutant: the reversal reads q[i] instead of q[i - 1].
GenModulusOneLate(resp, len, stale) ==
    [k \in 1 .. len |-> RbufAt(resp, 20 + len - k, stale)]

\* Lines 1005-1008: q = &rbuf[18]; for (i = len; i != 0; i--) *p++ = q[i-1].
GenModulus(resp, len, stale) ==
    [k \in 1 .. len |-> RbufAt(resp, 19 + len - k, stale)]

GenOut(st, rc, m) == [st |-> st, rc |-> rc, modulus |-> m]

\* starcos_gen_key (lines 965-1011): GENERATE KEY, then READ PUBLIC KEY;
\* a status word other than 9000 goes through check_sw.  The malloc of
\* the modulus (1000-1002) is assumed to succeed.
GenKey(st, req) ==
    LET len == req.bits \div 8 IN
    UNION {IF ~d1.ok THEN {GenOut(d1.st, "TRANSMIT", <<>>)}
           ELSE IF d1.sw # "9000" THEN {GenOut(d1.st, CheckSw(d1.sw), <<>>)}
           ELSE UNION {IF ~d2.ok THEN {GenOut(d2.st, "TRANSMIT", <<>>)}
                       ELSE IF d2.sw # "9000" THEN {GenOut(d2.st, CheckSw(d2.sw), <<>>)}
                       ELSE {GenOut(d2.st, "OK", GenModulus(d2.resp, len, b)) : b \in StaleBytes}
                       : d2 \in Transmit(d1.st, CardReadPublicKey(d1.st.card, req.kid))}
           : d1 \in Transmit(st, CardGenerate(st.card, req.kid, WireBits(req.bits)))}

GenRequests == [kid : KIDs, bits : GenBits]

\* GET CARD DATA changes nothing on the card; it answers the card's data.
CardGetData(c, a) == {[card |-> c, sw |-> a.sw, resp |-> a.data]}

SerialOut(st, rc, cache, serial) ==
    [st |-> st, rc |-> rc, cache |-> cache, serial |-> serial]

\* Mutant: the answer is cached before its status word is checked.
GetSerialNrCacheAnyAnswer(st, cache, present, answer) ==
    CASE ~present       -> {SerialOut(st, "INVALID_ARGS", cache, <<>>)}
      [] cache # <<>>   -> {SerialOut(st, "OK", cache, cache)}
      [] OTHER ->
           {IF ~d.ok THEN SerialOut(d.st, "TRANSMIT", cache, <<>>)
            ELSE IF d.sw # "9000" THEN SerialOut(d.st, "INTERNAL", d.resp, <<>>)
            ELSE SerialOut(d.st, "OK", d.resp, d.resp)
            : d \in Transmit(st, CardGetData(st.card, answer))}

\* starcos_get_serialnr (lines 1273-1304): a NULL serial is refused; a
\* cached serial (len # 0) is returned without an APDU; otherwise GET CARD
\* DATA, any status word but 9000 is SC_ERROR_INTERNAL, and the answer is
\* cached (even an empty one, which leaves len at 0) and returned.
GetSerialNr(st, cache, present, answer) ==
    CASE ~present       -> {SerialOut(st, "INVALID_ARGS", cache, <<>>)}
      [] cache # <<>>   -> {SerialOut(st, "OK", cache, cache)}
      [] OTHER ->
           {IF ~d.ok THEN SerialOut(d.st, "TRANSMIT", cache, <<>>)
            ELSE IF d.sw # "9000" THEN SerialOut(d.st, "INTERNAL", cache, <<>>)
            ELSE SerialOut(d.st, "OK", d.resp, d.resp)
            : d \in Transmit(st, CardGetData(st.card, answer))}

-----------------------------------------------------------------------------

St == [card |-> [hdr |-> hdr, rec |-> rec, pub |-> pub], faults |-> faults]

Apply(r) ==
    /\ hdr' = r.st.card.hdr
    /\ rec' = r.st.card.rec
    /\ pub' = r.st.card.pub
    /\ faults' = r.st.faults

WriteKeyCall(req) ==
    \E r \in WriteKey(St, req) :
       /\ Apply(r)
       /\ last' = [op |-> "write", req |-> req, rc |-> r.rc, sent |-> r.sent,
                   out |-> <<>>]
       /\ UNCHANGED <<cardData, serialnr>>

GenKeyCall(req) ==
    \E r \in GenKey(St, req) :
       /\ Apply(r)
       /\ last' = [op |-> "gen", req |-> req, rc |-> r.rc, sent |-> <<>>,
                   out |-> r.modulus]
       /\ UNCHANGED <<cardData, serialnr>>

GetSerialNrCall(present) ==
    \E r \in GetSerialNr(St, serialnr, present, cardData) :
       /\ Apply(r)
       /\ serialnr' = r.cache
       /\ last' = [op |-> "serial", req |-> present, rc |-> r.rc, sent |-> <<>>,
                   out |-> r.serial]
       /\ UNCHANGED cardData

Init ==
    /\ hdr = [k \in KIDs |-> NoKey]
    /\ rec = [k \in KIDs |-> [i \in Pos |-> NoByte]]
    /\ pub = [k \in KIDs |-> <<>>]
    /\ faults = 0
    /\ cardData \in CardDataAnswers
    /\ serialnr = <<>>
    /\ last = [op |-> "none", req |-> NoKey, rc |-> "none", sent |-> <<>>,
               out |-> <<>>]

Next ==
    \/ \E req \in Requests : WriteKeyCall(req)
    \/ \E req \in GenRequests : GenKeyCall(req)
    \/ \E present \in BOOLEAN : GetSerialNrCall(present)

Spec == Init /\ [][Next]_vars

-----------------------------------------------------------------------------
(* Properties.                                                             *)

Done == last.op = "write" /\ last.rc = "OK"

TypeOK ==
    /\ hdr \in [KIDs -> Versions \cup {NoKey}]
    /\ rec \in [KIDs -> [Pos -> Versions \cup {NoByte, Generated}]]
    /\ pub \in [KIDs -> Seq(0 .. 255)]
    /\ faults \in 0 .. MaxFaults
    /\ last.sent \in Seq([offset : 0 .. MaxLen, clen : 0 .. 255])
    /\ last.out \in Seq(0 .. 255)
    /\ cardData \in CardDataAnswers
    /\ serialnr \in Seq(0 .. 255)

\* After write_key succeeds, the card's record holds the whole key: every
\* byte 0..key_len-1 written by this call (so no byte of an earlier key or
\* of an earlier, interrupted call survives), under the header this call
\* installed in mode 0.  Breaks if the chunk loop skips, overlaps or
\* misplaces a chunk, or if a failure between chunks were reported as OK.
KeyIntactAfterSuccess ==
    Done =>
      /\ last.req.mode = 0 => hdr[last.req.kid] = last.req.ver
      /\ \A i \in 0 .. last.req.len - 1 : rec[last.req.kid][i] = last.req.ver

\* Spec section 8: a successful write_key sends ceil(key_len / 124) chunks,
\* contiguous from offset 0, the last carrying key_len mod 124 bytes (124
\* when that is 0); its offsets fit the two bytes they are sent in.
ChunkPlanPerSpec ==
    (Done /\ last.req.present) =>
      LET s == last.sent  n == last.req.len IN
      /\ Len(s) = (n + STARCOS_WKEY_CSIZE - 1) \div STARCOS_WKEY_CSIZE
      /\ \A j \in 1 .. Len(s) :
            /\ s[j].offset = (j - 1) * STARCOS_WKEY_CSIZE
            /\ s[j].offset < 65536
      /\ n > 0 => s[Len(s)].clen = IF (n % STARCOS_WKEY_CSIZE) = 0
                                   THEN STARCOS_WKEY_CSIZE
                                   ELSE n % STARCOS_WKEY_CSIZE

\* Spec section 8: the modulus gen_key returns is the byte reverse of the
\* READ PUBLIC KEY answer bytes [18 .. 18 + len), i.e. the big-endian
\* modulus of the key the card generated in that KID, of key_length / 8
\* bytes and free of stale rbuf bytes, even when a transport failure hit
\* an earlier call on the same KID.
GenKeyModulusPerSpec ==
    (last.op = "gen" /\ last.rc = "OK") =>
      /\ last.out = pub[last.req.kid]
      /\ Len(last.out) = last.req.bits \div 8

\* get_serialnr succeeds only with data the card answered GET CARD DATA
\* with 9000, whether it comes from the card or from card->serialnr, and
\* the cache holds nothing else: a warning answer (62xx with data) or a
\* transport failure on an earlier call must not leave data that a later
\* call returns as the serial (lines 1296-1300).
SerialFromCard ==
    /\ serialnr # <<>> => cardData.sw = "9000" /\ serialnr = cardData.data
    /\ (last.op = "serial" /\ last.rc = "OK") =>
         cardData.sw = "9000" /\ last.out = cardData.data

====
