---------------------------- MODULE StarcosSecEnv ----------------------------
(***************************************************************************)
(* starcos_set_security_env and starcos_compute_signature (card-starcos.c) *)
(* against the card's security templates: the digital-signature template  *)
(* (DST, MSE P2=B6, used by PSO COMPUTE SIGNATURE), the authentication     *)
(* template (AT, P2=A4, used by INTERNAL AUTHENTICATE) and the             *)
(* confidentiality template (CT, P2=B8).  The driver remembers in sec_ops  *)
(* which of the two signing commands to use and in fix_digestInfo the     *)
(* algorithm flags for which it must build the DigestInfo itself.  One     *)
(* action per call; APDUs, card answers and transport failures happen     *)
(* within it (the driver is single-threaded, the card passive).           *)
(***************************************************************************)
EXTENDS Integers, FiniteSets, TLC

CONSTANTS
    Keys,        \* key references
    SigKeys,     \* keys the card accepts in a DST (COMPUTE SIGNATURE keys)
    NoTemplate,  \* a template slot the card has not been given
    NoSecOp,     \* sec_ops = 0
    NoFix,       \* fix_digestInfo = 0
    NoAlgRef,    \* SC_SEC_ENV_ALG_REF_PRESENT not set
    NoEnv, NoSig,
    MaxFaults    \* transport failures allowed in one behaviour

Pads   == {"PKCS1", "ISO9796", "NOPAD"}
\* One hash flag of the algorithm flags, or none of them ("NOHASH").
Hashes == {"NONE", "SHA1", "MD5", "RIPEMD160", "MD5_SHA1", "NOHASH"}
Ops    == {"SIGN", "AUTH", "DECIPHER"}

\* Lines 1082-1102: COMPUTE SIGNATURE algorithm references (0x12, 0x22,
\* 0x32 with PKCS#1; 0x11, 0x21 with ISO 9796) and the schemes they name.
AlgRefOf == (<<"PKCS1", "SHA1">> :> 18) @@ (<<"PKCS1", "RIPEMD160">> :> 34)
            @@ (<<"PKCS1", "MD5">> :> 50) @@ (<<"ISO9796", "SHA1">> :> 17)
            @@ (<<"ISO9796", "RIPEMD160">> :> 33)
AlgRefs  == {AlgRefOf[s] : s \in DOMAIN AlgRefOf}
SchemeOfRef(r) == CHOOSE s \in DOMAIN AlgRefOf : AlgRefOf[s] = r

\* The scheme a caller asks for: padding and hash, no hash flag meaning none.
Scheme(pad, hash) == <<pad, IF hash = "NOHASH" THEN "NONE" ELSE hash>>
Schemes == {Scheme(p, h) : p \in Pads, h \in Hashes}

\* sc_security_env_t: operation, algorithm flags, key reference, and an
\* explicit algorithm reference (given only as one the card knows).
Envs == [op : Ops, pad : Pads, hash : Hashes, key : Keys, algRef : {NoAlgRef}]
        \cup {e \in [op : {"SIGN"}, pad : Pads, hash : Hashes, key : Keys,
                     algRef : AlgRefs] :
                <<e.pad, e.hash>> \in DOMAIN AlgRefOf
                /\ e.algRef = AlgRefOf[<<e.pad, e.hash>>]}

\* Input to compute_signature: a hash of the right length, one of the wrong
\* length, or more than SC_MAX_APDU_BUFFER_SIZE bytes.
Data == {"ok", "badlen", "over"}

VARIABLES
    secOps,      \* ex_data->sec_ops: NoSecOp, "SIGN" or "AUTH"
    fixDigest,   \* ex_data->fix_digestInfo: NoFix or [pad, hash]
    tmpl,        \* the card's templates [dst, at, ct]
    faults,      \* transport failures so far
    promise,     \* history: the last successfully installed signing env
    lastCall,    \* history: [op, rc, sig, n] of the last call
    envUnknown   \* caller: a set_security_env failed in transport since the
                 \* last one that succeeded

vars == <<secOps, fixDigest, tmpl, faults, promise, lastCall, envUnknown>>

-----------------------------------------------------------------------------
(* The card.  MSE with a DST is refused (6A88) for a key that is not a     *)
(* signature key; AT and CT are accepted.  PSO HASH needs a DST and a      *)
(* hash of the right length.  PSO COMPUTE SIGNATURE and INTERNAL           *)
(* AUTHENTICATE may be refused (6982, security status not satisfied) for   *)
(* reasons outside this model.  Each returns the set of possible answers.  *)

CardMseDst(t, key, alg) ==
    IF key \in SigKeys
    THEN {[tmpl |-> [t EXCEPT !.dst = [key |-> key, alg |-> alg]], sw |-> "9000"]}
    ELSE {[tmpl |-> t, sw |-> "6A88"]}
CardMseAt(t, key) == {[tmpl |-> [t EXCEPT !.at = key], sw |-> "9000"]}
CardMseCt(t, key) == {[tmpl |-> [t EXCEPT !.ct = key], sw |-> "9000"]}
CardPsoHash(t, data) ==
    {[tmpl |-> t, sw |-> IF data = "badlen" THEN "6700"
                         ELSE IF t.dst = NoTemplate THEN "6985" ELSE "9000"]}
CardPsoSign(t) ==
    {[tmpl |-> t, sw |-> "6982"]}
    \cup (IF t.dst = NoTemplate THEN {}
          ELSE {[tmpl |-> t, sw |-> "9000",
                 sig |-> [key |-> t.dst.key, scheme |-> SchemeOfRef(t.dst.alg)]]})
\* INTERNAL AUTHENTICATE pads with PKCS#1 the block the host sends.
CardIntAuth(t, block) ==
    {[tmpl |-> t, sw |-> "6982"]}
    \cup (IF t.at = NoTemplate THEN {}
          ELSE {[tmpl |-> t, sw |-> "9000",
                 sig |-> [key |-> t.at, scheme |-> <<"PKCS1", block>>]]})

\* sc_transmit_apdu: the card's answer, or (while faults remain) a failure
\* with the request lost, or with the card having executed it.
Transmit(st, answers) ==
    {[st |-> [st EXCEPT !.tmpl = a.tmpl], ok |-> TRUE, a |-> a] : a \in answers}
    \cup (IF st.faults < MaxFaults
          THEN {[st |-> [st EXCEPT !.faults = @ + 1], ok |-> FALSE, a |-> NoSig]}
               \cup {[st |-> [st EXCEPT !.tmpl = a.tmpl, !.faults = @ + 1],
                      ok |-> FALSE, a |-> NoSig] : a \in answers}
          ELSE {})

\* sc_check_sw for the status words of this card model (starcos_errors has
\* none of them; iso7816_check_sw maps them).
CheckSw(sw) ==
    CASE sw = "6A88" -> "DATA_NOT_FOUND"
      [] sw = "6700" -> "WRONG_LENGTH"
      [] sw = "6982" -> "SECURITY_STATUS"
      [] OTHER       -> "NOT_ALLOWED"

-----------------------------------------------------------------------------
(* The driver.  st is [sec, fix, tmpl, faults]; a handler's outcome is     *)
(* [st, rc, sig].                                                          *)

Result(st, rc) == [st |-> st, rc |-> rc, sig |-> NoSig]
Signed(st, sig) == [st |-> st, rc |-> "OK", sig |-> sig]

AuthRef    == 0    \* "goto try_authenticate" (line 1094)
InvalidRef == -1   \* "return SC_ERROR_INVALID_ARGUMENTS" (lines 1102, 1104)

\* Mutant: MD5 with PKCS#1 sent as reference 0x13, which the card lacks.
SignAlgRefMD5Typo(e) ==
    CASE e.algRef # NoAlgRef -> e.algRef
      [] e.pad = "PKCS1" ->
           CASE e.hash = "SHA1" -> 18 [] e.hash = "RIPEMD160" -> 34
             [] e.hash = "MD5" -> 19  [] OTHER -> AuthRef
      [] OTHER ->
           CASE e.hash = "SHA1" -> 17 [] e.hash = "RIPEMD160" -> 33
             [] OTHER -> InvalidRef

\* Mutant: the RIPEMD-160 references of the two paddings swapped.
SignAlgRefSwapped(e) ==
    CASE e.algRef # NoAlgRef -> e.algRef
      [] e.pad = "PKCS1" ->
           CASE e.hash = "SHA1" -> 18 [] e.hash = "RIPEMD160" -> 33
             [] e.hash = "MD5" -> 50  [] OTHER -> AuthRef
      [] OTHER ->
           CASE e.hash = "SHA1" -> 17 [] e.hash = "RIPEMD160" -> 34
             [] OTHER -> InvalidRef

\* Lines 1073-1105: the algorithm reference for COMPUTE SIGNATURE: the
\* caller's, or one chosen from padding and hash.
SignAlgRef(e) ==
    CASE e.algRef # NoAlgRef -> e.algRef
      [] e.pad = "PKCS1" ->
           CASE e.hash = "SHA1" -> 18 [] e.hash = "RIPEMD160" -> 34
             [] e.hash = "MD5" -> 50  [] OTHER -> AuthRef
      [] OTHER ->
           CASE e.hash = "SHA1" -> 17 [] e.hash = "RIPEMD160" -> 33
             [] OTHER -> InvalidRef

\* Lines 1127-1149: MSE for INTERNAL AUTHENTICATE; on 9000 the algorithm
\* flags are kept so that compute_signature builds the DigestInfo.
TryAuthenticate(st, e) ==
    IF e.pad # "PKCS1" THEN {Result(st, "INVALID_ARGS")}
    ELSE {IF ~d.ok THEN Result(d.st, "TRANSMIT")
          ELSE IF d.a.sw # "9000" THEN Result(d.st, CheckSw(d.a.sw))
          ELSE Result([d.st EXCEPT !.fix = [pad |-> e.pad, hash |-> e.hash],
                                   !.sec = "AUTH"], "OK")
          : d \in Transmit(st, CardMseAt(st.tmpl, e.key))}

\* starcos_set_security_env (lines 1026-1150): DECIPHER sets the CT;
\* SIGN tries MSE for COMPUTE SIGNATURE (errors suppressed) and falls back
\* to INTERNAL AUTHENTICATE when no reference fits or the card refuses.
SetSecurityEnv(st, e) ==
    CASE e.op = "DECIPHER" ->
           IF e.pad # "PKCS1" THEN {Result(st, "INVALID_ARGS")}
           ELSE {IF ~d.ok THEN Result(d.st, "TRANSMIT")
                 ELSE IF d.a.sw # "9000" THEN Result(d.st, CheckSw(d.a.sw))
                 ELSE Result(d.st, "OK")
                 : d \in Transmit(st, CardMseCt(st.tmpl, e.key))}
      [] e.op = "SIGN" /\ e.pad \in {"PKCS1", "ISO9796"} ->
           LET ref == SignAlgRef(e) IN
           IF ref = InvalidRef THEN {Result(st, "INVALID_ARGS")}
           ELSE IF ref = AuthRef THEN TryAuthenticate(st, e)
           ELSE UNION {IF ~d.ok THEN {Result(d.st, "TRANSMIT")}
                       ELSE IF d.a.sw = "9000"
                       THEN {Result([d.st EXCEPT !.fix = NoFix, !.sec = "SIGN"], "OK")}
                       ELSE TryAuthenticate(d.st, e)
                       : d \in Transmit(st, CardMseDst(st.tmpl, e.key, ref))}
      [] e.op = "AUTH" -> TryAuthenticate(st, e)
      [] OTHER -> {Result(st, "INVALID_ARGS")}

\* Lines 1206-1219: the hash whose DigestInfo INTERNAL AUTHENTICATE gets in
\* front of the data ("NONE" when no hash flag is set, or when the data go
\* as they are), or "fail" when sc_pkcs1_encode rejects the data length.
AuthBlock(fix, data) ==
    IF fix = NoFix THEN "NONE"
    ELSE LET h == Scheme(fix.pad, fix.hash)[2] IN
         IF data = "badlen" /\ h # "NONE" THEN "fail" ELSE h

\* Mutant: the reset of sec_ops forgotten.
ClearAndCheckFixOnly(st, sw) == Result([st EXCEPT !.fix = NoFix], CheckSw(sw))

\* Lines 1237-1241: the one exit that clears the session state.
ClearAndCheck(st, sw) ==
    Result([st EXCEPT !.sec = NoSecOp, !.fix = NoFix], CheckSw(sw))

\* starcos_compute_signature (lines 1152-1242), dispatched on sec_ops.
ComputeSignature(st, data) ==
    CASE data = "over" -> {Result(st, "INVALID_ARGS")}
      [] st.sec = "SIGN" ->
           UNION {IF ~d1.ok THEN {Result(d1.st, "TRANSMIT")}
                  ELSE IF d1.a.sw # "9000" THEN {Result(d1.st, CheckSw(d1.a.sw))}
                  ELSE {IF ~d2.ok THEN Result(d2.st, "TRANSMIT")
                        ELSE IF d2.a.sw = "9000" THEN Signed(d2.st, d2.a.sig)
                        ELSE ClearAndCheck(d2.st, d2.a.sw)
                        : d2 \in Transmit(d1.st, CardPsoSign(d1.st.tmpl))}
                  : d1 \in Transmit(st, CardPsoHash(st.tmpl, data))}
      [] st.sec = "AUTH" ->
           LET block == AuthBlock(st.fix, data) IN
           IF block = "fail" THEN {Result(st, "ENCODE")}
           ELSE {IF ~d.ok THEN Result(d.st, "TRANSMIT")
                 ELSE IF d.a.sw = "9000" THEN Signed(d.st, d.a.sig)
                 ELSE ClearAndCheck(d.st, d.a.sw)
                 : d \in Transmit(st, CardIntAuth(st.tmpl, block))}
      [] OTHER -> {Result(st, "INVALID_ARGS")}

-----------------------------------------------------------------------------
(* Actions.                                                                *)

St == [sec |-> secOps, fix |-> fixDigest, tmpl |-> tmpl, faults |-> faults]

Apply(r) ==
    /\ secOps' = r.st.sec
    /\ fixDigest' = r.st.fix
    /\ tmpl' = r.st.tmpl
    /\ faults' = r.st.faults

SetSecurityEnvCall(e) ==
    \E r \in SetSecurityEnv(St, e) :
       /\ Apply(r)
       /\ promise' = IF r.rc = "OK" /\ e.op # "DECIPHER"
                     THEN [key |-> e.key, scheme |-> Scheme(e.pad, e.hash)]
                     ELSE promise
       /\ lastCall' = [lastCall EXCEPT !.op = "setenv", !.rc = r.rc]
       /\ envUnknown' = CASE e.op = "DECIPHER" -> envUnknown
                           [] r.rc = "OK"         -> FALSE
                           [] r.rc = "TRANSMIT"   -> TRUE
                           [] OTHER               -> envUnknown

\* The caller's contract: after a set_security_env for signing that failed
\* in transport (the card may or may not have executed its MSE) the caller
\* signs only once a set_security_env for signing has succeeded again, as
\* sc_pkcs15_compute_signature does by returning on any error of
\* set_security_env.  A DECIPHER environment (the CT) does not count.
CallerMaySign == ~envUnknown

ComputeSignatureCall(data) ==
    /\ CallerMaySign
    /\ \E r \in ComputeSignature(St, data) :
          /\ Apply(r)
          /\ lastCall' = [op |-> "sign", rc |-> r.rc, sig |-> r.sig, n |-> 1 - lastCall.n]
          /\ UNCHANGED <<promise, envUnknown>>

\* starcos_init (lines 78-88): the session's ex_data is allocated, zeroed
\* (no security operation, no DigestInfo fix) and hung on card->drv_data.
\* An allocation failure (OUT_OF_MEMORY) means no session is started.
InitExData == [sec |-> NoSecOp, fix |-> NoFix]

Init ==
    /\ secOps = InitExData.sec
    /\ fixDigest = InitExData.fix
    /\ tmpl = [dst |-> NoTemplate, at |-> NoTemplate, ct |-> NoTemplate]
    /\ faults = 0
    /\ promise = NoEnv
    /\ lastCall = [op |-> "none", rc |-> "OK", sig |-> NoSig, n |-> 0]
    /\ envUnknown = FALSE

Next ==
    \/ \E e \in Envs : SetSecurityEnvCall(e)
    \/ \E d \in Data : ComputeSignatureCall(d)

Spec == Init /\ [][Next]_vars

-----------------------------------------------------------------------------
(* Properties.                                                             *)

SigRecs == [key : Keys, scheme : Schemes]

TypeOK ==
    /\ secOps \in {NoSecOp, "SIGN", "AUTH"}
    /\ fixDigest \in {NoFix} \cup [pad : Pads, hash : Hashes]
    /\ tmpl \in [dst : {NoTemplate} \cup [key : Keys, alg : AlgRefs],
                 at : {NoTemplate} \cup Keys, ct : {NoTemplate} \cup Keys]
    /\ promise \in {NoEnv} \cup SigRecs
    /\ lastCall.sig \in {NoSig} \cup SigRecs

\* Every signature compute_signature returns is made with the key and the
\* scheme (padding, hash) of the last set_security_env for signing that
\* succeeded: the COMPUTE SIGNATURE / INTERNAL AUTHENTICATE choice, the
\* fallback, sec_ops and fix_digestInfo together.
SignatureUsesLastEnv ==
    (lastCall.op = "sign" /\ lastCall.rc = "OK") => lastCall.sig = promise

\* The environment the card would sign with now: the template that the
\* command named by sec_ops uses, with fix_digestInfo's DigestInfo for
\* INTERNAL AUTHENTICATE.
Installed ==
    CASE secOps = "SIGN" /\ tmpl.dst # NoTemplate ->
           [key |-> tmpl.dst.key, scheme |-> SchemeOfRef(tmpl.dst.alg)]
      [] secOps = "AUTH" /\ tmpl.at # NoTemplate ->
           [key |-> tmpl.at, scheme |-> <<"PKCS1", AuthBlock(fixDigest, "ok")>>]
      [] OTHER -> NoEnv

\* Between calls, whenever sec_ops names a signing command and the caller
\* may sign, the card template that command uses, together with
\* fix_digestInfo, holds the key and scheme of the last set_security_env
\* for signing that succeeded: the fallback of 1093-1125, a refused DST,
\* a later DECIPHER (1067) and the partial clear of 1237 must all keep
\* the driver's ex_data and the card in step.
EnvInstalledAsPromised ==
    (secOps # NoSecOp /\ CallerMaySign) => Installed = promise

\* Spec section 4.7/5: after compute_signature returns, whatever the
\* outcome, sec_ops and fix_digestInfo are cleared.
SecOpsClearedAfterSign ==
    lastCall.op = "sign" => (secOps = NoSecOp /\ fixDigest = NoFix)

====
