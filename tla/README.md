# TLA+ models of the STARCOS SPK 2.3 driver (`src/src/libopensc/card-starcos.c`)

The driver turns the card-API calls of the OpenSC framework (select file,
create file, set security environment, compute signature, card_ctl, logout)
into APDUs for a STARCOS SPK 2.3 card and turns status words back into
OpenSC error codes. It is single-threaded per card handle and has no internal
concurrency: what makes it hard is the **card**, a stateful peer whose current
DF, current EF and security templates the driver shadows in host-side state
(the path cache `card->cache`, and `sec_ops`/`fix_digestInfo` in
`starcos_ex_data`), and the **transport**, whose failures abort a handler
after some of its APDUs have already been executed by the card.

## 1. Inventory

| Component | Code (card-starcos.c) | State kept | Operations |
|---|---|---|---|
| ATR matcher / init / finish | `starcos_match_card` 69-77, `starcos_init` 79-116, `starcos_finish` 118-123, `sc_get_driver` 1364-1384 | `drv_data` (allocated ex_data), `max_send/recv_size`, algorithms | match, init, finish |
| FCI decoder | `process_fci` 125-216 | none (fills a descriptor) | pure function |
| Selector / path resolver | `starcos_select_aid` 218-264, `starcos_select_fid` 266-363, `starcos_select_file` 365-517 | path cache `card->cache.current_path`, `card->cache_valid`; the card's current DF/EF | select by FID, by AID, by path |
| ACL translator | `process_acl_entry` 523-542, `starcos_process_acl` 554-677 | none | pure function file -> create header |
| File creator | `starcos_create_mf/df/ef/end` 689-813, `starcos_create_file` 823-852 | the card's file tree | CREATE MF, REGISTER+CREATE DF, CREATE EF, CREATE END |
| Erase / logout | `starcos_erase_card` 861-883, `starcos_logout` 1337-1362 | cache validity; the card's MF | erase, logout |
| Key importer | `starcos_write_key` 897-954 | the card's ISF key records | install header, chunked write |
| Key generator | `starcos_gen_key` 965-1011 | the card's key pair | GENERATE, READ PUBLIC KEY, modulus reversal |
| Security env & signer | `starcos_set_security_env` 1026-1150, `starcos_compute_signature` 1152-1242 | `sec_ops`, `fix_digestInfo`; the card's DST/AT/CT templates | set env (DECIPHER, SIGN with AUTHENTICATE fallback), sign |
| Status-word table | `starcos_errors` 43-59, `starcos_check_sw` 1244-1271 | none | pure function |
| Serial number | `starcos_get_serialnr` 1273-1304 | `card->serialnr` cache | get serial |
| card_ctl dispatch | `starcos_card_ctl` 1306-1335 | none | dispatch on command tag |

**Interactions.** Every operation is a straight line of `sc_transmit_apdu`
calls. State shared between operations: the path cache (written by
`select_fid`/`select_aid`, read by `select_file`, invalidated by
`erase_card`), `sec_ops`/`fix_digestInfo` (written by `set_security_env`,
read and partly cleared by `compute_signature`), and the serial cache. The
framework (`card.c`, not part of this repository's sources) sets
`cache_valid` when a caller locks the card and clears the cache on the last
unlock; another application may select files on the card between sessions.

**Hard behaviours.**
- The cache is a shadow of the card's current DF; any step that moves the
  card without updating the cache (logout, a SELECT whose answer is lost, a
  later APDU of the same handler failing) leaves it stale.
- `select_file` decides from the cache how much of a path can be skipped; the
  decision compares FIDs position by position, not as a prefix.
- The DF/EF distinction is a heuristic over two card answers (6284 to a
  SELECT asking for FCI, 6986 to a READ BINARY probe).
- `set_security_env` tries COMPUTE SIGNATURE and falls back to INTERNAL
  AUTHENTICATE; `sec_ops` selects the signing command later, so which
  template the card holds and what `sec_ops` says must agree.
- `compute_signature` clears `sec_ops` only on one of its exits.
- Chunked key import: offsets and chunk lengths at the 124-byte boundary.

**Properties that make each component correct.**
- Selector: the cache names the card's current DF whenever it is valid; a
  successful select of an existing path leaves that file selected; the DF/EF
  classification agrees with the card; a warm select only sends SELECTs for
  the part of the path below the cached DF; a successful select that was
  asked for a descriptor returns one.
- Security env: a signature is made with the key and scheme of the last
  successful `set_security_env`; after `compute_signature` returns,
  `sec_ops` and `fix_digestInfo` are clear (the spec's claim).
- File creator / erase: headers encode the requested ACL; erase invalidates.
- Key importer: the card's key record equals the key after success; chunks
  are contiguous and cover the key exactly once.
- Codecs: FCI decoding and ACL encoding agree with the spec's tables.
- Serial cache: only a serial the card answered with 9000 is returned or
  cached.

## 2. Plan

Modules, in order (most important behaviour first):

1. `StarcosSelect` - card file tree + path cache + the three SELECT kinds,
   logout, erase, session boundaries, transport faults. **(done)**
2. `StarcosSecEnv` - `set_security_env`/`compute_signature` against the
   card's security templates, with the agreement between `ex_data` and
   the card as an invariant. **(done)**
3. `StarcosKeyWrite` - `write_key` chunking, `gen_key` and
   `get_serialnr` against the card's ISF key records and its GET CARD DATA
   answer, with transport faults between APDUs. **(done)**
4. The codecs `process_fci`, `process_acl_entry`, `STARCOS_PINID2STATE`
   and `starcos_check_sw` with the full table: operators of
   `StarcosCreate`, where their output reaches the card. **(done)**
5. `StarcosCreate` - `create_file`/`create_end` against a card holding
   files, registered DFs and activated DFs. **(done)** Composing it with
   `StarcosSelect`'s tree (a created DF becoming selectable) is open.
6. Serial cache: `starcos_get_serialnr` as an action of `StarcosKeyWrite`,
   checked in `keywrite_faults`. **(done)**

Not modelled: ATR matching, the rest of init, and finish (string compare,
constants and deallocation), logging and formatting. init's zeroing of
`ex_data` is `InitExData`, the initial state of `StarcosSecEnv`.

## 3. Modules

Every driver entry point is **one action**: the driver is single-threaded
per card handle and the card answers only when asked, so nothing interleaves
inside a call. The APDUs a handler sends, the card's answers and the
transport failures in between are evaluated inside the action. Handler
operators return the **set of possible outcomes** (`[st, rc, ...]`), and
`st` carries the card, the host-side state and the failure count through
each APDU in the code's order. `Transmit` gives three outcomes for every
APDU: the card's answer; or, while `faults < MaxFaults`, an error with the
request lost; or an error after the card executed the request. The third
outcome is what makes stale host state reachable.

**Fairness: none.** Every property is a safety property (an invariant, or
an invariant over the last call). Every call terminates with no waiting
inside, and the driver never initiates anything, so nothing "must
eventually happen". The only actor that could be made fair is the caller,
and a caller is never obliged to call again: a caller that stops after a
failed set env is exactly what the contract in 3.2 describes.

### 3.1 `StarcosSelect` (+ `MCStarcosSelect`)

| Model | Code |
|---|---|
| `card` = `[mf, df, ef]`: whether the card has an MF, its current DF and EF | the card |
| `cache`, `cacheValid` | `card->cache.current_path`, `card->cache_valid` |
| `SelectFid` | `starcos_select_fid` 266-363: P2=00/0C, 6284 reissue, READ BINARY probe (`ProbeSaysDF`), cache update (`FidCachePath`), descriptor (`FidDone`) |
| `SelectAid` | `starcos_select_aid` 218-264 |
| `SelectPath`, `CacheMatch`, `ColdPath`, `Normalize`, `PathWellFormed` | `starcos_select_file` 418-517, including the recursion at 477 |
| `SelectByFid`/`SelectByAid`/`SelectByPath` | the three `in_path->type` branches, 365-517 |
| `Logout`, `EraseCard` | `starcos_logout` 1337-1362, `starcos_erase_card` 861-883 |
| `NewSession` | framework (`card.c`, not in this repository): on lock the cache is made valid and empty; between sessions another application may select any DF |

The card model follows ISO 7816-4 SELECT by FID. A SELECT reaches the MF, a
child of the current DF, or a sibling DF (the current DF included). An erased
card answers 6985. A DF that is not in `DFsWithFCI` answers 6284 to P2=00.
READ BINARY answers 6986 when no EF is current. FIDs are model values, and a
path is a sequence of them. The byte arithmetic (`pathlen` in bytes, `i+=2`)
becomes positions in the sequence.

**Bounds.** There are 4 FIDs: the MF, two DFs A and B (only A returns FCI),
and an EF E that appears both under the MF and under A, so the same FID
names different files in different DFs. There are two AIDs. The requests are
every path of up to 3 FIDs with the MF only at the head, plus one over-long
path. This is the smallest tree in which a sibling DF, a same-named EF in
another DF, a child of a DF and a repeated FID all exist. Every branch of
`select_file`, including the recursion and the cache hit, is reachable with
these bounds. `MaxFaults` is 1 where failures are on: a single failure
already reaches every partial-failure state.

| Run | Expect | Checks | Shows |
|---|---|---|---|
| `select_core` | pass | `TypeOK`, `CacheCoherent`, `SelectsOnlyBelowCachedPrefix` | Without logout or faults, the cache names the card's DF while valid, and a warm select sends only the SELECTs below the cached DF |
| `select_faults` | pass | `FidClassificationSound` | With logout and one fault, DF/EF classification matches the card |
| `select_wrong_dir` | violation | `ExistingPathSelected` | cache 3F00/A, select 3F00/E: E is selected in DF A (line 461) |
| `select_phantom_path` | violation | `PathSuccessMeansExists` | 3F00/A/A succeeds (lines 477, 507-512) |
| `select_logout_stale` | violation | `CacheCoherent` | logout leaves the cache naming the old DF (1343) |
| `select_fault_stale` | violation | `CacheCoherent` | a lost answer after SELECT leaves the cache stale (298/311; erase at 876) |
| `select_aid_hit` | violation | `SelectReturnsDescriptor` | an AID cache hit returns no descriptor (413) |

### 3.2 `StarcosSecEnv` (+ `MCStarcosSecEnv`)

| Model | Code |
|---|---|
| `secOps`, `fixDigest` | `ex_data->sec_ops`, `ex_data->fix_digestInfo` (padding and hash flags) |
| `tmpl` = `[dst, at, ct]` | the card's security templates set by MSE (P2 = B6, A4, B8) |
| `SignAlgRef` | the algorithm-reference choice, 1070-1105 (`AuthRef` = `goto try_authenticate`, `InvalidRef` = the INVALID_ARGUMENTS returns) |
| `TryAuthenticate` | `try_authenticate:` 1127-1149 |
| `SetSecurityEnv` | `starcos_set_security_env` 1026-1150 |
| `ComputeSignature`, `AuthBlock`, `ClearAndCheck` | `starcos_compute_signature` 1152-1242 |
| `InitExData` | `starcos_init` 78-88: `ex_data` allocated and zeroed; the initial `secOps`, `fixDigest` |
| `Installed` | the template the command named by `sec_ops` uses (1165 PSO on the DST, 1200-1216 INTERNAL AUTHENTICATE on the AT with `fix_digestInfo`) |
| `promise`, `lastCall` | history variables: the environment the caller last installed, and the last call's result |

The card accepts a DST only for keys in `SigKeys` and answers 6A88
otherwise. PSO HASH answers 6700 to a hash of the wrong length and 6985
when no DST is set. PSO COMPUTE SIGNATURE and INTERNAL AUTHENTICATE may
answer 6982. A signature is modelled as the pair (key, scheme) that the card
used. The MSE byte string is abstracted to (key, algorithm reference).

`Installed` is the environment the card would sign with now: the template
that the command named by `sec_ops` uses, plus `fix_digestInfo` for INTERNAL
AUTHENTICATE. `EnvInstalledAsPromised` compares it, between calls, with
`promise`, the caller's record of the last successful set env for signing.
`Installed` is built from the card and `promise` from the caller's calls, so
the comparison fails whenever the fallback, a refused DST, a DECIPHER, or
the partial clear at 1237 leaves `ex_data` and the card out of step.

No abstract signer is checked by refinement. The abstract signer a caller
could rely on is the one spec.md describes, which drops the environment after every
signature. The code keeps it after a success (1199, 1232), so a refinement
to that signer is just the `secenv_no_clear` finding again. A refinement to
a signer that keeps the environment would only repeat the bug.

**Bounds.** There are two keys, of which only K1 is a signature key. Every
combination of operation, padding and hash is enumerated, together with the
explicit algorithm references, except that the hash flags are cut to
`MCHashes` = SHA1, RIPEMD160, MD5 and no flag. That is one flag per path
of `SignAlgRef`: NONE takes the path of no flag, and MD5_SHA1 takes the
INTERNAL AUTHENTICATE path that MD5 already takes for a non-signature key.
The data is `ok`, `badlen` or `over`. This reaches every branch of both
functions: the DST path, both fallbacks to INTERNAL AUTHENTICATE, and every
early return.

In `secenv_core` the transport may lose one request or answer
(`MaxFaults = 1`). The caller is constrained as `sc_pkcs15_compute_signature`
constrains it: it returns on any error of `set_security_env`, so it never
signs after a set env that failed. `envUnknown` records that a SIGN or
AUTHENTICATE set env failed in transport since the last one that succeeded,
and `CallerMaySign == ~envUnknown` guards `ComputeSignatureCall`. A DECIPHER
set env leaves the flag alone, because it never touches the DST or AT. Without
the guard, TLC finds this three-step trace (hazard 1115):
1. A set env for SIGN with PKCS1/SHA1 succeeds.
2. A set env for PKCS1/MD5 follows. The card executes its DST MSE, but the
   answer is lost.
3. A signature is then made with the MD5 DST.

| Run | Expect | Checks | Shows |
|---|---|---|---|
| `secenv_core` | pass | `TypeOK`, `SignatureUsesLastEnv`, `EnvInstalledAsPromised` | Even with one lost request or answer, signatures use the last successfully installed environment, and `sec_ops`, `fix_digestInfo` and the card's templates agree with it between calls (55069 states, about 25 s) |
| `secenv_no_clear` | violation | `SecOpsClearedAfterSign` | After a successful signature, `sec_ops` and `fix_digestInfo` stay set (1199, 1232), contrary to spec 4.7 |

### 3.3 `StarcosKeyWrite` (+ `MCStarcosKeyWrite`)

| Model | Code |
|---|---|
| `hdr`, `rec`, `pub` | the card: the key header, the key bytes and the public modulus per KID |
| `WriteKey`, `WriteKeyCall` | `starcos_write_key` 885-954: header install in mode 0 (905-921), NULL-key skip (923-924) |
| `Chunks`, `ChunkLen`, `NextOffset`, `WireOffset` | the loop 926-953: `clen` (930), the two offset bytes (934-935), `offset += clen` (949) |
| `GenKey`, `GenKeyCall`, `WireBits` | `starcos_gen_key` 965-1011: GENERATE KEY, READ PUBLIC KEY |
| `GenModulus`, `RbufAt` | the reversal out of `rbuf[18]` (1005-1008); bytes past the answer are uninitialised stack memory, a nondeterministic member of `StaleBytes` |
| `CheckSw` | `starcos_check_sw`, reduced to the one word the card model answers (6A88) |
| `cardData`, `serialnr` | the card's answer to GET CARD DATA (fixed per card); `card->serialnr`, `<<>>` while `len` is 0 |
| `GetSerialNr`, `GetSerialNrCall` | `starcos_get_serialnr` 1273-1304: NULL check, cache hit, GET CARD DATA, 9000 check, caching |

The card refuses a chunk and GENERATE KEY for a KID without a header
(6A88). A new header empties the KID's record and forgets its public key.
GENERATE KEY replaces the key with `Generated` and a modulus of
`key_length / 8` distinct bytes. READ PUBLIC KEY answers 18 information
bytes followed by the modulus, least significant byte first. Each card
answers GET CARD DATA in one fixed way, chosen in `Init`: a 2-byte serial
with 9000; 9000 with no data, so `len` stays 0 and every call asks the card
again; or the warning 6282 with data, which the driver turns into
SC_ERROR_INTERNAL and must not cache.

**Bounds.** There is one KID and two key versions. The key lengths are 0,
1, 124, 125 and 249: none, a single byte, exactly one chunk, one chunk plus
a byte, and two chunks plus a byte. gen_key uses 16 and 24 bits. One
transport failure is allowed anywhere, which reaches a failure between any
two chunks and between GENERATE and READ, or on GET CARD DATA before or
after a cached serial exists. The run reaches 35110 distinct states in
about 2 min 15 s.

| Run | Expect | Checks | Shows |
|---|---|---|---|
| `keywrite_faults` | pass | `TypeOK`, `KeyIntactAfterSuccess`, `ChunkPlanPerSpec`, `GenKeyModulusPerSpec`, `SerialFromCard` | A successful write_key leaves the whole key (and header) on the card in ceil(len/124) contiguous chunks; a successful gen_key returns the card's current modulus, big-endian, without stale bytes; get_serialnr returns and caches only a serial the card answered with 9000 |

### 3.4 `StarcosCreate` (+ `MCStarcosCreate`)

| Model | Code |
|---|---|
| `ProcessAclEntry`, `PinIdToState`, `Msb`, `STARCOS_AC_*` | `process_acl_entry` 519-542 |
| `ProcessAcl`, `SmFor`, `SmLoop`, `EfTail` | `starcos_process_acl` 554-677: the MF, DF and EF headers byte for byte |
| `CreateFile`, `CreateMf`, `CreateDf`, `CreateEf`, `CreateEnd` | `starcos_create_file` 823-852, `starcos_create_mf` 689-705, `_df` 718-755, `_ef` 765-781, `_end` 794-812; `CreateOne` is the transmit and `check_sw` they share |
| `CtlCreateFile`, `CtlCreateFileCall` | `starcos_card_ctl` CREATE_FILE 1310-1320: the caller's prebuilt header to create_mf/df/ef by type tag, SC_ERROR_INTERNAL otherwise |
| `StarcosErrors`, `CheckSw` | `starcos_errors` 43-59, `starcos_check_sw` 1244-1271 (with the ISO fallback for 6A82 and 6985) |
| `ProcessFci`, `FindTag` | `process_fci` 125-216, `sc_asn1_find_tag` (framework) |
| `SelectCreatedEf` | `starcos_select_fid` 334-359 applied to a created EF: its FCI goes through `process_fci` |
| `files`, `reg`, `active` | the card: files by FID with their header, registered DFs, DFs whose ACs are active |
| `made` | history: the request each file was created from (a `create_file` descriptor or `card_ctl` data) |

The framework's constants come from OpenSC's `types.h`, which is not in
this repository; the cfg gives them their values. These are:
`SC_FILE_TYPE_DF = 4`, `SC_FILE_TYPE_WORKING_EF = 1`,
`SC_FILE_EF_TRANSPARENT = 1`, `LINEAR_FIXED = 2`, `CYCLIC = 6`,
`SC_AC_OP_READ = 0`, `ERASE = 2`, `WRITE = CREATE = 3`, `SC_AC_CHV = 0x01`,
`SC_AC_PRO = 0x04` and `SC_AC_NEVER = 0xFFFFFFFF`.

A method mask is the set of its bit numbers, because TLC's integers cannot
hold `0xFFFFFFFF`. `sc_file_get_acl_entry` returns the framework's static
`e_never`/`e_none` entries (method NEVER/NONE, key reference
`SC_AC_KEY_REF_NONE`) for the sentinel ACL pointers, and `NoEntry` for NULL.

The card refuses CREATE of an existing FID (6A89), CREATE DF of a DF that
has not been registered (6985), and a second REGISTER DF (6A8A). It answers
SELECT of an EF with an FCI built from the header's structure tail.

**Bounds.** The requests cover the MF, one DF (with and without an AID) and
one EF of each accepted structure. Each has an ACL giving every operation
the same entry: none, e_never, e_none, CHV 0x81, CHV 0x02 or PRO. That is
every branch of `process_acl_entry` and every EF tail. The `card_ctl`
requests carry one prebuilt MF, DF and EF header each, plus a tag
`card_ctl` does not know. The ACL and round-trip properties are about what
`create_file` builds, so they quantify over files made from descriptors.
`MaxFaults` is 1.

| Run | Expect | Checks | Shows |
|---|---|---|---|
| `create_acl_never` | violation | `AclEncodedPerSpec` | PRO is encoded as NEVER (0x5F), and a NEVER entry as ALWAYS (0x9F), because the CHV bit is tested first and NEVER is all ones (529) |
| `create_ef_roundtrip` | violation | `EfRoundTrip` | A linear-fixed EF reads back as transparent, because of the switch on `file->type` (652) |

Both are violation runs, and TLC finds them at depth 2 and 3. The full
state space, with every request's history kept in `made`, is too large to
explore in minutes, so no passing run covers this module.

## 4. Not modelled

- **ATR matching, the rest of init, finish** (68-123, 1364-1384). These
  are a table lookup, constants and a free. The zeroed `ex_data` is
  modelled (`InitExData`). The other lasting effect is the cap
  `max_send_size = 128` (109-110), which only the framework's
  `sc_transmit_apdu` reads. That function is not in this repository, so
  whether a 129-byte chunk of `write_key` is refused stays open
  (hazard 937).
- **The serial buffer overflow** (1299). The unchecked copy of up to 256
  bytes into the 32-byte `serialnr.value` needs a card whose GET CARD DATA
  answer is longer than 32 bytes. No document attributes such an answer to
  a STARCOS card, so the modelled serials are 2 bytes long.
- **Logging, formatting, the MSE byte strings, and the malloc failure of
  `gen_key`.**
- **The composition of `StarcosCreate` with `StarcosSelect`** (a created
  DF becoming a target of SELECT by path) is not built.

The hazards that no run covers yet are listed in `PROJECT.json` "hazards",
each with a note.
