---------------------------- MODULE StarcosSelect ----------------------------
(***************************************************************************)
(* SELECT FILE of the STARCOS SPK 2.3 driver (card-starcos.c) against a    *)
(* card with a one-level file tree.  The driver keeps a path cache that    *)
(* shadows the card's current DF; the card and the transport are the       *)
(* environment.  Each driver entry point is one action: its APDUs, the     *)
(* card's answers and any transport failure happen within the step, as     *)
(* the driver is single-threaded and the card is passive.  Handlers are    *)
(* written as operators that return the SET of possible outcomes, one per  *)
(* card answer or transport failure.                                       *)
(***************************************************************************)
EXTENDS Naturals, Sequences, SequencesExt, FiniteSets

CONSTANTS
    MFID,        \* the FID 3F00
    FIDs,        \* the FIDs used on the card and in requests (MFID included)
    DFs,         \* absolute paths <<MFID, fid>> of the DFs below the MF
    EFs,         \* absolute paths of the EFs
    DFsWithFCI,  \* directories whose SELECT with P2=00 returns FCI (others: 6284)
    AIDs,        \* application identifiers
    AIDOf,       \* directory -> its AID, or NoAID
    NoAID,
    NoFile,      \* "no file": no current EF, no descriptor returned
    Requests,    \* the FID sequences callers pass as paths
    MaxFaults,   \* transport failures allowed in one behaviour
    Operations   \* entry points the environment calls

MF    == <<MFID>>
Dirs  == {MF} \cup DFs
Files == Dirs \cup EFs

NoCache == [type |-> "none", value |-> <<>>]

VARIABLES
    card,        \* [mf, df, ef]: does the MF exist, current DF, current EF
    cacheValid,  \* card->cache_valid
    cache,       \* card->cache.current_path: [type, value]
    faults,      \* transport failures so far
    last         \* the last driver call and its result (history)

vars == <<card, cacheValid, cache, faults, last>>

-----------------------------------------------------------------------------
(* The card (environment).  SELECT by FID follows ISO 7816-4: the MF, a    *)
(* child of the current DF, or a DF that is a sibling of the current DF    *)
(* (the current DF itself included).  An erased card has no MF and answers *)
(* 6985 to everything, as the comments of erase_card and logout say.       *)

CardResolve(c, fid) ==
    IF fid = MFID THEN MF
    ELSE IF Append(c.df, fid) \in Files THEN Append(c.df, fid)
    ELSE IF c.df # MF /\ Append(Front(c.df), fid) \in DFs
         THEN Append(Front(c.df), fid)
    ELSE NoFile

CardSelect(c, fid, p2) ==
    LET f == CardResolve(c, fid) IN
    CASE ~c.mf      -> [card |-> c, sw |-> "6985"]
      [] f = NoFile -> [card |-> c, sw |-> "6A82"]
      [] f \in Dirs -> [card |-> [c EXCEPT !.df = f, !.ef = NoFile],
                        sw |-> IF p2 = "00" /\ f \notin DFsWithFCI
                               THEN "6284" ELSE "9000"]
      [] OTHER      -> [card |-> [c EXCEPT !.ef = f], sw |-> "9000"]

CardSelectAid(c, aid) ==
    LET hit == {d \in Dirs : AIDOf[d] = aid} IN
    CASE ~c.mf      -> [card |-> c, sw |-> "6985"]
      [] hit = {}   -> [card |-> c, sw |-> "6A82"]
      [] OTHER      -> [card |-> [c EXCEPT !.df = CHOOSE d \in hit : TRUE,
                                           !.ef = NoFile],
                        sw |-> "9000"]

\* READ BINARY of one byte: 6986 ("no current EF") when no EF is selected.
CardReadBinary(c) ==
    [card |-> c, sw |-> IF c.ef = NoFile THEN "6986" ELSE "9000"]

CardErase(c) ==
    IF c.mf THEN [card |-> [mf |-> FALSE, df |-> <<>>, ef |-> NoFile],
                  sw |-> "9000"]
    ELSE [card |-> c, sw |-> "6985"]

\* The file the card has selected: the current EF, else the current DF.
Selected(c) == IF c.ef # NoFile THEN c.ef ELSE c.df

-----------------------------------------------------------------------------
(* The transport.  sc_transmit_apdu either returns the card's answer, or   *)
(* fails (r < 0) with the request lost before the card saw it, or with the *)
(* card having executed it and its answer lost.                            *)

Transmit(st, res) ==
    {[st |-> [st EXCEPT !.card = res.card], ok |-> TRUE, sw |-> res.sw]}
    \cup
    (IF st.faults < MaxFaults
     THEN {[st |-> [st EXCEPT !.faults = @ + 1], ok |-> FALSE, sw |-> "none"],
           [st |-> [st EXCEPT !.card = res.card, !.faults = @ + 1],
            ok |-> FALSE, sw |-> "none"]}
     ELSE {})

\* iso7816_check_sw for the status words this card model produces.
CheckSw(sw) ==
    CASE sw = "6A82" -> "FILE_NOT_FOUND"
      [] sw = "6985" -> "NOT_ALLOWED"
      [] OTHER       -> "CARD_CMD_FAILED"

Fail(st, rc) == [st |-> st, rc |-> rc, file |-> NoFile]

-----------------------------------------------------------------------------
(* The driver.  st is [card, valid, cache, faults, steps, misclassified]:  *)
(* the state a handler threads through its APDUs; steps counts calls of    *)
(* select_fid and misclassified records a wrong DF/EF guess (history).     *)

\* Mutants: the 3F00 prefix dropped; the MF case of line 325 forgotten.
FidCachePathNoMF(fid) == [type |-> "path", value |-> <<fid>>]
FidCachePathAlways(fid) == [type |-> "path", value |-> <<MFID, fid>>]

\* The cache value select_fid stores for a DF: 3F00, or 3F00 hi lo.
FidCachePath(fid) ==
    [type |-> "path", value |-> IF fid = MFID THEN MF ELSE <<MFID, fid>>]

\* Lines 317-362: status check, cache update on a DF, the descriptor.
FidDone(st, fid, want, sw, isDF) ==
    IF sw # "9000" THEN Fail(st, CheckSw(sw))
    ELSE [st   |-> [st EXCEPT
                     !.cache = IF isDF THEN FidCachePath(fid) ELSE @,
                     !.misclassified =
                         @ \/ (isDF # (Selected(st.card) \in Dirs))],
          rc   |-> "OK",
          file |-> IF want THEN [type |-> IF isDF THEN "DF" ELSE "EF",
                                 id   |-> fid]
                   ELSE NoFile]

\* Lines 312-314: the probe's answer 6986 ("no current EF") means a DF.
\* Mutant: a DF is recognised by 6982 instead.
ProbeSaysDFWrongSw(sw) == sw = "6982"
ProbeSaysDF(sw) == sw = "6986"

\* starcos_select_fid: SELECT with FCI asked for when a descriptor is
\* wanted; 6284 means a DF and the SELECT is re-issued without FCI;
\* otherwise a successful SELECT is followed by a READ BINARY probe whose
\* 6986 means a DF.
SelectFid(st0, fid, want) ==
    LET st == [st0 EXCEPT !.steps = @ + 1]
        p2 == IF want THEN "00" ELSE "0C"
    IN UNION {
         IF ~d1.ok THEN {Fail(d1.st, "TRANSMIT")}
         ELSE IF p2 = "00" /\ d1.sw = "6284"
         THEN {IF d2.ok THEN FidDone(d2.st, fid, want, d2.sw, TRUE)
               ELSE Fail(d2.st, "TRANSMIT")
               : d2 \in Transmit(d1.st, CardSelect(d1.st.card, fid, "0C"))}
         ELSE IF d1.sw = "9000"
         THEN {IF d2.ok THEN FidDone(d2.st, fid, want, d1.sw, ProbeSaysDF(d2.sw))
               ELSE Fail(d2.st, "TRANSMIT")
               : d2 \in Transmit(d1.st, CardReadBinary(d1.st.card))}
         ELSE {FidDone(d1.st, fid, want, d1.sw, FALSE)}
       : d1 \in Transmit(st, CardSelect(st.card, fid, p2)) }

\* starcos_select_aid, with the AID cache check of starcos_select_file.
SelectAid(st, aid, want) ==
    IF st.valid /\ st.cache = [type |-> "aid", value |-> <<aid>>]
    THEN {[st |-> st, rc |-> "OK", file |-> NoFile]}
    ELSE {IF ~d.ok THEN Fail(d.st, "TRANSMIT")
          ELSE IF d.sw # "9000" THEN Fail(d.st, CheckSw(d.sw))
          ELSE [st   |-> [d.st EXCEPT
                             !.cache = [type |-> "aid", value |-> <<aid>>]],
                rc   |-> "OK",
                file |-> IF want THEN [type |-> "DF", id |-> aid] ELSE NoFile]
          : d \in Transmit(st, CardSelectAid(st.card, aid))}

\* Lines 429-433: a path is 1 to 3 FIDs, a 3-FID path starts at the MF.
PathWellFormed(p) ==
    /\ Len(p) \in 1..3
    /\ Len(p) = 3 => p[1] = MFID

\* Lines 436-444: prepend 3F00 unless the path starts with it.
Normalize(p) == IF p[1] = MFID THEN p ELSE <<MFID>> \o p

\* Mutant: a cache as long as the path is not used (< for <=, line 450).
CacheMatchStrict(st, np) ==
    IF /\ st.valid /\ st.cache.type = "path"
       /\ Len(st.cache.value) >= 1 /\ Len(st.cache.value) < Len(np)
    THEN Cardinality({i \in 1..Len(st.cache.value) : st.cache.value[i] = np[i]})
    ELSE -1

\* Lines 447-457: the number of positions at which cache and path agree.
CacheMatch(st, np) ==
    IF /\ st.valid /\ st.cache.type = "path"
       /\ Len(st.cache.value) >= 1 /\ Len(st.cache.value) <= Len(np)
    THEN Cardinality({i \in 1..Len(st.cache.value) : st.cache.value[i] = np[i]})
    ELSE -1

\* Lines 507-512: the loop over the FIDs of np from index i on.
RECURSIVE ColdPath(_, _, _, _)
ColdPath(st, np, i, want) ==
    IF i = Len(np) THEN SelectFid(st, np[i], want)
    ELSE UNION {IF r.rc # "OK" THEN {r} ELSE ColdPath(r.st, np, i + 1, want)
                : r \in SelectFid(st, np[i], FALSE)}

\* The SC_PATH_TYPE_PATH branch of starcos_select_file (lines 418-514).
RECURSIVE SelectPath(_, _, _)
SelectPath(st, p, want) ==
    IF ~PathWellFormed(p) THEN {Fail(st, "INVALID_ARGS")}
    ELSE LET np     == Normalize(p)
             bMatch == CacheMatch(st, np)
         IN CASE bMatch < 0 -> ColdPath(st, np, 1, want)
              [] Len(np) - bMatch = 1 -> SelectFid(st, np[bMatch + 1], want)
              [] Len(np) - bMatch > 1 ->
                   UNION {IF r.rc # "OK" THEN {r}
                          ELSE SelectPath(r.st, SubSeq(np, bMatch + 2, Len(np)), want)
                          : r \in SelectFid(st, np[bMatch + 1], FALSE)}
              [] OTHER ->
                   {[st |-> st, rc |-> "OK",
                     file |-> IF want THEN [type |-> "DF", id |-> Last(np)]
                              ELSE NoFile]}

-----------------------------------------------------------------------------
(* Actions: one per entry point.                                           *)

\* The handler's view of the state when a call starts.
St == [card |-> card, valid |-> cacheValid, cache |-> cache,
       faults |-> faults, steps |-> 0, misclassified |-> FALSE]

\* Take outcome r of a call op(req); last keeps what the properties need.
Apply(r, op, req, want) ==
    /\ card' = r.st.card
    /\ cacheValid' = r.st.valid
    /\ cache' = r.st.cache
    /\ faults' = r.st.faults
    /\ last' = [op |-> op, req |-> req, want |-> want, rc |-> r.rc,
                file |-> r.file, steps |-> r.st.steps,
                misclassified |-> r.st.misclassified,
                cache0 |-> cache, valid0 |-> cacheValid, mf0 |-> card.mf,
                faulted |-> r.st.faults > faults]

\* starcos_select_file with an SC_PATH_TYPE_FILE_ID path (lines 396-402).
SelectByFid(p, want) ==
    /\ "select" \in Operations
    /\ IF Len(p) # 1
       THEN Apply(Fail(St, "INVALID_ARGS"), "fid", p, want)
       ELSE \E r \in SelectFid(St, p[1], want) : Apply(r, "fid", p, want)

\* starcos_select_file with an SC_PATH_TYPE_DF_NAME path (lines 403-417).
SelectByAid(aid, want) ==
    /\ "select" \in Operations
    /\ \E r \in SelectAid(St, aid, want) : Apply(r, "aid", <<aid>>, want)

\* starcos_select_file with an SC_PATH_TYPE_PATH path (lines 418-514).
SelectByPath(p, want) ==
    /\ "select" \in Operations
    /\ \E r \in SelectPath(St, p, want) :
         Apply(r, "path", IF PathWellFormed(p) THEN Normalize(p) ELSE p, want)

\* starcos_logout: SELECT MF without FCI; 6985 (no MF) counts as success.
\* The cache is left as it is.
Logout ==
    /\ "logout" \in Operations
    /\ \E d \in Transmit(St, CardSelect(card, MFID, "0C")) :
         Apply(IF ~d.ok THEN Fail(d.st, "TRANSMIT")
               ELSE IF d.sw \in {"9000", "6985"} THEN Fail(d.st, "OK")
               ELSE Fail(d.st, CheckSw(d.sw)), "logout", <<>>, FALSE)

\* starcos_erase_card: DELETE MF; after an answer the cache is invalid;
\* 6985 (no MF) counts as success.
EraseCard ==
    /\ "erase" \in Operations
    /\ \E d \in Transmit(St, CardErase(card)) :
         Apply(IF ~d.ok THEN Fail(d.st, "TRANSMIT")
               ELSE Fail([d.st EXCEPT !.valid = FALSE],
                         IF d.sw \in {"9000", "6985"} THEN "OK"
                         ELSE CheckSw(d.sw)), "erase", <<>>, FALSE)

\* The framework (card.c) ends a session by clearing the cache, another
\* application may then select any file, and the next session starts
\* with a valid, empty cache.
NewSession ==
    /\ \E f \in IF card.mf THEN Files ELSE {NoFile} :
         card' = IF f = NoFile THEN card
                 ELSE IF f \in Dirs THEN [card EXCEPT !.df = f, !.ef = NoFile]
                 ELSE [card EXCEPT !.df = Front(f), !.ef = f]
    /\ cacheValid' = TRUE
    /\ cache' = NoCache
    /\ last' = [last EXCEPT !.op = "session"]
    /\ UNCHANGED faults

Init ==
    /\ card = [mf |-> TRUE, df |-> MF, ef |-> NoFile]
    /\ cacheValid = TRUE
    /\ cache = NoCache
    /\ faults = 0
    /\ last = [op |-> "none", req |-> <<>>, want |-> FALSE, rc |-> "OK",
               file |-> NoFile, steps |-> 0, misclassified |-> FALSE,
               cache0 |-> NoCache, valid0 |-> TRUE, mf0 |-> TRUE,
               faulted |-> FALSE]

Next ==
    \/ \E p \in Requests, w \in BOOLEAN : SelectByFid(p, w)
    \/ \E a \in AIDs, w \in BOOLEAN : SelectByAid(a, w)
    \/ \E p \in Requests, w \in BOOLEAN : SelectByPath(p, w)
    \/ Logout
    \/ EraseCard
    \/ NewSession

Spec == Init /\ [][Next]_vars

-----------------------------------------------------------------------------
(* Properties.                                                             *)

CachePaths == {MF} \cup {<<MFID, f>> : f \in FIDs}

TypeOK ==
    /\ card \in [mf : BOOLEAN, df : Dirs \cup {<<>>}, ef : EFs \cup {NoFile}]
    /\ cacheValid \in BOOLEAN
    /\ cache \in {NoCache} \cup [type : {"path"}, value : CachePaths]
                 \cup [type : {"aid"}, value : {<<a>> : a \in AIDs}]
    /\ faults \in 0..MaxFaults

\* The cache invariant the selector relies on (spec section 3): while the
\* cache is valid it names the card's current DF, by path or by AID.  It is
\* about select_fid/select_aid's cache updates, erase_card's invalidation,
\* and every step that moves the card (logout, lost answers) without them.
CacheCoherent ==
    cacheValid =>
      /\ cache.type = "path" => card.mf /\ cache.value = card.df
      /\ cache.type = "aid"  => card.mf /\ AIDOf[card.df] = cache.value[1]

\* The DF/EF heuristic of select_fid (6284 to SELECT with FCI, 6986 to
\* the READ BINARY probe) classifies every selected file as the card has it.
FidClassificationSound == ~last.misclassified

\* A path select of an existing file that finds the cache on a prefix of
\* the path sends SELECTs only for the FIDs below the cached DF (spec
\* section 8): the bMatch computation and the recursion of select_file.
SelectsOnlyBelowCachedPrefix ==
    (/\ last.op = "path" /\ last.rc = "OK" /\ last.valid0
     /\ last.req \in Files
     /\ last.cache0.type = "path" /\ IsPrefix(last.cache0.value, last.req))
    => last.steps = Len(last.req) - Len(last.cache0.value)

\* A select by path of a file that exists, on a card with an MF and with no
\* transport failure during the call, succeeds and leaves exactly that file
\* selected on the card: the contract of starcos_select_file.
ExistingPathSelected ==
    (last.op = "path" /\ last.req \in Files /\ last.mf0 /\ ~last.faulted)
    => /\ last.rc = "OK"
       /\ last.req \in Dirs => card.df = last.req
       /\ last.req \in EFs  => card.ef = last.req

\* A select by path succeeds only for a file that exists on the card:
\* select_file's cache hit and its loops must not report a path that the
\* card does not have.
PathSuccessMeansExists ==
    (last.op = "path" /\ last.rc = "OK") => last.req \in Files

\* A successful select that was given a file_out returns a descriptor: the
\* callers of sc_select_file dereference *file_out after success.
SelectReturnsDescriptor ==
    (last.op \in {"fid", "aid", "path"} /\ last.want /\ last.rc = "OK")
    => last.file # NoFile

====
