--------------------------- MODULE MCStarcosSecEnv ---------------------------
(* Two keys: K1 may be used with COMPUTE SIGNATURE, K2 only with INTERNAL  *)
(* AUTHENTICATE, so both the DST path and the fallback after a refused     *)
(* MSE are taken.                                                          *)
EXTENDS StarcosSecEnv

CONSTANTS K1, K2

MCKeys    == {K1, K2}
MCSigKeys == {K1}

\* Hash flags with one lost request or answer: one per path through the
\* two functions.  SHA1, RIPEMD160 and MD5 select the three COMPUTE
\* SIGNATURE references; no hash flag goes to INTERNAL AUTHENTICATE with
\* HASH_NONE (the flag NONE takes the same path, and MD5_SHA1 takes the
\* path of any hash with INTERNAL AUTHENTICATE).
MCHashes  == {"SHA1", "RIPEMD160", "MD5", "NOHASH"}
====
