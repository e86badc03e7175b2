-------------------------- MODULE MCStarcosKeyWrite --------------------------
(* One KID, two keys, and key lengths at the chunk boundaries: one byte,   *)
(* exactly one chunk, one chunk and a byte, and two chunks and a byte.     *)
EXTENDS StarcosKeyWrite

CONSTANTS K, V1, V2

MCKIDs     == {K}
MCVersions == {V1, V2}
MCKeyLens  == {0, 1, 124, 125, 249}

\* Cards answering GET CARD DATA with a serial, with 9000 and no data, and
\* with a warning (6282, end of data reached) that still carries data.
MCCardDataAnswers == {[sw |-> "9000", data |-> <<1, 2>>],
                      [sw |-> "9000", data |-> <<>>],
                      [sw |-> "6282", data |-> <<3>>]}
====
