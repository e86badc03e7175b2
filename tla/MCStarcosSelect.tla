--------------------------- MODULE MCStarcosSelect ---------------------------
(* A card with DFs A (answers SELECT with FCI) and B (answers 6284), an EF *)
(* E both below the MF and below A, and one DF with an AID.                *)
EXTENDS StarcosSelect

CONSTANTS M, A, B, E, Aid1, Aid2

MCFIDs       == {M, A, B, E}
MCDFs        == {<<M, A>>, <<M, B>>}
MCEFs        == {<<M, E>>, <<M, A, E>>}
MCDFsWithFCI == {<<M, A>>}
MCAIDs       == {Aid1, Aid2}
MCAIDOf      == [d \in {<<M>>} \cup MCDFs |-> IF d = <<M, A>> THEN Aid1 ELSE NoAID]

\* Every path of up to 3 FIDs with 3F00 at most in front (ISO 7816-4
\* reserves it for the MF), and one too long (4 FIDs = 8 bytes > 6).
MCRequests   == {p \in BoundedSeq(MCFIDs, 3) :
                    \A i \in 2..Len(p) : p[i] # M} \cup {<<M, A, E, E>>}

\* Entry points of the runs: without logout, and with every entry point.
OpsNoLogout  == {"select", "erase"}
OpsAll       == {"select", "erase", "logout"}
====
