---------------------------- MODULE MCStaticWork ----------------------------
(* Small instances of StaticWork.                                          *)
EXTENDS StaticWork, TLC

CONSTANTS c1, c2, c3, k1, k2

\* c1 asks for an entry under another spelling than the stored one, which c2
\* uses: they share one of two keys.
AliasEntry == [c \in Callers |-> IF c = c2 THEN k2 ELSE k1]
AliasPublished == [c \in Callers |-> k2]

\* Every caller asks for the same entry.
SameEntry == [c \in Callers |-> k1]
AllCallers == Permutations(Callers)
=============================================================================
