------------------------- MODULE MCStorageAccounting -------------------------
(* Small instances of StorageAccounting.                                   *)
EXTENDS StorageAccounting, TLC

CONSTANTS h1, h2, h3, u, p1, p2, p3, r1, r2, sub

\* One publication in each of two bound processes and one unlimited process.
OnePerProcess == [p \in Publishers |-> IF p = p1 THEN h1 ELSE IF p = p2 THEN h2 ELSE u]

\* r1 is published in the root, r2 in a directory of its own.
SubdirOf == [r \in Routes |-> IF r = r1 THEN Root ELSE sub]

OneSize == {<<2, 1>>}

\* Two processes agree on limits with room for both routes, not for every
\* leftover; the third asks for others.
RivalLimits == [h \in Bound |-> [bytes |-> IF h = h3 THEN 10 ELSE 8, entries |-> 12]]
=============================================================================
