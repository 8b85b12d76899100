---------------------------- MODULE MCPublication ----------------------------
(* Small instances of Publication.                                         *)
EXTENDS Publication

CONSTANTS w1, w2

\* The two publications have the same body and different metadata; the
\* legacy and the deployed files have bodies of their own.
RepeatedBody == [f \in Htmls |-> IF f \in {w1, w2} THEN "a" ELSE
                                                 IF f = Legacy THEN "l" ELSE "b"]
=============================================================================
