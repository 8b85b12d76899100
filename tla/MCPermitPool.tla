---------------------------- MODULE MCPermitPool ----------------------------
(* Small instances of PermitPool.                                          *)
EXTENDS PermitPool

\* Everything a caller can ask of acquire: nothing, more than there is left,
\* and an amount that overflows the counter.
EveryAmount == 0..MaxWord
=============================================================================
